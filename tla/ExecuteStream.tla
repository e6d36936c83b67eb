---------------------------- MODULE ExecuteStream ----------------------------
(***************************************************************************)
(* One ExecuteStream call of the daemon (src/src/server.rs): the handler   *)
(* task handle_execute_stream, the two pump_output_stream tasks it spawns, *)
(* the packet queue they share (StreamQueue), and what surrounds them: the *)
(* child process and a descendant that may outlive it, the client and the  *)
(* transport, the allow_hook.                                              *)
(*                                                                         *)
(* Output is counted in packets.  A packet is the bytes that reach the     *)
(* client as one event; it is written to a pipe, taken by the pump,        *)
(* flushed (until then it is held back as an incomplete character or as    *)
(* the possible beginning of a secret) and sent, in this order, so four    *)
(* counters per stream say where every packet is.                          *)
(***************************************************************************)
EXTENDS Integers, StreamQueue, Gate

Stream == {"stdout", "stderr"}
Other(s) == IF s = "stdout" THEN "stderr" ELSE "stdout"
Outcome == {"executed", "denied", "cancelled", "userReply", "error"}
HookAnswer == {"yes", "no", "cancel", "userReply"}

CONSTANTS
    ReqId,       \* the start messages a client may send
    NoReq,       \* none of them
    ReqInfo,     \* what the daemon knows about each of them, see Start
    MaxOut,      \* bound: packets the command writes to each stream
    MaxMsgs,     \* bound: messages the client sends
    PipeCap,     \* packets or chunks that fit into a pipe
    ExitCode,    \* the exit codes of the command
    Fault        \* what may go wrong around the daemon: a call of the operating
                 \* system fails ("spawn", "wait", "stdin", "read"), the command
                 \* leaves a descendant ("fork"), the client goes away ("leave")

Start ==
    [registered : BOOLEAN,  \* commands.get(&cmd_id) is Some
     effect : Effect \union {"invalid"}, intentRequired : BOOLEAN,
     intent : BOOLEAN, hook : BOOLEAN]   \* what the gate looks at, see Gate

ASSUME ReqAssumption == ReqInfo \in [ReqId -> Start] /\ NoReq \notin ReqId
ASSUME BoundsAssumption ==
    MaxOut \in [Stream -> Nat] /\ MaxMsgs \in Nat /\ PipeCap \in Nat \ {0}
\* Every packet needs one permit, however large the budget is.
ASSUME PacketAssumption == Permit # {}
ASSUME CodeAssumption == ExitCode \subseteq Nat
ASSUME FaultAssumption ==
    Fault \subseteq {"spawn", "wait", "stdin", "read", "fork", "leave"}

Killed == -1   \* status.code().unwrap_or(-1) of a child that a signal ended
Codes == ExitCode \union {Killed}

\* The events of the call, which are what its tasks put on the packet queue.
Done(o, c) == [kind |-> "done", outcome |-> o, code |-> c]
Packet(s, k) == [kind |-> s, num |-> k]
DoneEvent == [kind : {"done"}, outcome : Outcome, code : Codes]
PacketEvent == UNION {[kind : {s}, num : 1..MaxOut[s]] : s \in Stream}

\* The messages of the client; "none" has an empty payload.
Message == [kind : {"start"}, req : ReqId] \union [kind : {"chunk", "eof", "none"}]

ASSUME EventAssumption == Item = DoneEvent \union PacketEvent
ASSUME SenderAssumption == Sender = Stream \union {"handler"}

VARIABLES
    accepted,   \* history: every event the queue ever accepted, in order
    inbox,      \* messages of the client the handler has not read
    inEnd,      \* how the request stream ends behind them
    gone,       \* the client has reset the call or lost its connection
    msgs,       \* messages the client has sent
    hpc,        \* where the handler task is
    req,        \* the start message it works on
    answer,     \* what the allow_hook answered
    task,       \* the pumps whose JoinHandle the handler still holds
    blame,      \* the pump whose failure the handler is cleaning up after
    verdict,    \* the ExecuteDone the handler has decided on
    audit,      \* the audit record
    pump,       \* where each pump task is
    abort,      \* the pumps on which JoinHandle::abort was called
    wrote, taken, flushed, sent,   \* packets of each stream, see above
    bad,        \* bad[s]: the first packet that is not valid UTF-8, or 0
    child,      \* the child process
    code,       \* its exit status
    killing,    \* SIGKILL has been sent to it
    heir,       \* a descendant shares the pipes and may outlive the child
    writer,     \* the streams whose pipe some process holds the write end of
    stdinW,     \* the handler holds the write end of the child's stdin
    stdinR,     \* some process holds its read end
    stdinBuf    \* chunks in that pipe

eventVars == <<queueVars, accepted>>
clientVars == <<inbox, inEnd, gone, msgs>>
handlerVars == <<hpc, req, answer, task, blame, verdict, audit>>
pumpVars == <<pump, abort, taken, flushed, sent>>
outVars == <<wrote, bad, writer>>
procVars == <<child, code, killing, heir>>
stdinVars == <<stdinW, stdinR, stdinBuf>>
vars == <<eventVars, clientVars, handlerVars, pumpVars, outVars, procVars, stdinVars>>

NoVerdict == [kind |-> "none"]
AuditRecord == [done : DoneEvent, decision : BOOLEAN]
Over == {"ok", "failed", "aborted"}   \* what a pump task can end as

HandlerTypeOK ==
    /\ hpc \in {"recv", "hook", "select", "write", "kill", "join", "done", "end"}
    /\ req \in ReqId \union {NoReq}
    /\ answer \in HookAnswer \union {"none"}
    /\ task \in SUBSET Stream
    /\ blame \in Stream \union {"none"}
    /\ verdict \in DoneEvent \union {NoVerdict}
    /\ audit \in AuditRecord \union {NoVerdict}

PumpTypeOK ==
    /\ pump \in [Stream -> {"off", "read", "send", "last"} \union Over]
    /\ abort \in SUBSET Stream
    /\ taken \in [Stream -> Nat] /\ flushed \in [Stream -> Nat] /\ sent \in [Stream -> Nat]

ClientTypeOK ==
    /\ inbox \in Seq(Message)
    /\ inEnd \in {"open", "end", "error"}
    /\ gone \in BOOLEAN
    /\ msgs \in 0..MaxMsgs

OutTypeOK ==
    /\ wrote \in [Stream -> Nat] /\ bad \in [Stream -> Nat]
    /\ writer \in SUBSET Stream

ProcTypeOK ==
    /\ child \in {"none", "running", "zombie", "reaped"}
    /\ code \in Codes
    /\ killing \in BOOLEAN /\ heir \in BOOLEAN

StdinTypeOK ==
    /\ stdinW \in BOOLEAN /\ stdinR \in BOOLEAN
    /\ stdinBuf \in 0..PipeCap

TypeOK ==
    /\ QueueTypeOK /\ accepted \in Seq(Item)
    /\ HandlerTypeOK /\ PumpTypeOK /\ ClientTypeOK
    /\ OutTypeOK /\ ProcTypeOK /\ StdinTypeOK

Init ==
    /\ QueueInit
    /\ accepted = <<>>
    /\ inbox = <<>> /\ inEnd = "open" /\ gone = FALSE /\ msgs = 0
    /\ hpc = "recv" /\ req = NoReq /\ answer = "none"
    /\ task = {} /\ blame = "none"
    /\ verdict = NoVerdict /\ audit = NoVerdict
    /\ pump = [s \in Stream |-> "off"] /\ abort = {}
    /\ wrote = [s \in Stream |-> 0] /\ taken = [s \in Stream |-> 0]
    /\ flushed = [s \in Stream |-> 0] /\ sent = [s \in Stream |-> 0]
    /\ bad = [s \in Stream |-> 0] /\ writer = {}
    /\ child = "none" /\ code = Killed /\ killing = FALSE /\ heir = FALSE
    /\ stdinW = FALSE /\ stdinR = FALSE /\ stdinBuf = 0

-----------------------------------------------------------------------------
\* A Decision was made that lets the command run.
Approved == req \in ReqId /\ (Gate(ReqInfo[req]) = "allow" \/ answer = "yes")

-----------------------------------------------------------------------------
(* The handler task.                                                       *)

\* The handler decides on the outcome and enters send_done.
Conclude(o, c) ==
    /\ verdict' = Done(o, c)
    /\ hpc' = "done"
    /\ SendUnbounded("handler", Done(o, c))
    /\ UNCHANGED accepted

\* cmd.spawn(), and the two tokio::spawn of the pumps.
Launch ==
    \/ /\ hpc' = "select"
       /\ child' = "running"
       /\ pump' = [s \in Stream |-> "read"]
       /\ task' = Stream
       /\ writer' = Stream
       /\ stdinW' = TRUE /\ stdinR' = TRUE
       /\ UNCHANGED <<eventVars, verdict>>
    \/ /\ "spawn" \in Fault
       /\ Conclude("error", Killed)
       /\ UNCHANGED <<child, pump, task, writer, stdinW, stdinR>>

launchFrame == <<blame, audit, abort, taken, flushed, sent, wrote, bad,
                 code, killing, heir, stdinBuf>>

\* The first message is missing, broken, or no start message.
RejectFirst ==
    /\ hpc = "recv"
    /\ \/ inbox = <<>> /\ inEnd # "open" /\ UNCHANGED inbox
       \/ inbox # <<>> /\ Head(inbox).kind # "start" /\ inbox' = Tail(inbox)
    /\ Conclude("error", Killed)
    /\ UNCHANGED <<inEnd, gone, msgs, req, answer, task, blame, audit,
                   pumpVars, outVars, procVars, stdinVars>>

\* A start message: the registry and the policy settle it, or the hook is run.
ReceiveStart ==
    /\ hpc = "recv"
    /\ inbox # <<>> /\ Head(inbox).kind = "start"
    /\ inbox' = Tail(inbox)
    /\ req' = Head(inbox).req
    /\ LET r == ReqInfo[Head(inbox).req]
           g == IF r.registered THEN Gate(r) ELSE "denied"
       IN  \/ g = "allow" /\ Launch
           \/ /\ g = "ask"
              /\ hpc' = "hook"
              /\ UNCHANGED <<eventVars, verdict, child, pump, task, writer, stdinW, stdinR>>
           \/ /\ g \in Outcome
              /\ Conclude(g, Killed)
              /\ UNCHANGED <<child, pump, task, writer, stdinW, stdinR>>
    /\ UNCHANGED <<inEnd, gone, msgs, answer, launchFrame>>

\* What a hook that does not say yes makes of the call.
Declined ==
    {<<"no", "denied">>, <<"cancel", "cancelled">>, <<"userReply", "userReply">>}

\* Mutant: a cancelled question is taken for a yes.
HookReturnsUnlessNo(a) ==
    /\ hpc = "hook"
    /\ answer' = a
    /\ \/ a \in {"yes", "cancel"} /\ Launch
       \/ /\ a \in {"no", "userReply"}
          /\ \E o \in Outcome : <<a, o>> \in Declined /\ Conclude(o, Killed)
          /\ UNCHANGED <<child, pump, task, writer, stdinW, stdinR>>
    /\ UNCHANGED <<clientVars, req, launchFrame>>

\* run_allow_hook returns (see AllowHook for what happens inside).
HookReturns(a) ==
    /\ hpc = "hook"
    /\ answer' = a
    /\ \/ a = "yes" /\ Launch
       \/ /\ a # "yes"
          /\ \E o \in Outcome : <<a, o>> \in Declined /\ Conclude(o, Killed)
          /\ UNCHANGED <<child, pump, task, writer, stdinW, stdinR>>
    /\ UNCHANGED <<clientVars, req, launchFrame>>

\* child.wait() yields the exit status: leave the loop.
WaitReturns ==
    /\ hpc = "select" /\ child = "zombie"
    /\ child' = "reaped"
    /\ hpc' = "join"
    /\ UNCHANGED <<eventVars, clientVars, req, answer, task, blame, verdict, audit,
                   pumpVars, outVars, code, killing, heir, stdinVars>>

\* child.wait() fails: the handler gives up and leaves the child alone.
WaitFails ==
    /\ hpc = "select" /\ "wait" \in Fault
    /\ Conclude("error", Killed)
    /\ UNCHANGED <<clientVars, req, answer, task, blame, audit,
                   pumpVars, outVars, procVars, stdinVars>>

\* Mutant: every pump that ends is taken for one that ended well.
PumpJoinedAnyhow(s) ==
    /\ hpc = "select" /\ s \in task /\ pump[s] \in Over
    /\ task' = task \ {s}
    /\ UNCHANGED <<eventVars, clientVars, hpc, req, answer, blame, verdict, audit,
                   pumpVars, outVars, procVars, stdinVars>>

\* A pump task has finished well: forget its handle.
PumpJoined(s) ==
    /\ hpc = "select" /\ s \in task /\ pump[s] = "ok"
    /\ task' = task \ {s}
    /\ UNCHANGED <<eventVars, clientVars, hpc, req, answer, blame, verdict, audit,
                   pumpVars, outVars, procVars, stdinVars>>

\* Mutant: child.wait() alone.
KillForgotten(by) ==
    /\ blame' = by
    /\ hpc' = "kill"
    /\ UNCHANGED <<eventVars, req, answer, task, verdict, audit,
                   pumpVars, outVars, procVars>>

\* child.kill(), which then waits for the child; by says who is to blame.
Kill(by) ==
    /\ killing' = TRUE
    /\ blame' = by
    /\ hpc' = "kill"
    /\ UNCHANGED <<eventVars, req, answer, task, verdict, audit,
                   pumpVars, outVars, child, code, heir>>

PumpBroken(s) ==
    /\ hpc = "select" /\ s \in task /\ pump[s] = "failed"
    /\ Kill(s)
    /\ UNCHANGED <<clientVars, stdinVars>>

\* inbound.message() is polled only while the handler holds the child's stdin.
Inbound ==
    /\ hpc = "select" /\ stdinW
    /\ \/ /\ inbox # <<>>
          /\ inbox' = Tail(inbox)
          /\ \/ /\ Head(inbox).kind = "chunk"
                /\ hpc' = "write"
                /\ UNCHANGED <<eventVars, req, answer, task, blame, verdict, audit,
                               pumpVars, outVars, procVars, stdinW>>
             \/ /\ Head(inbox).kind \in {"eof", "none"}
                /\ stdinW' = (Head(inbox).kind = "none")
                /\ UNCHANGED <<eventVars, handlerVars, pumpVars, outVars, procVars>>
             \/ Head(inbox).kind = "start" /\ Kill("none") /\ UNCHANGED stdinW
       \/ /\ inbox = <<>>
          /\ UNCHANGED inbox
          /\ \/ /\ inEnd = "end"
                /\ stdinW' = FALSE
                /\ UNCHANGED <<eventVars, handlerVars, pumpVars, outVars, procVars>>
             \/ inEnd = "error" /\ Kill("none") /\ UNCHANGED stdinW
    /\ UNCHANGED <<inEnd, gone, msgs, stdinR, stdinBuf>>

\* Mutant: a pipe without a reader is waited for as if it were full.
WriteStdinPatient ==
    /\ hpc = "write"
    /\ stdinR /\ stdinBuf < PipeCap
    /\ stdinBuf' = stdinBuf + 1
    /\ hpc' = "select"
    /\ UNCHANGED <<eventVars, clientVars, req, answer, task, blame, verdict, audit,
                   pumpVars, outVars, procVars, stdinW, stdinR>>

\* stdin.write_all() completes, breaks, or fails; nothing else is polled before.
WriteStdin ==
    /\ hpc = "write"
    /\ \/ /\ stdinR /\ stdinBuf < PipeCap
          /\ stdinBuf' = stdinBuf + 1
          /\ hpc' = "select"
          /\ UNCHANGED <<eventVars, req, answer, task, blame, verdict, audit,
                         pumpVars, outVars, procVars, stdinW>>
       \/ /\ ~stdinR
          /\ stdinW' = FALSE
          /\ hpc' = "select"
          /\ UNCHANGED <<eventVars, req, answer, task, blame, verdict, audit,
                         pumpVars, outVars, procVars, stdinBuf>>
       \/ "stdin" \in Fault /\ Kill("none") /\ UNCHANGED <<stdinW, stdinBuf>>
    /\ UNCHANGED <<clientVars, stdinR>>

\* Mutant: start_kill() without wait().
KillReturnsAtOnce ==
    /\ hpc = "kill"
    /\ abort' = {s \in task : blame = Other(s)}
    /\ Conclude("error", Killed)
    /\ UNCHANGED <<clientVars, req, answer, task, blame, audit, pump, taken, flushed,
                   sent, outVars, procVars, stdinVars>>

\* The killed child is reaped, or waiting for it fails, which is ignored.  A
\* broken pump takes the other one with it.
KillReturns ==
    /\ hpc = "kill"
    /\ \/ child = "zombie" /\ child' = "reaped"
       \/ "wait" \in Fault /\ UNCHANGED child
    /\ abort' = {s \in task : blame = Other(s)}
    /\ Conclude("error", Killed)
    /\ UNCHANGED <<clientVars, req, answer, task, blame, audit, pump, taken, flushed,
                   sent, outVars, code, killing, heir, stdinVars>>

\* Mutant: the pumps are not awaited after the child.
JoinReturnsEarly ==
    /\ hpc = "join"
    /\ \/ (\A s \in task : pump[s] # "failed") /\ Conclude("executed", code)
       \/ (\E s \in task : pump[s] = "failed") /\ Conclude("error", code)
    /\ UNCHANGED <<clientVars, req, answer, task, blame, audit,
                   pumpVars, outVars, procVars, stdinVars>>

\* The child is gone: wait for the pumps to drain the pipes.
JoinReturns ==
    /\ hpc = "join"
    /\ \A s \in task : pump[s] \in Over
    /\ \/ (\A s \in task : pump[s] = "ok") /\ Conclude("executed", code)
       \/ (\E s \in task : pump[s] # "ok") /\ Conclude("error", code)
    /\ UNCHANGED <<clientVars, req, answer, task, blame, audit,
                   pumpVars, outVars, procVars, stdinVars>>

\* Mutant: send_done does not wait for room on the packet queue.
DoneReturnsUnsent ==
    /\ hpc = "done"
    /\ \E i \in DOMAIN slotWait :
        /\ slotWait[i].from = "handler"
        /\ \/ Push(i) /\ accepted' = Append(accepted, slotWait[i].item)
           \/ (~rxOpen \/ Len(queue) = Capacity) /\ DropSend(i) /\ UNCHANGED accepted
    /\ audit' = [done |-> verdict, decision |-> Approved]
    /\ hpc' = "end"
    /\ stdinW' = FALSE
    /\ UNCHANGED <<clientVars, req, answer, task, blame, verdict,
                   pumpVars, outVars, procVars, stdinR, stdinBuf>>

\* send_done returns, whether it could send or not; audit_log, and return.
DoneReturns ==
    /\ hpc = "done"
    /\ \E i \in DOMAIN slotWait :
        /\ slotWait[i].from = "handler"
        /\ \/ /\ Push(i)
              /\ accepted' = Append(accepted, slotWait[i].item)
           \/ FailSend(i) /\ UNCHANGED accepted
    /\ audit' = [done |-> verdict, decision |-> Approved]
    /\ hpc' = "end"
    /\ stdinW' = FALSE
    /\ UNCHANGED <<clientVars, req, answer, task, blame, verdict,
                   pumpVars, outVars, procVars, stdinR, stdinBuf>>

Handler ==
    \/ RejectFirst \/ ReceiveStart
    \/ WaitReturns \/ WaitFails
    \/ \E s \in Stream : PumpJoined(s) \/ PumpBroken(s)
    \/ Inbound \/ WriteStdin
    \/ KillReturns \/ JoinReturns \/ DoneReturns

-----------------------------------------------------------------------------
(* The pump task of stream s.                                              *)

pumpFrame == <<clientVars, handlerVars, abort, outVars, procVars, stdinVars>>

\* The packets that are whole text, of the first n.
Whole(s, n) == IF bad[s] \in 1..n THEN bad[s] - 1 ELSE n

\* flush_pending_text has something to send, or not.
FlushTo(s, f) ==
    /\ flushed' = [flushed EXCEPT ![s] = f]
    /\ pump' = [pump EXCEPT ![s] = IF f > flushed[s] THEN "send" ELSE "read"]

\* reader.read() returns k packets.  What cannot be text fails the pump; the
\* last of them may be an incomplete character; any tail may be held back.
PumpReads(s, k) ==
    LET n == taken[s] + k IN
    /\ pump[s] = "read"
    /\ k <= wrote[s] - taken[s]
    /\ taken' = [taken EXCEPT ![s] = n]
    /\ \/ /\ bad[s] \notin 1..n \/ bad[s] = n
          /\ \E f \in flushed[s]..Whole(s, n) : FlushTo(s, f)
       \/ /\ bad[s] \in 1..n
          /\ pump' = [pump EXCEPT ![s] = "failed"]
          /\ UNCHANGED flushed
    /\ UNCHANGED <<eventVars, sent, pumpFrame>>

PumpReadFails(s) ==
    /\ pump[s] = "read" /\ "read" \in Fault
    /\ pump' = [pump EXCEPT ![s] = "failed"]
    /\ UNCHANGED <<eventVars, taken, flushed, sent, pumpFrame>>

\* hold_deadline passes: what is held as a possible secret is let go.
HoldExpires(s) ==
    /\ pump[s] = "read"
    /\ \E f \in flushed[s] + 1 .. Whole(s, taken[s]) : FlushTo(s, f)
    /\ UNCHANGED <<eventVars, taken, sent, pumpFrame>>

\* Mutant: what is left at the end is flushed whether it is text or not.
PumpEofLossy(s) ==
    /\ pump[s] = "read"
    /\ s \notin writer /\ taken[s] = wrote[s]
    /\ flushed' = [flushed EXCEPT ![s] = taken[s]]
    /\ pump' = [pump EXCEPT ![s] = IF sent[s] = taken[s] THEN "ok" ELSE "last"]
    /\ UNCHANGED <<eventVars, taken, sent, pumpFrame>>

\* read() returns 0: flush what is left, unless a character is incomplete.
PumpEof(s) ==
    /\ pump[s] = "read"
    /\ s \notin writer /\ taken[s] = wrote[s]
    /\ IF bad[s] \in 1..taken[s]
       THEN pump' = [pump EXCEPT ![s] = "failed"] /\ UNCHANGED flushed
       ELSE /\ flushed' = [flushed EXCEPT ![s] = taken[s]]
            /\ pump' = [pump EXCEPT ![s] = IF sent[s] = taken[s] THEN "ok" ELSE "last"]
    /\ UNCHANGED <<eventVars, taken, sent, pumpFrame>>

\* Mutant: the offset into the text is not moved on after a chunk.
PumpSendsAgain(s) ==
    /\ pump[s] \in {"send", "last"}
    /\ ~InSend(s)
    /\ SendMetered(s, Packet(s, 1), 1)
    /\ UNCHANGED <<accepted, pump, taken, flushed, sent, pumpFrame>>

\* send_text_events calls send_metered for its next chunk.
PumpSends(s) ==
    /\ pump[s] \in {"send", "last"}
    /\ ~InSend(s)
    /\ SendMetered(s, Packet(s, sent[s] + 1), 1)
    /\ UNCHANGED <<accepted, pump, taken, flushed, sent, pumpFrame>>

\* That send returns.
PumpSendReturns(s) ==
    /\ \E i \in DOMAIN slotWait :
        /\ slotWait[i].from = s
        /\ \/ /\ Push(i)
              /\ accepted' = Append(accepted, slotWait[i].item)
              /\ sent' = [sent EXCEPT ![s] = @ + 1]
              /\ pump' = [pump EXCEPT ![s] =
                            IF sent[s] + 1 < flushed[s] THEN @
                            ELSE IF @ = "send" THEN "read" ELSE "ok"]
           \/ /\ FailSend(i)
              /\ pump' = [pump EXCEPT ![s] = "failed"]
              /\ UNCHANGED <<accepted, sent>>
    /\ UNCHANGED <<taken, flushed, pumpFrame>>

\* The runtime gets round to cancelling an aborted task.
PumpAborted(s) ==
    /\ s \in abort /\ pump[s] \in {"read", "send", "last"}
    /\ AbortSend(s)
    /\ pump' = [pump EXCEPT ![s] = "aborted"]
    /\ UNCHANGED <<accepted, taken, flushed, sent, pumpFrame>>

Pump(s) ==
    \/ \E k \in 1..PipeCap : PumpReads(s, k)
    \/ PumpReadFails(s) \/ HoldExpires(s) \/ PumpEof(s)
    \/ PumpSends(s) \/ PumpSendReturns(s) \/ PumpAborted(s)

-----------------------------------------------------------------------------
(* The queue and the transport behind it (tonic).                          *)

queueFrame == <<accepted, clientVars, handlerVars, pumpVars, outVars, procVars, stdinVars>>

Grant == \E S \in SUBSET free : GrantBudget(S) /\ UNCHANGED queueFrame

Take == Pop /\ UNCHANGED queueFrame

\* The transport notices that the client is gone and drops the response.
DropResponse == gone /\ CloseRx /\ UNCHANGED queueFrame

-----------------------------------------------------------------------------
(* The client.                                                             *)

clientFrame == <<eventVars, handlerVars, pumpVars, outVars, procVars, stdinVars>>

ClientSends ==
    /\ inEnd = "open" /\ msgs < MaxMsgs
    /\ \E m \in Message : inbox' = Append(inbox, m)
    /\ msgs' = msgs + 1
    /\ UNCHANGED <<inEnd, gone, clientFrame>>

ClientEnds ==
    /\ inEnd = "open"
    /\ inEnd' = "end"
    /\ UNCHANGED <<inbox, gone, msgs, clientFrame>>

\* A reset or a lost connection; unread messages may be lost with it.
ClientLeaves ==
    /\ ~gone /\ "leave" \in Fault
    /\ gone' = TRUE
    /\ inEnd' \in {"error"} \union (IF inEnd = "open" THEN {} ELSE {inEnd})
    /\ inbox' \in {inbox, <<>>}
    /\ UNCHANGED <<msgs, clientFrame>>

Client == ClientSends \/ ClientEnds \/ ClientLeaves

-----------------------------------------------------------------------------
(* The command, its descendant, and the operating system (external).       *)

procFrame == <<eventVars, clientVars, handlerVars, pumpVars>>

SomeProcess == child = "running" \/ heir

\* A write to a pipe whose reader is gone is an error for the writer only.
ProcWrites(s) ==
    /\ SomeProcess /\ s \in writer
    /\ pump[s] \notin Over
    /\ wrote[s] < MaxOut[s] /\ wrote[s] - taken[s] < PipeCap
    /\ wrote' = [wrote EXCEPT ![s] = @ + 1]
    /\ \/ UNCHANGED bad
       \/ bad[s] = 0 /\ bad' = [bad EXCEPT ![s] = wrote[s] + 1]
    /\ UNCHANGED <<writer, procVars, stdinVars, procFrame>>

ProcCloses(s) ==
    /\ SomeProcess /\ s \in writer
    /\ writer' = writer \ {s}
    /\ UNCHANGED <<wrote, bad, procVars, stdinVars, procFrame>>

ProcReadsStdin ==
    /\ SomeProcess /\ stdinR /\ stdinBuf > 0
    /\ stdinBuf' = stdinBuf - 1
    /\ UNCHANGED <<outVars, procVars, stdinW, stdinR, procFrame>>

ProcClosesStdin ==
    /\ SomeProcess /\ stdinR
    /\ stdinR' = FALSE /\ stdinBuf' = 0
    /\ UNCHANGED <<outVars, procVars, stdinW, procFrame>>

ProcForks ==
    /\ child = "running" /\ ~heir /\ "fork" \in Fault
    /\ heir' = TRUE
    /\ UNCHANGED <<outVars, child, code, killing, stdinVars, procFrame>>

\* The last process that shares the pipes closes them by ending.
ClosePipes(last) ==
    IF last
    THEN /\ writer' = {}
         /\ stdinR' = FALSE /\ stdinBuf' = 0
         /\ UNCHANGED <<wrote, bad, stdinW>>
    ELSE UNCHANGED <<outVars, stdinVars>>

\* The child ends by itself, by a signal, or because the handler killed it.
ChildEnds(c) ==
    /\ child = "running"
    /\ child' = "zombie" /\ code' = c
    /\ ClosePipes(~heir)
    /\ UNCHANGED <<killing, heir, procFrame>>

ChildDies == killing /\ ChildEnds(Killed)

HeirEnds ==
    /\ heir
    /\ heir' = FALSE
    /\ ClosePipes(child # "running")
    /\ UNCHANGED <<child, code, killing, procFrame>>

Processes ==
    \/ \E s \in Stream : ProcWrites(s) \/ ProcCloses(s)
    \/ ProcReadsStdin \/ ProcClosesStdin \/ ProcForks
    \/ \E c \in Codes : ChildEnds(c)
    \/ HeirEnds

-----------------------------------------------------------------------------
\* Nothing is left of the call, or the client never spoke.
Terminated ==
    /\ hpc = "end" /\ queue = <<>>
    /\ \A s \in Stream : pump[s] \in Over \union {"off"}
    /\ ~SomeProcess
    /\ UNCHANGED vars

Next ==
    \/ Handler
    \/ \E a \in HookAnswer : HookReturns(a)
    \/ \E s \in Stream : Pump(s)
    \/ Grant \/ Take \/ DropResponse
    \/ Client
    \/ Processes
    \/ Terminated

Spec == Init /\ [][Next]_vars

(***************************************************************************)
(* Fairness: what the runtime, the operating system and a client that      *)
(* reads its events owe the call.  Tokio polls a task that is woken, and   *)
(* its semaphores hand on what is released; SIGKILL ends its process.  The *)
(* command, its descendant, the hook and the client's messages owe it      *)
(* nothing.  select! picks among its ready branches at random and only     *)
(* finitely many messages can delay the others, so weak fairness of the    *)
(* handler as a whole is enough.                                           *)
(***************************************************************************)
FairSpec ==
    /\ Spec
    /\ WF_vars(Handler)
    /\ \A s \in Stream : WF_vars(Pump(s)) /\ WF_vars(PumpAborted(s))
    /\ WF_vars(Grant) /\ WF_vars(Take) /\ WF_vars(DropResponse)
    /\ WF_vars(ChildDies)

-----------------------------------------------------------------------------
(***************************************************************************)
(* A command is spawned only for a registered id, and only if the policy   *)
(* allows it or the allow_hook, asked with the intent the rule requires,   *)
(* answered yes -- in whatever order messages, resets and the answer of    *)
(* the hook arrive (server.rs:414-469, 792-850).                           *)
(***************************************************************************)
RunsOnlyIfApproved ==
    child # "none" =>
        /\ req \in ReqId
        /\ LET r == ReqInfo[req] IN
            /\ r.registered
            /\ \/ r.effect \in {"allow", "audit"}
               \/ /\ r.effect = "ask"
                  /\ r.hook /\ (r.intentRequired => r.intent)
                  /\ answer = "yes"

(***************************************************************************)
(* "executed" is decided on only for a child that ended by itself, was     *)
(* reaped and whose own status is reported, when both pipes have reached   *)
(* their end and every packet written to them is on the packet queue and   *)
(* was valid text (server.rs:547-551, 739-779, 935-953).                   *)
(***************************************************************************)
ExecutedIsComplete ==
    (verdict # NoVerdict /\ verdict.outcome = "executed") =>
        /\ child = "reaped" /\ ~killing /\ verdict.code = code
        /\ \A s \in Stream :
            s \notin writer /\ pump[s] = "ok" /\ sent[s] = wrote[s] /\ bad[s] = 0

(***************************************************************************)
(* Fail closed: whatever is held back, flushed by the timer, cut by reads  *)
(* or left at the end, no packet that is not valid UTF-8 and none behind   *)
(* it is ever flushed to the client (server.rs:902-937, 956-982).          *)
(***************************************************************************)
OnlyTextIsFlushed == \A s \in Stream : bad[s] > 0 => flushed[s] < bad[s]

(***************************************************************************)
(* Whatever ends the call, its command has been reaped before the outcome  *)
(* is decided on, unless waiting for it is what failed (server.rs:553-567, *)
(* 576-577, 623-624, 674-675, 696-697, 718-719).                           *)
(***************************************************************************)
NoCommandLeft ==
    verdict # NoVerdict => child \in {"none", "reaped"} \/ "wait" \in Fault

(***************************************************************************)
(* The audit record says what the client was told, if it could be told,    *)
(* and names a decision whenever a command was run (server.rs:758-789 and  *)
(* every other pair of send_done and audit_log).                           *)
(***************************************************************************)
AuditMatches ==
    audit # NoVerdict =>
        /\ rxOpen => Contains(accepted, audit.done)
        /\ \A i \in DOMAIN accepted : accepted[i].kind = "done" => accepted[i] = audit.done
        /\ child # "none" => audit.decision

(***************************************************************************)
(* The call implements Session: one outcome at most, alone when the call   *)
(* was refused, last when it is "executed", after all of the output, which *)
(* comes in order.                                                         *)
(***************************************************************************)
Phase ==
    IF verdict = NoVerdict
    THEN IF child = "none" THEN "open" ELSE "running"
    ELSE IF child = "none" THEN "refused"
    ELSE IF verdict.outcome = "executed" THEN "executed" ELSE "failed"

Abstract == INSTANCE Session WITH
    Refusal <- Outcome \ {"executed"}, Code <- Codes, NoResult <- NoVerdict,
    Result <- Done, Packet <- Packet,
    phase <- Phase, made <- wrote, count <- sent, told <- accepted, result <- verdict

ImplementsSession == Abstract!Spec

(***************************************************************************)
(* Once the command and whatever shares its pipes have ended, the call is  *)
(* concluded and audited, and its event stream comes to its end: neither   *)
(* full queues, a full stdin pipe, aborted pumps nor a vanished client can *)
(* hold it for ever (server.rs:547-789, 865-954).                          *)
(***************************************************************************)
StreamOver == queue = <<>> /\ \A s \in Stream : pump[s] \in Over

EndsAfterCommand ==
    (child \in {"zombie", "reaped"} /\ ~heir) ~> (audit # NoVerdict /\ StreamOver)

(***************************************************************************)
(* A call whose handler is cleaning up after a failure gets to its outcome *)
(* even if the command would never end by itself (server.rs:575-593, etc). *)
(***************************************************************************)
FailureEnds == hpc = "kill" ~> audit # NoVerdict

(***************************************************************************)
(* What the test non_utf8_output_fails_fast_instead_of_hanging says of the *)
(* program: output that is not UTF-8 ends the call, whatever the command   *)
(* goes on to do.  It does not hold: see the README.                       *)
(***************************************************************************)
BadOutputFailsFast ==
    \A s \in Stream : (hpc \in {"select", "write"} /\ pump[s] = "failed") ~> audit # NoVerdict

-----------------------------------------------------------------------------
(***************************************************************************)
(* The inductive invariant behind these properties (proved in              *)
(* RoundTripProofs).                                                       *)
(***************************************************************************)

\* Whoever waits in a send is at the await that called it.
Sending(w) ==
    \/ w.from = "handler" /\ hpc = "done" /\ w.item = verdict
    \/ /\ w.from \in Stream
       /\ pump[w.from] \in {"send", "last"} /\ sent[w.from] < flushed[w.from]
       /\ w.item = Packet(w.from, sent[w.from] + 1)

SendersWait ==
    /\ \A i \in DOMAIN budgetWait : Sending(budgetWait[i]) /\ budgetWait[i].from \in Stream
    /\ \A i \in DOMAIN slotWait : Sending(slotWait[i])

\* Where the packets of s are, and what the place of its pump says of them.
PacketsInPlace(s) ==
    /\ sent[s] <= flushed[s] /\ flushed[s] <= taken[s] /\ taken[s] <= wrote[s]
    /\ wrote[s] <= MaxOut[s] /\ bad[s] <= wrote[s]
    /\ bad[s] > 0 => flushed[s] < bad[s]
    /\ pump[s] \in {"off", "read", "ok"} => sent[s] = flushed[s]
    /\ pump[s] \in {"send", "last"} => sent[s] < flushed[s]
    /\ pump[s] \in {"last", "ok"} => s \notin writer /\ flushed[s] = wrote[s]
    /\ pump[s] = "off" <=> child = "none"
    /\ child = "none" => s \notin writer

\* Where the handler is, and what it knows there of the child and the pumps.
HandlerInPlace ==
    /\ verdict = NoVerdict <=> hpc \notin {"done", "end"}
    /\ audit = NoVerdict <=> hpc # "end"
    /\ hpc \in {"recv", "hook"} => child = "none"
    /\ hpc \in {"select", "write", "kill"} => child \in {"running", "zombie"}
    /\ hpc = "join" => child = "reaped"
    /\ hpc \in {"recv", "hook", "select", "write", "join"} => ~killing
    /\ child = "none" => ~heir
    /\ \A s \in Stream : s \notin task /\ child # "none" => pump[s] = "ok"

GateInPlace ==
    /\ hpc = "hook" => req \in ReqId /\ ReqInfo[req].registered /\ Gate(ReqInfo[req]) = "ask"
    /\ child # "none" =>
        req \in ReqId /\ ReqInfo[req].registered
            /\ \/ Gate(ReqInfo[req]) = "allow"
               \/ Gate(ReqInfo[req]) = "ask" /\ answer = "yes"

\* The queue accepts an outcome only at the end, the verdict, and the record
\* says so.
EventsInPlace ==
    /\ \A i \in DOMAIN accepted :
        accepted[i].kind = "done" => hpc = "end" /\ accepted[i] = verdict
    /\ hpc = "end" =>
        /\ audit.done = verdict
        /\ rxOpen => Contains(accepted, verdict)
        /\ child # "none" => audit.decision

\* Each stream's packets were accepted in order and none was left out, and
\* nothing comes after "executed".
EventsInOrder ==
    /\ \A i, j \in DOMAIN accepted :
        i < j /\ accepted[i].kind = accepted[j].kind =>
            accepted[i].kind \in Stream /\ accepted[i].num < accepted[j].num
    /\ \A s \in Stream :
        /\ \A i \in DOMAIN accepted : accepted[i].kind = s => accepted[i].num <= sent[s]
        /\ \A k \in 1..sent[s] : \E i \in DOMAIN accepted : accepted[i] = Packet(s, k)
    /\ \A i \in DOMAIN accepted :
        accepted[i].kind = "done" /\ accepted[i].outcome = "executed" => i = Len(accepted)

IInv ==
    /\ TypeOK
    /\ OneSend
    /\ SendersWait
    /\ \A s \in Stream : PacketsInPlace(s)
    /\ HandlerInPlace
    /\ GateInPlace
    /\ NoCommandLeft
    /\ ExecutedIsComplete
    /\ EventsInPlace
    /\ EventsInOrder
=============================================================================
