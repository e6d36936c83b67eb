----------------------------- MODULE ExecuteUnary -----------------------------
(***************************************************************************)
(* One Execute call of the daemon (execute of src/src/server.rs) with the  *)
(* allow_hook it may have to run: the handler is composed with AllowHook,  *)
(* whose own steps it takes while it awaits run_allow_hook.  The command,  *)
(* a descendant of it, the hook and the client are external.               *)
(*                                                                         *)
(* The request and its answer are one message each, so the whole of stdin  *)
(* is written before the first byte of output is read, and all of the      *)
(* output is read before anything is answered.                             *)
(***************************************************************************)
EXTENDS Integers, FiniteSets, Sequences, Gate

Stream == {"stdout", "stderr"}
Outcome == {"executed", "denied", "cancelled", "userReply", "error"}

CONSTANTS
    ReqId,       \* the requests a client may make
    ReqInfo,     \* what the daemon knows about each of them, see Ask
    MaxOut,      \* bound: packets the command writes to each stream
    PipeCap,     \* packets or chunks that fit into a pipe
    ExitCode,    \* the exit codes of the command
    Fault,       \* "spawn", "wait", "read", "stdin": a call of the operating
                 \* system fails; "fork": the command leaves a descendant;
                 \* "leave": the client goes away
    Payload,     \* chunks of the hook's request
    MaxSaid,     \* bound: pieces the hook writes
    HookFault    \* what may go wrong around the hook, see AllowHook

Ask ==
    [registered : BOOLEAN, effect : Effect \union {"invalid"}, intentRequired : BOOLEAN,
     intent : BOOLEAN, hook : BOOLEAN,
     stdin : Nat]   \* chunks of stdin_utf8

ASSUME UnaryReqAssumption == ReqInfo \in [ReqId -> Ask]
ASSUME UnaryBoundsAssumption == MaxOut \in Nat /\ PipeCap \in Nat \ {0}
ASSUME UnaryCodeAssumption == ExitCode \subseteq Nat
ASSUME UnaryHookAssumption ==
    /\ Payload \in Nat \ {0} /\ MaxSaid \in Nat
    /\ HookFault \subseteq {"spawn", "write", "wait", "read", "fork"}

Killed == -1   \* status.code().unwrap_or(-1) of a child that a signal ended
Codes == ExitCode \union {Killed}

VARIABLES
    call,      \* where execute is
    req,       \* its request
    left,      \* chunks of stdin that are still to be written
    reply,     \* the ExecuteResponse
    child,     \* the command
    code,      \* its exit status
    heir,      \* a descendant shares its pipes
    writer,    \* the streams whose pipe some process holds the write end of
    wrote,     \* packets written to each stream
    taken,     \* packets read from it
    bad,       \* the streams with a packet that is not valid UTF-8
    stdinR,    \* some process holds the read end of the command's stdin
    stdinBuf,  \* chunks in that pipe
    hookPc, answer, hookLeft, hookReader, hookBuf, hookExpired,
    hookProc, hookOk, hookKilling, hookHeir,
    hookStdinR, hookStdinBuf, hookOutW, hookOut, hookSaid

Hook == INSTANCE AllowHook WITH
    Fault <- HookFault, pc <- hookPc, result <- answer, left <- hookLeft,
    reader <- hookReader, buf <- hookBuf, expired <- hookExpired,
    hook <- hookProc, ok <- hookOk, killing <- hookKilling, heir <- hookHeir,
    stdinR <- hookStdinR, stdinBuf <- hookStdinBuf,
    outW <- hookOutW, out <- hookOut, said <- hookSaid

callVars == <<call, req, left, reply>>
procVars == <<child, code, heir, writer, wrote, bad, stdinR, stdinBuf>>
hookVars == <<hookPc, answer, hookLeft, hookReader, hookBuf, hookExpired,
              hookProc, hookOk, hookKilling, hookHeir,
              hookStdinR, hookStdinBuf, hookOutW, hookOut, hookSaid>>
vars == <<callVars, taken, procVars, hookVars>>

None == [outcome |-> "none"]
NoOutput == [s \in Stream |-> 0]

\* resp and the message with it; out says how much of each stream it carries.
Response(o, c, out, msg) == [outcome |-> o, code |-> c, out |-> out, message |-> msg]
Message == {"none", "gate", "spawn", "stdin", "output", "text"}
ExecuteResponse ==
    [outcome : Outcome, code : Codes, out : [Stream -> Nat], message : Message]

TypeOK ==
    /\ call \in {"start", "ask", "write", "wait", "end", "dropped"}
    /\ req \in ReqId /\ left \in 0..ReqInfo[req].stdin
    /\ reply \in ExecuteResponse \union {None}
    /\ child \in {"none", "running", "zombie", "reaped"} /\ code \in Codes
    /\ heir \in BOOLEAN /\ writer \in SUBSET Stream
    /\ wrote \in [Stream -> Nat] /\ taken \in [Stream -> Nat] /\ bad \in SUBSET Stream
    /\ stdinR \in BOOLEAN /\ stdinBuf \in 0..PipeCap
    /\ answer \in Hook!HookDecision \union {"none"}

Init ==
    /\ call = "start" /\ req \in ReqId /\ left = ReqInfo[req].stdin
    /\ reply = None
    /\ child = "none" /\ code = Killed /\ heir = FALSE
    /\ writer = {} /\ wrote = NoOutput /\ taken = NoOutput /\ bad = {}
    /\ stdinR = FALSE /\ stdinBuf = 0
    /\ Hook!Init

-----------------------------------------------------------------------------
(* The handler.                                                            *)

Answer(o, c, out, msg) == reply' = Response(o, c, out, msg) /\ call' = "end"
Fail(c, msg) == Answer("error", c, NoOutput, msg)
Refuse(o) == Answer(o, Killed, NoOutput, "gate")

\* cmd.spawn(); with an empty stdin_utf8 there is nothing to write.
Launch ==
    \/ /\ call' = IF left > 0 THEN "write" ELSE "wait"
       /\ child' = "running" /\ writer' = Stream /\ stdinR' = TRUE
       /\ UNCHANGED reply
    \/ /\ "spawn" \in Fault
       /\ Fail(Killed, "spawn")
       /\ UNCHANGED <<child, writer, stdinR>>

launchFrame == <<req, left, taken, code, heir, wrote, bad, stdinBuf, hookVars>>

\* The registry and the policy settle it, or the hook is to be asked.
Begin ==
    /\ call = "start"
    /\ LET r == ReqInfo[req]
           g == IF r.registered THEN Gate(r) ELSE "denied"
       IN  \/ g = "allow" /\ Launch
           \/ /\ g = "ask" /\ call' = "ask"
              /\ UNCHANGED <<reply, child, writer, stdinR>>
           \/ /\ g \in Outcome /\ Refuse(g)
              /\ UNCHANGED <<child, writer, stdinR>>
    /\ UNCHANGED launchFrame

\* run_allow_hook goes on as long as execute awaits it.
AskHook ==
    /\ call = "ask" /\ Hook!Call
    /\ UNCHANGED <<callVars, taken, procVars>>

AskFails ==
    /\ call = "ask" /\ Hook!CallFails
    /\ UNCHANGED <<callVars, taken, procVars>>

\* What a hook that does not say yes makes of the call.
Declined ==
    {<<"no", "denied">>, <<"cancel", "cancelled">>, <<"userReply", "userReply">>}

\* Mutant: a hook that was cancelled is taken for one that agreed.
HookAnswersLoosely ==
    /\ call = "ask"
    /\ \/ answer \in {"yes", "cancel"} /\ Launch
       \/ /\ \E o \in Outcome \ {"cancelled"} : <<answer, o>> \in Declined /\ Refuse(o)
          /\ UNCHANGED <<child, writer, stdinR>>
    /\ UNCHANGED launchFrame

\* run_allow_hook has returned.
HookAnswers ==
    /\ call = "ask"
    /\ \/ answer = "yes" /\ Launch
       \/ /\ \E o \in Outcome : <<answer, o>> \in Declined /\ Refuse(o)
          /\ UNCHANGED <<child, writer, stdinR>>
    /\ UNCHANGED launchFrame

\* A chunk of stdin.write_all; behind the last one stdin is dropped.
WriteStdin ==
    /\ call = "write" /\ stdinR /\ stdinBuf < PipeCap
    /\ stdinBuf' = stdinBuf + 1 /\ left' = left - 1
    /\ call' = IF left = 1 THEN "wait" ELSE "write"
    /\ UNCHANGED <<req, reply, taken, child, code, heir, writer, wrote, bad,
                   stdinR, hookVars>>

\* Mutant: a write that fails is tried again.
WriteBreaksRetries == call = "write" /\ ~stdinR /\ UNCHANGED vars

\* write_all is an error: the command is left to itself.
AbandonStdin ==
    /\ Fail(Killed, "stdin")
    /\ UNCHANGED <<req, left, taken, procVars, hookVars>>

\* Nobody can read any more, or the write fails of itself.
WriteBreaks == call = "write" /\ ~stdinR /\ AbandonStdin
WriteFails == call = "write" /\ "stdin" \in Fault /\ AbandonStdin

\* wait_with_output: it reads both pipes and waits for the command at once.
TakeOutput(s) ==
    /\ call = "wait" /\ taken[s] < wrote[s]
    /\ taken' = [taken EXCEPT ![s] = wrote[s]]
    /\ UNCHANGED <<callVars, procVars, hookVars>>

ReapCommand ==
    /\ call = "wait" /\ child = "zombie"
    /\ child' = "reaped"
    /\ UNCHANGED <<callVars, taken, code, heir, writer, wrote, bad, stdinR, stdinBuf, hookVars>>

\* One of the three fails: the other two are given up.
OutputFails ==
    /\ call = "wait" /\ Fault \intersect {"wait", "read"} # {}
    /\ Fail(Killed, "output")
    /\ UNCHANGED <<req, left, taken, procVars, hookVars>>

\* Mutant: a descendant that keeps the pipes is not waited for.
OutputReturnsEarly ==
    /\ call = "wait" /\ child = "reaped"
    /\ IF bad = {} THEN Answer("executed", code, taken, "none") ELSE Fail(code, "text")
    /\ UNCHANGED <<req, left, taken, procVars, hookVars>>

\* Mutant: the end of the output is taken for the end of the command.
OutputReturnsUnreaped ==
    /\ call = "wait"
    /\ writer = {} /\ taken = wrote
    /\ IF bad = {} THEN Answer("executed", code, taken, "none") ELSE Fail(code, "text")
    /\ UNCHANGED <<req, left, taken, procVars, hookVars>>

\* Mutant: stderr is converted with losses.
OutputReturnsLossy ==
    /\ call = "wait" /\ child = "reaped"
    /\ writer = {} /\ taken = wrote
    /\ IF "stdout" \notin bad
       THEN Answer("executed", code, taken, "none") ELSE Fail(code, "text")
    /\ UNCHANGED <<req, left, taken, procVars, hookVars>>

\* All of them are done; redact_utf8 of stdout and of stderr.
OutputReturns ==
    /\ call = "wait" /\ child = "reaped"
    /\ writer = {} /\ taken = wrote
    /\ IF bad = {} THEN Answer("executed", code, taken, "none") ELSE Fail(code, "text")
    /\ UNCHANGED <<req, left, taken, procVars, hookVars>>

Handler ==
    \/ Begin \/ AskHook \/ HookAnswers
    \/ WriteStdin \/ WriteBreaks
    \/ \E s \in Stream : TakeOutput(s)
    \/ ReapCommand \/ OutputReturns

\* What may happen instead, and need not.
HandlerFails == AskFails \/ WriteFails \/ OutputFails

\* The client goes away: tonic drops execute in whatever await it is.
Drop ==
    /\ "leave" \in Fault /\ call \in {"ask", "write", "wait"}
    /\ call' = "dropped"
    /\ UNCHANGED <<req, left, reply, taken, procVars, hookVars>>

\* The reader task of run_allow_hook, its timer, and the hook itself.
HookSteps ==
    /\ Hook!Reader \/ Hook!ReaderFails \/ (call = "ask" /\ Hook!TimerExpires) \/ Hook!Processes
    /\ UNCHANGED <<callVars, taken, procVars>>

-----------------------------------------------------------------------------
(* The command and its descendant (external).                              *)

SomeProcess == child = "running" \/ heir
procFrame == <<callVars, taken, hookVars>>

\* Writing is an error for the writer alone once nobody can read.
ProcWrites(s) ==
    /\ SomeProcess /\ s \in writer /\ call \in {"write", "wait"}
    /\ wrote[s] < MaxOut /\ wrote[s] - taken[s] < PipeCap
    /\ wrote' = [wrote EXCEPT ![s] = @ + 1]
    /\ bad' \in {bad, bad \union {s}}
    /\ UNCHANGED <<child, code, heir, writer, stdinR, stdinBuf, procFrame>>

ProcCloses(s) ==
    /\ SomeProcess /\ s \in writer
    /\ writer' = writer \ {s}
    /\ UNCHANGED <<child, code, heir, wrote, bad, stdinR, stdinBuf, procFrame>>

ProcReadsStdin ==
    /\ SomeProcess /\ stdinR /\ stdinBuf > 0
    /\ stdinBuf' = stdinBuf - 1
    /\ UNCHANGED <<child, code, heir, writer, wrote, bad, stdinR, procFrame>>

ProcClosesStdin ==
    /\ SomeProcess /\ stdinR
    /\ stdinR' = FALSE /\ stdinBuf' = 0
    /\ UNCHANGED <<child, code, heir, writer, wrote, bad, procFrame>>

ProcForks ==
    /\ child = "running" /\ ~heir /\ "fork" \in Fault
    /\ heir' = TRUE
    /\ UNCHANGED <<child, code, writer, wrote, bad, stdinR, stdinBuf, procFrame>>

\* The last process that shares the pipes closes them by ending.
ClosePipes(last) ==
    IF last THEN writer' = {} /\ stdinR' = FALSE /\ stdinBuf' = 0
            ELSE UNCHANGED <<writer, stdinR, stdinBuf>>

ChildEnds(c) ==
    /\ child = "running"
    /\ child' = "zombie" /\ code' = c
    /\ ClosePipes(~heir)
    /\ UNCHANGED <<heir, wrote, bad, procFrame>>

HeirEnds ==
    /\ heir /\ heir' = FALSE
    /\ ClosePipes(child # "running")
    /\ UNCHANGED <<child, code, wrote, bad, procFrame>>

Processes ==
    \/ \E s \in Stream : ProcWrites(s) \/ ProcCloses(s)
    \/ ProcReadsStdin \/ ProcClosesStdin \/ ProcForks
    \/ \E c \in Codes : ChildEnds(c)
    \/ HeirEnds

-----------------------------------------------------------------------------
Terminated ==
    /\ call \in {"end", "dropped"} /\ ~SomeProcess /\ ~Hook!SomeProcess
    /\ hookReader # "reading"
    /\ UNCHANGED vars

Next == Handler \/ HandlerFails \/ Drop \/ HookSteps \/ Processes \/ Terminated

Spec == Init /\ [][Next]_vars

(***************************************************************************)
(* Fairness: tokio polls the handler and the hook's reader, the timer      *)
(* expires, SIGKILL ends the hook.  Nobody else owes anything, and no call *)
(* of the operating system has to fail.                                    *)
(***************************************************************************)
FairSpec ==
    /\ Spec
    /\ WF_vars(Handler)
    /\ WF_vars(HookSteps /\ Hook!Reader)
    /\ WF_vars(HookSteps /\ Hook!TimerExpires)
    /\ WF_vars(HookSteps /\ Hook!HookDies)

-----------------------------------------------------------------------------
(***************************************************************************)
(* End to end through registry, gate and hook: a command is spawned only   *)
(* if its id is registered and the policy allows it, or if a hook that     *)
(* ended by itself and with success said yes in its complete output, and   *)
(* had the intent the rule requires (server.rs:153-191, 792-850,           *)
(* hook.rs:83-108).                                                        *)
(***************************************************************************)
RunsOnlyIfApproved ==
    child # "none" =>
        /\ ReqInfo[req].registered
        /\ \/ Gate(ReqInfo[req]) = "allow"
           \/ /\ Gate(ReqInfo[req]) = "ask"
              /\ hookProc = "reaped" /\ hookOk /\ ~hookKilling /\ ~hookOutW
              /\ hookBuf = hookSaid /\ Hook!Parse(hookSaid) = "yes"

(***************************************************************************)
(* "executed" carries all that the command and its descendants wrote to    *)
(* both streams, all of it text, with the command's own status, and the    *)
(* command had all of its stdin (server.rs:248-337).                       *)
(***************************************************************************)
ExecutedIsComplete ==
    reply.outcome = "executed" =>
        /\ child = "reaped" /\ reply.code = code /\ writer = {}
        /\ reply.out = wrote /\ bad = {} /\ left = 0

(***************************************************************************)
(* An answer leaves its command unreaped only if it says that stdin could  *)
(* not be written or that waiting failed: the caller of any other answer   *)
(* may rely on the command being over (server.rs:223-270).                 *)
(***************************************************************************)
LeftOnlyByBrokenPipes ==
    (call = "end" /\ child \in {"running", "zombie"}) =>
        reply.outcome = "error" /\ reply.message \in {"stdin", "output"}

(***************************************************************************)
(* If from some time on no command, no hook and no descendant of either is *)
(* left, the call is answered or was dropped, whichever await it was in    *)
(* (server.rs:174-337, hook.rs:52-109).                                    *)
(***************************************************************************)
NobodyLeft == ~SomeProcess /\ ~Hook!SomeProcess

AnswersAfterAll == <>[]NobodyLeft => <>(call \in {"end", "dropped"})

-----------------------------------------------------------------------------
(* The inductive invariant (proved in ExecuteUnaryProofs).                 *)

\* What each place of the handler knows of the request and the command.
HandlerInPlace ==
    /\ call \in {"start", "ask"} => child = "none"
    /\ call = "ask" => ReqInfo[req].registered /\ Gate(ReqInfo[req]) = "ask"
    /\ call = "write" => child \in {"running", "zombie"} /\ left > 0
    /\ call = "wait" => child \in {"running", "zombie", "reaped"} /\ left = 0
    /\ reply = None <=> call # "end"

\* What was written is in the pipes or has been read.
OutputInPlace ==
    /\ \A s \in Stream : taken[s] <= wrote[s]
    /\ child = "none" => writer = {} /\ ~heir

ApprovedOrAsked ==
    child # "none" =>
        /\ ReqInfo[req].registered
        /\ \/ Gate(ReqInfo[req]) = "allow"
           \/ Gate(ReqInfo[req]) = "ask" /\ answer = "yes"

IInv ==
    /\ TypeOK /\ Hook!IInv
    /\ HandlerInPlace /\ OutputInPlace /\ ApprovedOrAsked
    /\ ExecutedIsComplete /\ LeftOnlyByBrokenPipes
=============================================================================
