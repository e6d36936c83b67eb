------------------------------ MODULE RoundTrip ------------------------------
(***************************************************************************)
(* A call from end to end: execute_stream of src/src/client.rs, as the     *)
(* shim (standard input live) and as `client exec` (standard input given)  *)
(* use it, the transport, and the daemon's side of the call, which is      *)
(* ExecuteStream with all that it does there.  The client's packet queue   *)
(* is the same StreamQueue once more.                                      *)
(*                                                                         *)
(* Standard input is counted in chunks.  The command is any command that   *)
(* ends some day, or an echo: one that writes a packet for each chunk      *)
(* before it reads the next, and ends with its standard input.             *)
(***************************************************************************)
EXTENDS ExecuteStream

CONSTANTS
    UpPermit,    \* the permits of the client's byte budget
    UpCapacity,  \* the slots of its packet queue
    Window,      \* messages, and events, that the transport has under way
    AnyStdin,    \* bound: chunks of standard input for any command,
    AnyOut,      \* bound: packets it writes to a stream,
    EchoStdin,   \* and how many chunks there may be for an echo
    AnyFaults,   \* bound: the sets of things that may go wrong in one call,
    EchoFaults   \* "link", the connection, and "stdin", the reading of standard
                 \* input; the same in a call of an echo

ASSUME UpAssumption == UpPermit # {} /\ IsFiniteSet(UpPermit) /\ UpCapacity \in Nat \ {0}
ASSUME CallAssumption ==
    /\ Window \in Nat \ {0} /\ AnyStdin \in Nat /\ AnyOut \in Nat
    /\ \A n \in EchoStdin : n \in Nat /\ n <= MaxOut["stdout"]
    /\ AnyFaults \union EchoFaults \subseteq SUBSET {"link", "stdin"}
\* The daemon has to expect what comes up: all of standard input with a start
\* and an end, and a caller that drops its call; and an echo exits with 0.
ASSUME CallerAssumption ==
    /\ \A n \in {AnyStdin} \union EchoStdin : n + 2 <= MaxMsgs
    /\ "leave" \in Fault /\ 0 \in ExitCode

VARIABLES
    mode,    \* "live" or "bytes": StdinSource
    echo,    \* the command is an echo,
    eaten,   \* which has read so many chunks
    total,   \* chunks that standard input will have brought when it ends,
    typed,   \* those it has brought,
    closed,  \* and whether it has ended
    torn,    \* a read of standard input has failed
    cread,   \* chunks the client has begun to send
    cpc,     \* where execute_stream is
    spc,     \* where its stdin task is; in "left" it was aborted, and the
             \* thread that reads for it is still in the read
    result,  \* what execute_stream returned
    exit,    \* the exit code of the process
    lost,    \* the connection broke
    upBudgetWait, upSlotWait, upQueue, upFree, upOpen,  \* the client's queue
    down,    \* events on their way to the client
    got      \* history: the output the client has printed

upVars == <<upBudgetWait, upSlotWait, upQueue, upFree, upOpen>>
sourceVars == <<mode, echo, total, typed, closed>>
mainVars == <<cpc, result, exit, got>>
callerVars == <<sourceVars, torn, eaten, cread, mainVars, spc, lost, upVars, down>>
callVars == <<vars, callerVars>>

Up == INSTANCE StreamQueue WITH
    Sender <- {"main", "stdin"}, Item <- Message, Permit <- UpPermit, Capacity <- UpCapacity,
    budgetWait <- upBudgetWait, slotWait <- upSlotWait, queue <- upQueue,
    free <- upFree, rxOpen <- upOpen

\* What may still go wrong in this call.
May(fault) ==
    \E F \in IF echo THEN EchoFaults ELSE AnyFaults :
        fault \in F /\ (lost => "link" \in F) /\ (torn => "stdin" \in F)

NoExit == -1
Failed == [kind |-> "error"]
Chunk == [kind |-> "chunk"]
StdinEof == [kind |-> "eof"]

CallInit ==
    /\ Init /\ Up!QueueInit
    /\ mode \in {"live", "bytes"} /\ echo \in BOOLEAN
    /\ total \in IF echo THEN EchoStdin ELSE 0..AnyStdin
    /\ typed = (IF mode = "bytes" THEN total ELSE 0) /\ closed = (mode = "bytes")
    /\ torn = FALSE /\ eaten = 0 /\ cread = 0
    /\ cpc = "start" /\ spc = "off" /\ result = NoVerdict /\ exit = NoExit
    /\ lost = FALSE /\ down = <<>> /\ got = <<>>

-----------------------------------------------------------------------------
(* execute_stream.                                                         *)

daemonFrame == <<eventVars, handlerVars, pumpVars, outVars, procVars, stdinVars>>
mainFrame == <<sourceVars, torn, eaten, lost, exit>>

\* Mutant: a call that is dropped looks like one whose input has ended.
CallResetOrderly ==
    /\ IF gone THEN UNCHANGED clientVars
       ELSE gone' = TRUE /\ inEnd' = "end" /\ UNCHANGED <<inbox, msgs>>
    /\ UNCHANGED daemonFrame

\* The daemon sees the call reset, unless it had ended before; messages it has
\* not read may be lost.
CallReset ==
    /\ IF gone THEN UNCHANGED clientVars
       ELSE /\ gone' = TRUE
            /\ inEnd' \in {"error"} \union (IF inEnd = "open" THEN {} ELSE {inEnd})
            /\ inbox' \in {inbox, <<>>}
            /\ UNCHANGED msgs
    /\ UNCHANGED daemonFrame

\* execute_stream returns r; its half of the call is dropped with it.
Return(r) ==
    /\ cpc' = "over" /\ result' = r
    /\ CallReset

\* The call is open: the start message is queued.
SendStart ==
    /\ cpc = "start"
    /\ \E r \in ReqId : Up!SendUnbounded("main", [kind |-> "start", req |-> r])
    /\ cpc' = "starting"
    /\ UNCHANGED <<vars, mainFrame, cread, result, got, spc, down>>

\* The standard input that was given is queued before anything is read.
SendBytes ==
    /\ cpc = "bytes" /\ ~Up!InSend("main")
    /\ \/ /\ cread < total
          /\ Up!SendMetered("main", Chunk, 1)
          /\ cread' = cread + 1 /\ UNCHANGED cpc
       \/ /\ cread = total
          /\ Up!SendUnbounded("main", StdinEof)
          /\ cpc' = "eof" /\ UNCHANGED cread
    /\ UNCHANGED <<vars, mainFrame, result, got, spc, down>>

\* A send of execute_stream returns.  An error ends it, whatever the daemon has
\* answered by then.
MainSendReturns ==
    \E i \in DOMAIN upSlotWait :
        /\ upSlotWait[i].from = "main"
        /\ \/ /\ Up!Push(i)
              /\ cpc' = CASE cpc = "starting" /\ mode = "bytes" -> "bytes"
                          [] cpc = "bytes" -> "bytes"
                          [] OTHER -> "reply"
              /\ spc' = IF cpc = "starting" /\ mode = "live" THEN "read" ELSE spc
              /\ UNCHANGED <<vars, result>>
           \/ /\ Up!FailSend(i)
              /\ Return(Failed)
              /\ UNCHANGED spc
        /\ UNCHANGED <<mainFrame, cread, got, down>>

\* An event arrives: output is printed, the outcome returned.
ReplyRead ==
    /\ cpc = "reply" /\ down # <<>>
    /\ down' = Tail(down)
    /\ \/ /\ Head(down).kind \in Stream
          /\ got' = Append(got, Head(down))
          /\ UNCHANGED <<vars, cpc, result>>
       \/ /\ Head(down).kind = "done"
          /\ Return(Head(down))
          /\ UNCHANGED got
    /\ UNCHANGED <<mainFrame, cread, spc, upVars>>

\* stream.message() fails, once what had arrived is read.
ReplyFails ==
    /\ cpc = "reply" /\ lost /\ down = <<>>
    /\ Return(Failed)
    /\ UNCHANGED <<mainFrame, cread, got, spc, upVars, down>>

\* Mutant: a child that a signal ended counts as one that went well.
ShimExitOfSignal(d) ==
    CASE d.outcome = "executed" -> IF d.code >= 0 THEN d.code ELSE 0
      [] d.outcome = "denied" -> 126
      [] d.outcome \in {"cancelled", "userReply"} -> 125
      [] d.outcome = "error" -> 1

\* What run_shim makes of an outcome.
ShimExit(d) ==
    CASE d.outcome = "executed" -> IF d.code >= 0 THEN d.code ELSE 1
      [] d.outcome = "denied" -> 126
      [] d.outcome \in {"cancelled", "userReply"} -> 125
      [] d.outcome = "error" -> 1

\* Mutant: the exit code is returned through main.
ExitsThroughMain ==
    /\ cpc = "over" /\ exit = NoExit
    /\ spc \notin {"read", "left"}
    /\ exit' = IF result = Failed THEN 1 ELSE IF mode = "live" THEN ShimExit(result) ELSE 0
    /\ UNCHANGED <<vars, sourceVars, torn, eaten, lost, cread, cpc, result, got, spc, upVars, down>>

\* The shim leaves by process::exit.  What returns from main, an error of the
\* shim or `client exec`, waits for the thread that reads standard input.
Exits ==
    /\ cpc = "over" /\ exit = NoExit
    /\ \/ result # Failed /\ exit' = IF mode = "live" THEN ShimExit(result) ELSE 0
       \/ result = Failed /\ spc \notin {"read", "left"} /\ exit' = 1
    /\ UNCHANGED <<vars, sourceVars, torn, eaten, lost, cread, cpc, result, got, spc, upVars, down>>

Main == SendStart \/ SendBytes \/ MainSendReturns \/ ReplyRead \/ ReplyFails \/ Exits

-----------------------------------------------------------------------------
(* The stdin task of the shim.                                             *)

stdinFrame == <<vars, sourceVars, eaten, lost, mainVars, down>>

\* A read of standard input returns a chunk or its end.
StdinReads ==
    /\ spc = "read" /\ exit = NoExit
    /\ \/ /\ cread < typed
          /\ Up!SendMetered("stdin", Chunk, 1)
          /\ cread' = cread + 1 /\ spc' = "send"
       \/ /\ cread = typed /\ closed
          /\ Up!SendUnbounded("stdin", StdinEof)
          /\ spc' = "eof" /\ UNCHANGED cread
    /\ UNCHANGED <<stdinFrame, torn>>

\* It fails, which the task takes for the end.
StdinFails ==
    /\ spc = "read" /\ exit = NoExit /\ May("stdin")
    /\ torn' = TRUE
    /\ Up!SendUnbounded("stdin", StdinEof)
    /\ spc' = "eof"
    /\ UNCHANGED <<stdinFrame, cread>>

\* Mutant: an error of the task is an error of the call.
StdinSendReturnsFatal ==
    /\ exit = NoExit
    /\ \E i \in DOMAIN upSlotWait :
        /\ upSlotWait[i].from = "stdin"
        /\ \/ Up!Push(i) /\ spc' = (IF spc = "send" THEN "read" ELSE "over") /\ UNCHANGED <<vars, mainVars>>
           \/ /\ Up!FailSend(i) /\ spc' = "over"
              /\ cpc = "reply" /\ Return(Failed) /\ UNCHANGED <<exit, got>>
    /\ UNCHANGED <<sourceVars, torn, eaten, lost, down, cread>>

\* Its send returns; an error ends the task, and nothing else.
StdinSendReturns ==
    /\ exit = NoExit
    /\ \E i \in DOMAIN upSlotWait :
        /\ upSlotWait[i].from = "stdin"
        /\ \/ Up!Push(i) /\ spc' = IF spc = "send" THEN "read" ELSE "over"
           \/ Up!FailSend(i) /\ spc' = "over"
    /\ UNCHANGED <<stdinFrame, torn, cread>>

\* It is aborted once the outcome is there.  The read it waits for goes on.
StdinAborted ==
    /\ cpc = "over" /\ result # Failed
    /\ spc \in {"read", "send", "eof"} /\ exit = NoExit
    /\ Up!AbortSend("stdin")
    /\ spc' = IF spc = "read" THEN "left" ELSE "over"
    /\ UNCHANGED <<stdinFrame, torn, cread>>

StdinTask == StdinReads \/ StdinSendReturns

\* Who types into the shim's standard input (external).
Types ==
    /\ ~closed
    /\ \/ typed < total /\ typed' = typed + 1 /\ UNCHANGED closed
       \/ typed = total /\ closed' = TRUE /\ UNCHANGED typed
    /\ UNCHANGED <<vars, mode, echo, total, torn, eaten, cread, mainVars, spc, lost, upVars, down>>

-----------------------------------------------------------------------------
(* The transport (tonic, hyper, h2: external).                             *)

linkFrame == <<sourceVars, torn, eaten, cread, mainVars, spc>>

\* A message goes up, into the stream the handler reads; once that is dropped,
\* nowhere.
Upload ==
    /\ upOpen /\ ~gone
    /\ Up!Pop
    /\ \/ /\ hpc # "end" /\ Len(inbox) < Window
          /\ inbox' = Append(inbox, Head(upQueue).item) /\ msgs' = msgs + 1
       \/ hpc = "end" /\ UNCHANGED <<inbox, msgs>>
    /\ UNCHANGED <<inEnd, gone, daemonFrame, linkFrame, lost, down>>

\* Mutant: the shim's request stream ends with execute_stream's own sender.
AllSendersDroppedEarly == cpc \in {"reply", "over"}

\* Every clone of tx is gone.
AllSendersDropped == cpc \in {"reply", "over"} /\ spc \in {"off", "over", "left"}

UploadEnds ==
    /\ AllSendersDropped /\ upOpen /\ upQueue = <<>>
    /\ inEnd = "open" /\ ~gone
    /\ inEnd' = "end"
    /\ UNCHANGED <<inbox, gone, msgs, daemonFrame, callerVars>>

ResponseEnded ==
    /\ hpc = "end" /\ \A s \in Stream : pump[s] \in Over \union {"off"}
    /\ budgetWait = <<>> /\ slotWait = <<>> /\ queue = <<>>

\* The response is complete and nobody reads the requests: the transport resets
\* that half of the call, and the client's receiver is dropped.
UploadReset ==
    /\ ResponseEnded \/ gone
    /\ Up!CloseRx
    /\ UNCHANGED <<vars, linkFrame, lost, down>>

Download ==
    /\ ~gone /\ Len(down) < Window
    /\ Pop
    /\ down' = Append(down, Head(queue).item)
    /\ UNCHANGED <<accepted, clientVars, handlerVars, pumpVars, outVars, procVars, stdinVars,
                   linkFrame, lost, upVars>>

\* The connection breaks; events may be lost with it.
LinkLost ==
    /\ May("link") /\ ~gone
    /\ lost' = TRUE /\ CallReset
    /\ down' \in {down, <<>>}
    /\ UNCHANGED <<linkFrame, upVars>>

-----------------------------------------------------------------------------
(* The daemon and the command.                                             *)

DaemonTask == (Handler \/ \E s \in Stream : Pump(s)) /\ UNCHANGED callerVars
\* The allow_hook answers some day (see AllowHook).
HookAnswers == (\E a \in HookAnswer : HookReturns(a)) /\ UNCHANGED callerVars
DaemonQueue == (Grant \/ DropResponse) /\ UNCHANGED callerVars
ClientGrant == \E S \in SUBSET upFree :
    Up!GrantBudget(S) /\ UNCHANGED <<vars, linkFrame, lost, down>>
Killed9 == ChildDies /\ UNCHANGED callerVars

procCaller == <<sourceVars, torn, cread, mainVars, spc, lost, upVars, down>>

EchoReads == echo /\ eaten = wrote["stdout"] /\ ProcReadsStdin /\ eaten' = eaten + 1
EchoWrites ==
    /\ echo /\ eaten > wrote["stdout"]
    /\ UNCHANGED <<bad, eaten>> /\ ProcWrites("stdout")
EchoEnds ==
    /\ echo /\ eaten = wrote["stdout"] /\ ~stdinW /\ stdinBuf = 0
    /\ ChildEnds(0) /\ UNCHANGED eaten
EchoSteps == (EchoReads \/ EchoWrites \/ EchoEnds) /\ UNCHANGED procCaller

AnyEnds == ~echo /\ (\E c \in Codes : ChildEnds(c)) /\ UNCHANGED callerVars
AnySteps ==
    /\ ~echo
    /\ \/ \E s \in Stream : wrote[s] < AnyOut /\ ProcWrites(s)
       \/ ProcReadsStdin
    /\ UNCHANGED callerVars

Runs ==
    \/ Main \/ StdinTask \/ ClientGrant
    \/ Upload \/ UploadEnds \/ UploadReset \/ Download
    \/ DaemonTask \/ HookAnswers \/ DaemonQueue \/ Killed9 \/ EchoSteps \/ AnyEnds

CallNext == Runs \/ StdinAborted \/ Types \/ StdinFails \/ LinkLost \/ AnySteps

(***************************************************************************)
(* Fairness: a client task, the transport, a task of the daemon or an echo *)
(* that can go on is not left alone for ever, and any other command ends.  *)
(* Each of them has finitely many steps to make, so that one condition for *)
(* all is as good as one for each.  Nobody has to type, and nothing to     *)
(* fail.                                                                   *)
(***************************************************************************)
CallSpec == CallInit /\ [][CallNext]_callVars /\ WF_callVars(Runs)

-----------------------------------------------------------------------------
\* The client has printed the packets of s, 1 to n, in order.
Printed(s, n) ==
    /\ \A i, j \in DOMAIN got :
        i < j /\ got[i].kind = s /\ got[j].kind = s => got[i].num < got[j].num
    /\ \A i \in DOMAIN got : got[i].kind = s => got[i].num <= n
    /\ \A k \in 1..n : \E i \in DOMAIN got : got[i] = Packet(s, k)

(***************************************************************************)
(* A shim that exits with 0 has run its command, which exited with 0, and  *)
(* has printed all that the command wrote, each stream in order            *)
(* (client.rs:141-157, 253-275; server.rs:739-779).                        *)
(***************************************************************************)
ZeroMeansAll ==
    (mode = "live" /\ exit = 0) =>
        /\ verdict = Done("executed", 0) /\ child = "reaped"
        /\ \A s \in Stream : Printed(s, wrote[s])

(***************************************************************************)
(* The daemon is not told that standard input has ended before all of it   *)
(* was sent: neither by a message nor by the end of the request stream,    *)
(* unless the call is over, or reading it has failed: the task hides an    *)
(* error behind a StdinEof, so that the command takes for the whole what   *)
(* is the beginning (client.rs:193-251).                                   *)
(***************************************************************************)
EndIsTheEnd ==
    (result = NoVerdict /\ ~lost /\ verdict = NoVerdict
        /\ (inEnd = "end" \/ Contains(inbox, StdinEof))) =>
            torn \/ (closed /\ cread = total /\ typed = total)

(***************************************************************************)
(* What the daemon has decided is what the client reports: an error of its *)
(* own means that the connection broke, or, where standard input was       *)
(* given, that a send failed because the daemon had answered already       *)
(* (client.rs:195-199, 227, 253).                                          *)
(***************************************************************************)
ErrorsAreTheLinks ==
    /\ result.kind = "done" => result = verdict
    /\ result = Failed => lost \/ (mode = "bytes" /\ verdict # NoVerdict)

(***************************************************************************)
(* "stream ended without done event" is never the client's answer: while   *)
(* the connection holds, a response that ends has brought the outcome      *)
(* (client.rs:276-281, server.rs:1049-1075).                               *)
(***************************************************************************)
NoEndWithoutDone == ~(cpc = "reply" /\ ~lost /\ down = <<>> /\ ResponseEnded)

(***************************************************************************)
(* Within a call the daemon does what ExecuteStream lets it do: whatever   *)
(* the client and the transport do here is among what is foreseen there,   *)
(* so that what is proved of ExecuteStream holds of the call.              *)
(***************************************************************************)
DaemonIsExecuteStream == Spec

\* The client never waits for the daemon before it reads its first event.
Fits == total <= Cardinality(UpPermit) /\ total + 2 <= UpCapacity

(***************************************************************************)
(* Every call comes back.  The shim does, whatever its command echoes, and *)
(* with its standard input still open when the command does not wait for   *)
(* its end, or when reading it has failed; `client exec` does if what it   *)
(* has to send fits into its queue.  An error may have to wait for         *)
(* standard input (client.rs:193-281, main.rs:111-114).                    *)
(***************************************************************************)
ComesBack ==
    ((mode = "live" /\ (closed \/ torn \/ ~echo)) \/ (mode = "bytes" /\ Fits))
        ~> (exit # NoExit \/ (lost /\ ~closed))

-----------------------------------------------------------------------------
(***************************************************************************)
(* The inductive invariant behind these properties; IInv is that of        *)
(* ExecuteStream (proved in RoundTripProofs).                              *)
(***************************************************************************)

CallTypeOK ==
    /\ Up!QueueTypeOK
    /\ mode \in {"live", "bytes"}
    /\ echo \in BOOLEAN /\ closed \in BOOLEAN
    /\ torn \in BOOLEAN /\ lost \in BOOLEAN
    /\ total \in Nat /\ total + 2 <= MaxMsgs
    /\ typed \in 0..total /\ cread \in 0..typed
    /\ cpc \in {"start", "starting", "bytes", "eof", "reply", "over"}
    /\ spc \in {"off", "read", "send", "eof", "over", "left"}
    /\ result \in DoneEvent \union {NoVerdict, Failed}
    /\ down \in Seq(Item) /\ got \in Seq(Item)

\* All of standard input was read, or it cannot be.
InputOver == torn \/ (closed /\ cread = total /\ typed = total)

\* Whoever waits in a send of the client is at the await that called it.
UpSending(w) ==
    \/ /\ w.from = "main"
       /\ \/ cpc = "starting" /\ w.item.kind = "start"
          \/ cpc = "bytes" /\ w.item = Chunk
          \/ cpc = "eof" /\ w.item = StdinEof
    \/ /\ w.from = "stdin"
       /\ \/ spc = "send" /\ w.item = Chunk
          \/ spc = "eof" /\ w.item = StdinEof

UpSendersWait ==
    /\ Up!OneSend
    /\ \A i \in DOMAIN upBudgetWait : UpSending(upBudgetWait[i])
    /\ \A i \in DOMAIN upSlotWait : UpSending(upSlotWait[i])

\* Where the two tasks of the client are, and what they know there.
CallerInPlace ==
    /\ mode = "bytes" \/ closed => typed = total
    /\ mode = "bytes" => closed
    /\ spc # "off" => mode = "live" /\ cpc \in {"reply", "over"}
    /\ spc = "left" => cpc = "over"
    /\ torn => spc \in {"eof", "over"}
    /\ cpc \in {"bytes", "eof"} => mode = "bytes"
    /\ cpc = "reply" /\ mode = "live" => spc # "off"
    /\ cpc = "eof" \/ spc = "eof" => InputOver
    /\ cpc = "reply" /\ upOpen /\ spc \in {"off", "over"} => InputOver
    /\ cpc = "over" <=> result # NoVerdict
    /\ exit # NoExit =>
        /\ cpc = "over"
        /\ mode = "live" => exit = IF result = Failed THEN 1 ELSE ShimExit(result)

\* The messages the client has begun to send.
Begun ==
    cread + (IF cpc = "start" THEN 0 ELSE 1)
        + (IF spc \in {"eof", "over", "left"}
              \/ (mode = "bytes" /\ cpc \in {"eof", "reply", "over"})
           THEN 1 ELSE 0)

\* Those that have not left it.
UpPending == Len(upQueue) + Len(upSlotWait) + Len(upBudgetWait)

\* What is on its way to the daemon, and how it ends there.
UpInPlace ==
    /\ msgs + UpPending <= Begun
    /\ \A i \in DOMAIN upQueue : upQueue[i].item = StdinEof => InputOver
    /\ \A i \in DOMAIN inbox : inbox[i] = StdinEof => InputOver
    /\ ~gone /\ inEnd # "open" =>
        inEnd = "end" /\ AllSendersDropped /\ upQueue = <<>> /\ (cpc = "reply" => InputOver)
    /\ ~gone /\ cpc \in {"start", "starting"} => hpc = "recv" /\ inbox = <<>> /\ upQueue = <<>>

\* Nothing of the call is dropped before it is over, or its connection broken.
LinkInPlace ==
    /\ gone <=> lost \/ cpc = "over"
    /\ ~upOpen => gone \/ hpc = "end"
    /\ ~rxOpen => gone
    /\ result = Failed => lost \/ (mode = "bytes" /\ verdict # NoVerdict)

\* The events the queue accepted were printed, are on their way, or are queued,
\* in this order; only a broken connection loses some, and then all behind them.
DownInPlace ==
    /\ \A i \in DOMAIN got : i \in DOMAIN accepted /\ got[i] = accepted[i] /\ got[i].kind \in Stream
    /\ cpc # "over" => \A i \in DOMAIN down :
        Len(got) + i \in DOMAIN accepted /\ down[i] = accepted[Len(got) + i]
    /\ ~gone =>
        /\ Len(accepted) = Len(got) + Len(down) + Len(queue)
        /\ \A i \in DOMAIN queue : queue[i].item = accepted[Len(got) + Len(down) + i]
    /\ result.kind = "done" => Len(got) + 1 \in DOMAIN accepted /\ result = accepted[Len(got) + 1]

CallInv ==
    /\ IInv
    /\ CallTypeOK /\ UpSendersWait /\ CallerInPlace
    /\ UpInPlace /\ LinkInPlace /\ DownInPlace
=============================================================================
