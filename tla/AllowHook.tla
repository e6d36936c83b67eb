------------------------------- MODULE AllowHook -------------------------------
(***************************************************************************)
(* run_allow_hook of src/src/hook.rs: it starts the allow_hook, writes the *)
(* request to its stdin, reads its stdout in a task of its own, waits for  *)
(* it under a timeout, and takes what it said for an answer.  The hook may *)
(* say what it likes, in pieces, read its stdin or not, and leave a        *)
(* descendant that shares its pipes.                                       *)
(***************************************************************************)
EXTENDS Integers, FiniteSets, SequencesExt

CONSTANTS
    Payload,   \* chunks of the request
    PipeCap,   \* chunks or pieces that fit into a pipe
    MaxSaid,   \* bound: pieces the hook writes
    Fault      \* "spawn", "write", "wait", "read": a call of the operating
               \* system fails; "fork": the hook leaves a descendant

ASSUME PayloadAssumption == Payload \in Nat \ {0}
ASSUME PipeAssumption == PipeCap \in Nat \ {0}
ASSUME SaidAssumption == MaxSaid \in Nat
ASSUME FaultAssumption == Fault \subseteq {"spawn", "write", "wait", "read", "fork"}

\* What the hook writes at a time: a whole response, one half of a "yes", or
\* anything else (no JSON, no UTF-8, an unknown decision).
Response == {"yes", "no", "cancel", "userReply", "noReply"}
Piece == Response \union {"head", "tail", "junk"}

VARIABLES
    pc,        \* where run_allow_hook is
    result,    \* the HookDecision it returned
    left,      \* chunks of the request that are still to be written
    reader,    \* the stdout_reader task
    buf,       \* what it has read
    expired,   \* the timeout has passed
    hook,      \* the hook process
    ok,        \* it exited with success
    killing,   \* SIGKILL has been sent to it
    heir,      \* a descendant shares its pipes
    stdinR,    \* some process holds the read end of its stdin
    stdinBuf,  \* chunks in that pipe
    outW,      \* some process holds the write end of its stdout
    out,       \* pieces in that pipe
    said       \* history: everything written to it

callVars == <<pc, result, left, reader, buf, expired>>
procVars == <<hook, ok, killing, heir>>
stdinVars == <<stdinR, stdinBuf>>
outVars == <<outW, out, said>>
vars == <<callVars, procVars, stdinVars, outVars>>

HookDecision == {"yes", "no", "cancel", "userReply"}

TypeOK ==
    /\ pc \in {"start", "write", "wait", "drain", "kill", "killDrain", "lostDrain", "giveUp",
              "done", "lost"}
    /\ result \in HookDecision \union {"none"}
    /\ left \in 0..Payload
    /\ reader \in {"off", "reading", "eof", "failed"}
    /\ buf \in Seq(Piece)
    /\ hook \in {"none", "running", "zombie", "reaped"}
    /\ expired \in BOOLEAN /\ ok \in BOOLEAN /\ killing \in BOOLEAN /\ heir \in BOOLEAN
    /\ stdinR \in BOOLEAN /\ stdinBuf \in 0..PipeCap
    /\ outW \in BOOLEAN /\ out \in Seq(Piece) /\ said \in Seq(Piece)

Init ==
    /\ pc = "start" /\ result = "none" /\ left = Payload
    /\ reader = "off" /\ buf = <<>> /\ expired = FALSE
    /\ hook = "none" /\ ok = FALSE /\ killing = FALSE /\ heir = FALSE
    /\ stdinR = FALSE /\ stdinBuf = 0
    /\ outW = FALSE /\ out = <<>> /\ said = <<>>

-----------------------------------------------------------------------------
(* run_allow_hook.                                                         *)

Return(d) == pc' = "done" /\ result' = d

\* A return behind a wait that has failed: the hook may not be reaped.
ReturnLost(d) == pc' = "lost" /\ result' = d

Spawn ==
    /\ pc = "start"
    /\ \/ /\ pc' = "write" /\ hook' = "running"
          /\ stdinR' = TRUE /\ outW' = TRUE
          /\ UNCHANGED result
       \/ /\ "spawn" \in Fault /\ Return("cancel")
          /\ UNCHANGED <<hook, stdinR, outW>>
    /\ UNCHANGED <<left, reader, buf, expired, ok, killing, heir, stdinBuf, out, said>>

\* A chunk of stdin.write_all; behind the last one stdin is dropped and the
\* reader spawned.
WriteRequest ==
    /\ pc = "write" /\ stdinR /\ stdinBuf < PipeCap
    /\ stdinBuf' = stdinBuf + 1
    /\ left' = left - 1
    /\ \/ left > 1 /\ UNCHANGED <<pc, reader>>
       \/ left = 1 /\ pc' = "wait" /\ reader' = "reading"
    /\ UNCHANGED <<result, buf, expired, procVars, stdinR, outVars>>

\* Mutant: a write that fails is tried again.
WriteBreaksRetries == pc = "write" /\ ~stdinR /\ UNCHANGED vars

\* write_all is an error: child.kill(), which begins with the signal.
AbandonRequest ==
    /\ killing' = TRUE
    /\ pc' = "giveUp"
    /\ UNCHANGED <<result, left, reader, buf, expired, hook, ok, heir, stdinVars, outVars>>

\* Nobody can read any more, or the write fails of itself.
WriteBreaks == pc = "write" /\ ~stdinR /\ AbandonRequest
WriteFails == pc = "write" /\ "write" \in Fault /\ AbandonRequest

\* child.kill() and child.wait() have returned; that they fail is not looked at.
GiveUp ==
    /\ pc = "giveUp" /\ hook = "zombie"
    /\ hook' = "reaped"
    /\ Return("cancel")
    /\ UNCHANGED <<left, reader, buf, expired, ok, killing, heir, stdinVars, outVars>>

GiveUpFails ==
    /\ pc = "giveUp" /\ "wait" \in Fault
    /\ ReturnLost("cancel")
    /\ UNCHANGED <<left, reader, buf, expired, procVars, stdinVars, outVars>>

\* child.wait() returns in time.
WaitReturns ==
    /\ pc = "wait" /\ hook = "zombie"
    /\ hook' = "reaped"
    /\ pc' = "drain"
    /\ UNCHANGED <<result, left, reader, buf, expired, ok, killing, heir, stdinVars, outVars>>

\* child.wait() fails: the hook is left to itself.
WaitFails ==
    /\ pc = "wait" /\ "wait" \in Fault
    /\ ReturnLost("cancel")
    /\ UNCHANGED <<left, reader, buf, expired, procVars, stdinVars, outVars>>

\* The timer runs only while child.wait() is awaited.
TimerExpires ==
    /\ pc = "wait" /\ ~expired
    /\ expired' = TRUE
    /\ UNCHANGED <<pc, result, left, reader, buf, procVars, stdinVars, outVars>>

\* Mutant: the hook is left to itself instead of killed.
TimesOutQuietly ==
    /\ pc = "wait" /\ expired
    /\ Return("cancel")
    /\ UNCHANGED <<left, reader, buf, expired, procVars, stdinVars, outVars>>

\* Mutant: child.wait() instead of child.kill().
TimesOutKindly ==
    /\ pc = "wait" /\ expired
    /\ pc' = "kill"
    /\ UNCHANGED <<result, left, reader, buf, expired, procVars, stdinVars, outVars>>

\* The timer is seen first, though the hook may have ended too.
TimesOut ==
    /\ pc = "wait" /\ expired
    /\ killing' = TRUE
    /\ pc' = "kill"
    /\ UNCHANGED <<result, left, reader, buf, expired, hook, ok, heir, stdinVars, outVars>>

KillReturns ==
    /\ pc = "kill" /\ hook = "zombie"
    /\ hook' = "reaped"
    /\ pc' = "killDrain"
    /\ UNCHANGED <<result, left, reader, buf, expired, ok, killing, heir, stdinVars, outVars>>

\* The call goes on to the reader even if its waits have failed.
KillFails ==
    /\ pc = "kill" /\ "wait" \in Fault
    /\ pc' = "lostDrain"
    /\ UNCHANGED <<result, left, reader, buf, expired, procVars, stdinVars, outVars>>

ReaderOver == reader \in {"eof", "failed"}

KillDrains ==
    /\ ReaderOver
    /\ \/ pc = "killDrain" /\ Return("cancel")
       \/ pc = "lostDrain" /\ ReturnLost("cancel")
    /\ UNCHANGED <<left, reader, buf, expired, procVars, stdinVars, outVars>>

\* serde_json::from_str of the whole output, and the match on the decision.
Parse(text) ==
    IF Len(text) = 1 /\ text[1] \in HookDecision THEN text[1]
    ELSE IF text = <<"noReply">> THEN "userReply"
    ELSE IF text = <<"head", "tail">> THEN "yes"
    ELSE "cancel"

\* Mutant: what has been read when the hook ends is taken for its answer.
DrainReturnsEarly ==
    /\ pc = "drain"
    /\ Return(IF ok THEN Parse(buf) ELSE "cancel")
    /\ UNCHANGED <<left, reader, buf, expired, procVars, stdinVars, outVars>>

\* Mutant: the exit status is not looked at.
DrainReturnsAnyStatus ==
    /\ pc = "drain" /\ ReaderOver
    /\ Return(IF reader = "eof" THEN Parse(buf) ELSE "cancel")
    /\ UNCHANGED <<left, reader, buf, expired, procVars, stdinVars, outVars>>

\* stdout_reader.await, without a timeout; the answer.
DrainReturns ==
    /\ pc = "drain" /\ ReaderOver
    /\ Return(IF reader = "eof" /\ ok THEN Parse(buf) ELSE "cancel")
    /\ UNCHANGED <<left, reader, buf, expired, procVars, stdinVars, outVars>>

Call ==
    \/ Spawn \/ WriteRequest \/ WriteBreaks \/ GiveUp \/ WaitReturns
    \/ TimesOut \/ KillReturns \/ KillDrains \/ DrainReturns

\* What may happen instead, and need not.
CallFails == WriteFails \/ GiveUpFails \/ WaitFails \/ KillFails

-----------------------------------------------------------------------------
(* The reader task: read_to_end.                                           *)

readFrame == <<pc, result, left, expired, procVars, stdinVars, outW, said>>

ReaderTakes ==
    /\ reader = "reading" /\ out # <<>>
    /\ buf' = Append(buf, Head(out)) /\ out' = Tail(out)
    /\ UNCHANGED <<reader, readFrame>>

ReaderEnds ==
    /\ reader = "reading" /\ out = <<>> /\ ~outW
    /\ reader' = "eof"
    /\ UNCHANGED <<buf, out, readFrame>>

ReaderFails ==
    /\ reader = "reading" /\ "read" \in Fault
    /\ reader' = "failed"
    /\ UNCHANGED <<buf, out, readFrame>>

Reader == ReaderTakes \/ ReaderEnds

-----------------------------------------------------------------------------
(* The hook and its descendant (external).                                 *)

SomeProcess == hook = "running" \/ heir

HookWrites(p) ==
    /\ SomeProcess /\ outW /\ Len(out) < PipeCap /\ Len(said) < MaxSaid
    /\ out' = Append(out, p) /\ said' = Append(said, p)
    /\ UNCHANGED <<callVars, procVars, stdinVars, outW>>

HookCloses ==
    /\ SomeProcess /\ outW
    /\ outW' = FALSE
    /\ UNCHANGED <<callVars, procVars, stdinVars, out, said>>

HookReads ==
    /\ SomeProcess /\ stdinR /\ stdinBuf > 0
    /\ stdinBuf' = stdinBuf - 1
    /\ UNCHANGED <<callVars, procVars, stdinR, outVars>>

HookClosesStdin ==
    /\ SomeProcess /\ stdinR
    /\ stdinR' = FALSE /\ stdinBuf' = 0
    /\ UNCHANGED <<callVars, procVars, outVars>>

HookForks ==
    /\ hook = "running" /\ ~heir /\ "fork" \in Fault
    /\ heir' = TRUE
    /\ UNCHANGED <<callVars, hook, ok, killing, stdinVars, outVars>>

\* The pipes close with the last process that shares them.
ClosePipes(last) ==
    IF last THEN outW' = FALSE /\ stdinR' = FALSE /\ stdinBuf' = 0 /\ UNCHANGED <<out, said>>
            ELSE UNCHANGED <<stdinVars, outVars>>

HookEnds(success) ==
    /\ hook = "running"
    /\ hook' = "zombie" /\ ok' = success
    /\ ClosePipes(~heir)
    /\ UNCHANGED <<callVars, killing, heir>>

HookDies == killing /\ HookEnds(FALSE)

HeirEnds ==
    /\ heir /\ heir' = FALSE
    /\ ClosePipes(hook # "running")
    /\ UNCHANGED <<callVars, hook, ok, killing>>

Processes ==
    \/ \E p \in Piece : HookWrites(p)
    \/ HookCloses \/ HookReads \/ HookClosesStdin \/ HookForks
    \/ \E success \in BOOLEAN : HookEnds(success)
    \/ HeirEnds

-----------------------------------------------------------------------------
Terminated ==
    /\ result # "none" /\ reader # "reading" /\ ~SomeProcess
    /\ UNCHANGED vars

Next == Call \/ CallFails \/ TimerExpires \/ Reader \/ ReaderFails \/ Processes \/ Terminated

Spec == Init /\ [][Next]_vars

(***************************************************************************)
(* Fairness: tokio polls the call and its reader, the timer expires, and   *)
(* SIGKILL ends its process.  The hook and its descendant owe nothing, and  *)
(* no call of the operating system has to fail.                            *)
(***************************************************************************)
FairSpec ==
    /\ Spec
    /\ WF_vars(Call) /\ WF_vars(Reader) /\ WF_vars(TimerExpires) /\ WF_vars(HookDies)

-----------------------------------------------------------------------------
(***************************************************************************)
(* Fail closed: an answer that lets the gate do anything but cancel is     *)
(* what the hook's complete output says, of a hook that ended by itself    *)
(* and with success -- never a half of it, nor what a hook said that was   *)
(* killed, failed or timed out (hook.rs:83-108).                           *)
(***************************************************************************)
AnswerIsWhole ==
    result \notin {"none", "cancel"} =>
        /\ hook = "reaped" /\ ok /\ ~killing
        /\ ~outW /\ buf = said /\ result = Parse(said)

(***************************************************************************)
(* No hook is left running or unreaped behind an answer, whatever failed   *)
(* on the way to it, unless a wait for the hook has itself failed: then,   *)
(* at pc "lost", nobody will reap it (hook.rs:53-57, 72-81).               *)
(***************************************************************************)
NoHookLeft == pc = "done" => hook \in {"none", "reaped"}

(***************************************************************************)
(* Once the hook and whatever shares its pipes have ended, there is an     *)
(* answer, whichever await the call is in (hook.rs:52-86).                 *)
(***************************************************************************)
AnswersAfterHook == (hook \in {"zombie", "reaped"} /\ ~heir) ~> result # "none"

(***************************************************************************)
(* A timeout makes the call return, even if the hook would never end by    *)
(* itself, unless it has left a descendant (hook.rs:72-81); what happens   *)
(* then is said by AnswersAfterHook.                                       *)
(***************************************************************************)
TimeoutReturns == expired ~> (result # "none" \/ heir)

(***************************************************************************)
(* What README.md:202 and 205 and the test hook_timeout_returns_cancel say *)
(* of the timeout: the question is answered, whatever the hook left behind *)
(* it.  It does not hold: see the README.                                  *)
(***************************************************************************)
TimeoutCancels == expired ~> result # "none"

-----------------------------------------------------------------------------
(* The inductive invariant (proved in AllowHookProofs).                    *)

\* Where the call is, and what it knows there of the hook and the reader.
CallInPlace ==
    /\ result = "none" <=> pc \notin {"done", "lost"}
    /\ pc = "start" => hook = "none"
    /\ pc \in {"write", "wait", "kill", "lostDrain", "giveUp"} => hook \in {"running", "zombie"}
    /\ pc \in {"drain", "killDrain"} => hook = "reaped"
    /\ pc \in {"start", "write", "wait", "drain"} => ~killing
    /\ pc \in {"start", "write"} => left >= 1 /\ reader = "off"

\* What was said is in the pipe or has been read.
OutputInPlace ==
    /\ said = buf \o out
    /\ reader = "eof" => out = <<>> /\ ~outW

IInv == TypeOK /\ CallInPlace /\ OutputInPlace /\ AnswerIsWhole /\ NoHookLeft
=============================================================================
