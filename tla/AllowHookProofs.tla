---------------------------- MODULE AllowHookProofs ----------------------------
(***************************************************************************)
(* The answer of an allow_hook is fail closed, whatever the hook does and  *)
(* whatever the sizes of its request, its pipes and its output.            *)
(***************************************************************************)
EXTENDS AllowHook, TLAPS

LEMMA ParseType == ASSUME NEW t \in Seq(Piece) PROVE Parse(t) \in HookDecision
BY DEF Parse, HookDecision

LEMMA Moved ==
    ASSUME NEW b \in Seq(Piece), NEW o \in Seq(Piece), o # <<>>
    PROVE  /\ Head(o) \in Piece /\ Tail(o) \in Seq(Piece)
           /\ Append(b, Head(o)) \in Seq(Piece)
           /\ Append(b, Head(o)) \o Tail(o) = b \o o
<1>1. Head(o) \in Piece /\ Tail(o) \in Seq(Piece)
  OBVIOUS
<1>2. Append(b, Head(o)) \in Seq(Piece)
  BY <1>1
<1>3. Append(b, Head(o)) \o Tail(o) = b \o o
  BY <1>1
<1> QED
  BY <1>1, <1>2, <1>3

LEMMA Added ==
    ASSUME NEW b \in Seq(Piece), NEW o \in Seq(Piece), NEW p \in Piece
    PROVE  /\ Append(o, p) \in Seq(Piece)
           /\ Append(b \o o, p) = b \o Append(o, p)
  OBVIOUS

LEMMA Emptied ==
    ASSUME NEW b \in Seq(Piece), NEW o \in Seq(Piece)
    PROVE  b = b \o o <=> o = <<>>
  OBVIOUS

LEMMA InitInv == Init => IInv
<1> SUFFICES ASSUME Init PROVE IInv
  OBVIOUS
<1>1. TypeOK
  <2>1. /\ expired \in BOOLEAN /\ ok \in BOOLEAN /\ killing \in BOOLEAN /\ heir \in BOOLEAN
        /\ stdinR \in BOOLEAN /\ outW \in BOOLEAN
    BY DEF Init
  <2>2. left \in 0..Payload /\ stdinBuf \in 0..PipeCap
    BY PayloadAssumption, PipeAssumption DEF Init
  <2>3. <<>> \in Seq(Piece)
    OBVIOUS
  <2> QED
    BY <2>1, <2>2, <2>3 DEF Init, TypeOK
<1> QED
  BY <1>1, PayloadAssumption DEF Init, IInv, CallInPlace, OutputInPlace, AnswerIsWhole, NoHookLeft

LEMMA PipesType ==
    ASSUME TypeOK, NEW last \in BOOLEAN, ClosePipes(last)
    PROVE  /\ stdinR' \in BOOLEAN /\ stdinBuf' \in 0..PipeCap
           /\ outW' \in BOOLEAN /\ out' \in Seq(Piece) /\ said' \in Seq(Piece)
<1>1. CASE last
  <2>1. out' = out /\ said' = said
    BY <1>1 DEF ClosePipes
  <2>2. outW' \in BOOLEAN /\ stdinR' \in BOOLEAN
    BY <1>1 DEF ClosePipes
  <2>3. stdinBuf' \in 0..PipeCap
    BY <1>1, PipeAssumption DEF ClosePipes
  <2> QED
    BY <2>1, <2>2, <2>3 DEF TypeOK
<1>2. CASE ~last
  <2>1. UNCHANGED <<stdinVars, outVars>>
    BY <1>2 DEF ClosePipes
  <2> QED
    BY <2>1 DEF TypeOK, stdinVars, outVars
<1> QED
  BY <1>1, <1>2

LEMMA TypeStep == TypeOK /\ [Next]_vars => TypeOK'
<1> SUFFICES ASSUME TypeOK, [Next]_vars PROVE TypeOK'
  OBVIOUS
<1> USE PayloadAssumption, PipeAssumption
<1>1. CASE Call
  <2>1. CASE Spawn
    BY <2>1 DEF TypeOK, Spawn, Return, HookDecision, procVars, stdinVars, outVars
  <2>2. CASE WriteRequest
    BY <2>2 DEF TypeOK, WriteRequest, procVars, outVars
  <2>3. CASE WriteBreaks
    BY <2>3 DEF TypeOK, WriteBreaks, AbandonRequest, stdinVars, outVars
  <2>4. CASE GiveUp
    BY <2>4 DEF TypeOK, GiveUp, Return, ReturnLost, HookDecision, stdinVars, outVars
  <2>5. CASE WaitReturns
    BY <2>5 DEF TypeOK, WaitReturns, stdinVars, outVars
  <2>7. CASE TimesOut
    BY <2>7 DEF TypeOK, TimesOut, stdinVars, outVars
  <2>8. CASE KillReturns
    BY <2>8 DEF TypeOK, KillReturns, stdinVars, outVars
  <2>9. CASE KillDrains
    BY <2>9 DEF TypeOK, KillDrains, Return, ReturnLost, HookDecision, procVars, stdinVars, outVars
  <2>10. CASE DrainReturns
    <3>1. result' \in HookDecision
      BY <2>10, ParseType DEF TypeOK, DrainReturns, Return, HookDecision
    <3> QED
      BY <2>10, <3>1 DEF TypeOK, DrainReturns, Return, procVars, stdinVars, outVars
  <2> QED
    BY <1>1, <2>1, <2>2, <2>3, <2>4, <2>5, <2>7, <2>8, <2>9, <2>10 DEF Call
<1>2. CASE TimerExpires
  BY <1>2 DEF TypeOK, TimerExpires, procVars, stdinVars, outVars
<1>3. CASE Reader
  <2>1. CASE ReaderTakes
    BY <2>1 DEF TypeOK, ReaderTakes, readFrame, procVars, stdinVars
  <2>2. CASE ReaderEnds
    BY <2>2 DEF TypeOK, ReaderEnds, readFrame, procVars, stdinVars
  <2> QED
    BY <1>3, <2>1, <2>2 DEF Reader
<1>6. CASE ReaderFails
  BY <1>6 DEF TypeOK, ReaderFails, readFrame, procVars, stdinVars
<1>7. CASE CallFails
  <2>1. CASE WriteFails
    BY <2>1 DEF TypeOK, WriteFails, AbandonRequest, stdinVars, outVars
  <2>2. CASE GiveUpFails
    BY <2>2 DEF TypeOK, GiveUpFails, ReturnLost, HookDecision, procVars, stdinVars, outVars
  <2>3. CASE WaitFails
    BY <2>3 DEF TypeOK, WaitFails, ReturnLost, HookDecision, procVars, stdinVars, outVars
  <2>4. CASE KillFails
    BY <2>4 DEF TypeOK, KillFails, procVars, stdinVars, outVars
  <2> QED
    BY <1>7, <2>1, <2>2, <2>3, <2>4 DEF CallFails
<1>4. CASE Processes
  <2>1. ASSUME NEW p \in Piece, HookWrites(p) PROVE TypeOK'
    BY <2>1 DEF TypeOK, HookWrites, callVars, procVars, stdinVars
  <2>2. CASE HookCloses
    <3>1. outW' \in BOOLEAN
      BY <2>2 DEF HookCloses
    <3>2. UNCHANGED <<callVars, procVars, stdinVars, out, said>>
      BY <2>2 DEF HookCloses
    <3> QED
      BY <3>1, <3>2 DEF TypeOK, callVars, procVars, stdinVars
  <2>3. CASE HookReads
    BY <2>3 DEF TypeOK, HookReads, callVars, procVars, outVars
  <2>4. CASE HookClosesStdin
    <3>1. stdinR' \in BOOLEAN
      BY <2>4 DEF HookClosesStdin
    <3>2. stdinBuf' \in 0..PipeCap
      BY <2>4 DEF HookClosesStdin
    <3>3. UNCHANGED <<callVars, procVars, outVars>>
      BY <2>4 DEF HookClosesStdin
    <3> QED
      BY <3>1, <3>2, <3>3 DEF TypeOK, callVars, procVars, outVars
  <2>5. CASE HookForks
    BY <2>5 DEF TypeOK, HookForks, callVars, stdinVars, outVars
  <2>6. ASSUME NEW s \in BOOLEAN, HookEnds(s) PROVE TypeOK'
    <3>1. ok' \in BOOLEAN /\ hook' = "zombie"
      BY <2>6 DEF HookEnds
    <3>2. UNCHANGED <<callVars, killing, heir>>
      BY <2>6 DEF HookEnds
    <3> QED
      BY <2>6, <3>1, <3>2, PipesType DEF TypeOK, HookEnds, callVars
  <2>7. CASE HeirEnds
    <3>1. heir' \in BOOLEAN
      BY <2>7 DEF HeirEnds
    <3>2. UNCHANGED <<callVars, hook, ok, killing>>
      BY <2>7 DEF HeirEnds
    <3> QED
      BY <2>7, <3>1, <3>2, PipesType DEF TypeOK, HeirEnds, callVars
  <2> QED
    BY <1>4, <2>1, <2>2, <2>3, <2>4, <2>5, <2>6, <2>7 DEF Processes
<1>5. CASE Terminated \/ UNCHANGED vars
  BY <1>5 DEF TypeOK, Terminated, vars, callVars, procVars, stdinVars, outVars
<1> QED
  BY <1>1, <1>2, <1>3, <1>4, <1>5, <1>6, <1>7 DEF Next

\* The steps of the call itself.
LEMMA CallStep == IInv /\ (Call \/ CallFails) => (CallInPlace /\ OutputInPlace /\ AnswerIsWhole /\ NoHookLeft)'
<1> SUFFICES ASSUME IInv, Call \/ CallFails PROVE (CallInPlace /\ OutputInPlace /\ AnswerIsWhole /\ NoHookLeft)'
  OBVIOUS
<1> USE DEF IInv, TypeOK, CallInPlace, OutputInPlace, NoHookLeft, Return, ReturnLost,
            ReaderOver, procVars, stdinVars, outVars
<1>1. CASE Spawn
  <2>1. CASE pc' = "write"
    <3>1. /\ hook' = "running" /\ result' = "none" /\ killing' = killing /\ ~killing
          /\ left' = left
          /\ UNCHANGED <<reader, buf, out, said>> /\ reader # "eof"
      BY <1>1, <2>1 DEF Spawn
    <3>2. CallInPlace'
      BY <2>1, <3>1, <1>1 DEF Spawn
    <3>3. OutputInPlace'
      BY <3>1
    <3>4. AnswerIsWhole' /\ NoHookLeft'
      BY <2>1, <3>1 DEF AnswerIsWhole
    <3> QED
      BY <3>2, <3>3, <3>4
  <2>2. CASE result' = "cancel"
    BY <1>1, <2>2 DEF Spawn, AnswerIsWhole
  <2> QED
    BY <1>1, <2>1, <2>2 DEF Spawn
<1>2. CASE WriteRequest
  BY <1>2 DEF WriteRequest, AnswerIsWhole
<1>3. CASE WriteBreaks
  BY <1>3 DEF WriteBreaks, AbandonRequest, AnswerIsWhole
<1>4. CASE GiveUp
  BY <1>4 DEF GiveUp, AnswerIsWhole
<1>5. CASE WaitReturns
  BY <1>5 DEF WaitReturns, AnswerIsWhole
<1>6. CASE WaitFails
  BY <1>6 DEF WaitFails, AnswerIsWhole
<1>7. CASE TimesOut
  BY <1>7 DEF TimesOut, AnswerIsWhole
<1>8. CASE KillReturns
  BY <1>8 DEF KillReturns, AnswerIsWhole
<1>9. CASE KillDrains
  BY <1>9 DEF KillDrains, AnswerIsWhole
<1>10. CASE DrainReturns
  <2>1. Parse(buf) \in HookDecision
    BY ParseType
  <2>2. reader = "eof" => buf = said
    OBVIOUS
  <2>3. AnswerIsWhole'
    BY <1>10, <2>1, <2>2 DEF DrainReturns, AnswerIsWhole, Parse
  <2>4. (CallInPlace /\ OutputInPlace /\ NoHookLeft)'
    BY <1>10, <2>1 DEF DrainReturns, HookDecision
  <2> QED
    BY <2>3, <2>4
<1>11. CASE WriteFails
  BY <1>11 DEF WriteFails, AbandonRequest, AnswerIsWhole
<1>12. CASE GiveUpFails
  BY <1>12 DEF GiveUpFails, AnswerIsWhole
<1>13. CASE KillFails
  BY <1>13 DEF KillFails, AnswerIsWhole
<1> QED
  BY <1>1, <1>2, <1>3, <1>4, <1>5, <1>6, <1>7, <1>8, <1>9, <1>10, <1>11, <1>12, <1>13
  DEF Call, CallFails

\* Everything else that happens while the call is under way, or after it.
LEMMA OtherStep ==
    ASSUME IInv, TimerExpires \/ Reader \/ ReaderFails \/ Processes
    PROVE  (CallInPlace /\ OutputInPlace /\ AnswerIsWhole /\ NoHookLeft)'
<1> USE DEF IInv, TypeOK, CallInPlace, OutputInPlace, NoHookLeft, AnswerIsWhole, callVars,
            procVars, stdinVars, outVars, SomeProcess, ClosePipes
<1>1. CASE TimerExpires
  BY <1>1 DEF TimerExpires
<1>2. CASE ReaderTakes
  <2>1. buf' \o out' = buf \o out
    BY <1>2, Moved DEF ReaderTakes
  <2>2. result \in {"none", "cancel"}
    BY <1>2, Emptied DEF ReaderTakes
  <2> QED
    BY <1>2, <2>1, <2>2 DEF ReaderTakes, readFrame
<1>3. CASE ReaderEnds
  BY <1>3 DEF ReaderEnds, readFrame
<1>11. CASE ReaderFails
  BY <1>11 DEF ReaderFails, readFrame
<1>4. ASSUME NEW p \in Piece, HookWrites(p)
      PROVE  (CallInPlace /\ OutputInPlace /\ AnswerIsWhole /\ NoHookLeft)'
  <2>1. Append(said, p) = buf \o Append(out, p)
    BY Added
  <2> QED
    BY <1>4, <2>1 DEF HookWrites
<1>5. CASE HookCloses
  BY <1>5 DEF HookCloses
<1>6. CASE HookReads
  BY <1>6 DEF HookReads
<1>7. CASE HookClosesStdin
  BY <1>7 DEF HookClosesStdin
<1>8. CASE HookForks
  BY <1>8 DEF HookForks
<1>9. ASSUME NEW s \in BOOLEAN, HookEnds(s)
      PROVE  (CallInPlace /\ OutputInPlace /\ AnswerIsWhole /\ NoHookLeft)'
  BY <1>9 DEF HookEnds
<1>10. CASE HeirEnds
  BY <1>10 DEF HeirEnds
<1> QED
  BY <1>1, <1>2, <1>3, <1>4, <1>5, <1>6, <1>7, <1>8, <1>9, <1>10, <1>11
  DEF Reader, Processes

LEMMA StepInv == IInv /\ [Next]_vars => IInv'
<1> SUFFICES ASSUME IInv, [Next]_vars PROVE IInv'
  OBVIOUS
<1>1. TypeOK'
  BY TypeStep DEF IInv
<1>2. CASE Call \/ CallFails
  BY <1>1, <1>2, CallStep DEF IInv
<1>3. CASE TimerExpires \/ Reader \/ ReaderFails \/ Processes
  BY <1>1, <1>3, OtherStep DEF IInv
<1>4. CASE Terminated \/ UNCHANGED vars
  <2>1. UNCHANGED vars
    BY <1>4 DEF Terminated
  <2>2. IInv' <=> IInv
    BY <2>1 DEF IInv, TypeOK, CallInPlace, OutputInPlace, AnswerIsWhole, NoHookLeft, Parse,
                vars, callVars, procVars, stdinVars, outVars
  <2> QED
    BY <2>2
<1> QED
  BY <1>2, <1>3, <1>4 DEF Next

\* The invariant holds in every state of every call of run_allow_hook.
THEOREM Invariant == Spec => []IInv
  BY InitInv, StepInv, PTL DEF Spec

\* Fail closed: only the complete output of a hook that ended by itself and
\* with success is ever an answer other than cancel (hook.rs:83-108).
THEOREM FailClosed == Spec => []AnswerIsWhole
<1>1. IInv => AnswerIsWhole
  BY DEF IInv
<1> QED
  BY Invariant, <1>1, PTL

\* Every return of run_allow_hook leaves its hook reaped, except one that
\* follows a failed wait (hook.rs:53-57, 72-81).
THEOREM Reaping == Spec => []NoHookLeft
<1>1. IInv => NoHookLeft
  BY DEF IInv
<1> QED
  BY Invariant, <1>1, PTL
=============================================================================
