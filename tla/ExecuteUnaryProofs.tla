-------------------------- MODULE ExecuteUnaryProofs --------------------------
(***************************************************************************)
(* The safety of Execute, composed with its allow_hook, for every request, *)
(* output, pipe and fault.  What AllowHookProofs proves of the hook by     *)
(* itself is used through an instance.                                     *)
(***************************************************************************)
EXTENDS ExecuteUnary, TLAPS

HookProofs == INSTANCE AllowHookProofs WITH
    Fault <- HookFault, pc <- hookPc, result <- answer, left <- hookLeft,
    reader <- hookReader, buf <- hookBuf, expired <- hookExpired,
    hook <- hookProc, ok <- hookOk, killing <- hookKilling, heir <- hookHeir,
    stdinR <- hookStdinR, stdinBuf <- hookStdinBuf,
    outW <- hookOutW, out <- hookOut, said <- hookSaid

\* What may happen to the variables of the hook.
HookStep ==
    \/ Hook!Call \/ Hook!CallFails \/ Hook!TimerExpires
    \/ Hook!Reader \/ Hook!ReaderFails \/ Hook!Processes
    \/ UNCHANGED hookVars

LEMMA HookSame == Hook!IInv <=> HookProofs!IInv
BY DEF Hook!Init, HookProofs!Init,
    Hook!IInv, HookProofs!IInv,
    Hook!TypeOK, HookProofs!TypeOK,
    Hook!CallInPlace, HookProofs!CallInPlace,
    Hook!OutputInPlace, HookProofs!OutputInPlace,
    Hook!AnswerIsWhole, HookProofs!AnswerIsWhole,
    Hook!NoHookLeft, HookProofs!NoHookLeft,
    Hook!HookDecision, HookProofs!HookDecision,
    Hook!Piece, HookProofs!Piece,
    Hook!Response, HookProofs!Response,
    Hook!Parse, HookProofs!Parse

LEMMA HookInitSame == Hook!Init <=> HookProofs!Init
BY DEF Hook!Init, HookProofs!Init

LEMMA HookStepSame == HookStep => [HookProofs!Next]_(HookProofs!vars)
BY DEF HookStep, hookVars, HookProofs!Next,
    Hook!Call, HookProofs!Call,
    Hook!TimerExpires, HookProofs!TimerExpires,
    Hook!Reader, HookProofs!Reader,
    Hook!Processes, HookProofs!Processes,
    Hook!Spawn, HookProofs!Spawn,
    Hook!WriteRequest, HookProofs!WriteRequest,
    Hook!CallFails, HookProofs!CallFails,
    Hook!AbandonRequest, HookProofs!AbandonRequest,
    Hook!WriteBreaks, HookProofs!WriteBreaks,
    Hook!WriteFails, HookProofs!WriteFails,
    Hook!GiveUp, HookProofs!GiveUp,
    Hook!GiveUpFails, HookProofs!GiveUpFails,
    Hook!WaitReturns, HookProofs!WaitReturns,
    Hook!WaitFails, HookProofs!WaitFails,
    Hook!TimesOut, HookProofs!TimesOut,
    Hook!KillReturns, HookProofs!KillReturns,
    Hook!KillFails, HookProofs!KillFails,
    Hook!KillDrains, HookProofs!KillDrains,
    Hook!DrainReturns, HookProofs!DrainReturns,
    Hook!ReaderTakes, HookProofs!ReaderTakes,
    Hook!ReaderEnds, HookProofs!ReaderEnds,
    Hook!ReaderFails, HookProofs!ReaderFails,
    Hook!ReaderOver, HookProofs!ReaderOver,
    Hook!readFrame, HookProofs!readFrame,
    Hook!HookWrites, HookProofs!HookWrites,
    Hook!HookCloses, HookProofs!HookCloses,
    Hook!HookReads, HookProofs!HookReads,
    Hook!HookClosesStdin, HookProofs!HookClosesStdin,
    Hook!HookForks, HookProofs!HookForks,
    Hook!ClosePipes, HookProofs!ClosePipes,
    Hook!HookEnds, HookProofs!HookEnds,
    Hook!HeirEnds, HookProofs!HeirEnds,
    Hook!SomeProcess, HookProofs!SomeProcess,
    Hook!Return, HookProofs!Return,
    Hook!ReturnLost, HookProofs!ReturnLost,
    Hook!Parse, HookProofs!Parse,
    Hook!HookDecision, HookProofs!HookDecision,
    Hook!Piece, HookProofs!Piece,
    Hook!Response, HookProofs!Response,
    Hook!vars, HookProofs!vars,
    Hook!callVars, HookProofs!callVars,
    Hook!procVars, HookProofs!procVars,
    Hook!stdinVars, HookProofs!stdinVars,
    Hook!outVars, HookProofs!outVars

LEMMA HookInit == Hook!Init => Hook!IInv
BY UnaryBoundsAssumption, UnaryHookAssumption, HookProofs!InitInv, HookSame, HookInitSame

LEMMA HookInv == Hook!IInv /\ HookStep => Hook!IInv'
<1>1. Hook!IInv' <=> HookProofs!IInv'
  BY DEF Hook!IInv, HookProofs!IInv,
    Hook!TypeOK, HookProofs!TypeOK,
    Hook!CallInPlace, HookProofs!CallInPlace,
    Hook!OutputInPlace, HookProofs!OutputInPlace,
    Hook!AnswerIsWhole, HookProofs!AnswerIsWhole,
    Hook!NoHookLeft, HookProofs!NoHookLeft,
    Hook!HookDecision, HookProofs!HookDecision,
    Hook!Piece, HookProofs!Piece,
    Hook!Response, HookProofs!Response,
    Hook!Parse, HookProofs!Parse
<1> QED
  BY <1>1, UnaryBoundsAssumption, UnaryHookAssumption, HookProofs!StepInv, HookSame, HookStepSame

\* Every step of the call does something of that kind to its hook.
LEMMA HookMoves == [Next]_vars => HookStep
<1> SUFFICES ASSUME [Next]_vars PROVE HookStep
  OBVIOUS
<1>1. CASE Handler
  BY <1>1 DEF Handler, Begin, AskHook, HookAnswers, WriteStdin, WriteBreaks,
      AbandonStdin, TakeOutput, ReapCommand, OutputReturns, launchFrame, HookStep
<1>4. CASE HandlerFails
  BY <1>4 DEF HandlerFails, AskFails, WriteFails, AbandonStdin, OutputFails, HookStep
<1>2. CASE HookSteps
  BY <1>2 DEF HookSteps, HookStep
<1>3. CASE Drop \/ Processes \/ Terminated \/ UNCHANGED vars
  BY <1>3 DEF Drop, Processes, ProcWrites, ProcCloses, ProcReadsStdin, ProcClosesStdin,
      ProcForks, ChildEnds, HeirEnds, Terminated, vars, procFrame, HookStep
<1> QED
  BY <1>1, <1>2, <1>3, <1>4 DEF Next

\* What the proof says of the call itself, apart from its hook.
CallInv ==
    /\ TypeOK
    /\ HandlerInPlace /\ OutputInPlace /\ ApprovedOrAsked
    /\ ExecutedIsComplete /\ LeftOnlyByBrokenPipes

\* The answer of the hook, once there is one, stays.
LEMMA AnswerStays ==
    ASSUME Hook!IInv, Hook!Reader \/ Hook!ReaderFails \/ Hook!TimerExpires \/ Hook!Processes
    PROVE  answer' = answer
BY DEF Hook!Reader, Hook!ReaderTakes, Hook!ReaderEnds, Hook!ReaderFails, Hook!readFrame, Hook!TimerExpires,
    Hook!Processes, Hook!HookWrites, Hook!HookCloses, Hook!HookReads, Hook!HookClosesStdin,
    Hook!HookForks, Hook!HookEnds, Hook!HeirEnds, Hook!callVars

LEMMA ReqType == ASSUME TypeOK PROVE ReqInfo[req] \in Ask /\ ReqInfo[req].stdin \in Nat
BY UnaryReqAssumption DEF TypeOK, Ask

LEMMA ResponseType ==
    ASSUME NEW o \in Outcome, NEW c \in Codes, NEW out \in [Stream -> Nat], NEW msg \in Message
    PROVE  /\ Response(o, c, out, msg) \in ExecuteResponse
           /\ Response(o, c, out, msg) # None
           /\ Response(o, c, out, msg).outcome = o /\ Response(o, c, out, msg).code = c
           /\ Response(o, c, out, msg).out = out /\ Response(o, c, out, msg).message = msg
<1>1. Response(o, c, out, msg) \in ExecuteResponse
  BY DEF Response, ExecuteResponse
<1>2. Response(o, c, out, msg).outcome = o
  BY DEF Response
<1>3. Response(o, c, out, msg) # None
  <2>1. None.outcome = "none" /\ o # "none"
    BY DEF None, Outcome
  <2> QED
    BY <1>2, <2>1
<1> QED
  BY <1>1, <1>2, <1>3 DEF Response

LEMMA CallInit == Init => CallInv
<1> SUFFICES ASSUME Init PROVE CallInv
  OBVIOUS
<1>1. TypeOK
  <2>1. ReqInfo[req].stdin \in Nat
    BY UnaryReqAssumption DEF Init, Ask
  <2>2. answer = "none"
    BY DEF Init, Hook!Init
  <2>3. heir \in BOOLEAN /\ stdinR \in BOOLEAN
    BY DEF Init
  <2> QED
    BY <2>1, <2>2, <2>3, UnaryBoundsAssumption DEF Init, TypeOK, NoOutput, Codes
<1>2. None.outcome = "none"
  BY DEF None
<1> QED
  BY <1>1, <1>2 DEF Init, CallInv, HandlerInPlace, OutputInPlace, ApprovedOrAsked,
      ExecutedIsComplete, LeftOnlyByBrokenPipes, NoOutput

LEMMA OutputType == NoOutput \in [Stream -> Nat] /\ Killed \in Codes
BY DEF NoOutput, Codes, Killed

\* An answer other than "executed" is given and nothing else happens.
LEMMA FailStep ==
    ASSUME CallInv, NEW o \in Outcome \ {"executed"}, NEW c \in Codes, NEW msg \in Message,
           Answer(o, c, NoOutput, msg),
           child \in {"running", "zombie"} => o = "error" /\ msg \in {"stdin", "output"},
           UNCHANGED <<req, left, taken, procVars, hookVars>>
    PROVE  CallInv'
<1> DEFINE r == Response(o, c, NoOutput, msg)
<1>1. reply' = r /\ call' = "end"
  BY DEF Answer
<1>2. /\ r \in ExecuteResponse /\ r # None
      /\ r.outcome = o /\ r.message = msg
  BY ResponseType, OutputType
<1> HIDE DEF r
<1>3. TypeOK'
  BY <1>1, <1>2 DEF CallInv, TypeOK, procVars, hookVars
<1> QED
  BY <1>1, <1>2, <1>3 DEF CallInv, HandlerInPlace, OutputInPlace, ApprovedOrAsked,
      ExecutedIsComplete, LeftOnlyByBrokenPipes, procVars, hookVars, TypeOK

LEMMA Words ==
    /\ \A m \in {"none", "gate", "spawn", "stdin", "output", "text"} : m \in Message
    /\ \A o \in {"executed", "denied", "cancelled", "userReply", "error"} : o \in Outcome
BY DEF Message, Outcome

\* A way through the gate that refuses the command.
LEMMA RefuseStep ==
    ASSUME CallInv, child = "none", NEW o \in Outcome \ {"executed"}, Refuse(o),
           UNCHANGED <<child, writer, stdinR>>, UNCHANGED launchFrame
    PROVE  CallInv'
<1>1. "gate" \in Message /\ Answer(o, Killed, NoOutput, "gate")
  BY Words DEF Refuse
<1>2. UNCHANGED <<req, left, taken, procVars, hookVars>>
  BY DEF launchFrame, procVars
<1> QED
  BY <1>1, <1>2, FailStep, OutputType

\* The command is spawned, or that fails; it is registered and approved.
LEMMA LaunchStep ==
    ASSUME CallInv, child = "none", Launch, UNCHANGED launchFrame,
           reply = None,
           ReqInfo[req].registered,
           \/ Gate(ReqInfo[req]) = "allow"
           \/ Gate(ReqInfo[req]) = "ask" /\ answer = "yes"
    PROVE  CallInv'
<1>1. CASE Fail(Killed, "spawn") /\ UNCHANGED <<child, writer, stdinR>>
  <2>1. "spawn" \in Message /\ "error" \in Outcome \ {"executed"}
    BY Words
  <2>2. UNCHANGED <<req, left, taken, procVars, hookVars>>
    BY <1>1 DEF launchFrame, procVars
  <2> QED
    BY <1>1, <2>1, <2>2, FailStep, OutputType DEF Fail
<1>2. CASE /\ call' = (IF left > 0 THEN "write" ELSE "wait")
           /\ child' = "running" /\ writer' = Stream /\ stdinR' = TRUE /\ UNCHANGED reply
  <2>1. ReqInfo[req].stdin \in Nat /\ left \in 0..ReqInfo[req].stdin
    BY ReqType DEF CallInv, TypeOK
  <2>2. call' \in {"write", "wait"} /\ (call' = "write" <=> left > 0) /\ (call' = "wait" <=> left = 0)
    BY <1>2, <2>1
  <2>3. stdinR' \in BOOLEAN
    BY <1>2
  <2>4. TypeOK'
    BY <1>2, <2>2, <2>3 DEF CallInv, TypeOK, launchFrame, hookVars
  <2>5. None.outcome = "none"
    BY DEF None
  <2> QED
    BY <1>2, <2>2, <2>4, <2>5 DEF CallInv, HandlerInPlace, OutputInPlace, ApprovedOrAsked,
        ExecutedIsComplete, LeftOnlyByBrokenPipes, launchFrame, hookVars, TypeOK
<1> QED
  BY <1>1, <1>2 DEF Launch

LEMMA HandlerStep ==
    ASSUME CallInv, Hook!IInv, Hook!IInv', Handler \/ HandlerFails PROVE CallInv'
<1> USE UnaryBoundsAssumption
<1>1. CASE Begin
  <2> DEFINE g == IF ReqInfo[req].registered THEN Gate(ReqInfo[req]) ELSE "denied"
  <2>1. child = "none" /\ reply = None /\ UNCHANGED launchFrame
    BY <1>1 DEF Begin, CallInv, HandlerInPlace
  <2>2. CASE g = "allow" /\ Launch
    BY <2>1, <2>2, LaunchStep
  <2>3. CASE g = "ask" /\ call' = "ask" /\ UNCHANGED <<reply, child, writer, stdinR>>
    <3>1. TypeOK'
      BY <2>1, <2>3 DEF CallInv, TypeOK, launchFrame, hookVars
    <3> QED
      BY <2>1, <2>3, <3>1 DEF CallInv, HandlerInPlace, OutputInPlace, ApprovedOrAsked,
          ExecutedIsComplete, LeftOnlyByBrokenPipes, launchFrame, hookVars, TypeOK
  <2>4. CASE g \in Outcome /\ Refuse(g) /\ UNCHANGED <<child, writer, stdinR>>
    <3>1. g # "executed"
      BY DEF Gate
    <3> HIDE DEF g
    <3> QED
      BY <2>1, <2>4, <3>1, RefuseStep
  <2> QED
    BY <1>1, <2>2, <2>3, <2>4 DEF Begin
<1>2. CASE AskHook \/ AskFails
  <2>1. answer' \in Hook!HookDecision \union {"none"}
    BY DEF Hook!IInv, Hook!TypeOK
  <2>2. UNCHANGED <<callVars, taken, procVars>> /\ child = "none"
    BY <1>2 DEF AskHook, AskFails, CallInv, HandlerInPlace
  <2> QED
    BY <2>1, <2>2 DEF CallInv, TypeOK, HandlerInPlace, OutputInPlace, ApprovedOrAsked,
        ExecutedIsComplete, LeftOnlyByBrokenPipes, callVars, procVars
<1>3. CASE HookAnswers
  <2>1. /\ child = "none" /\ reply = None /\ UNCHANGED launchFrame
        /\ ReqInfo[req].registered /\ Gate(ReqInfo[req]) = "ask"
    BY <1>3 DEF HookAnswers, CallInv, HandlerInPlace
  <2>2. CASE answer = "yes" /\ Launch
    BY <2>1, <2>2, LaunchStep
  <2>3. ASSUME NEW o \in Outcome, <<answer, o>> \in Declined, Refuse(o),
               UNCHANGED <<child, writer, stdinR>>
        PROVE  CallInv'
    <3>1. o # "executed"
      BY <2>3 DEF Declined
    <3> QED
      BY <2>1, <2>3, <3>1, RefuseStep
  <2> QED
    BY <1>3, <2>2, <2>3 DEF HookAnswers
<1>4. CASE WriteStdin
  <2>1. ReqInfo[req].stdin \in Nat /\ left \in 0..ReqInfo[req].stdin /\ left > 0
    BY <1>4, ReqType DEF WriteStdin, CallInv, TypeOK, HandlerInPlace
  <2>2. /\ left' \in 0..ReqInfo[req].stdin
        /\ call' \in {"write", "wait"} /\ (call' = "write" => left' > 0) /\ (call' = "wait" => left' = 0)
    BY <1>4, <2>1 DEF WriteStdin
  <2>3. stdinBuf' \in 0..PipeCap
    BY <1>4 DEF WriteStdin, CallInv, TypeOK
  <2>4. child \in {"running", "zombie"} /\ reply = None
    BY <1>4 DEF WriteStdin, CallInv, HandlerInPlace
  <2>5. TypeOK'
    BY <1>4, <2>2, <2>3 DEF WriteStdin, CallInv, TypeOK, hookVars
  <2>6. None.outcome = "none"
    BY DEF None
  <2> QED
    BY <1>4, <2>2, <2>4, <2>5, <2>6 DEF WriteStdin, CallInv, HandlerInPlace, OutputInPlace,
        ApprovedOrAsked, ExecutedIsComplete, LeftOnlyByBrokenPipes, hookVars, TypeOK
<1>5. CASE WriteBreaks \/ WriteFails
  <2>1. "stdin" \in Message /\ "error" \in Outcome \ {"executed"}
    BY Words
  <2> QED
    BY <1>5, <2>1, FailStep, OutputType DEF WriteBreaks, WriteFails, AbandonStdin, Fail
<1>6. ASSUME NEW s \in Stream, TakeOutput(s) PROVE CallInv'
  <2>1. taken' \in [Stream -> Nat] /\ \A x \in Stream : taken'[x] <= wrote[x]
    BY <1>6 DEF TakeOutput, CallInv, TypeOK, OutputInPlace
  <2>2. reply = None
    BY <1>6 DEF TakeOutput, CallInv, HandlerInPlace
  <2>3. None.outcome = "none"
    BY DEF None
  <2> QED
    BY <1>6, <2>1, <2>2, <2>3 DEF TakeOutput, CallInv, TypeOK, HandlerInPlace, OutputInPlace,
        ApprovedOrAsked, ExecutedIsComplete, LeftOnlyByBrokenPipes, callVars, procVars, hookVars
<1>7. CASE ReapCommand
  <2>1. None.outcome = "none"
    BY DEF None
  <2> QED
    BY <1>7, <2>1 DEF ReapCommand, CallInv, TypeOK, HandlerInPlace, OutputInPlace,
        ApprovedOrAsked, ExecutedIsComplete, LeftOnlyByBrokenPipes, callVars, procVars, hookVars
<1>8. CASE OutputFails
  <2>1. "output" \in Message /\ "error" \in Outcome \ {"executed"}
    BY Words
  <2> QED
    BY <1>8, <2>1, FailStep, OutputType DEF OutputFails, Fail
<1>9. CASE OutputReturns
  <2>1. /\ code \in Codes /\ child = "reaped" /\ left = 0 /\ writer = {} /\ taken = wrote
        /\ taken \in [Stream -> Nat]
    BY <1>9 DEF OutputReturns, CallInv, TypeOK, HandlerInPlace
  <2>2. CASE bad # {}
    <3>1. "text" \in Message /\ "error" \in Outcome \ {"executed"}
      BY Words
    <3> QED
      BY <1>9, <2>1, <2>2, <3>1, FailStep DEF OutputReturns, Fail
  <2>3. CASE bad = {}
    <3> DEFINE r == Response("executed", code, taken, "none")
    <3>1. "none" \in Message /\ "executed" \in Outcome
      BY Words
    <3>2. /\ r \in ExecuteResponse /\ r # None
          /\ r.outcome = "executed" /\ r.code = code /\ r.out = taken
      BY <2>1, <3>1, ResponseType
    <3>3. reply' = r /\ call' = "end" /\ UNCHANGED <<req, left, taken, procVars, hookVars>>
      BY <1>9, <2>3 DEF OutputReturns, Answer
    <3> HIDE DEF r
    <3>4. TypeOK'
      BY <3>2, <3>3 DEF CallInv, TypeOK, procVars, hookVars
    <3> QED
      BY <2>1, <2>3, <3>2, <3>3, <3>4 DEF CallInv, HandlerInPlace, OutputInPlace,
          ApprovedOrAsked, ExecutedIsComplete, LeftOnlyByBrokenPipes, procVars, hookVars
  <2> QED
    BY <2>2, <2>3
<1> QED
  BY <1>1, <1>2, <1>3, <1>4, <1>5, <1>6, <1>7, <1>8, <1>9
  DEF Handler, HandlerFails

LEMMA ProcessStep ==
    ASSUME CallInv, Processes PROVE CallInv'
<1> USE UnaryBoundsAssumption DEF CallInv, TypeOK, HandlerInPlace, OutputInPlace, ApprovedOrAsked,
        ExecutedIsComplete, LeftOnlyByBrokenPipes, procFrame, callVars, hookVars
<1>1. ASSUME NEW s \in Stream, ProcWrites(s) PROVE CallInv'
  <2>1. wrote' \in [Stream -> Nat] /\ \A x \in Stream : taken[x] <= wrote'[x]
    BY <1>1 DEF ProcWrites
  <2>2. reply = None /\ child # "none"
    BY <1>1 DEF ProcWrites, SomeProcess
  <2>3. bad' \in SUBSET Stream
    BY <1>1 DEF ProcWrites
  <2>4. None.outcome = "none"
    BY DEF None
  <2> QED
    BY <1>1, <2>1, <2>2, <2>3, <2>4 DEF ProcWrites
<1>2. ASSUME NEW s \in Stream, ProcCloses(s) PROVE CallInv'
  <2>1. writer' \in SUBSET Stream /\ (writer = {} => writer' = {})
    BY <1>2 DEF ProcCloses
  <2> QED
    BY <1>2, <2>1 DEF ProcCloses
<1>3. CASE ProcReadsStdin
  BY <1>3 DEF ProcReadsStdin
<1>4. CASE ProcClosesStdin
  <2>1. stdinR' \in BOOLEAN /\ stdinBuf' \in 0..PipeCap
    <3>1. stdinR' \in BOOLEAN
      BY <1>4 DEF ProcClosesStdin
    <3>2. stdinBuf' \in 0..PipeCap
      BY <1>4 DEF ProcClosesStdin
    <3> QED
      BY <3>1, <3>2
  <2> QED
    BY <1>4, <2>1 DEF ProcClosesStdin
<1>5. CASE ProcForks
  BY <1>5 DEF ProcForks
<1>6. ASSUME NEW last \in BOOLEAN, ClosePipes(last)
      PROVE  /\ writer' \in SUBSET Stream /\ (writer = {} => writer' = {})
             /\ stdinR' \in BOOLEAN /\ stdinBuf' \in 0..PipeCap
  <2>1. CASE last
    <3>1. writer' = {}
      BY <1>6, <2>1 DEF ClosePipes
    <3>2. stdinR' \in BOOLEAN
      BY <1>6, <2>1 DEF ClosePipes
    <3>3. stdinBuf' \in 0..PipeCap
      BY <1>6, <2>1 DEF ClosePipes
    <3> QED
      BY <3>1, <3>2, <3>3
  <2>2. CASE ~last
    BY <1>6, <2>2 DEF ClosePipes
  <2> QED
    BY <2>1, <2>2
<1>7. ASSUME NEW c \in Codes, ChildEnds(c) PROVE CallInv'
  <2>1. /\ writer' \in SUBSET Stream /\ (writer = {} => writer' = {})
        /\ stdinR' \in BOOLEAN /\ stdinBuf' \in 0..PipeCap
    BY <1>6, <1>7 DEF ChildEnds
  <2> QED
    BY <1>7, <2>1 DEF ChildEnds
<1>8. CASE HeirEnds
  <2>1. /\ writer' \in SUBSET Stream /\ (writer = {} => writer' = {})
        /\ stdinR' \in BOOLEAN /\ stdinBuf' \in 0..PipeCap
    BY <1>6, <1>8 DEF HeirEnds
  <2>2. heir' \in BOOLEAN
    BY <1>8 DEF HeirEnds
  <2> QED
    BY <1>8, <2>1, <2>2 DEF HeirEnds
<1> QED
  BY <1>1, <1>2, <1>3, <1>4, <1>5, <1>7, <1>8 DEF Processes

LEMMA CallStep == ASSUME CallInv, Hook!IInv, Hook!IInv', [Next]_vars PROVE CallInv'
<1>1. CASE Handler \/ HandlerFails
  BY <1>1, HandlerStep
<1>2. CASE Drop
  BY <1>2 DEF Drop, CallInv, TypeOK, HandlerInPlace, OutputInPlace, ApprovedOrAsked,
      ExecutedIsComplete, LeftOnlyByBrokenPipes, procVars, hookVars
<1>3. CASE HookSteps
  <2>1. answer' = answer /\ UNCHANGED <<callVars, taken, procVars>>
    BY <1>3, AnswerStays DEF HookSteps
  <2> QED
    BY <2>1 DEF CallInv, TypeOK, HandlerInPlace, OutputInPlace, ApprovedOrAsked,
        ExecutedIsComplete, LeftOnlyByBrokenPipes, callVars, procVars
<1>4. CASE Processes
  BY <1>4, ProcessStep
<1>5. CASE Terminated \/ UNCHANGED vars
  BY <1>5 DEF Terminated, CallInv, TypeOK, HandlerInPlace, OutputInPlace, ApprovedOrAsked,
      ExecutedIsComplete, LeftOnlyByBrokenPipes, vars, callVars, procVars, hookVars
<1> QED
  BY <1>1, <1>2, <1>3, <1>4, <1>5 DEF Next

\* The inductive invariant of Execute and its hook together (server.rs:138-338).
THEOREM Invariant == Spec => []IInv
<1>1. Init => CallInv /\ Hook!IInv
  BY CallInit, HookInit DEF Init
<1>2. CallInv /\ Hook!IInv /\ [Next]_vars => CallInv' /\ Hook!IInv'
  BY HookMoves, HookInv, CallStep
<1>3. CallInv /\ Hook!IInv => IInv
  BY DEF CallInv, IInv
<1> QED
  BY <1>1, <1>2, <1>3, PTL DEF Spec

\* End to end: what runs was allowed, or is what the complete output of a hook
\* that succeeded said yes to (server.rs:153-191, hook.rs:83-108).
THEOREM Approval == Spec => []RunsOnlyIfApproved
<1>1. IInv => RunsOnlyIfApproved
  <2> SUFFICES ASSUME IInv, child # "none", answer = "yes"
               PROVE  /\ hookProc = "reaped" /\ hookOk /\ ~hookKilling /\ ~hookOutW
                      /\ hookBuf = hookSaid /\ Hook!Parse(hookSaid) = "yes"
    BY DEF IInv, RunsOnlyIfApproved, ApprovedOrAsked
  <2> QED
    BY DEF IInv, Hook!IInv, Hook!AnswerIsWhole
<1> QED
  BY Invariant, <1>1, PTL

\* "executed" is all of the output of a command that is over (server.rs:248-337).
THEOREM Completeness == Spec => []ExecutedIsComplete
<1>1. IInv => ExecutedIsComplete
  BY DEF IInv
<1> QED
  BY Invariant, <1>1, PTL

\* Only a broken stdin or a failed wait leaves a command behind an answer
\* (server.rs:223-270).
THEOREM Leaving == Spec => []LeftOnlyByBrokenPipes
<1>1. IInv => LeftOnlyByBrokenPipes
  BY DEF IInv
<1> QED
  BY Invariant, <1>1, PTL
=============================================================================
