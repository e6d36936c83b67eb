--------------------------- MODULE RoundTripProofs ---------------------------
(***************************************************************************)
(* What holds of an ExecuteStream call for every budget, capacity, amount  *)
(* of output, number of messages, registry and policy.                     *)
(*                                                                         *)
(* The first part is about the handler (ExecuteStream), whatever its       *)
(* client does, and uses nothing of RoundTrip: IInv is inductive, and the  *)
(* safety properties follow from it.  The second is about a call with its  *)
(* client, run_shim or run_exec: a step of the call is a step of the       *)
(* handler or leaves it alone, CallInv is inductive, and what the caller   *)
(* can rely on follows.                                                    *)
(***************************************************************************)
EXTENDS RoundTrip, StreamQueueProofs, FiniteSetTheorems

-----------------------------------------------------------------------------
(* Events.                                                                 *)

LEMMA DoneIsItem ==
    ASSUME NEW o \in Outcome, NEW c \in Codes
    PROVE  /\ Done(o, c) \in DoneEvent /\ Done(o, c) \in Item
           /\ Done(o, c) # NoVerdict
           /\ Done(o, c).outcome = o /\ Done(o, c).code = c
<1>1. Done(o, c) \in DoneEvent
  BY DEF Done, DoneEvent
<1>2. Done(o, c).kind = "done" /\ NoVerdict.kind = "none"
  BY DEF Done, NoVerdict
<1> QED
  BY <1>1, <1>2, EventAssumption DEF Done

LEMMA PacketIsItem ==
    ASSUME NEW s \in Stream, NEW k \in 1..MaxOut[s]
    PROVE  Packet(s, k) \in Item
<1>1. Packet(s, k) \in [kind : {s}, num : 1..MaxOut[s]]
  BY DEF Packet
<1> QED
  BY <1>1, EventAssumption DEF PacketEvent

(* Nobody but the task that is in send_done waits there for the handler.   *)
LEMMA HandlerNotSending ==
    ASSUME SendersWait, hpc # "done"
    PROVE  ~InSend("handler")
<1>1. "handler" \notin Stream
  BY DEF Stream
<1> QED
  BY <1>1 DEF SendersWait, Sending, InSend

(* The handler enters send_done.                                           *)
LEMMA Concludes ==
    ASSUME TypeOK, OneSend, SendersWait, hpc # "done",
           NEW o \in Outcome, NEW c \in Codes, Conclude(o, c)
    PROVE  /\ QueueTypeOK' /\ OneSend'
           /\ accepted' = accepted
           /\ hpc' = "done" /\ verdict' = Done(o, c)
           /\ UNCHANGED <<pump, sent, flushed>> => SendersWait'
<1>1. "handler" \in Sender /\ "handler" \notin Stream /\ ~InSend("handler")
  BY SenderAssumption, HandlerNotSending DEF Stream
<1>2. Done(o, c) \in Item
  BY DoneIsItem
<1>3. SendUnbounded("handler", Done(o, c)) /\ QueueTypeOK
  BY DEF Conclude, TypeOK
<1>4. QueueTypeOK'
  BY <1>1, <1>2, <1>3, SendUnboundedType
<1>5. /\ OneSend'
      /\ \A j \in DOMAIN budgetWait' :
            \E k \in DOMAIN budgetWait : budgetWait'[j] = budgetWait[k]
      /\ \A j \in DOMAIN slotWait' :
            \/ \E k \in DOMAIN slotWait : slotWait'[j] = slotWait[k]
            \/ slotWait'[j].from = "handler" /\ slotWait'[j].item = Done(o, c)
  BY <1>1, <1>2, <1>3, JoinsWaiters
<1>6. hpc' = "done" /\ verdict' = Done(o, c) /\ accepted' = accepted
  BY DEF Conclude
<1>7. ASSUME UNCHANGED <<pump, sent, flushed>> PROVE SendersWait'
  <2>1. ASSUME NEW j \in DOMAIN budgetWait'
        PROVE  (Sending(budgetWait[j]) /\ budgetWait[j].from \in Stream)'
    <3>1. PICK k \in DOMAIN budgetWait : budgetWait'[j] = budgetWait[k]
      BY <1>5
    <3>2. budgetWait[k].from \in Stream /\ Sending(budgetWait[k])
      BY DEF SendersWait
    <3> QED
      BY <1>1, <1>7, <3>1, <3>2 DEF Sending
  <2>2. ASSUME NEW j \in DOMAIN slotWait'
        PROVE  Sending(slotWait[j])'
    <3>1. CASE \E k \in DOMAIN slotWait : slotWait'[j] = slotWait[k]
      <4>1. PICK k \in DOMAIN slotWait : slotWait'[j] = slotWait[k]
        BY <3>1
      <4>2. slotWait[k].from \in Stream /\ Sending(slotWait[k])
        BY DEF SendersWait, Sending
      <4> QED
        BY <1>1, <1>7, <4>1, <4>2 DEF Sending
    <3>2. CASE slotWait'[j].from = "handler" /\ slotWait'[j].item = Done(o, c)
      BY <1>6, <3>2 DEF Sending
    <3> QED
      BY <1>5, <3>1, <3>2
  <2> QED
    BY <2>1, <2>2 DEF SendersWait
<1> QED
  BY <1>4, <1>5, <1>6, <1>7

-----------------------------------------------------------------------------
(* Every variable keeps its type.                                          *)

\* What an action leaves alone keeps its type.
LEMMA TypeFrames ==
    ASSUME TypeOK
    PROVE  /\ UNCHANGED queueVars => QueueTypeOK'
           /\ UNCHANGED accepted => (accepted \in Seq(Item))'
           /\ UNCHANGED handlerVars => HandlerTypeOK'
           /\ UNCHANGED pumpVars => PumpTypeOK'
           /\ UNCHANGED clientVars => ClientTypeOK'
           /\ UNCHANGED outVars => OutTypeOK'
           /\ UNCHANGED procVars => ProcTypeOK'
           /\ UNCHANGED stdinVars => StdinTypeOK'
  BY DEF TypeOK, QueueTypeOK, HandlerTypeOK, PumpTypeOK, ClientTypeOK, OutTypeOK, ProcTypeOK,
         StdinTypeOK, queueVars, handlerVars, pumpVars, clientVars, outVars, procVars, stdinVars

\* The parts of TypeOK, as facts of the current state.
LEMMA TypeParts ==
    ASSUME IInv
    PROVE  /\ TypeOK /\ QueueTypeOK /\ OneSend /\ SendersWait
           /\ HandlerTypeOK /\ PumpTypeOK /\ ClientTypeOK
           /\ OutTypeOK /\ ProcTypeOK /\ StdinTypeOK /\ accepted \in Seq(Item)
  BY DEF IInv, TypeOK

LEMMA HandlerTypeStep ==
    ASSUME IInv, Handler \/ \E a \in HookAnswer : HookReturns(a)
    PROVE  TypeOK'
<1> USE DEF eventVars
<1>0. /\ TypeOK /\ QueueTypeOK /\ OneSend /\ SendersWait
      /\ HandlerTypeOK /\ PumpTypeOK /\ ClientTypeOK
      /\ OutTypeOK /\ ProcTypeOK /\ StdinTypeOK /\ accepted \in Seq(Item)
  BY TypeParts
<1>1. /\ UNCHANGED queueVars => QueueTypeOK'
      /\ UNCHANGED accepted => (accepted \in Seq(Item))'
      /\ UNCHANGED handlerVars => HandlerTypeOK'
      /\ UNCHANGED pumpVars => PumpTypeOK'
      /\ UNCHANGED clientVars => ClientTypeOK'
      /\ UNCHANGED outVars => OutTypeOK'
      /\ UNCHANGED procVars => ProcTypeOK'
      /\ UNCHANGED stdinVars => StdinTypeOK'
  BY <1>0, TypeFrames
<1>2. /\ Killed \in Codes /\ "error" \in Outcome /\ "denied" \in Outcome
      /\ "cancelled" \in Outcome /\ "userReply" \in Outcome /\ "executed" \in Outcome
  BY DEF Codes, Outcome
\* Concluding keeps the types of the queue and the handler.
<1>3. ASSUME NEW o \in Outcome, NEW c \in Codes, hpc # "done", Conclude(o, c),
             UNCHANGED <<task, blame, audit>>,
             req' \in ReqId \union {NoReq}, answer' \in HookAnswer \union {"none"}
      PROVE  QueueTypeOK' /\ (accepted \in Seq(Item))' /\ HandlerTypeOK'
  <2>1. QueueTypeOK' /\ accepted' = accepted /\ hpc' = "done" /\ verdict' \in DoneEvent
    BY <1>0, <1>3, Concludes, DoneIsItem
  <2> QED
    BY <1>0, <1>3, <2>1 DEF HandlerTypeOK
<1>4. req \in ReqId \union {NoReq} /\ answer \in HookAnswer \union {"none"}
  BY <1>0 DEF HandlerTypeOK
<1>5. inbox # <<>> => Tail(inbox) \in Seq(Message) /\ Head(inbox) \in Message
  BY <1>0, TailDomain DEF ClientTypeOK
<1>6. ASSUME inbox' \in {inbox, Tail(inbox)}, inbox' # inbox => inbox # <<>>,
             UNCHANGED <<inEnd, gone, msgs>>
      PROVE  ClientTypeOK'
  BY <1>0, <1>5, <1>6 DEF ClientTypeOK
<1>7. ASSUME RejectFirst PROVE TypeOK'
  <2>1. QueueTypeOK' /\ (accepted \in Seq(Item))' /\ HandlerTypeOK'
    BY <1>2, <1>3, <1>4, <1>7 DEF RejectFirst
  <2>2. ClientTypeOK'
    BY <1>6, <1>7 DEF RejectFirst
  <2> QED
    BY <1>1, <1>7, <2>1, <2>2 DEF RejectFirst, TypeOK
<1>8. ASSUME Launch, hpc # "done", UNCHANGED launchFrame, ClientTypeOK',
             req' \in ReqId \union {NoReq}, answer' \in HookAnswer \union {"none"}
      PROVE  TypeOK'
  <2>1. CASE "spawn" \in Fault /\ Conclude("error", Killed)
                /\ UNCHANGED <<child, pump, task, writer, stdinW, stdinR>>
    <3>1. QueueTypeOK' /\ (accepted \in Seq(Item))' /\ HandlerTypeOK'
      BY <1>2, <1>3, <1>8, <2>1 DEF launchFrame
    <3> QED
      BY <1>1, <1>8, <2>1, <3>1
      DEF launchFrame, TypeOK, pumpVars, outVars, procVars, stdinVars
  <2>2. CASE /\ hpc' = "select"
             /\ child' = "running"
             /\ pump' = [s \in Stream |-> "read"]
             /\ task' = Stream
             /\ writer' = Stream
             /\ stdinW' = TRUE /\ stdinR' = TRUE
             /\ UNCHANGED <<eventVars, verdict>>
    <3>1. HandlerTypeOK'
      BY <1>0, <1>8, <2>2 DEF HandlerTypeOK, launchFrame
    <3>2. PumpTypeOK' /\ OutTypeOK'
      BY <1>0, <1>8, <2>2 DEF PumpTypeOK, OutTypeOK, launchFrame
    <3>3. ProcTypeOK' /\ StdinTypeOK'
      BY <1>0, <1>8, <2>2 DEF ProcTypeOK, StdinTypeOK, launchFrame
    <3> QED
      BY <1>1, <1>8, <2>2, <3>1, <3>2, <3>3 DEF TypeOK
  <2> QED
    BY <1>8, <2>1, <2>2 DEF Launch
<1>9. ASSUME ReceiveStart PROVE TypeOK'
  <2>1. ClientTypeOK'
    BY <1>6, <1>9 DEF ReceiveStart
  <2>2. req' \in ReqId \union {NoReq} /\ answer' \in HookAnswer \union {"none"} /\ hpc # "done"
    BY <1>4, <1>5, <1>9 DEF ReceiveStart, Message
  <2>3. UNCHANGED launchFrame
    BY <1>9 DEF ReceiveStart
  <2>4. CASE Launch
    BY <1>8, <2>1, <2>2, <2>3, <2>4
  <2>5. CASE UNCHANGED <<child, pump, task, writer, stdinW, stdinR>>
    <3>1. PumpTypeOK' /\ OutTypeOK' /\ ProcTypeOK' /\ StdinTypeOK'
      BY <1>1, <2>3, <2>5 DEF launchFrame, pumpVars, outVars, procVars, stdinVars
    <3>2. ASSUME NEW g \in Outcome, Conclude(g, Killed) PROVE TypeOK'
      BY <1>2, <1>3, <2>1, <2>2, <2>3, <2>5, <3>1, <3>2 DEF TypeOK, launchFrame
    <3>3. ASSUME hpc' = "hook", UNCHANGED <<eventVars, verdict>> PROVE TypeOK'
      <4>1. HandlerTypeOK'
        BY <1>0, <2>2, <2>3, <2>5, <3>3 DEF HandlerTypeOK, launchFrame
      <4> QED
        BY <1>1, <2>1, <3>1, <3>3, <4>1 DEF TypeOK
    <3> QED
      BY <1>9, <2>4, <3>2, <3>3 DEF ReceiveStart
  <2> QED
    BY <1>9, <2>4, <2>5 DEF ReceiveStart
<1>10. ASSUME NEW a \in HookAnswer, HookReturns(a) PROVE TypeOK'
  <2>1. ClientTypeOK' /\ UNCHANGED launchFrame
    BY <1>1, <1>10 DEF HookReturns
  <2>2. req' \in ReqId \union {NoReq} /\ answer' \in HookAnswer \union {"none"} /\ hpc # "done"
    BY <1>4, <1>10 DEF HookReturns
  <2>3. CASE Launch
    BY <1>8, <2>1, <2>2, <2>3
  <2>4. ASSUME NEW g \in Outcome, Conclude(g, Killed),
               UNCHANGED <<child, pump, task, writer, stdinW, stdinR>>
        PROVE  TypeOK'
    <3>1. PumpTypeOK' /\ OutTypeOK' /\ ProcTypeOK' /\ StdinTypeOK'
      BY <1>1, <2>1, <2>4 DEF launchFrame, pumpVars, outVars, procVars, stdinVars
    <3> QED
      BY <1>2, <1>3, <2>1, <2>2, <2>4, <3>1 DEF TypeOK, launchFrame
  <2> QED
    BY <1>10, <2>3, <2>4 DEF HookReturns
<1>11. ASSUME WaitReturns PROVE TypeOK'
  <2>1. HandlerTypeOK' /\ ProcTypeOK'
    BY <1>0, <1>11 DEF WaitReturns, HandlerTypeOK, ProcTypeOK
  <2> QED
    BY <1>1, <1>11, <2>1 DEF WaitReturns, TypeOK
<1>12. ASSUME WaitFails PROVE TypeOK'
  BY <1>1, <1>2, <1>3, <1>4, <1>12 DEF WaitFails, TypeOK
<1>13. ASSUME NEW s \in Stream, PumpJoined(s) PROVE TypeOK'
  <2>1. HandlerTypeOK'
    BY <1>0, <1>13 DEF PumpJoined, HandlerTypeOK
  <2> QED
    BY <1>1, <1>13, <2>1 DEF PumpJoined, TypeOK
<1>14. ASSUME NEW b \in Stream \union {"none"}, Kill(b)
       PROVE  /\ QueueTypeOK' /\ (accepted \in Seq(Item))' /\ HandlerTypeOK'
              /\ PumpTypeOK' /\ OutTypeOK' /\ ProcTypeOK'
  <2>1. HandlerTypeOK'
    BY <1>0, <1>14 DEF Kill, HandlerTypeOK
  <2>2. ProcTypeOK'
    BY <1>0, <1>14 DEF Kill, ProcTypeOK
  <2> QED
    BY <1>1, <1>14, <2>1, <2>2 DEF Kill
<1>15. ASSUME NEW s \in Stream, PumpBroken(s) PROVE TypeOK'
  BY <1>1, <1>14, <1>15 DEF PumpBroken, TypeOK
<1>16. ASSUME Inbound PROVE TypeOK'
  <2>1. ClientTypeOK'
    BY <1>6, <1>16 DEF Inbound
  <2>2. StdinTypeOK'
    <3>1. stdinW' \in BOOLEAN
      BY <1>0, <1>16 DEF Inbound, StdinTypeOK
    <3> QED
      BY <1>0, <1>16, <3>1 DEF Inbound, StdinTypeOK
  <2>3. CASE Kill("none")
    BY <1>14, <2>1, <2>2, <2>3 DEF TypeOK
  <2>4. CASE UNCHANGED <<eventVars, handlerVars, pumpVars, outVars, procVars>>
    BY <1>1, <2>1, <2>2, <2>4 DEF TypeOK
  <2>5. CASE /\ hpc' = "write"
             /\ UNCHANGED <<eventVars, req, answer, task, blame, verdict, audit,
                            pumpVars, outVars, procVars, stdinW>>
    <3>1. HandlerTypeOK'
      BY <1>0, <2>5 DEF HandlerTypeOK
    <3> QED
      BY <1>1, <2>1, <2>2, <2>5, <3>1 DEF TypeOK
  <2> QED
    BY <1>16, <2>3, <2>4, <2>5 DEF Inbound
<1>17. ASSUME WriteStdin PROVE TypeOK'
  <2>1. StdinTypeOK'
    <3>1. stdinBuf' \in 0..PipeCap
      BY <1>0, <1>17, BoundsAssumption DEF WriteStdin, StdinTypeOK
    <3>2. stdinW' \in BOOLEAN /\ stdinR' \in BOOLEAN
      BY <1>0, <1>17 DEF WriteStdin, StdinTypeOK
    <3> QED
      BY <3>1, <3>2 DEF StdinTypeOK
  <2>2. CASE Kill("none")
    BY <1>1, <1>14, <1>17, <2>1, <2>2 DEF WriteStdin, TypeOK
  <2>3. CASE /\ hpc' = "select"
             /\ UNCHANGED <<eventVars, req, answer, task, blame, verdict, audit,
                            pumpVars, outVars, procVars>>
    <3>1. HandlerTypeOK'
      BY <1>0, <2>3 DEF HandlerTypeOK
    <3> QED
      BY <1>1, <1>17, <2>1, <2>3, <3>1 DEF WriteStdin, TypeOK
  <2> QED
    BY <1>17, <2>2, <2>3 DEF WriteStdin
<1>18. ASSUME KillReturns PROVE TypeOK'
  <2>1. QueueTypeOK' /\ (accepted \in Seq(Item))' /\ HandlerTypeOK'
    BY <1>2, <1>3, <1>4, <1>18 DEF KillReturns
  <2>2. PumpTypeOK' /\ ProcTypeOK'
    BY <1>0, <1>18 DEF KillReturns, PumpTypeOK, ProcTypeOK, HandlerTypeOK
  <2> QED
    BY <1>1, <1>18, <2>1, <2>2 DEF KillReturns, TypeOK
<1>19. ASSUME JoinReturns PROVE TypeOK'
  <2>1. code \in Codes
    BY <1>0 DEF ProcTypeOK
  <2> QED
    BY <1>1, <1>2, <1>3, <1>4, <1>19, <2>1 DEF JoinReturns, TypeOK
<1>20. ASSUME DoneReturns PROVE TypeOK'
  <2>1. QueueTypeOK' /\ (accepted \in Seq(Item))'
    <3>1. ASSUME NEW i \in DOMAIN slotWait, Push(i), accepted' = Append(accepted, slotWait[i].item)
          PROVE  QueueTypeOK' /\ (accepted \in Seq(Item))'
      BY <1>0, <3>1, PushType, AppendDomain DEF QueuedItem
    <3> QED
      BY <1>0, <1>1, <1>20, <3>1, DropSendType DEF DoneReturns, FailSend
  <2>2. audit' \in AuditRecord
    <3>1. verdict \in DoneEvent
      BY <1>0, <1>20 DEF DoneReturns, IInv, HandlerInPlace, HandlerTypeOK
    <3>2. Approved \in BOOLEAN
      BY DEF Approved
    <3> QED
      BY <1>20, <3>1, <3>2 DEF DoneReturns, AuditRecord
  <2>3. HandlerTypeOK'
    BY <1>0, <1>20, <2>2 DEF DoneReturns, HandlerTypeOK
  <2>4. StdinTypeOK'
    BY <1>0, <1>20 DEF DoneReturns, StdinTypeOK
  <2> QED
    BY <1>1, <1>20, <2>1, <2>3, <2>4 DEF DoneReturns, TypeOK
<1> QED
  BY <1>7, <1>9, <1>10, <1>11, <1>12, <1>13, <1>15, <1>16, <1>17, <1>18, <1>19, <1>20 DEF Handler

LEMMA PumpTypeStep ==
    ASSUME IInv, NEW s \in Stream, Pump(s)
    PROVE  TypeOK'
<1> USE DEF eventVars, pumpFrame
<1>0. /\ TypeOK /\ QueueTypeOK /\ PumpTypeOK /\ OutTypeOK /\ accepted \in Seq(Item)
      /\ PacketsInPlace(s)
  BY TypeParts DEF IInv
<1>1. /\ UNCHANGED queueVars => QueueTypeOK'
      /\ UNCHANGED accepted => (accepted \in Seq(Item))'
      /\ UNCHANGED handlerVars => HandlerTypeOK'
      /\ UNCHANGED clientVars => ClientTypeOK'
      /\ UNCHANGED outVars => OutTypeOK'
      /\ UNCHANGED procVars => ProcTypeOK'
      /\ UNCHANGED stdinVars => StdinTypeOK'
  BY <1>0, TypeFrames
\* Every action of a pump leaves the same variables alone.
<1>2. ASSUME QueueTypeOK', (accepted \in Seq(Item))', PumpTypeOK', UNCHANGED pumpFrame
      PROVE  TypeOK'
  BY <1>1, <1>2 DEF TypeOK
<1>3. \A n \in Nat : Whole(s, n) \in Int
  BY <1>0 DEF Whole, OutTypeOK
<1>4. ASSUME NEW k \in 1..PipeCap, PumpReads(s, k) PROVE TypeOK'
  <2>1. taken[s] + k \in Nat /\ flushed[s] \in Nat
    BY <1>0, BoundsAssumption DEF PumpTypeOK
  <2>2. \A f \in flushed[s]..Whole(s, taken[s] + k) : f \in Nat
    BY <1>3, <2>1
  <2>3. PumpTypeOK'
    BY <1>0, <1>4, <2>1, <2>2 DEF PumpReads, FlushTo, Over, PumpTypeOK
  <2> QED
    BY <1>1, <1>2, <1>4, <2>3 DEF PumpReads
<1>5. ASSUME PumpReadFails(s) PROVE TypeOK'
  <2>1. PumpTypeOK'
    BY <1>0, <1>5 DEF PumpReadFails, Over, PumpTypeOK
  <2> QED
    BY <1>1, <1>2, <1>5, <2>1 DEF PumpReadFails
<1>6. ASSUME HoldExpires(s) PROVE TypeOK'
  <2>1. taken[s] \in Nat /\ flushed[s] \in Nat
    BY <1>0 DEF PumpTypeOK
  <2>2. \A f \in flushed[s] + 1 .. Whole(s, taken[s]) : f \in Nat
    BY <1>3, <2>1
  <2>3. PumpTypeOK'
    BY <1>0, <1>6, <2>1, <2>2 DEF HoldExpires, FlushTo, Over, PumpTypeOK
  <2> QED
    BY <1>1, <1>2, <1>6, <2>3 DEF HoldExpires
<1>7. ASSUME PumpEof(s) PROVE TypeOK'
  <2>1. PumpTypeOK'
    BY <1>0, <1>7 DEF PumpEof, Over, PumpTypeOK
  <2> QED
    BY <1>1, <1>2, <1>7, <2>1 DEF PumpEof
<1>8. ASSUME PumpSends(s) PROVE TypeOK'
  <2>1. s \in Sender
    BY SenderAssumption
  <2>2. sent[s] + 1 \in 1..MaxOut[s]
    <3>1. sent[s] < flushed[s] /\ pump[s] \in {"send", "last"}
      BY <1>0, <1>8 DEF PumpSends, PacketsInPlace
    <3> QED
      BY <1>0, <3>1, BoundsAssumption DEF PumpTypeOK, OutTypeOK, PacketsInPlace
  <2>3. 1 \in 1..Cardinality(Permit)
    <3>1. Cardinality(Permit) \in Nat /\ Cardinality(Permit) # 0
      BY BudgetAssumption, PacketAssumption, FS_CardinalityType, FS_EmptySet
    <3> QED
      BY <3>1
  <2>4. QueueTypeOK'
    BY <1>0, <1>8, <2>1, <2>2, <2>3, PacketIsItem, SendMeteredType DEF PumpSends
  <2>5. PumpTypeOK'
    BY <1>0, <1>8 DEF PumpSends, PumpTypeOK
  <2> QED
    BY <1>1, <1>2, <1>8, <2>4, <2>5 DEF PumpSends
<1>9. ASSUME PumpSendReturns(s) PROVE TypeOK'
  <2>1. ASSUME NEW i \in DOMAIN slotWait, Push(i), accepted' = Append(accepted, slotWait[i].item)
        PROVE  QueueTypeOK' /\ (accepted \in Seq(Item))'
    BY <1>0, <2>1, PushType, AppendDomain DEF QueuedItem
  <2>2. QueueTypeOK' /\ (accepted \in Seq(Item))'
    BY <1>0, <1>1, <1>9, <2>1, DropSendType DEF PumpSendReturns, FailSend
  <2>3. PumpTypeOK'
    <3>1. sent' \in [Stream -> Nat]
      <4>1. sent' = sent \/ sent' = [sent EXCEPT ![s] = sent[s] + 1]
        BY <1>9 DEF PumpSendReturns
      <4>2. sent \in [Stream -> Nat] /\ sent[s] + 1 \in Nat
        BY <1>0 DEF PumpTypeOK
      <4> QED
        BY <4>1, <4>2
    <3>2. pump' \in [Stream -> {"off", "read", "send", "last"} \union Over]
      BY <1>0, <1>9 DEF PumpSendReturns, PumpTypeOK, Over
    <3> QED
      BY <1>0, <1>9, <3>1, <3>2 DEF PumpSendReturns, PumpTypeOK
  <2> QED
    BY <1>2, <1>9, <2>2, <2>3 DEF PumpSendReturns
<1>10. ASSUME PumpAborted(s) PROVE TypeOK'
  <2>1. QueueTypeOK'
    BY <1>0, <1>10, AbortSendType DEF PumpAborted
  <2>2. PumpTypeOK'
    BY <1>0, <1>10 DEF PumpAborted, Over, PumpTypeOK
  <2> QED
    BY <1>1, <1>2, <1>10, <2>1, <2>2 DEF PumpAborted
<1> QED
  BY <1>4, <1>5, <1>6, <1>7, <1>8, <1>9, <1>10 DEF Pump

LEMMA EnvironmentTypeStep ==
    ASSUME IInv,
           \/ Grant \/ Take \/ DropResponse
           \/ Client \/ Processes
           \/ UNCHANGED vars
    PROVE  TypeOK'
<1> USE DEF eventVars, queueFrame, clientFrame, procFrame
<1>0. /\ TypeOK /\ QueueTypeOK /\ ClientTypeOK
      /\ OutTypeOK /\ ProcTypeOK /\ StdinTypeOK /\ accepted \in Seq(Item)
  BY TypeParts
<1>1. /\ UNCHANGED queueVars => QueueTypeOK'
      /\ UNCHANGED accepted => (accepted \in Seq(Item))'
      /\ UNCHANGED handlerVars => HandlerTypeOK'
      /\ UNCHANGED pumpVars => PumpTypeOK'
      /\ UNCHANGED clientVars => ClientTypeOK'
      /\ UNCHANGED outVars => OutTypeOK'
      /\ UNCHANGED procVars => ProcTypeOK'
      /\ UNCHANGED stdinVars => StdinTypeOK'
  BY <1>0, TypeFrames
<1>2. ASSUME QueueTypeOK', UNCHANGED queueFrame PROVE TypeOK'
  BY <1>1, <1>2 DEF TypeOK
<1>3. ASSUME ClientTypeOK', UNCHANGED clientFrame PROVE TypeOK'
  BY <1>1, <1>3 DEF TypeOK
<1>4. ASSUME OutTypeOK', ProcTypeOK', StdinTypeOK', UNCHANGED procFrame PROVE TypeOK'
  BY <1>1, <1>4 DEF TypeOK
<1>5. ASSUME Grant PROVE TypeOK'
  BY <1>0, <1>2, <1>5, GrantBudgetType DEF Grant
<1>6. ASSUME Take PROVE TypeOK'
  BY <1>0, <1>2, <1>6, PopType DEF Take
<1>7. ASSUME DropResponse PROVE TypeOK'
  BY <1>0, <1>2, <1>7, CloseRxType DEF DropResponse
<1>8. ASSUME ClientSends PROVE TypeOK'
  <2>1. inbox' \in Seq(Message)
    BY <1>0, <1>8, AppendDomain DEF ClientSends, ClientTypeOK
  <2>2. ClientTypeOK'
    BY <1>0, <1>8, <2>1, BoundsAssumption DEF ClientSends, ClientTypeOK
  <2> QED
    BY <1>3, <1>8, <2>2 DEF ClientSends
<1>9. ASSUME ClientEnds PROVE TypeOK'
  <2>1. ClientTypeOK'
    BY <1>0, <1>9 DEF ClientEnds, ClientTypeOK
  <2> QED
    BY <1>3, <1>9, <2>1 DEF ClientEnds
<1>10. ASSUME ClientLeaves PROVE TypeOK'
  <2>1. inbox' \in Seq(Message) /\ gone' \in BOOLEAN /\ msgs' \in 0..MaxMsgs
    BY <1>0, <1>10, EmptySeq DEF ClientLeaves, ClientTypeOK
  <2>2. inEnd' \in {"open", "end", "error"}
    BY <1>0, <1>10 DEF ClientLeaves, ClientTypeOK
  <2> QED
    BY <1>3, <1>10, <2>1, <2>2 DEF ClientLeaves, ClientTypeOK
<1>11. ASSUME NEW s \in Stream, ProcWrites(s) PROVE TypeOK'
  <2>1. wrote' \in [Stream -> Nat] /\ bad' \in [Stream -> Nat] /\ writer' \in SUBSET Stream
    <3>1. wrote[s] + 1 \in Nat
      BY <1>0 DEF OutTypeOK
    <3>2. bad' = bad \/ bad' = [bad EXCEPT ![s] = wrote[s] + 1]
      BY <1>11 DEF ProcWrites
    <3>3. wrote' = [wrote EXCEPT ![s] = wrote[s] + 1] /\ writer' = writer
      BY <1>11 DEF ProcWrites
    <3> QED
      BY <1>0, <3>1, <3>2, <3>3 DEF OutTypeOK
  <2> QED
    BY <1>1, <1>4, <1>11, <2>1 DEF ProcWrites, OutTypeOK
<1>12. ASSUME NEW s \in Stream, ProcCloses(s) PROVE TypeOK'
  <2>1. OutTypeOK'
    BY <1>0, <1>12 DEF ProcCloses, OutTypeOK
  <2> QED
    BY <1>1, <1>4, <1>12, <2>1 DEF ProcCloses
<1>13. ASSUME ProcReadsStdin PROVE TypeOK'
  <2>1. StdinTypeOK'
    BY <1>0, <1>13, BoundsAssumption DEF ProcReadsStdin, StdinTypeOK
  <2> QED
    BY <1>1, <1>4, <1>13, <2>1 DEF ProcReadsStdin, outVars, procVars, stdinVars
<1>14. ASSUME ProcClosesStdin PROVE TypeOK'
  <2>1. stdinBuf' \in 0..PipeCap
    BY <1>14, BoundsAssumption DEF ProcClosesStdin
  <2>2. StdinTypeOK'
    BY <1>0, <1>14, <2>1 DEF ProcClosesStdin, StdinTypeOK
  <2> QED
    BY <1>1, <1>4, <1>14, <2>2 DEF ProcClosesStdin, outVars, procVars, stdinVars
<1>15. ASSUME ProcForks PROVE TypeOK'
  <2>1. ProcTypeOK'
    BY <1>0, <1>15 DEF ProcForks, ProcTypeOK
  <2> QED
    BY <1>1, <1>4, <1>15, <2>1 DEF ProcForks
<1>16. ASSUME NEW last \in BOOLEAN, ClosePipes(last) PROVE OutTypeOK' /\ StdinTypeOK'
  <2>1. CASE last
    <3>1. OutTypeOK'
      BY <1>0, <1>16, <2>1 DEF ClosePipes, OutTypeOK
    <3>2. stdinBuf' \in 0..PipeCap
      BY <1>16, <2>1, BoundsAssumption DEF ClosePipes
    <3>3. StdinTypeOK'
      BY <1>0, <1>16, <2>1, <3>2 DEF ClosePipes, StdinTypeOK
    <3> QED
      BY <3>1, <3>3
  <2>2. CASE ~last
    BY <1>1, <1>16, <2>2 DEF ClosePipes
  <2> QED
    BY <2>1, <2>2
<1>17. ASSUME NEW c \in Codes, ChildEnds(c) PROVE TypeOK'
  <2>1. ProcTypeOK' /\ ClosePipes(~heir)
    BY <1>0, <1>17 DEF ChildEnds, ProcTypeOK
  <2>2. OutTypeOK' /\ StdinTypeOK'
    BY <1>16, <2>1
  <2> QED
    BY <1>4, <1>17, <2>1, <2>2 DEF ChildEnds
<1>18. ASSUME HeirEnds PROVE TypeOK'
  <2>1. ProcTypeOK' /\ ClosePipes(child # "running")
    BY <1>0, <1>18 DEF HeirEnds, ProcTypeOK
  <2>2. OutTypeOK' /\ StdinTypeOK'
    BY <1>16, <2>1
  <2> QED
    BY <1>4, <1>18, <2>1, <2>2 DEF HeirEnds
<1>19. ASSUME UNCHANGED vars PROVE TypeOK'
  BY <1>1, <1>19 DEF vars, TypeOK
<1> QED
  BY <1>5, <1>6, <1>7, <1>8, <1>9, <1>10, <1>11, <1>12, <1>13, <1>14, <1>15, <1>17, <1>18, <1>19
  DEF Client, Processes

LEMMA TypeStep ==
    ASSUME IInv, [Next]_vars
    PROVE  TypeOK'
<1>1. CASE Handler \/ \E a \in HookAnswer : HookReturns(a)
  BY <1>1, HandlerTypeStep
<1>2. CASE \E s \in Stream : Pump(s)
  BY <1>2, PumpTypeStep
<1>3. CASE Grant \/ Take \/ DropResponse \/ Client \/ Processes \/ UNCHANGED vars
  BY <1>3, EnvironmentTypeStep
<1> QED
  BY <1>1, <1>2, <1>3 DEF Next, Terminated

-----------------------------------------------------------------------------
(* Senders: a task waits in one send at a time, at the await that made it. *)

\* Old waiters whose task has not moved still are where SendersWait says.
LEMMA WaitersStay ==
    ASSUME SendersWait, NEW T,
           \A j \in DOMAIN budgetWait' : \E k \in DOMAIN budgetWait :
                /\ budgetWait'[j].from = budgetWait[k].from
                /\ budgetWait'[j].item = budgetWait[k].item
                /\ budgetWait[k].from \notin T,
           \A j \in DOMAIN slotWait' :
                \/ \E k \in DOMAIN slotWait :
                    /\ slotWait'[j].from = slotWait[k].from
                    /\ slotWait'[j].item = slotWait[k].item
                    /\ slotWait[k].from \notin T
                \/ \E k \in DOMAIN budgetWait :
                    /\ slotWait'[j].from = budgetWait[k].from
                    /\ slotWait'[j].item = budgetWait[k].item
                    /\ budgetWait[k].from \notin T,
           \A t \in Stream \ T :
                pump'[t] = pump[t] /\ sent'[t] = sent[t] /\ flushed'[t] = flushed[t],
           "handler" \notin T => hpc' = hpc /\ verdict' = verdict
    PROVE  SendersWait'
<1>1. ASSUME NEW j \in DOMAIN budgetWait'
      PROVE  (Sending(budgetWait[j]) /\ budgetWait[j].from \in Stream)'
  <2>1. PICK k \in DOMAIN budgetWait :
            /\ budgetWait'[j].from = budgetWait[k].from
            /\ budgetWait'[j].item = budgetWait[k].item
            /\ budgetWait[k].from \notin T
    OBVIOUS
  <2>2. Sending(budgetWait[k]) /\ budgetWait[k].from \in Stream
    BY DEF SendersWait
  <2> QED
    BY <2>1, <2>2 DEF Sending
<1>2. ASSUME NEW j \in DOMAIN slotWait'
      PROVE  Sending(slotWait[j])'
  <2>1. ASSUME NEW k \in DOMAIN slotWait,
               slotWait'[j].from = slotWait[k].from, slotWait'[j].item = slotWait[k].item,
               slotWait[k].from \notin T
        PROVE  Sending(slotWait[j])'
    <3>1. Sending(slotWait[k])
      BY DEF SendersWait
    <3> QED
      BY <2>1, <3>1 DEF Sending
  <2>2. ASSUME NEW k \in DOMAIN budgetWait,
               slotWait'[j].from = budgetWait[k].from, slotWait'[j].item = budgetWait[k].item,
               budgetWait[k].from \notin T
        PROVE  Sending(slotWait[j])'
    <3>1. Sending(budgetWait[k])
      BY DEF SendersWait
    <3> QED
      BY <2>2, <3>1 DEF Sending
  <2> QED
    BY <2>1, <2>2
<1> QED
  BY <1>1, <1>2 DEF SendersWait

\* A step of tasks that are in no send, none of which it begins.
LEMMA NobodyMoves ==
    ASSUME OneSend, SendersWait, UNCHANGED <<budgetWait, slotWait>>, NEW T,
           \A k \in DOMAIN budgetWait : budgetWait[k].from \notin T,
           \A k \in DOMAIN slotWait : slotWait[k].from \notin T,
           \A t \in Stream \ T :
                pump'[t] = pump[t] /\ sent'[t] = sent[t] /\ flushed'[t] = flushed[t],
           "handler" \notin T => hpc' = hpc /\ verdict' = verdict
    PROVE  OneSend' /\ SendersWait'
<1>1. OneSend'
  BY DEF OneSend
<1>2. /\ \A j \in DOMAIN budgetWait' : \E k \in DOMAIN budgetWait :
            /\ budgetWait'[j].from = budgetWait[k].from
            /\ budgetWait'[j].item = budgetWait[k].item
            /\ budgetWait[k].from \notin T
      /\ \A j \in DOMAIN slotWait' : \E k \in DOMAIN slotWait :
            /\ slotWait'[j].from = slotWait[k].from
            /\ slotWait'[j].item = slotWait[k].item
            /\ slotWait[k].from \notin T
  OBVIOUS
<1> QED
  BY <1>1, <1>2, WaitersStay

LEMMA HandlerSendStep ==
    ASSUME IInv, Handler \/ \E a \in HookAnswer : HookReturns(a)
    PROVE  OneSend' /\ SendersWait'
<1> USE DEF eventVars, queueVars, pumpVars
<1>0. /\ TypeOK /\ QueueTypeOK /\ OneSend /\ SendersWait /\ HandlerInPlace
      /\ \A s \in Stream : PacketsInPlace(s)
  BY TypeParts DEF IInv
<1>1. ASSUME hpc # "done" 
      PROVE  /\ \A k \in DOMAIN budgetWait : budgetWait[k].from # "handler"
             /\ \A k \in DOMAIN slotWait : slotWait[k].from # "handler"
  BY <1>0, <1>1, HandlerNotSending DEF InSend
\* Most steps of the handler begin no send.
<1>2. ASSUME hpc # "done", UNCHANGED <<budgetWait, slotWait, pump, sent, flushed>>
      PROVE  OneSend' /\ SendersWait'
  <2> DEFINE T == {"handler"}
  <2>1. /\ \A k \in DOMAIN budgetWait : budgetWait[k].from \notin T
        /\ \A k \in DOMAIN slotWait : slotWait[k].from \notin T
    BY <1>1, <1>2
  <2> QED
    BY <1>0, <1>2, <2>1, NobodyMoves
<1>3. ASSUME NEW o \in Outcome, NEW c \in Codes, Conclude(o, c), hpc # "done",
             UNCHANGED <<pump, sent, flushed>>
      PROVE  OneSend' /\ SendersWait'
  BY <1>0, <1>3, Concludes
<1>4. /\ Killed \in Codes /\ code \in Codes /\ "error" \in Outcome /\ "denied" \in Outcome
      /\ "cancelled" \in Outcome /\ "userReply" \in Outcome /\ "executed" \in Outcome
  BY <1>0 DEF Codes, Outcome, TypeOK, ProcTypeOK
\* Before the command runs nobody is in a send.
<1>5. ASSUME Launch, hpc \in {"recv", "hook"}, UNCHANGED launchFrame
      PROVE  OneSend' /\ SendersWait'
  <2>1. UNCHANGED <<sent, flushed>>
    BY <1>5 DEF launchFrame
  <2>2. CASE UNCHANGED eventVars
    <3> DEFINE T == Stream \union {"handler"}
    <3>1. \A s \in Stream : pump[s] = "off"
      BY <1>0, <1>5 DEF HandlerInPlace, PacketsInPlace
    <3>2. DOMAIN budgetWait = {} /\ DOMAIN slotWait = {}
      BY <1>0, <1>5, <3>1 DEF SendersWait, Sending
    <3>3. /\ \A k \in DOMAIN budgetWait : budgetWait[k].from \notin T
          /\ \A k \in DOMAIN slotWait : slotWait[k].from \notin T
      BY <3>2
    <3> QED
      BY <1>0, <2>2, <3>3, NobodyMoves
  <2>3. CASE Conclude("error", Killed) /\ pump' = pump
    BY <1>3, <1>4, <1>5, <2>1, <2>3
  <2> QED
    BY <1>5, <2>2, <2>3 DEF Launch
<1>6. ASSUME RejectFirst PROVE OneSend' /\ SendersWait'
  BY <1>3, <1>4, <1>6 DEF RejectFirst
<1>7. ASSUME ReceiveStart PROVE OneSend' /\ SendersWait'
  <2>1. UNCHANGED launchFrame /\ hpc = "recv"
    BY <1>7 DEF ReceiveStart
  <2>2. UNCHANGED <<sent, flushed>>
    BY <2>1 DEF launchFrame
  <2>3. CASE Launch
    BY <1>5, <2>1, <2>3
  <2>4. CASE UNCHANGED <<eventVars, pump>>
    BY <1>2, <2>1, <2>2, <2>4
  <2>5. ASSUME NEW g \in Outcome, Conclude(g, Killed), UNCHANGED pump
        PROVE  OneSend' /\ SendersWait'
    BY <1>3, <1>4, <2>1, <2>2, <2>5
  <2> QED
    BY <1>7, <2>3, <2>4, <2>5 DEF ReceiveStart
<1>8. ASSUME NEW a \in HookAnswer, HookReturns(a) PROVE OneSend' /\ SendersWait'
  <2>1. UNCHANGED launchFrame /\ hpc = "hook"
    BY <1>8 DEF HookReturns
  <2>2. UNCHANGED <<sent, flushed>>
    BY <2>1 DEF launchFrame
  <2>3. CASE Launch
    BY <1>5, <2>1, <2>3
  <2>4. ASSUME NEW g \in Outcome, Conclude(g, Killed), UNCHANGED pump
        PROVE  OneSend' /\ SendersWait'
    BY <1>3, <1>4, <2>1, <2>2, <2>4
  <2> QED
    BY <1>8, <2>3, <2>4 DEF HookReturns
<1>9. ASSUME WaitReturns \/ \E s \in Stream : PumpJoined(s) \/ PumpBroken(s)
      PROVE  OneSend' /\ SendersWait'
  BY <1>2, <1>9 DEF WaitReturns, PumpJoined, PumpBroken, Kill
<1>10. ASSUME WaitFails PROVE OneSend' /\ SendersWait'
  BY <1>3, <1>4, <1>10 DEF WaitFails
<1>11. ASSUME Inbound PROVE OneSend' /\ SendersWait'
  BY <1>2, <1>11 DEF Inbound, Kill
<1>12. ASSUME WriteStdin PROVE OneSend' /\ SendersWait'
  BY <1>2, <1>12 DEF WriteStdin, Kill
<1>13. ASSUME KillReturns PROVE OneSend' /\ SendersWait'
  BY <1>3, <1>4, <1>13 DEF KillReturns
<1>14. ASSUME JoinReturns PROVE OneSend' /\ SendersWait'
  BY <1>3, <1>4, <1>14 DEF JoinReturns
<1>15. ASSUME DoneReturns PROVE OneSend' /\ SendersWait'
  <2>1. PICK i \in DOMAIN slotWait : slotWait[i].from = "handler" /\ (Push(i) \/ FailSend(i))
    BY <1>15 DEF DoneReturns
  <2>2. slotWait' = RemoveAt(slotWait, i) /\ budgetWait' = budgetWait
    BY <2>1 DEF Push, FailSend, DropSend
  <2>3. /\ OneSend'
        /\ \A j \in DOMAIN slotWait' :
            /\ slotWait'[j].from # "handler"
            /\ \E k \in DOMAIN slotWait : slotWait'[j] = slotWait[k]
        /\ \A j \in DOMAIN budgetWait' : budgetWait'[j].from # "handler"
    BY <1>0, <2>1, <2>2, LeavesSlotWait
  <2>4. UNCHANGED <<pump, sent, flushed>>
    BY <1>15 DEF DoneReturns
  <2> DEFINE T == {"handler"}
  <2>5. \A j \in DOMAIN budgetWait' : \E k \in DOMAIN budgetWait :
            /\ budgetWait'[j].from = budgetWait[k].from
            /\ budgetWait'[j].item = budgetWait[k].item
            /\ budgetWait[k].from \notin T
    BY <2>2, <2>3
  <2>6. \A j \in DOMAIN slotWait' : \E k \in DOMAIN slotWait :
            /\ slotWait'[j].from = slotWait[k].from
            /\ slotWait'[j].item = slotWait[k].item
            /\ slotWait[k].from \notin T
    BY <2>3
  <2>7. SendersWait'
    BY <1>0, <2>4, <2>5, <2>6, WaitersStay
  <2> QED
    BY <2>3, <2>7
<1> QED
  BY <1>6, <1>7, <1>8, <1>9, <1>10, <1>11, <1>12, <1>13, <1>14, <1>15 DEF Handler

LEMMA PumpSendStep ==
    ASSUME IInv, NEW s \in Stream, Pump(s)
    PROVE  OneSend' /\ SendersWait'
<1> USE DEF eventVars, queueVars, pumpFrame, handlerVars
<1>0. /\ TypeOK /\ QueueTypeOK /\ PumpTypeOK /\ OutTypeOK /\ OneSend /\ SendersWait
      /\ PacketsInPlace(s) /\ s # "handler" /\ s \in Sender
  BY TypeParts, SenderAssumption DEF IInv, Stream
<1> DEFINE T == {s}
\* Reading and holding back happen outside every send.
<1>1. ASSUME UNCHANGED <<budgetWait, slotWait, hpc, verdict>>, pump[s] \notin {"send", "last"},
             \A t \in Stream \ {s} :
                pump'[t] = pump[t] /\ sent'[t] = sent[t] /\ flushed'[t] = flushed[t]
      PROVE  OneSend' /\ SendersWait'
  <2>1. /\ \A k \in DOMAIN budgetWait : budgetWait[k].from \notin T
        /\ \A k \in DOMAIN slotWait : slotWait[k].from \notin T
    BY <1>0, <1>1 DEF SendersWait, Sending
  <2> QED
    BY <1>0, <1>1, <2>1, NobodyMoves
<1>2. ASSUME NEW k \in 1..PipeCap, PumpReads(s, k) PROVE OneSend' /\ SendersWait'
  BY <1>0, <1>1, <1>2 DEF PumpReads, FlushTo, PumpTypeOK
<1>3. ASSUME PumpReadFails(s) PROVE OneSend' /\ SendersWait'
  BY <1>0, <1>1, <1>3 DEF PumpReadFails, PumpTypeOK
<1>4. ASSUME HoldExpires(s) PROVE OneSend' /\ SendersWait'
  BY <1>0, <1>1, <1>4 DEF HoldExpires, FlushTo, PumpTypeOK
<1>5. ASSUME PumpEof(s) PROVE OneSend' /\ SendersWait'
  BY <1>0, <1>1, <1>5 DEF PumpEof, PumpTypeOK
<1>6. ASSUME PumpSends(s) PROVE OneSend' /\ SendersWait'
  <2> DEFINE x == Packet(s, sent[s] + 1)
  <2>1. pump[s] \in {"send", "last"} /\ sent[s] < flushed[s]
    BY <1>0, <1>6 DEF PumpSends, PacketsInPlace
  <2>2. x \in Item
    <3>1. sent[s] + 1 \in 1..MaxOut[s]
      BY <1>0, <2>1, BoundsAssumption DEF PumpTypeOK, OutTypeOK, PacketsInPlace
    <3> QED
      BY <3>1, PacketIsItem
  <2>3. 1 \in 1..Cardinality(Permit)
    <3>1. Cardinality(Permit) \in Nat /\ Cardinality(Permit) # 0
      BY BudgetAssumption, PacketAssumption, FS_CardinalityType, FS_EmptySet
    <3> QED
      BY <3>1
  <2>4. ~InSend(s) /\ SendMetered(s, x, 1) /\ UNCHANGED <<pump, flushed, sent, hpc, verdict>>
    BY <1>6 DEF PumpSends
  <2>5. slotWait' = slotWait
    BY <2>4 DEF SendMetered
  <2> HIDE DEF x
  <2>6. /\ OneSend'
        /\ \A j \in DOMAIN budgetWait' :
            \/ \E k \in DOMAIN budgetWait : budgetWait'[j] = budgetWait[k]
            \/ budgetWait'[j].from = s /\ budgetWait'[j].item = x
    BY <1>0, <2>2, <2>3, <2>4, JoinsWaiters
  <2>7. ASSUME NEW j \in DOMAIN budgetWait'
        PROVE  (Sending(budgetWait[j]) /\ budgetWait[j].from \in Stream)'
    <3>1. CASE \E k \in DOMAIN budgetWait : budgetWait'[j] = budgetWait[k]
      <4>1. PICK k \in DOMAIN budgetWait : budgetWait'[j] = budgetWait[k]
        BY <3>1
      <4>2. Sending(budgetWait[k]) /\ budgetWait[k].from \in Stream
        BY <1>0 DEF SendersWait
      <4> QED
        BY <2>4, <4>1, <4>2 DEF Sending
    <3>2. CASE budgetWait'[j].from = s /\ budgetWait'[j].item = x
      BY <2>1, <2>4, <3>2 DEF Sending, x
    <3> QED
      BY <2>6, <3>1, <3>2
  <2>8. ASSUME NEW j \in DOMAIN slotWait' PROVE Sending(slotWait[j])'
    <3>1. j \in DOMAIN slotWait /\ slotWait'[j] = slotWait[j]
      BY <2>5
    <3>2. Sending(slotWait[j])
      BY <1>0, <3>1 DEF SendersWait
    <3> QED
      BY <2>4, <3>1, <3>2 DEF Sending
  <2> QED
    BY <2>6, <2>7, <2>8 DEF SendersWait
\* A send of s that ends takes its waiter with it.
<1>7. ASSUME OneSend', UNCHANGED <<hpc, verdict>>,
             \A t \in Stream \ {s} :
                pump'[t] = pump[t] /\ sent'[t] = sent[t] /\ flushed'[t] = flushed[t],
             \A j \in DOMAIN slotWait' :
                slotWait'[j].from # s /\ \E k \in DOMAIN slotWait : slotWait'[j] = slotWait[k],
             \A j \in DOMAIN budgetWait' :
                budgetWait'[j].from # s /\ \E k \in DOMAIN budgetWait : budgetWait'[j] = budgetWait[k]
      PROVE  SendersWait'
  <2>1. \A j \in DOMAIN budgetWait' : \E k \in DOMAIN budgetWait :
            /\ budgetWait'[j].from = budgetWait[k].from
            /\ budgetWait'[j].item = budgetWait[k].item
            /\ budgetWait[k].from \notin T
    BY <1>7
  <2>2. \A j \in DOMAIN slotWait' : \E k \in DOMAIN slotWait :
            /\ slotWait'[j].from = slotWait[k].from
            /\ slotWait'[j].item = slotWait[k].item
            /\ slotWait[k].from \notin T
    BY <1>7
  <2>3. \A t \in Stream \ T :
            pump'[t] = pump[t] /\ sent'[t] = sent[t] /\ flushed'[t] = flushed[t]
    BY <1>7
  <2>4. hpc' = hpc /\ verdict' = verdict
    BY <1>7
  <2> HIDE DEF T
  <2> QED
    BY <1>0, <2>1, <2>2, <2>3, <2>4, WaitersStay
<1>8. ASSUME NEW i \in DOMAIN slotWait, slotWait[i].from = s, UNCHANGED <<hpc, verdict>>,
             slotWait' = RemoveAt(slotWait, i), budgetWait' = budgetWait,
             \A t \in Stream \ {s} :
                pump'[t] = pump[t] /\ sent'[t] = sent[t] /\ flushed'[t] = flushed[t]
      PROVE  OneSend' /\ SendersWait'
  <2>1. /\ OneSend'
        /\ \A j \in DOMAIN slotWait' :
            slotWait'[j].from # s /\ \E k \in DOMAIN slotWait : slotWait'[j] = slotWait[k]
        /\ \A j \in DOMAIN budgetWait' : budgetWait'[j].from # s
    BY <1>0, <1>8, LeavesSlotWait
  <2>2. \A j \in DOMAIN budgetWait' :
            budgetWait'[j].from # s /\ \E k \in DOMAIN budgetWait : budgetWait'[j] = budgetWait[k]
    BY <1>8, <2>1
  <2> QED
    BY <1>7, <1>8, <2>1, <2>2
<1>9. ASSUME PumpSendReturns(s) PROVE OneSend' /\ SendersWait'
  <2>1. PICK i \in DOMAIN slotWait : slotWait[i].from = s /\ (Push(i) \/ FailSend(i))
    BY <1>9 DEF PumpSendReturns
  <2>2. slotWait' = RemoveAt(slotWait, i) /\ budgetWait' = budgetWait
    BY <2>1 DEF Push, FailSend, DropSend
  <2>3. UNCHANGED <<flushed, hpc, verdict>>
    BY <1>9 DEF PumpSendReturns
  <2>4. \A t \in Stream \ {s} : pump'[t] = pump[t] /\ sent'[t] = sent[t]
    BY <1>0, <1>9 DEF PumpSendReturns, PumpTypeOK
  <2> QED
    BY <1>8, <2>1, <2>2, <2>3, <2>4
<1>10. ASSUME PumpAborted(s) PROVE OneSend' /\ SendersWait'
  <2>1. UNCHANGED <<flushed, sent, hpc, verdict>>
    BY <1>10 DEF PumpAborted
  <2>2. \A t \in Stream \ {s} : pump'[t] = pump[t]
    BY <1>0, <1>10 DEF PumpAborted, PumpTypeOK
  <2>3. CASE ~InSend(s) /\ UNCHANGED queueVars
    <3>1. /\ \A k \in DOMAIN budgetWait : budgetWait[k].from \notin T
          /\ \A k \in DOMAIN slotWait : slotWait[k].from \notin T
      BY <2>3 DEF InSend
    <3>2. \A t \in Stream \ T :
            pump'[t] = pump[t] /\ sent'[t] = sent[t] /\ flushed'[t] = flushed[t]
      BY <2>1, <2>2
    <3> HIDE DEF T
    <3> QED
      BY <1>0, <2>1, <2>3, <3>1, <3>2, NobodyMoves
  <2>4. ASSUME NEW i \in DOMAIN budgetWait, budgetWait[i].from = s,
               budgetWait' = RemoveAt(budgetWait, i), slotWait' = slotWait
        PROVE  OneSend' /\ SendersWait'
    <3>1. /\ OneSend'
          /\ \A j \in DOMAIN budgetWait' :
              budgetWait'[j].from # s /\ \E k \in DOMAIN budgetWait : budgetWait'[j] = budgetWait[k]
          /\ \A j \in DOMAIN slotWait' : slotWait'[j].from # s
      BY <1>0, <2>4, LeavesBudgetWait
    <3>2. \A j \in DOMAIN slotWait' :
              slotWait'[j].from # s /\ \E k \in DOMAIN slotWait : slotWait'[j] = slotWait[k]
      BY <2>4, <3>1
    <3> QED
      BY <1>7, <2>1, <2>2, <3>1, <3>2
  <2>5. ASSUME NEW i \in DOMAIN slotWait, slotWait[i].from = s, DropSend(i)
        PROVE  OneSend' /\ SendersWait'
    BY <1>8, <2>1, <2>2, <2>5 DEF DropSend
  <2> QED
    BY <1>10, <2>3, <2>4, <2>5 DEF PumpAborted, AbortSend
<1> QED
  BY <1>2, <1>3, <1>4, <1>5, <1>6, <1>9, <1>10 DEF Pump

LEMMA EnvironmentSendStep ==
    ASSUME IInv,
           \/ Grant \/ Take \/ DropResponse
           \/ Client \/ Processes
           \/ UNCHANGED vars
    PROVE  OneSend' /\ SendersWait'
<1>0. TypeOK /\ QueueTypeOK /\ OneSend /\ SendersWait
  BY TypeParts
<1> DEFINE T == {}
<1>1. ASSUME UNCHANGED <<budgetWait, slotWait, pump, sent, flushed, hpc, verdict>>
      PROVE  OneSend' /\ SendersWait'
  <2>1. /\ \A k \in DOMAIN budgetWait : budgetWait[k].from \notin T
        /\ \A k \in DOMAIN slotWait : slotWait[k].from \notin T
    OBVIOUS
  <2> HIDE DEF T
  <2> QED
    BY <1>0, <1>1, <2>1, NobodyMoves
<1>2. CASE Take \/ DropResponse
  BY <1>1, <1>2 DEF Take, DropResponse, Pop, CloseRx, queueFrame, pumpVars, handlerVars
<1>3. CASE Client
  BY <1>1, <1>3 DEF Client, ClientSends, ClientEnds, ClientLeaves, clientFrame,
                    eventVars, queueVars, pumpVars, handlerVars
<1>4. CASE Processes
  <2>1. UNCHANGED procFrame
    BY <1>4 DEF Processes, ProcWrites, ProcCloses, ProcReadsStdin, ProcClosesStdin, ProcForks,
                ChildEnds, HeirEnds
  <2> QED
    BY <1>1, <2>1 DEF procFrame, eventVars, queueVars, pumpVars, handlerVars
<1>5. CASE UNCHANGED vars
  BY <1>1, <1>5 DEF vars, eventVars, queueVars, pumpVars, handlerVars
<1>6. CASE Grant
  <2>1. PICK S \in SUBSET free : GrantBudget(S) /\ UNCHANGED queueFrame
    BY <1>6 DEF Grant
  <2>2. /\ OneSend'
        /\ \A j \in DOMAIN budgetWait' :
                \E k \in DOMAIN budgetWait : budgetWait'[j] = budgetWait[k]
        /\ \A j \in DOMAIN slotWait' :
                \/ \E k \in DOMAIN slotWait : slotWait'[j] = slotWait[k]
                \/ \E k \in DOMAIN budgetWait :
                     /\ slotWait'[j].from = budgetWait[k].from
                     /\ slotWait'[j].item = budgetWait[k].item
    BY <1>0, <2>1, MovesToSlotWait
  <2>3. UNCHANGED <<pump, sent, flushed, hpc, verdict>>
    BY <2>1 DEF queueFrame, pumpVars, handlerVars
  <2>4. \A j \in DOMAIN budgetWait' : \E k \in DOMAIN budgetWait :
            /\ budgetWait'[j].from = budgetWait[k].from
            /\ budgetWait'[j].item = budgetWait[k].item
            /\ budgetWait[k].from \notin T
    BY <2>2
  <2>5. \A j \in DOMAIN slotWait' :
            \/ \E k \in DOMAIN slotWait :
                /\ slotWait'[j].from = slotWait[k].from
                /\ slotWait'[j].item = slotWait[k].item
                /\ slotWait[k].from \notin T
            \/ \E k \in DOMAIN budgetWait :
                /\ slotWait'[j].from = budgetWait[k].from
                /\ slotWait'[j].item = budgetWait[k].item
                /\ budgetWait[k].from \notin T
    BY <2>2
  <2> HIDE DEF T
  <2>6. SendersWait'
    BY <1>0, <2>3, <2>4, <2>5, WaitersStay
  <2> QED
    BY <2>2, <2>6
<1> QED
  BY <1>2, <1>3, <1>4, <1>5, <1>6

LEMMA SendStep ==
    ASSUME IInv, [Next]_vars
    PROVE  OneSend' /\ SendersWait'
<1>1. CASE Handler \/ \E a \in HookAnswer : HookReturns(a)
  BY <1>1, HandlerSendStep
<1>2. CASE \E s \in Stream : Pump(s)
  BY <1>2, PumpSendStep
<1>3. CASE Grant \/ Take \/ DropResponse \/ Client \/ Processes \/ UNCHANGED vars
  BY <1>3, EnvironmentSendStep
<1> QED
  BY <1>1, <1>2, <1>3 DEF Next, Terminated

-----------------------------------------------------------------------------
(* Packets: written, taken, flushed, sent, in this order.                  *)

\* What nobody touches stays in place; a write end may be closed meanwhile.
LEMMA PacketsStay ==
    ASSUME NEW t \in Stream, PacketsInPlace(t),
           wrote'[t] = wrote[t], taken'[t] = taken[t], flushed'[t] = flushed[t],
           sent'[t] = sent[t], bad'[t] = bad[t], pump'[t] = pump[t],
           t \in writer' => t \in writer,
           child' = "none" <=> child = "none"
    PROVE  PacketsInPlace(t)'
  BY DEF PacketsInPlace

LEMMA HandlerPacketStep ==
    ASSUME IInv, Handler \/ \E a \in HookAnswer : HookReturns(a), NEW t \in Stream
    PROVE  PacketsInPlace(t)'
<1>0. TypeOK /\ HandlerInPlace /\ PacketsInPlace(t)
  BY TypeParts DEF IInv
<1>1. ASSUME UNCHANGED <<wrote, taken, flushed, sent, bad, pump, writer>>,
             child' = "none" <=> child = "none"
      PROVE  PacketsInPlace(t)'
  BY <1>0, <1>1, PacketsStay
<1>2. ASSUME Launch, hpc \in {"recv", "hook"}, UNCHANGED launchFrame
      PROVE  PacketsInPlace(t)'
  <2>1. UNCHANGED <<wrote, taken, flushed, sent, bad>>
    BY <1>2 DEF launchFrame
  <2>2. CASE pump' = [s \in Stream |-> "read"] /\ child' = "running"
    <3>1. pump[t] = "off" /\ pump'[t] = "read"
      BY <1>0, <1>2, <2>2 DEF HandlerInPlace, PacketsInPlace
    <3> QED
      BY <1>0, <2>1, <2>2, <3>1 DEF PacketsInPlace
  <2>3. CASE UNCHANGED <<child, pump, task, writer, stdinW, stdinR>>
    BY <1>1, <2>1, <2>3
  <2> QED
    BY <1>2, <2>2, <2>3 DEF Launch
<1>3. ASSUME RejectFirst \/ WaitFails \/ \E s \in Stream : PumpJoined(s) \/ PumpBroken(s)
      PROVE  PacketsInPlace(t)'
  BY <1>1, <1>3 DEF RejectFirst, WaitFails, PumpJoined, PumpBroken, Kill,
                    pumpVars, outVars, procVars
<1>4. ASSUME Inbound \/ WriteStdin PROVE PacketsInPlace(t)'
  BY <1>1, <1>4 DEF Inbound, WriteStdin, Kill, pumpVars, outVars, procVars
<1>5. ASSUME WaitReturns \/ KillReturns \/ JoinReturns \/ DoneReturns PROVE PacketsInPlace(t)'
  BY <1>1, <1>5 DEF WaitReturns, KillReturns, JoinReturns, DoneReturns,
                    pumpVars, outVars, procVars
<1>6. ASSUME ReceiveStart \/ \E a \in HookAnswer : HookReturns(a) PROVE PacketsInPlace(t)'
  <2>1. UNCHANGED launchFrame /\ hpc \in {"recv", "hook"}
    BY <1>6 DEF ReceiveStart, HookReturns
  <2>2. UNCHANGED <<wrote, taken, flushed, sent, bad>>
    BY <2>1 DEF launchFrame
  <2>3. Launch \/ UNCHANGED <<child, pump, writer>>
    BY <1>6 DEF ReceiveStart, HookReturns
  <2> QED
    BY <1>1, <1>2, <2>1, <2>2, <2>3
<1> QED
  BY <1>3, <1>4, <1>5, <1>6 DEF Handler

LEMMA PumpPacketStep ==
    ASSUME IInv, NEW s \in Stream, Pump(s), NEW t \in Stream
    PROVE  PacketsInPlace(t)'
<1>0. TypeOK /\ PumpTypeOK /\ OutTypeOK /\ PacketsInPlace(s) /\ PacketsInPlace(t)
  BY TypeParts DEF IInv
<1> USE DEF pumpFrame
<1>1. UNCHANGED <<wrote, bad, writer, child>>
  BY DEF Pump, PumpReads, PumpReadFails, HoldExpires, PumpEof, PumpSends, PumpSendReturns,
         PumpAborted, outVars, procVars
\* Only the packets of s move.
<1>2. CASE t # s
  <2>1. /\ pump'[t] = pump[t] /\ taken'[t] = taken[t]
        /\ flushed'[t] = flushed[t] /\ sent'[t] = sent[t]
    BY <1>0, <1>2 DEF Pump, PumpReads, PumpReadFails, HoldExpires, PumpEof, PumpSends,
                      PumpSendReturns, PumpAborted, FlushTo, PumpTypeOK
  <2> QED
    BY <1>0, <1>1, <2>1, PacketsStay
<1>3. /\ wrote[s] \in Nat /\ bad[s] \in Nat /\ taken[s] \in Nat
      /\ flushed[s] \in Nat /\ sent[s] \in Nat
  BY <1>0 DEF PumpTypeOK, OutTypeOK
<1>4. pump[s] # "off" => child # "none"
  BY <1>0 DEF PacketsInPlace
<1>5. ASSUME NEW k \in 1..PipeCap, PumpReads(s, k) PROVE PacketsInPlace(s)'
  <2> DEFINE n == taken[s] + k
  <2>1. /\ pump[s] = "read" /\ n \in Nat /\ taken[s] <= n /\ n <= wrote[s] 
        /\ taken'[s] = n /\ sent'[s] = sent[s]
    BY <1>0, <1>3, <1>5, BoundsAssumption DEF PumpReads, PumpTypeOK
  <2> HIDE DEF n
  <2>2. ASSUME NEW f \in flushed[s]..Whole(s, n), FlushTo(s, f) PROVE PacketsInPlace(s)'
    <3>1. /\ flushed'[s] = f /\ f \in Nat /\ flushed[s] <= f /\ f <= n
          /\ bad[s] > 0 => f < bad[s]
      BY <1>0, <1>3, <2>1, <2>2 DEF FlushTo, Whole, PumpTypeOK, PacketsInPlace
    <3>2. /\ f > flushed[s] => pump'[s] = "send"
          /\ ~(f > flushed[s]) => pump'[s] = "read"
      BY <1>0, <2>2 DEF FlushTo, PumpTypeOK
    <3> QED
      BY <1>0, <1>1, <1>3, <1>4, <2>1, <3>1, <3>2 DEF PacketsInPlace
  <2>3. ASSUME pump' = [pump EXCEPT ![s] = "failed"], UNCHANGED flushed PROVE PacketsInPlace(s)'
    <3>1. pump'[s] = "failed"
      BY <1>0, <2>3 DEF PumpTypeOK
    <3> QED
      BY <1>0, <1>1, <1>3, <1>4, <2>1, <2>3, <3>1 DEF PacketsInPlace
  <2> QED
    BY <1>5, <2>2, <2>3 DEF PumpReads, n
<1>6. ASSUME PumpReadFails(s) PROVE PacketsInPlace(s)'
  <2>1. pump'[s] = "failed" /\ UNCHANGED <<taken, flushed, sent>> /\ pump[s] # "off"
    BY <1>0, <1>6 DEF PumpReadFails, PumpTypeOK
  <2> QED
    BY <1>0, <1>1, <1>3, <1>4, <2>1 DEF PacketsInPlace
<1>7. ASSUME HoldExpires(s) PROVE PacketsInPlace(s)'
  <2>1. PICK f \in flushed[s] + 1 .. Whole(s, taken[s]) : FlushTo(s, f)
    BY <1>7 DEF HoldExpires
  <2>2. pump[s] # "off" /\ UNCHANGED <<taken, sent>>
    BY <1>7 DEF HoldExpires
  <2>3. /\ flushed'[s] = f /\ f \in Nat /\ flushed[s] < f /\ f <= taken[s]
        /\ bad[s] > 0 => f < bad[s]
        /\ pump'[s] = "send"
    BY <1>0, <1>3, <2>1 DEF FlushTo, Whole, PumpTypeOK, PacketsInPlace
  <2> QED
    BY <1>0, <1>1, <1>3, <1>4, <2>2, <2>3 DEF PacketsInPlace
<1>8. ASSUME PumpEof(s) PROVE PacketsInPlace(s)'
  <2>1. pump[s] = "read" /\ UNCHANGED <<taken, sent>> /\ s \notin writer /\ taken[s] = wrote[s]
    BY <1>8 DEF PumpEof
  <2>2. CASE bad[s] \in 1..taken[s]
    <3>1. pump'[s] = "failed" /\ UNCHANGED flushed
      BY <1>0, <1>8, <2>2 DEF PumpEof, PumpTypeOK
    <3> QED
      BY <1>0, <1>1, <1>3, <1>4, <2>1, <3>1 DEF PacketsInPlace
  <2>3. CASE bad[s] \notin 1..taken[s]
    <3>1. /\ flushed'[s] = taken[s]
          /\ sent[s] = taken[s] => pump'[s] = "ok"
          /\ sent[s] # taken[s] => pump'[s] = "last"
      BY <1>0, <1>8, <2>3 DEF PumpEof, PumpTypeOK
    <3>2. bad[s] = 0
      BY <1>0, <1>3, <2>1, <2>3 DEF PacketsInPlace
    <3> QED
      BY <1>0, <1>1, <1>3, <1>4, <2>1, <3>1, <3>2 DEF PacketsInPlace
  <2> QED
    BY <2>2, <2>3
<1>9. ASSUME PumpSends(s) PROVE PacketsInPlace(s)'
  <2>1. UNCHANGED <<pump, taken, flushed, sent>>
    BY <1>9 DEF PumpSends
  <2> QED
    BY <1>0, <1>1, <2>1, PacketsStay
<1>10. ASSUME PumpSendReturns(s) PROVE PacketsInPlace(s)'
  <2>1. UNCHANGED <<taken, flushed>>
    BY <1>10 DEF PumpSendReturns
  <2>2. pump[s] \in {"send", "last"} /\ sent[s] < flushed[s]
    <3>1. PICK i \in DOMAIN slotWait : slotWait[i].from = s
      BY <1>10 DEF PumpSendReturns
    <3>2. Sending(slotWait[i]) /\ s # "handler"
      BY TypeParts DEF SendersWait, Stream
    <3>3. pump[s] \in {"send", "last"}
      BY <3>1, <3>2 DEF Sending
    <3> QED
      BY <1>0, <3>3 DEF PacketsInPlace
  <2>3. CASE sent' = [sent EXCEPT ![s] = @ + 1]
             /\ pump' = [pump EXCEPT ![s] =
                            IF sent[s] + 1 < flushed[s] THEN @
                            ELSE IF @ = "send" THEN "read" ELSE "ok"]
    <3>1. /\ sent'[s] = sent[s] + 1
          /\ sent[s] + 1 < flushed[s] => pump'[s] = pump[s]
          /\ ~(sent[s] + 1 < flushed[s]) /\ pump[s] = "send" => pump'[s] = "read"
          /\ ~(sent[s] + 1 < flushed[s]) /\ pump[s] = "last" => pump'[s] = "ok"
      BY <1>0, <2>3 DEF PumpTypeOK
    <3> QED
      BY <1>0, <1>1, <1>3, <1>4, <2>1, <2>2, <3>1 DEF PacketsInPlace
  <2>4. CASE pump' = [pump EXCEPT ![s] = "failed"] /\ sent' = sent
    <3>1. pump'[s] = "failed"
      BY <1>0, <2>4 DEF PumpTypeOK
    <3> QED
      BY <1>0, <1>1, <1>3, <1>4, <2>1, <2>2, <2>4, <3>1 DEF PacketsInPlace
  <2> QED
    BY <1>10, <2>3, <2>4 DEF PumpSendReturns
<1>11. ASSUME PumpAborted(s) PROVE PacketsInPlace(s)'
  <2>1. pump'[s] = "aborted" /\ UNCHANGED <<taken, flushed, sent>> /\ pump[s] # "off"
    BY <1>0, <1>11 DEF PumpAborted, PumpTypeOK
  <2> QED
    BY <1>0, <1>1, <1>3, <1>4, <2>1 DEF PacketsInPlace
<1> QED
  BY <1>2, <1>5, <1>6, <1>7, <1>8, <1>9, <1>10, <1>11 DEF Pump

LEMMA EnvironmentPacketStep ==
    ASSUME IInv,
           \/ Grant \/ Take \/ DropResponse
           \/ Client \/ Processes
           \/ UNCHANGED vars,
           NEW t \in Stream
    PROVE  PacketsInPlace(t)'
<1>0. TypeOK /\ PumpTypeOK /\ OutTypeOK /\ PacketsInPlace(t) /\ HandlerInPlace
  BY TypeParts DEF IInv
<1>1. ASSUME UNCHANGED <<wrote, taken, flushed, sent, bad, pump>>, t \in writer' => t \in writer,
             child' = "none" <=> child = "none"
      PROVE  PacketsInPlace(t)'
  BY <1>0, <1>1, PacketsStay
<1>2. CASE Grant \/ Take \/ DropResponse
  BY <1>1, <1>2 DEF Grant, Take, DropResponse, queueFrame, pumpVars, outVars, procVars
<1>3. CASE Client
  BY <1>1, <1>3 DEF Client, ClientSends, ClientEnds, ClientLeaves, clientFrame,
                    pumpVars, outVars, procVars
<1>4. CASE UNCHANGED vars
  BY <1>1, <1>4 DEF vars, pumpVars, outVars, procVars
<1>5. ASSUME NEW s \in Stream, ProcWrites(s) PROVE PacketsInPlace(t)'
  <2>1. UNCHANGED <<taken, flushed, sent, pump, writer, child>>
    BY <1>5 DEF ProcWrites, procFrame, procVars, pumpVars
  <2>2. CASE s # t
    <3>1. wrote'[t] = wrote[t] /\ bad'[t] = bad[t]
      BY <1>0, <1>5, <2>2 DEF ProcWrites, OutTypeOK
    <3> QED
      BY <1>0, <2>1, <3>1, PacketsStay
  <2>3. CASE s = t
    <3>1. /\ wrote[t] \in Nat /\ bad[t] \in Nat /\ taken[t] \in Nat
          /\ flushed[t] \in Nat /\ sent[t] \in Nat /\ MaxOut[t] \in Nat
      BY <1>0, BoundsAssumption DEF PumpTypeOK, OutTypeOK
    <3>2. /\ wrote'[t] = wrote[t] + 1 /\ wrote[t] < MaxOut[t]
          /\ bad'[t] = bad[t] \/ (bad[t] = 0 /\ bad'[t] = wrote[t] + 1)
      BY <1>0, <1>5, <2>3 DEF ProcWrites, OutTypeOK
    <3>3. child # "none" /\ t \in writer
      BY <1>0, <1>5, <2>3 DEF ProcWrites, SomeProcess, HandlerInPlace
    <3> QED
      BY <1>0, <2>1, <3>1, <3>2, <3>3 DEF PacketsInPlace
  <2> QED
    BY <2>2, <2>3
<1>6. ASSUME NEW s \in Stream, ProcCloses(s) PROVE PacketsInPlace(t)'
  BY <1>1, <1>6 DEF ProcCloses, procFrame, procVars, pumpVars
<1>7. ASSUME ProcReadsStdin \/ ProcClosesStdin \/ ProcForks PROVE PacketsInPlace(t)'
  BY <1>1, <1>7 DEF ProcReadsStdin, ProcClosesStdin, ProcForks, procFrame,
                    procVars, pumpVars, outVars
<1>8. ASSUME NEW last, ClosePipes(last), UNCHANGED procFrame, child' = "none" <=> child = "none"
      PROVE  PacketsInPlace(t)'
  BY <1>1, <1>8 DEF ClosePipes, procFrame, pumpVars, outVars
<1>9. ASSUME NEW c \in Codes, ChildEnds(c) PROVE PacketsInPlace(t)'
  BY <1>8, <1>9 DEF ChildEnds
<1>10. ASSUME HeirEnds PROVE PacketsInPlace(t)'
  BY <1>8, <1>10 DEF HeirEnds
<1> QED
  BY <1>2, <1>3, <1>4, <1>5, <1>6, <1>7, <1>9, <1>10 DEF Processes

LEMMA PacketStep ==
    ASSUME IInv, [Next]_vars
    PROVE  \A s \in Stream : PacketsInPlace(s)'
<1>1. CASE Handler \/ \E a \in HookAnswer : HookReturns(a)
  BY <1>1, HandlerPacketStep
<1>2. CASE \E s \in Stream : Pump(s)
  BY <1>2, PumpPacketStep
<1>3. CASE Grant \/ Take \/ DropResponse \/ Client \/ Processes \/ UNCHANGED vars
  BY <1>3, EnvironmentPacketStep
<1> QED
  BY <1>1, <1>2, <1>3 DEF Next, Terminated

-----------------------------------------------------------------------------
(* The handler and its child.                                              *)

LEMMA HandlerPlaceStep ==
    ASSUME IInv, Handler \/ \E a \in HookAnswer : HookReturns(a)
    PROVE  HandlerInPlace' /\ NoCommandLeft'
<1>0. TypeOK /\ HandlerTypeOK /\ HandlerInPlace /\ NoCommandLeft /\ OneSend /\ SendersWait
  BY TypeParts DEF IInv
<1>1. Killed \in Codes /\ code \in Codes /\ {"error", "denied", "cancelled", "userReply", "executed"} = Outcome
  BY <1>0 DEF Codes, Outcome, TypeOK, ProcTypeOK
<1>2. ASSUME NEW o \in Outcome, NEW c \in Codes, Conclude(o, c)
      PROVE  hpc' = "done" /\ verdict' # NoVerdict
  BY <1>2, DoneIsItem DEF Conclude
<1>3. \A r \in AuditRecord : r # NoVerdict
  <2>1. \A r \in AuditRecord : "done" \in DOMAIN r
    BY DEF AuditRecord
  <2>2. "done" \notin DOMAIN NoVerdict
    BY DEF NoVerdict
  <2> QED
    BY <2>1, <2>2
<1> USE DEF HandlerInPlace, NoCommandLeft
<1>4. ASSUME Launch, hpc \in {"recv", "hook"}, UNCHANGED launchFrame
      PROVE  HandlerInPlace' /\ NoCommandLeft'
  <2>1. UNCHANGED <<audit, killing, heir>>
    BY <1>4 DEF launchFrame
  <2>2. CASE /\ hpc' = "select" /\ child' = "running" /\ task' = Stream
             /\ UNCHANGED <<eventVars, verdict>>
    BY <1>0, <1>4, <2>1, <2>2
  <2>3. CASE Conclude("error", Killed) /\ UNCHANGED <<child, pump, task>>
    BY <1>0, <1>1, <1>2, <1>4, <2>1, <2>3
  <2> QED
    BY <1>4, <2>2, <2>3 DEF Launch
\* The call is refused: there is no child.
<1>5. ASSUME NEW o \in Outcome, Conclude(o, Killed), hpc \in {"recv", "hook"},
             UNCHANGED <<audit, killing, heir, child, pump, task>>
      PROVE  HandlerInPlace' /\ NoCommandLeft'
  BY <1>0, <1>1, <1>2, <1>5
<1>6. ASSUME RejectFirst PROVE HandlerInPlace' /\ NoCommandLeft'
  BY <1>1, <1>5, <1>6 DEF RejectFirst, pumpVars, procVars
<1>7. ASSUME ReceiveStart PROVE HandlerInPlace' /\ NoCommandLeft'
  <2>1. UNCHANGED launchFrame /\ hpc = "recv"
    BY <1>7 DEF ReceiveStart
  <2>2. UNCHANGED <<audit, killing, heir>>
    BY <2>1 DEF launchFrame
  <2>3. CASE Launch
    BY <1>4, <2>1, <2>3
  <2>4. CASE hpc' = "hook" /\ UNCHANGED <<verdict, child, pump, task>>
    BY <1>0, <2>1, <2>2, <2>4
  <2>5. ASSUME NEW g \in Outcome, Conclude(g, Killed), UNCHANGED <<child, pump, task>>
        PROVE  HandlerInPlace' /\ NoCommandLeft'
    BY <1>5, <2>1, <2>2, <2>5
  <2> QED
    BY <1>7, <2>3, <2>4, <2>5 DEF ReceiveStart
<1>8. ASSUME NEW a \in HookAnswer, HookReturns(a) PROVE HandlerInPlace' /\ NoCommandLeft'
  <2>1. UNCHANGED launchFrame /\ hpc = "hook"
    BY <1>8 DEF HookReturns
  <2>2. UNCHANGED <<audit, killing, heir>>
    BY <2>1 DEF launchFrame
  <2>3. CASE Launch
    BY <1>4, <2>1, <2>3
  <2>4. ASSUME NEW g \in Outcome, Conclude(g, Killed), UNCHANGED <<child, pump, task>>
        PROVE  HandlerInPlace' /\ NoCommandLeft'
    BY <1>5, <2>1, <2>2, <2>4
  <2> QED
    BY <1>8, <2>3, <2>4 DEF HookReturns
<1>9. ASSUME WaitReturns PROVE HandlerInPlace' /\ NoCommandLeft'
  BY <1>0, <1>9 DEF WaitReturns, pumpVars
<1>10. ASSUME WaitFails PROVE HandlerInPlace' /\ NoCommandLeft'
  BY <1>0, <1>1, <1>2, <1>10 DEF WaitFails, pumpVars, procVars
<1>11. ASSUME NEW s \in Stream, PumpJoined(s) PROVE HandlerInPlace' /\ NoCommandLeft'
  BY <1>0, <1>11 DEF PumpJoined, pumpVars, procVars
<1>12. ASSUME NEW b, Kill(b), hpc \in {"select", "write"} PROVE HandlerInPlace' /\ NoCommandLeft'
  BY <1>0, <1>12 DEF Kill, pumpVars
<1>13. ASSUME NEW s \in Stream, PumpBroken(s) PROVE HandlerInPlace' /\ NoCommandLeft'
  BY <1>12, <1>13 DEF PumpBroken
<1>14. ASSUME hpc \in {"select", "write"}, hpc' \in {"select", "write"},
              UNCHANGED <<task, verdict, audit, pump, child, killing, heir>>
       PROVE  HandlerInPlace' /\ NoCommandLeft'
  BY <1>0, <1>14
<1>15. ASSUME Inbound PROVE HandlerInPlace' /\ NoCommandLeft'
  <2>1. CASE Kill("none")
    BY <1>12, <1>15, <2>1 DEF Inbound
  <2>2. CASE ~Kill("none")
    BY <1>14, <1>15, <2>2 DEF Inbound, handlerVars, pumpVars, procVars
  <2> QED
    BY <2>1, <2>2
<1>16. ASSUME WriteStdin PROVE HandlerInPlace' /\ NoCommandLeft'
  <2>1. CASE Kill("none")
    BY <1>12, <1>16, <2>1 DEF WriteStdin
  <2>2. CASE ~Kill("none")
    BY <1>14, <1>16, <2>2 DEF WriteStdin, pumpVars, procVars
  <2> QED
    BY <2>1, <2>2
<1>17. ASSUME KillReturns PROVE HandlerInPlace' /\ NoCommandLeft'
  BY <1>0, <1>1, <1>2, <1>17 DEF KillReturns
<1>18. ASSUME JoinReturns PROVE HandlerInPlace' /\ NoCommandLeft'
  <2>1. \E o \in Outcome : Conclude(o, code)
    BY <1>1, <1>18 DEF JoinReturns
  <2>2. /\ hpc = "join"
        /\ UNCHANGED <<task, audit, pump, child, killing, heir>>
    BY <1>18 DEF JoinReturns, pumpVars, procVars
  <2> QED
    BY <1>0, <1>1, <1>2, <2>1, <2>2
<1>19. ASSUME DoneReturns PROVE HandlerInPlace' /\ NoCommandLeft'
  <2>1. audit' # NoVerdict
    <3>1. verdict \in DoneEvent
      BY <1>0, <1>19 DEF DoneReturns, HandlerTypeOK
    <3>2. Approved \in BOOLEAN
      BY DEF Approved
    <3>3. audit' \in AuditRecord
      BY <1>19, <3>1, <3>2 DEF DoneReturns, AuditRecord
    <3> QED
      BY <1>3, <3>3
  <2> QED
    BY <1>0, <1>19, <2>1 DEF DoneReturns, pumpVars, procVars
<1> QED
  BY <1>6, <1>7, <1>8, <1>9, <1>10, <1>11, <1>13, <1>15, <1>16, <1>17, <1>18, <1>19 DEF Handler

LEMMA PumpPlaceStep ==
    ASSUME IInv, NEW s \in Stream, Pump(s)
    PROVE  HandlerInPlace' /\ NoCommandLeft'
<1>0. TypeOK /\ PumpTypeOK /\ HandlerInPlace /\ NoCommandLeft
  BY TypeParts DEF IInv
<1>1. UNCHANGED <<hpc, verdict, audit, task, child, killing, heir>>
  BY DEF Pump, PumpReads, PumpReadFails, HoldExpires, PumpEof, PumpSends, PumpSendReturns,
         PumpAborted, pumpFrame, handlerVars, procVars
<1>2. pump[s] # "ok"
  <2>1. CASE PumpSendReturns(s)
    <3>1. PICK i \in DOMAIN slotWait : slotWait[i].from = s
      BY <2>1 DEF PumpSendReturns
    <3>2. Sending(slotWait[i]) /\ s # "handler"
      BY TypeParts DEF SendersWait, Stream
    <3> QED
      BY <3>1, <3>2 DEF Sending
  <2> QED
    BY <2>1 DEF Pump, PumpReads, PumpReadFails, HoldExpires, PumpEof, PumpSends, PumpAborted
<1>3. \A t \in Stream \ {s} : pump'[t] = pump[t]
  BY <1>0 DEF Pump, PumpReads, PumpReadFails, HoldExpires, PumpEof, PumpSends,
              PumpSendReturns, PumpAborted, FlushTo, PumpTypeOK
<1> QED
  BY <1>0, <1>1, <1>2, <1>3 DEF HandlerInPlace, NoCommandLeft

LEMMA EnvironmentPlaceStep ==
    ASSUME IInv,
           \/ Grant \/ Take \/ DropResponse
           \/ Client \/ Processes
           \/ UNCHANGED vars
    PROVE  HandlerInPlace' /\ NoCommandLeft'
<1>0. HandlerInPlace /\ NoCommandLeft
  BY DEF IInv
<1> USE DEF HandlerInPlace, NoCommandLeft
<1>1. ASSUME UNCHANGED <<hpc, verdict, audit, task, child, killing, heir, pump>>
      PROVE  HandlerInPlace' /\ NoCommandLeft'
  BY <1>0, <1>1
<1>2. CASE Grant \/ Take \/ DropResponse
  BY <1>1, <1>2 DEF Grant, Take, DropResponse, queueFrame, handlerVars, pumpVars, procVars
<1>3. CASE Client
  BY <1>1, <1>3 DEF Client, ClientSends, ClientEnds, ClientLeaves, clientFrame,
                    handlerVars, pumpVars, procVars
<1>4. CASE UNCHANGED vars
  BY <1>1, <1>4 DEF vars, handlerVars, pumpVars, procVars
<1>5. ASSUME NEW s \in Stream, ProcWrites(s) \/ ProcCloses(s)
      PROVE  HandlerInPlace' /\ NoCommandLeft'
  BY <1>1, <1>5 DEF ProcWrites, ProcCloses, procFrame, handlerVars, pumpVars, procVars
<1>6. ASSUME ProcReadsStdin \/ ProcClosesStdin PROVE HandlerInPlace' /\ NoCommandLeft'
  BY <1>1, <1>6 DEF ProcReadsStdin, ProcClosesStdin, procFrame, handlerVars, pumpVars, procVars
<1>7. ASSUME ProcForks \/ HeirEnds PROVE HandlerInPlace' /\ NoCommandLeft'
  BY <1>0, <1>7 DEF ProcForks, HeirEnds, procFrame, handlerVars, pumpVars
<1>8. ASSUME NEW c \in Codes, ChildEnds(c) PROVE HandlerInPlace' /\ NoCommandLeft'
  BY <1>0, <1>8 DEF ChildEnds, procFrame, handlerVars, pumpVars
<1> QED
  BY <1>2, <1>3, <1>4, <1>5, <1>6, <1>7, <1>8 DEF Processes

LEMMA PlaceStep ==
    ASSUME IInv, [Next]_vars
    PROVE  HandlerInPlace' /\ NoCommandLeft'
<1>1. CASE Handler \/ \E a \in HookAnswer : HookReturns(a)
  BY <1>1, HandlerPlaceStep
<1>2. CASE \E s \in Stream : Pump(s)
  BY <1>2, PumpPlaceStep
<1>3. CASE Grant \/ Take \/ DropResponse \/ Client \/ Processes \/ UNCHANGED vars
  BY <1>3, EnvironmentPlaceStep
<1> QED
  BY <1>1, <1>2, <1>3 DEF Next, Terminated

-----------------------------------------------------------------------------
(* The gate: a command that runs was let through.                          *)

LEMMA GateStep ==
    ASSUME IInv, [Next]_vars
    PROVE  GateInPlace'
<1>0. TypeOK /\ HandlerTypeOK /\ HandlerInPlace /\ GateInPlace
  BY TypeParts DEF IInv
\* Once the command runs, request and answer are settled.
<1>1. ASSUME UNCHANGED <<req, answer>>, child' # "none" => child # "none",
             hpc' = "hook" => hpc = "hook"
      PROVE  GateInPlace'
  BY <1>0, <1>1 DEF GateInPlace
<1>2. ASSUME UNCHANGED <<handlerVars, procVars>> PROVE GateInPlace'
  BY <1>1, <1>2 DEF handlerVars, procVars
<1>3. CASE ReceiveStart
  <2>1. /\ hpc = "recv" /\ child = "none"
        /\ inbox # <<>> /\ Head(inbox).kind = "start" /\ req' = Head(inbox).req
    BY <1>0, <1>3 DEF ReceiveStart, HandlerInPlace
  <2>2. Head(inbox) \in Message
    BY <1>0, <2>1, TailDomain DEF TypeOK, ClientTypeOK
  <2>3. req' \in ReqId
    BY <2>1, <2>2 DEF Message
  <2> DEFINE r == ReqInfo[Head(inbox).req]
             g == IF r.registered THEN Gate(r) ELSE "denied"
  <2>4. r = ReqInfo[req'] /\ r.registered \in BOOLEAN
    BY <2>1, <2>3, ReqAssumption DEF Start
  <2>5. CASE g = "allow" /\ Launch
    BY <2>3, <2>4, <2>5 DEF GateInPlace, Launch, Conclude
  <2>6. CASE g = "ask" /\ hpc' = "hook" /\ UNCHANGED child
    BY <2>1, <2>3, <2>4, <2>6 DEF GateInPlace
  <2>7. ASSUME NEW o, Conclude(o, Killed), UNCHANGED child PROVE GateInPlace'
    BY <2>1, <2>7 DEF GateInPlace, Conclude
  <2> QED
    BY <1>3, <2>5, <2>6, <2>7 DEF ReceiveStart
<1>4. ASSUME NEW a \in HookAnswer, HookReturns(a) PROVE GateInPlace'
  <2>1. hpc = "hook" /\ child = "none" /\ answer' = a /\ UNCHANGED req
    BY <1>0, <1>4 DEF HookReturns, HandlerInPlace
  <2>2. req \in ReqId /\ ReqInfo[req].registered /\ Gate(ReqInfo[req]) = "ask"
    BY <1>0, <2>1 DEF GateInPlace
  <2>3. CASE a = "yes" /\ Launch
    BY <2>1, <2>2, <2>3 DEF GateInPlace, Launch, Conclude
  <2>4. ASSUME NEW o, Conclude(o, Killed), UNCHANGED child PROVE GateInPlace'
    BY <2>1, <2>4 DEF GateInPlace, Conclude
  <2> QED
    BY <1>4, <2>3, <2>4 DEF HookReturns
<1>5. CASE RejectFirst \/ WaitReturns \/ WaitFails \/ \E s \in Stream : PumpJoined(s) \/ PumpBroken(s)
  BY <1>0, <1>1, <1>5 DEF RejectFirst, WaitReturns, WaitFails, PumpJoined, PumpBroken, Kill,
                    Conclude, procVars
<1>6. CASE Inbound \/ WriteStdin
  BY <1>1, <1>6 DEF Inbound, WriteStdin, Kill, handlerVars, procVars
<1>7. CASE KillReturns \/ JoinReturns \/ DoneReturns
  BY <1>0, <1>1, <1>7 DEF KillReturns, JoinReturns, DoneReturns, Conclude, procVars
<1>8. ASSUME NEW s \in Stream, Pump(s) PROVE GateInPlace'
  BY <1>2, <1>8 DEF Pump, PumpReads, PumpReadFails, HoldExpires, PumpEof, PumpSends,
                    PumpSendReturns, PumpAborted, pumpFrame
<1>9. CASE Grant \/ Take \/ DropResponse
  BY <1>2, <1>9 DEF Grant, Take, DropResponse, queueFrame
<1>10. CASE Client
  BY <1>2, <1>10 DEF Client, ClientSends, ClientEnds, ClientLeaves, clientFrame
<1>11. CASE Processes
  <2>1. UNCHANGED handlerVars
    BY <1>11 DEF Processes, ProcWrites, ProcCloses, ProcReadsStdin, ProcClosesStdin, ProcForks,
                 ChildEnds, HeirEnds, procFrame
  <2>2. child' # "none" => child # "none"
    BY <1>11 DEF Processes, ProcWrites, ProcCloses, ProcReadsStdin, ProcClosesStdin, ProcForks,
                 ChildEnds, HeirEnds, procVars
  <2> QED
    BY <1>1, <2>1, <2>2 DEF handlerVars
<1>12. CASE UNCHANGED vars
  BY <1>2, <1>12 DEF vars
<1> QED
  BY <1>3, <1>4, <1>5, <1>6, <1>7, <1>8, <1>9, <1>10, <1>11, <1>12 DEF Next, Handler, Terminated

-----------------------------------------------------------------------------
(* Outcomes: "executed" is the end of a command whose output is all there. *)

LEMMA GateValues ==
    ASSUME NEW r \in Start
    PROVE  /\ Gate(r) \in {"allow", "ask", "denied", "cancelled", "error"}
           /\ Gate(r) = "allow" => r.effect \in {"allow", "audit"}
           /\ Gate(r) = "ask" => r.effect = "ask" /\ r.hook /\ (r.intentRequired => r.intent)
  BY DEF Gate, Start, Effect

LEMMA ExecutedStep ==
    ASSUME IInv, [Next]_vars
    PROVE  ExecutedIsComplete'
<1>0. /\ TypeOK /\ PumpTypeOK /\ OutTypeOK /\ HandlerInPlace /\ ExecutedIsComplete
      /\ \A s \in Stream : PacketsInPlace(s)
  BY TypeParts DEF IInv
<1> USE DEF ExecutedIsComplete
\* No other outcome is "executed".
<1>1. ASSUME NEW o \in Outcome \ {"executed"}, Conclude(o, Killed) PROVE ExecutedIsComplete'
  BY <1>1 DEF Conclude, Done
<1>2. ASSUME verdict' = NoVerdict PROVE ExecutedIsComplete'
  BY <1>2
<1>3. "error" \in Outcome \ {"executed"}
  BY DEF Outcome
<1>4. CASE JoinReturns
  <2>1. /\ hpc = "join" /\ child = "reaped" /\ ~killing /\ code \in Codes
        /\ UNCHANGED <<pumpVars, outVars, procVars>>
    BY <1>0, <1>4 DEF JoinReturns, HandlerInPlace, TypeOK, ProcTypeOK
  <2>2. CASE (\A s \in task : pump[s] = "ok") /\ Conclude("executed", code)
    <3>0. \A s \in Stream : pump[s] = "ok"
      BY <1>0, <2>1, <2>2 DEF HandlerInPlace
    <3>1. verdict' = Done("executed", code) /\ verdict'.code = code
      BY <2>2 DEF Conclude, Done
    <3>2. ASSUME NEW s \in Stream
          PROVE  s \notin writer /\ pump[s] = "ok" /\ sent[s] = wrote[s] /\ bad[s] = 0
      <4>1. /\ wrote[s] \in Nat /\ bad[s] \in Nat /\ flushed[s] \in Nat
        BY <1>0 DEF PumpTypeOK, OutTypeOK
      <4> QED
        BY <1>0, <3>0, <4>1 DEF PacketsInPlace
    <3> QED
      BY <2>1, <3>1, <3>2 DEF pumpVars, outVars, procVars
  <2>3. ASSUME Conclude("error", code) PROVE ExecutedIsComplete'
    BY <2>3 DEF Conclude, Done
  <2> QED
    BY <1>4, <2>2, <2>3 DEF JoinReturns
<1>5. CASE RejectFirst \/ WaitFails \/ KillReturns
  BY <1>1, <1>3, <1>5 DEF RejectFirst, WaitFails, KillReturns
<1>6. ASSUME Launch, verdict = NoVerdict PROVE ExecutedIsComplete'
  BY <1>1, <1>2, <1>3, <1>6 DEF Launch
<1>7. CASE ReceiveStart
  <2>1. verdict = NoVerdict /\ inbox # <<>> /\ Head(inbox).kind = "start"
    BY <1>0, <1>7 DEF ReceiveStart, HandlerInPlace
  <2>2. Head(inbox) \in Message
    BY <1>0, <2>1, TailDomain DEF TypeOK, ClientTypeOK
  <2>3. ReqInfo[Head(inbox).req] \in Start
    BY <2>1, <2>2, ReqAssumption DEF Message
  <2> DEFINE r == ReqInfo[Head(inbox).req]
             g == IF r.registered THEN Gate(r) ELSE "denied"
  <2>4. g # "executed"
    BY <2>3, GateValues
  <2>5. CASE Launch
    BY <1>6, <2>1, <2>5
  <2>6. CASE UNCHANGED verdict
    BY <1>2, <2>1, <2>6
  <2>7. CASE g \in Outcome /\ Conclude(g, Killed)
    <3> HIDE DEF g
    <3> QED
      BY <1>1, <2>4, <2>7
  <2> QED
    BY <1>7, <2>5, <2>6, <2>7 DEF ReceiveStart
<1>8. ASSUME NEW a \in HookAnswer, HookReturns(a) PROVE ExecutedIsComplete'
  <2>1. verdict = NoVerdict
    BY <1>0, <1>8 DEF HookReturns, HandlerInPlace
  <2>2. CASE Launch
    BY <1>6, <2>1, <2>2
  <2>3. ASSUME NEW o \in Outcome, <<a, o>> \in Declined, Conclude(o, Killed)
        PROVE  ExecutedIsComplete'
    <3>1. o # "executed"
      BY <2>3 DEF Declined
    <3> QED
      BY <1>1, <2>3, <3>1
  <2> QED
    BY <1>8, <2>2, <2>3 DEF HookReturns
\* While nothing is decided, these steps decide nothing.
<1>9. CASE WaitReturns \/ \E s \in Stream : PumpJoined(s) \/ PumpBroken(s)
  BY <1>0, <1>2, <1>9 DEF WaitReturns, PumpJoined, PumpBroken, Kill, HandlerInPlace
<1>10. CASE Inbound \/ WriteStdin
  BY <1>0, <1>2, <1>10 DEF Inbound, WriteStdin, Kill, HandlerInPlace, handlerVars
\* After that everything stays as it was.
<1>11. ASSUME UNCHANGED <<verdict, pumpVars, outVars, procVars>> PROVE ExecutedIsComplete'
  BY <1>0, <1>11 DEF pumpVars, outVars, procVars
<1>12. CASE DoneReturns
  BY <1>11, <1>12 DEF DoneReturns
<1>13. ASSUME NEW s \in Stream, Pump(s) PROVE ExecutedIsComplete'
  <2>1. verdict' = verdict
    BY <1>13 DEF Pump, PumpReads, PumpReadFails, HoldExpires, PumpEof, PumpSends,
                    PumpSendReturns, PumpAborted, pumpFrame, handlerVars
  <2>2. pump[s] # "ok"
    <3>1. CASE PumpSendReturns(s)
      <4>1. PICK i \in DOMAIN slotWait : slotWait[i].from = s
        BY <3>1 DEF PumpSendReturns
      <4>2. Sending(slotWait[i]) /\ s # "handler"
        BY TypeParts DEF SendersWait, Stream
      <4> QED
        BY <4>1, <4>2 DEF Sending
    <3> QED
      BY <1>13, <3>1 DEF Pump, PumpReads, PumpReadFails, HoldExpires, PumpEof, PumpSends, PumpAborted
  <2>3. verdict = NoVerdict \/ verdict.outcome # "executed"
    BY <1>0, <2>2
  <2> QED
    BY <2>1, <2>3
<1>14. CASE Grant \/ Take \/ DropResponse
  BY <1>11, <1>14 DEF Grant, Take, DropResponse, queueFrame, handlerVars
<1>15. CASE Client
  BY <1>11, <1>15 DEF Client, ClientSends, ClientEnds, ClientLeaves, clientFrame, handlerVars
<1>16. CASE Processes
  <2>1. UNCHANGED <<verdict, pumpVars>>
    BY <1>16 DEF Processes, ProcWrites, ProcCloses, ProcReadsStdin, ProcClosesStdin, ProcForks,
                 ChildEnds, HeirEnds, procFrame, handlerVars
  <2>2. ASSUME verdict # NoVerdict, verdict.outcome = "executed"
        PROVE  UNCHANGED <<child, killing, code, wrote, bad>> /\ \A s \in Stream : s \notin writer'
    <3>1. child = "reaped" /\ \A s \in Stream : s \notin writer
      BY <1>0, <2>2
    <3> QED
      BY <1>16, <3>1 DEF Processes, ProcWrites, ProcCloses, ProcReadsStdin, ProcClosesStdin,
            ProcForks, ChildEnds, HeirEnds, ClosePipes, outVars, procVars
  <2> QED
    BY <1>0, <2>1, <2>2 DEF pumpVars
<1>17. CASE UNCHANGED vars
  BY <1>11, <1>17 DEF vars, handlerVars
<1> QED
  BY <1>4, <1>5, <1>7, <1>8, <1>9, <1>10, <1>12, <1>13, <1>14, <1>15, <1>16, <1>17
  DEF Next, Handler, Terminated

-----------------------------------------------------------------------------
(* Events: what is on the packet queue, and what the audit record says.    *)

\* What a sequence contains after an element was added.
LEMMA AppendContains ==
    ASSUME NEW S, NEW q \in Seq(S), NEW e \in S
    PROVE  /\ Contains(Append(q, e), e)
           /\ \A x : Contains(q, x) => Contains(Append(q, e), x)
<1>1. /\ Len(q) \in Nat /\ DOMAIN q = 1..Len(q) /\ Len(Append(q, e)) = Len(q) + 1
      /\ \A j \in DOMAIN q : Append(q, e)[j] = q[j]
      /\ Append(q, e)[Len(q) + 1] = e
  BY AppendDomain, AppendProperties, LenProperties
<1> QED
  BY <1>1 DEF Contains

\* The i-th send, of pump s, is accepted: it is the next packet of s.
LEMMA PushedPacket ==
    ASSUME IInv, NEW s \in Stream, NEW i \in DOMAIN slotWait, slotWait[i].from = s
    PROVE  /\ slotWait[i].item = Packet(s, sent[s] + 1) /\ slotWait[i].item \in Item
           /\ slotWait[i].item.kind # "done"
           /\ pump[s] \in {"send", "last"} /\ sent[s] < flushed[s]
<1>1. Sending(slotWait[i]) /\ slotWait[i] \in QueuedItem
  BY TypeParts, Lengths DEF SendersWait
<1>2. s # "handler" /\ s # "done"
  BY DEF Stream
<1> QED
  BY <1>1, <1>2 DEF Sending, Packet, QueuedItem

LEMMA EventsStep ==
    ASSUME IInv, [Next]_vars
    PROVE  EventsInPlace'
<1>0. TypeOK /\ accepted \in Seq(Item) /\ HandlerInPlace /\ GateInPlace /\ EventsInPlace
  BY TypeParts DEF IInv
\* Until the end there is no outcome to accept, and no record.
<1>1. ASSUME UNCHANGED accepted, hpc # "end", hpc' # "end" PROVE EventsInPlace'
  BY <1>0, <1>1 DEF EventsInPlace
\* What leaves the handler alone.
<1>2. ASSUME UNCHANGED <<accepted, handlerVars>>, rxOpen' => rxOpen, child' # "none" => child # "none"
      PROVE  EventsInPlace'
  BY <1>0, <1>2 DEF EventsInPlace, handlerVars
<1>3. CASE RejectFirst \/ WaitFails \/ KillReturns \/ JoinReturns \/ WaitReturns
           \/ \E s \in Stream : PumpJoined(s) \/ PumpBroken(s)
  BY <1>1, <1>3 DEF RejectFirst, WaitFails, KillReturns, JoinReturns, WaitReturns, PumpJoined,
                    PumpBroken, Kill, Conclude, eventVars
<1>4. CASE ReceiveStart \/ \E a \in HookAnswer : HookReturns(a)
  BY <1>1, <1>4 DEF ReceiveStart, HookReturns, Launch, Conclude, eventVars
<1>5. CASE Inbound \/ WriteStdin
  BY <1>1, <1>5 DEF Inbound, WriteStdin, Kill, eventVars, handlerVars
<1>6. CASE DoneReturns
  <2>1. hpc = "done" /\ hpc' = "end" /\ audit' = [done |-> verdict, decision |-> Approved]
        /\ UNCHANGED <<verdict, child, req, answer>>
    BY <1>6 DEF DoneReturns, procVars
  <2>2. child' # "none" => audit'.decision
    BY <1>0, <2>1 DEF GateInPlace, Approved
  <2>3. \A j \in DOMAIN accepted : accepted[j].kind # "done"
    BY <1>0, <2>1 DEF EventsInPlace
  <2>4. PICK i \in DOMAIN slotWait :
            /\ slotWait[i].from = "handler"
            /\ \/ Push(i) /\ accepted' = Append(accepted, slotWait[i].item)
               \/ FailSend(i) /\ UNCHANGED accepted
    BY <1>6 DEF DoneReturns
  <2>5. slotWait[i].item = verdict /\ slotWait[i].item \in Item
    <3>1. Sending(slotWait[i]) /\ slotWait[i] \in QueuedItem /\ "handler" \notin Stream
      BY TypeParts, Lengths DEF SendersWait, Stream
    <3> QED
      BY <2>4, <3>1 DEF Sending, QueuedItem
  <2>6. CASE Push(i) /\ accepted' = Append(accepted, slotWait[i].item)
    <3>1. Contains(accepted', verdict')
      BY <1>0, <2>1, <2>5, <2>6, AppendContains
    <3>2. \A j \in DOMAIN accepted' : accepted'[j].kind = "done" => accepted'[j] = verdict
      BY <1>0, <2>3, <2>5, <2>6, AppendDomain
    <3> QED
      BY <2>1, <2>2, <3>1, <3>2 DEF EventsInPlace
  <2>7. CASE FailSend(i) /\ UNCHANGED accepted
    <3>1. ~rxOpen'
      BY <2>7 DEF FailSend, DropSend
    <3> QED
      BY <2>1, <2>2, <2>3, <2>7, <3>1 DEF EventsInPlace
  <2> QED
    BY <2>4, <2>6, <2>7
<1>7. ASSUME NEW s \in Stream, PumpSendReturns(s) PROVE EventsInPlace'
  <2>1. UNCHANGED <<handlerVars, child>>
    BY <1>7 DEF PumpSendReturns, pumpFrame, procVars
  <2>2. PICK i \in DOMAIN slotWait :
            /\ slotWait[i].from = s
            /\ \/ Push(i) /\ accepted' = Append(accepted, slotWait[i].item)
               \/ FailSend(i) /\ UNCHANGED accepted
    BY <1>7 DEF PumpSendReturns
  <2>3. CASE Push(i) /\ accepted' = Append(accepted, slotWait[i].item)
    <3>1. slotWait[i].item \in Item /\ slotWait[i].item.kind # "done"
      BY <2>2, PushedPacket
    <3>2. UNCHANGED rxOpen
      BY <2>3 DEF Push
    <3>3. \A x : Contains(accepted, x) => Contains(accepted', x)
      BY <1>0, <2>3, <3>1, AppendContains
    <3>4. \A j \in DOMAIN accepted' :
            accepted'[j].kind = "done" => j \in DOMAIN accepted /\ accepted'[j] = accepted[j]
      BY <1>0, <2>3, <3>1, AppendDomain
    <3> QED
      BY <1>0, <2>1, <3>2, <3>3, <3>4 DEF EventsInPlace, handlerVars
  <2>4. CASE FailSend(i) /\ UNCHANGED accepted
    BY <1>2, <2>1, <2>4 DEF FailSend, DropSend
  <2> QED
    BY <2>2, <2>3, <2>4
<1>8. ASSUME NEW s \in Stream, Pump(s) PROVE EventsInPlace'
  <2>1. CASE PumpSendReturns(s)
    BY <1>7, <2>1
  <2>2. CASE PumpSends(s)
    BY <1>2, <2>2 DEF PumpSends, SendMetered, pumpFrame, procVars
  <2>3. CASE PumpAborted(s)
    <3>1. UNCHANGED rxOpen
      BY <2>3 DEF PumpAborted, AbortSend, DropSend, queueVars
    <3> QED
      BY <1>2, <2>3, <3>1 DEF PumpAborted, pumpFrame, procVars
  <2>4. CASE (\E k \in 1..PipeCap : PumpReads(s, k)) \/ PumpReadFails(s) \/ HoldExpires(s) \/ PumpEof(s)
    BY <1>2, <2>4 DEF PumpReads, PumpReadFails, HoldExpires, PumpEof, pumpFrame, procVars,
                      eventVars, queueVars
  <2> QED
    BY <1>8, <2>1, <2>2, <2>3, <2>4 DEF Pump
<1>9. CASE Grant \/ Take \/ DropResponse
  BY <1>2, <1>9 DEF Grant, Take, DropResponse, GrantBudget, Pop, CloseRx, queueFrame, procVars
<1>10. CASE Client
  BY <1>2, <1>10 DEF Client, ClientSends, ClientEnds, ClientLeaves, clientFrame, procVars,
                     eventVars, queueVars
<1>11. CASE Processes
  <2>1. UNCHANGED <<eventVars, handlerVars>>
    BY <1>11 DEF Processes, ProcWrites, ProcCloses, ProcReadsStdin, ProcClosesStdin, ProcForks,
                 ChildEnds, HeirEnds, procFrame
  <2>2. child' # "none" => child # "none"
    BY <1>11 DEF Processes, ProcWrites, ProcCloses, ProcReadsStdin, ProcClosesStdin, ProcForks,
                 ChildEnds, HeirEnds, procVars
  <2> QED
    BY <1>2, <2>1, <2>2 DEF eventVars, queueVars
<1>12. CASE UNCHANGED vars
  BY <1>2, <1>12 DEF vars, eventVars, queueVars, procVars
<1> QED
  BY <1>3, <1>4, <1>5, <1>6, <1>8, <1>9, <1>10, <1>11, <1>12 DEF Next, Handler, Terminated

\* What a step of the daemon's tasks does to the queue: nothing, or a waiting
\* send comes to its end, of a pump or of the handler.
LEMMA Acceptance ==
    ASSUME IInv,
           \/ Handler \/ \E a \in HookAnswer : HookReturns(a)
           \/ \E s \in Stream : Pump(s)
    PROVE  /\ rxOpen' = rxOpen
           /\ \/ UNCHANGED <<queue, accepted, sent>>
              \/ \E i \in DOMAIN slotWait :
                    /\ queue' = Append(queue, slotWait[i])
                    /\ accepted' = Append(accepted, slotWait[i].item)
                    /\ \/ /\ slotWait[i].from \in Stream
                          /\ sent' = [sent EXCEPT ![slotWait[i].from] = @ + 1]
                       \/ slotWait[i].from = "handler" /\ hpc = "done" /\ UNCHANGED sent
<1> USE DEF eventVars, queueVars, pumpVars
<1>1. CASE RejectFirst \/ WaitFails \/ KillReturns \/ JoinReturns \/ WaitReturns
           \/ \E s \in Stream : PumpJoined(s) \/ PumpBroken(s)
  BY <1>1 DEF RejectFirst, WaitFails, KillReturns, JoinReturns, WaitReturns, PumpJoined,
              PumpBroken, Kill, Conclude, SendUnbounded
<1>2. CASE ReceiveStart \/ \E a \in HookAnswer : HookReturns(a)
  BY <1>2 DEF ReceiveStart, HookReturns, Launch, Conclude, SendUnbounded, launchFrame
<1>3. CASE Inbound \/ WriteStdin
  BY <1>3 DEF Inbound, WriteStdin, Kill
<1>4. CASE DoneReturns
  BY <1>4 DEF DoneReturns, Push, FailSend, DropSend
<1>5. ASSUME NEW s \in Stream, PumpSendReturns(s)
      PROVE  \E i \in DOMAIN slotWait :
                /\ slotWait[i].from = s /\ rxOpen' = rxOpen
                /\ \/ UNCHANGED <<queue, accepted, sent>>
                   \/ /\ queue' = Append(queue, slotWait[i])
                      /\ accepted' = Append(accepted, slotWait[i].item)
                      /\ sent' = [sent EXCEPT ![s] = @ + 1]
  BY <1>5 DEF PumpSendReturns, Push, FailSend, DropSend
<1>6. ASSUME NEW s \in Stream, PumpSends(s) \/ PumpAborted(s)
      PROVE  rxOpen' = rxOpen /\ UNCHANGED <<queue, accepted, sent>>
  BY <1>6 DEF PumpSends, PumpAborted, SendMetered, AbortSend, DropSend
<1>7. ASSUME NEW s \in Stream,
             (\E k \in 1..PipeCap : PumpReads(s, k)) \/ PumpReadFails(s) \/ HoldExpires(s) \/ PumpEof(s)
      PROVE  rxOpen' = rxOpen /\ UNCHANGED <<queue, accepted, sent>>
  BY <1>7 DEF PumpReads, PumpReadFails, HoldExpires, PumpEof
<1>8. CASE \E s \in Stream : Pump(s)
  <2>1. PICK s \in Stream : Pump(s)
    BY <1>8
  <2>2. CASE PumpSendReturns(s)
    BY <1>5, <2>2
  <2>3. CASE PumpSends(s) \/ PumpAborted(s)
    BY <1>6, <2>3
  <2>4. CASE (\E k \in 1..PipeCap : PumpReads(s, k)) \/ PumpReadFails(s) \/ HoldExpires(s) \/ PumpEof(s)
    BY <1>7, <2>4
  <2> QED
    BY <2>1, <2>2, <2>3, <2>4 DEF Pump
<1> QED
  BY <1>1, <1>2, <1>3, <1>4, <1>8 DEF Handler

\* Nothing else of the call accepts an event or sends a packet.
LEMMA NoAcceptance ==
    ASSUME Grant \/ Take \/ DropResponse \/ Client \/ Processes \/ UNCHANGED vars
    PROVE  UNCHANGED <<accepted, sent>>
  BY DEF Grant, Take, DropResponse, queueFrame, pumpVars, Client, ClientSends, ClientEnds,
         ClientLeaves, clientFrame, eventVars, Processes, ProcWrites, ProcCloses, ProcReadsStdin,
         ProcClosesStdin, ProcForks, ChildEnds, HeirEnds, procFrame, vars

\* An event is an outcome or a packet.
LEMMA EventKinds ==
    ASSUME NEW e \in Item
    PROVE  \/ e \in DoneEvent /\ e.kind = "done" /\ e.kind \notin Stream
           \/ /\ e.kind \in Stream /\ e.kind # "done" /\ e.num \in 1..MaxOut[e.kind]
              /\ e = Packet(e.kind, e.num)
<1>1. "done" \notin Stream
  BY DEF Stream
<1>2. CASE e \in DoneEvent
  BY <1>1, <1>2 DEF DoneEvent
<1>3. ASSUME NEW s \in Stream, e \in [kind : {s}, num : 1..MaxOut[s]]
      PROVE  e.kind = s /\ e.num \in 1..MaxOut[s] /\ e = Packet(s, e.num)
  BY <1>3 DEF Packet
<1> QED
  BY <1>1, <1>2, <1>3, EventAssumption DEF PacketEvent

LEMMA OrderStep ==
    ASSUME IInv, [Next]_vars
    PROVE  EventsInOrder'
<1>0. /\ accepted \in Seq(Item) /\ PumpTypeOK /\ EventsInPlace /\ EventsInOrder
      /\ ExecutedIsComplete /\ \A s \in Stream : sent[s] \in Nat
  BY TypeParts DEF IInv, PumpTypeOK
<1>1. CASE UNCHANGED <<accepted, sent>>
  BY <1>0, <1>1 DEF EventsInOrder
<1>2. /\ DOMAIN accepted = 1..Len(accepted) /\ Len(accepted) \in Nat
      /\ \A j \in DOMAIN accepted : accepted[j] \in Item
  BY <1>0, LenProperties
<1>3. ASSUME NEW i \in DOMAIN slotWait, accepted' = Append(accepted, slotWait[i].item),
             slotWait[i].item \in Item
      PROVE  /\ DOMAIN accepted' = DOMAIN accepted \union {Len(accepted) + 1}
             /\ Len(accepted') = Len(accepted) + 1
             /\ \A j \in DOMAIN accepted : accepted'[j] = accepted[j]
             /\ accepted'[Len(accepted) + 1] = slotWait[i].item
  BY <1>0, <1>3, AppendDomain, AppendProperties
<1>4. ASSUME NEW i \in DOMAIN slotWait, accepted' = Append(accepted, slotWait[i].item),
             NEW s \in Stream, slotWait[i].from = s, sent' = [sent EXCEPT ![s] = @ + 1]
      PROVE  EventsInOrder'
  <2>1. /\ slotWait[i].item = Packet(s, sent[s] + 1) /\ slotWait[i].item \in Item
        /\ pump[s] \in {"send", "last"}
    BY <1>4, PushedPacket
  <2>2. /\ sent'[s] = sent[s] + 1 /\ \A t \in Stream : t # s => sent'[t] = sent[t]
        /\ Packet(s, sent[s] + 1).kind = s /\ Packet(s, sent[s] + 1).num = sent[s] + 1
        /\ s # "done"
    BY <1>0, <1>4 DEF PumpTypeOK, Packet, Stream
  <2>3. /\ DOMAIN accepted' = DOMAIN accepted \union {Len(accepted) + 1}
        /\ Len(accepted') = Len(accepted) + 1
        /\ \A j \in DOMAIN accepted : accepted'[j] = accepted[j]
        /\ accepted'[Len(accepted) + 1] = Packet(s, sent[s] + 1)
    BY <1>3, <1>4, <2>1
  <2>4. ASSUME NEW j \in DOMAIN accepted', NEW k \in DOMAIN accepted', j < k,
               accepted'[j].kind = accepted'[k].kind
        PROVE  accepted'[j].kind \in Stream /\ accepted'[j].num < accepted'[k].num
    <3>1. j \in DOMAIN accepted
      BY <1>2, <2>3, <2>4
    <3>2. CASE k \in DOMAIN accepted
      BY <1>0, <2>3, <2>4, <3>1, <3>2 DEF EventsInOrder
    <3>3. CASE k = Len(accepted) + 1
      <4>1. accepted[j].kind = s /\ accepted[j].num <= sent[s]
        BY <1>0, <2>2, <2>3, <2>4, <3>1, <3>3 DEF EventsInOrder
      <4>2. accepted[j].num \in Nat
        BY <1>2, <2>2, <3>1, <4>1, EventKinds, BoundsAssumption
      <4> QED
        BY <1>0, <2>2, <2>3, <3>1, <3>3, <4>1, <4>2
    <3> QED
      BY <2>3, <3>2, <3>3
  <2>5. ASSUME NEW t \in Stream
        PROVE  /\ \A j \in DOMAIN accepted' : accepted'[j].kind = t => accepted'[j].num <= sent'[t]
               /\ \A k \in 1..sent'[t] : \E j \in DOMAIN accepted' : accepted'[j] = Packet(t, k)
    <3>1. \A j \in DOMAIN accepted :
            accepted[j].kind = t => accepted[j].num <= sent[t] /\ accepted[j].num \in Nat
      <4>1. \A j \in DOMAIN accepted : accepted[j].kind = t => accepted[j].num \in Nat
        BY <1>2, EventKinds, BoundsAssumption DEF Stream
      <4> QED
        BY <1>0, <4>1 DEF EventsInOrder
    <3>2. \A k \in 1..sent[t] : \E j \in DOMAIN accepted' : accepted'[j] = Packet(t, k)
      BY <1>0, <2>3 DEF EventsInOrder
    <3>3. sent'[t] = IF t = s THEN sent[t] + 1 ELSE sent[t]
      BY <2>2
    <3>4. \A j \in DOMAIN accepted' : accepted'[j].kind = t => accepted'[j].num <= sent'[t]
      BY <1>0, <2>2, <2>3, <3>1, <3>3
    <3>5. \A k \in 1..sent'[t] : \E j \in DOMAIN accepted' : accepted'[j] = Packet(t, k)
      <4> SUFFICES ASSUME NEW k \in 1..sent'[t]
                   PROVE  \E j \in DOMAIN accepted' : accepted'[j] = Packet(t, k)
        OBVIOUS
      <4>1. CASE k \in 1..sent[t]
        BY <3>2, <4>1
      <4>2. CASE k \notin 1..sent[t]
        <5>1. t = s /\ k = sent[s] + 1
          BY <1>0, <3>3, <4>2
        <5> QED
          BY <2>3, <5>1
      <4> QED
        BY <4>1, <4>2
    <3> QED
      BY <3>4, <3>5
  <2>6. \A j \in DOMAIN accepted' : ~(accepted'[j].kind = "done" /\ accepted'[j].outcome = "executed")
    <3>1. ~(verdict # NoVerdict /\ verdict.outcome = "executed")
      BY <1>0, <2>1 DEF ExecutedIsComplete
    <3>2. \A j \in DOMAIN accepted : accepted[j].kind = "done" => accepted[j] = verdict /\ verdict # NoVerdict
      BY <1>0 DEF EventsInPlace, NoVerdict
    <3> QED
      BY <2>2, <2>3, <3>1, <3>2
  <2> QED
    BY <2>4, <2>5, <2>6 DEF EventsInOrder
<1>5. ASSUME NEW i \in DOMAIN slotWait, accepted' = Append(accepted, slotWait[i].item),
             slotWait[i].from = "handler", hpc = "done", UNCHANGED sent
      PROVE  EventsInOrder'
  <2>1. slotWait[i].item = verdict /\ slotWait[i].item \in Item
    <3>1. Sending(slotWait[i]) /\ slotWait[i] \in QueuedItem /\ "handler" \notin Stream
      BY TypeParts, Lengths DEF SendersWait, Stream
    <3> QED
      BY <1>5, <3>1 DEF Sending, QueuedItem
  <2>2. verdict.kind = "done" /\ verdict.kind \notin Stream
    BY <1>5, TypeParts DEF HandlerTypeOK, DoneEvent, IInv, HandlerInPlace, Stream
  <2>3. \A j \in DOMAIN accepted : accepted[j].kind # "done"
    BY <1>0, <1>5 DEF EventsInPlace
  <2>4. /\ DOMAIN accepted' = DOMAIN accepted \union {Len(accepted) + 1}
        /\ Len(accepted') = Len(accepted) + 1
        /\ \A j \in DOMAIN accepted : accepted'[j] = accepted[j]
        /\ accepted'[Len(accepted) + 1] = verdict
    BY <1>3, <1>5, <2>1
  <2>5. ASSUME NEW j \in DOMAIN accepted', NEW k \in DOMAIN accepted', j < k,
               accepted'[j].kind = accepted'[k].kind
        PROVE  accepted'[j].kind \in Stream /\ accepted'[j].num < accepted'[k].num
    <3>1. j \in DOMAIN accepted
      BY <1>2, <2>4, <2>5
    <3>2. k \in DOMAIN accepted
      BY <2>2, <2>3, <2>4, <2>5, <3>1
    <3> QED
      BY <1>0, <2>4, <2>5, <3>1, <3>2 DEF EventsInOrder
  <2>6. ASSUME NEW t \in Stream
        PROVE  /\ \A j \in DOMAIN accepted' : accepted'[j].kind = t => accepted'[j].num <= sent'[t]
               /\ \A k \in 1..sent'[t] : \E j \in DOMAIN accepted' : accepted'[j] = Packet(t, k)
    BY <1>0, <1>5, <2>2, <2>4 DEF EventsInOrder
  <2>7. \A j \in DOMAIN accepted' : accepted'[j].kind = "done" => j = Len(accepted')
    BY <2>3, <2>4
  <2> QED
    BY <2>5, <2>6, <2>7 DEF EventsInOrder
<1>6. CASE Handler \/ (\E a \in HookAnswer : HookReturns(a)) \/ \E s \in Stream : Pump(s)
  BY <1>1, <1>4, <1>5, <1>6, Acceptance
<1>7. CASE Grant \/ Take \/ DropResponse \/ Client \/ Processes \/ UNCHANGED vars
  BY <1>1, <1>7, NoAcceptance
<1> QED
  BY <1>6, <1>7 DEF Next, Terminated

-----------------------------------------------------------------------------
(* The theorems.                                                           *)

LEMMA InitInv == Init => IInv
<1> SUFFICES ASSUME Init PROVE IInv
  OBVIOUS
<1> USE DEF Init
<1>1. QueueTypeOK /\ accepted \in Seq(Item)
  BY EmptySeq DEF QueueInit, QueueTypeOK
<1>2. HandlerTypeOK /\ PumpTypeOK
  BY DEF HandlerTypeOK, PumpTypeOK
<1>3. ClientTypeOK
  <2>1. inbox \in Seq(Message) /\ msgs \in 0..MaxMsgs
    BY EmptySeq, BoundsAssumption
  <2> QED
    BY <2>1 DEF ClientTypeOK
<1>4. OutTypeOK /\ ProcTypeOK
  BY DEF OutTypeOK, ProcTypeOK, Codes
<1>5. StdinTypeOK
  <2>1. stdinBuf \in 0..PipeCap
    BY BoundsAssumption
  <2> QED
    BY <2>1 DEF StdinTypeOK
<1>6. OneSend /\ SendersWait
  BY DEF OneSend, SendersWait, QueueInit
<1>7. \A s \in Stream : PacketsInPlace(s)
  BY BoundsAssumption DEF PacketsInPlace
<1>8. HandlerInPlace /\ GateInPlace /\ NoCommandLeft /\ ExecutedIsComplete
  BY DEF HandlerInPlace, GateInPlace, NoCommandLeft, ExecutedIsComplete
<1>9. EventsInPlace /\ EventsInOrder
  BY DEF EventsInPlace, EventsInOrder
<1> QED
  BY <1>1, <1>2, <1>3, <1>4, <1>5, <1>6, <1>7, <1>8, <1>9 DEF IInv, TypeOK

LEMMA InvStep == IInv /\ [Next]_vars => IInv'
<1> SUFFICES ASSUME IInv, [Next]_vars PROVE IInv'
  OBVIOUS
<1> QED
  BY TypeStep, SendStep, PacketStep, PlaceStep, GateStep, ExecutedStep, EventsStep, OrderStep
     DEF IInv

(* IInv, the inductive invariant, holds of every reachable state.          *)
THEOREM Invariant == Spec => []IInv
  BY InitInv, InvStep, PTL DEF Spec

(* Every variable of the call keeps its type: no permit, event, packet     *)
(* counter or process state outside its range, whatever fails.             *)
THEOREM Typing == Spec => []TypeOK
<1>1. IInv => TypeOK
  BY DEF IInv
<1> QED
  BY <1>1, Invariant, PTL

(* "executed" is decided on only for a reaped child whose whole output is  *)
(* valid text and on the packet queue (server.rs:739-779, 935-953).        *)
THEOREM Completeness == Spec => []ExecutedIsComplete
<1>1. IInv => ExecutedIsComplete
  BY DEF IInv
<1> QED
  BY <1>1, Invariant, PTL

(* A child exists only for a registered command that policy or hook let    *)
(* through (server.rs:414-469, 792-850).                                   *)
THEOREM Approval == Spec => []RunsOnlyIfApproved
<1>1. IInv => RunsOnlyIfApproved
  <2> SUFFICES ASSUME IInv, child # "none" PROVE RunsOnlyIfApproved
    BY DEF RunsOnlyIfApproved
  <2>1. /\ req \in ReqId /\ ReqInfo[req].registered
        /\ \/ Gate(ReqInfo[req]) = "allow"
           \/ Gate(ReqInfo[req]) = "ask" /\ answer = "yes"
    BY DEF IInv, GateInPlace
  <2>2. ReqInfo[req] \in Start
    BY <2>1, ReqAssumption
  <2> QED
    BY <2>1, <2>2, GateValues DEF RunsOnlyIfApproved
<1> QED
  BY <1>1, Invariant, PTL

(* No call is decided while its command still has to be waited for, unless *)
(* waiting is what failed (server.rs:553-567, 575-593, 739-779).           *)
THEOREM Reaping == Spec => []NoCommandLeft
<1>1. IInv => NoCommandLeft
  BY DEF IInv
<1> QED
  BY <1>1, Invariant, PTL

(* Bytes that are not UTF-8, and whatever follows them, are never flushed  *)
(* to the client (server.rs:902-937, 956-982).                             *)
THEOREM FailClosed == Spec => []OnlyTextIsFlushed
<1>1. IInv => OnlyTextIsFlushed
  BY DEF IInv, PacketsInPlace, OnlyTextIsFlushed
<1> QED
  BY <1>1, Invariant, PTL

(* The audit record is what the client was told, and a command that ran    *)
(* has a decision in it (server.rs:758-789).                               *)
THEOREM Auditing == Spec => []AuditMatches
<1>1. IInv => AuditMatches
  BY DEF IInv, HandlerInPlace, EventsInPlace, AuditMatches
<1> QED
  BY <1>1, Invariant, PTL

-----------------------------------------------------------------------------
(* ExecuteStream implements Session: every step of the call is a step of   *)
(* the abstract specification or leaves its variables alone.               *)

LEMMA Stutters ==
    ASSUME UNCHANGED <<wrote, sent, accepted, verdict>>, child = "none" <=> child' = "none"
    PROVE  UNCHANGED Abstract!vars
  BY DEF Abstract!vars, Phase

\* A command is launched, or its call is refused.
LEMMA LaunchSimulates ==
    ASSUME verdict = NoVerdict, child = "none", Launch, UNCHANGED <<wrote, sent>>
    PROVE  Abstract!Next
<1>1. CASE child' = "running" /\ UNCHANGED <<eventVars, verdict>>
  <2>1. Abstract!Run
    BY <1>1 DEF Abstract!Run, Phase, eventVars
  <2> QED
    BY <2>1 DEF Abstract!Next
<1>2. CASE Conclude("error", Killed) /\ UNCHANGED child
  <2>1. Killed \in Codes /\ "error" \in Outcome \ {"executed"}
    BY DEF Codes, Outcome
  <2>2. Done("error", Killed) # NoVerdict
    BY <2>1, DoneIsItem
  <2>3. Abstract!Refuse
    BY <1>2, <2>1, <2>2 DEF Abstract!Refuse, Phase, Conclude
  <2> QED
    BY <2>3 DEF Abstract!Next
<1> QED
  BY <1>1, <1>2 DEF Launch

LEMMA RefusalSimulates ==
    ASSUME verdict = NoVerdict, child = "none", UNCHANGED <<child, wrote, sent>>,
           NEW o \in Outcome \ {"executed"}, Conclude(o, Killed)
    PROVE  Abstract!Next
<1>1. Killed \in Codes
  BY DEF Codes
<1>2. Done(o, Killed) # NoVerdict
  BY <1>1, DoneIsItem
<1>3. Abstract!Refuse
  BY <1>1, <1>2 DEF Abstract!Refuse, Phase, Conclude
<1> QED
  BY <1>3 DEF Abstract!Next

LEMMA FailureSimulates ==
    ASSUME verdict = NoVerdict, child # "none", child' # "none", UNCHANGED <<wrote, sent>>,
           NEW c \in Codes, Conclude("error", c)
    PROVE  Abstract!Next
<1>1. "error" \in Outcome
  BY DEF Outcome
<1>2. Done("error", c) # NoVerdict /\ Done("error", c).outcome = "error"
  BY <1>1, DoneIsItem
<1>3. Abstract!Fail
  BY <1>2 DEF Abstract!Fail, Phase, Conclude
<1> QED
  BY <1>3 DEF Abstract!Next

LEMMA HandlerSimulates ==
    ASSUME IInv, [Next]_vars, Handler \/ \E a \in HookAnswer : HookReturns(a)
    PROVE  [Abstract!Next]_(Abstract!vars)
<1> USE DEF eventVars, pumpVars, outVars, procVars
<1>0. /\ TypeOK /\ HandlerTypeOK /\ HandlerInPlace /\ EventsInPlace
      /\ "error" \in Outcome \ {"executed"} /\ Killed \in Codes
  BY TypeParts DEF IInv, Outcome, Codes
<1>1. CASE RejectFirst
  BY <1>0, <1>1, RefusalSimulates DEF RejectFirst, HandlerInPlace
<1>2. CASE ReceiveStart
  <2>1. /\ verdict = NoVerdict /\ child = "none" /\ UNCHANGED <<wrote, sent>>
        /\ inbox # <<>> /\ Head(inbox).kind = "start"
    BY <1>0, <1>2 DEF ReceiveStart, HandlerInPlace, launchFrame
  <2>2. ReqInfo[Head(inbox).req] \in Start
    <3>1. Head(inbox) \in Message
      BY <1>0, <2>1, TailDomain DEF TypeOK, ClientTypeOK
    <3> QED
      BY <2>1, <3>1, ReqAssumption DEF Message
  <2> DEFINE r == ReqInfo[Head(inbox).req]
             g == IF r.registered THEN Gate(r) ELSE "denied"
  <2>3. g # "executed"
    BY <2>2, GateValues
  <2>4. CASE Launch
    BY <2>1, <2>4, LaunchSimulates
  <2>5. CASE UNCHANGED <<eventVars, verdict, child>>
    BY <2>1, <2>5, Stutters
  <2>6. CASE g \in Outcome /\ Conclude(g, Killed) /\ UNCHANGED child
    <3> HIDE DEF g
    <3> QED
      BY <2>1, <2>3, <2>6, RefusalSimulates
  <2> QED
    BY <1>2, <2>4, <2>5, <2>6 DEF ReceiveStart
<1>3. ASSUME NEW a \in HookAnswer, HookReturns(a) PROVE [Abstract!Next]_(Abstract!vars)
  <2>1. verdict = NoVerdict /\ child = "none" /\ UNCHANGED <<wrote, sent>>
    BY <1>0, <1>3 DEF HookReturns, HandlerInPlace, launchFrame
  <2>2. CASE Launch
    BY <2>1, <2>2, LaunchSimulates
  <2>3. ASSUME NEW o \in Outcome, <<a, o>> \in Declined, Conclude(o, Killed), UNCHANGED child
        PROVE  [Abstract!Next]_(Abstract!vars)
    <3>1. o # "executed"
      BY <2>3 DEF Declined
    <3> QED
      BY <2>1, <2>3, <3>1, RefusalSimulates
  <2> QED
    BY <1>3, <2>2, <2>3 DEF HookReturns
<1>4. CASE WaitReturns \/ \E s \in Stream : PumpJoined(s) \/ PumpBroken(s)
  BY <1>0, <1>4, Stutters DEF WaitReturns, PumpJoined, PumpBroken, Kill, HandlerInPlace
<1>5. CASE Inbound \/ WriteStdin
  BY <1>5, Stutters DEF Inbound, WriteStdin, Kill, handlerVars
<1>6. CASE WaitFails
  BY <1>0, <1>6, FailureSimulates DEF WaitFails, HandlerInPlace
<1>7. CASE KillReturns
  BY <1>0, <1>7, FailureSimulates DEF KillReturns, HandlerInPlace
<1>8. CASE JoinReturns
  <2>1. /\ verdict = NoVerdict /\ child = "reaped" /\ code \in Codes
        /\ UNCHANGED <<child, wrote, sent>>
    BY <1>0, <1>8 DEF JoinReturns, HandlerInPlace, TypeOK, ProcTypeOK
  <2>2. CASE Conclude("executed", code)
    <3>1. /\ Done("executed", code) # NoVerdict
          /\ Done("executed", code).outcome = "executed"
      BY <2>1, DoneIsItem DEF Outcome
    <3>2. verdict' = Done("executed", code) /\ UNCHANGED accepted
      BY <2>2 DEF Conclude
    <3>3. \A s \in Stream : sent[s] = wrote[s]
      BY <2>1, <3>1, <3>2, ExecutedStep DEF ExecutedIsComplete
    <3>4. Abstract!Execute
      BY <2>1, <3>1, <3>2, <3>3 DEF Abstract!Execute, Phase
    <3> QED
      BY <3>4 DEF Abstract!Next
  <2>3. CASE Conclude("error", code)
    BY <2>1, <2>3, FailureSimulates
  <2> QED
    BY <1>8, <2>2, <2>3 DEF JoinReturns
<1>9. CASE DoneReturns
  <2>1. hpc = "done" /\ UNCHANGED <<wrote, sent, verdict, child>>
    BY <1>9 DEF DoneReturns
  <2>2. verdict \in DoneEvent /\ verdict.kind = "done" /\ verdict # NoVerdict
    BY <1>0, <2>1 DEF HandlerInPlace, HandlerTypeOK, DoneEvent
  <2>3. PICK i \in DOMAIN slotWait :
            /\ slotWait[i].from = "handler"
            /\ \/ Push(i) /\ accepted' = Append(accepted, slotWait[i].item)
               \/ FailSend(i) /\ UNCHANGED accepted
    BY <1>9 DEF DoneReturns
  <2>4. slotWait[i].item = verdict
    BY <2>3, TypeParts DEF SendersWait, Sending, Stream
  <2>5. CASE accepted' = Append(accepted, slotWait[i].item)
    <3>1. ~Abstract!Contains(accepted, verdict)
      <4>1. DOMAIN accepted = 1..Len(accepted)
        BY TypeParts, LenProperties
      <4> QED
        BY <1>0, <2>1, <2>2, <4>1 DEF EventsInPlace, Abstract!Contains
    <3>2. Phase \in {"refused", "executed", "failed"} /\ UNCHANGED Phase
      BY <2>1, <2>2 DEF Phase
    <3>3. Abstract!Report
      BY <2>1, <2>4, <2>5, <3>1, <3>2 DEF Abstract!Report
    <3> QED
      BY <3>3 DEF Abstract!Next
  <2>6. CASE UNCHANGED accepted
    BY <2>1, <2>6, Stutters
  <2> QED
    BY <2>3, <2>5, <2>6
<1> QED
  BY <1>1, <1>2, <1>3, <1>4, <1>5, <1>6, <1>7, <1>8, <1>9 DEF Handler

\* Where there is output still to be told, the command was run and the call
\* is not "executed".
LEMMA PhaseOfOutput ==
    ASSUME IInv, NEW s \in Stream, child # "none", s \in writer \/ pump[s] # "ok"
    PROVE  Phase \in {"running", "failed"}
  BY DEF IInv, ExecutedIsComplete, Phase

LEMMA PumpSimulates ==
    ASSUME IInv, NEW s \in Stream, Pump(s)
    PROVE  [Abstract!Next]_(Abstract!vars)
<1>1. UNCHANGED <<wrote, verdict, child>>
  BY DEF Pump, PumpReads, PumpReadFails, HoldExpires, PumpEof, PumpSends, PumpSendReturns,
         PumpAborted, pumpFrame, handlerVars, outVars, procVars
<1>2. CASE PumpSendReturns(s)
  <2>1. PICK i \in DOMAIN slotWait :
            /\ slotWait[i].from = s
            /\ \/ /\ accepted' = Append(accepted, slotWait[i].item)
                  /\ sent' = [sent EXCEPT ![s] = @ + 1]
               \/ UNCHANGED <<accepted, sent>>
    BY <1>2 DEF PumpSendReturns
  <2>2. CASE UNCHANGED <<accepted, sent>>
    BY <1>1, <2>2, Stutters
  <2>3. CASE accepted' = Append(accepted, slotWait[i].item) /\ sent' = [sent EXCEPT ![s] = @ + 1]
    <3>1. /\ slotWait[i].item = Packet(s, sent[s] + 1)
          /\ pump[s] \in {"send", "last"} /\ sent[s] < flushed[s]
      BY <2>1, PushedPacket
    <3>2. sent[s] < wrote[s]
      <4>1. sent[s] \in Nat /\ flushed[s] \in Nat /\ taken[s] \in Nat /\ wrote[s] \in Nat
        BY TypeParts DEF PumpTypeOK, OutTypeOK
      <4>2. flushed[s] <= taken[s] /\ taken[s] <= wrote[s]
        BY DEF IInv, PacketsInPlace
      <4> QED
        BY <3>1, <4>1, <4>2
    <3>3. child # "none"
      BY <3>1 DEF IInv, PacketsInPlace
    <3>4. Phase \in {"running", "failed"}
      BY <3>1, <3>3, PhaseOfOutput
    <3>5. UNCHANGED Phase
      BY <1>1 DEF Phase
    <3>6. Abstract!Tell(s)
      BY <1>1, <2>3, <3>1, <3>2, <3>4, <3>5 DEF Abstract!Tell
    <3> QED
      BY <3>6 DEF Abstract!Next
  <2> QED
    BY <2>1, <2>2, <2>3
<1>3. CASE UNCHANGED <<accepted, sent>>
  BY <1>1, <1>3, Stutters
<1> QED
  BY <1>2, <1>3 DEF Pump, PumpReads, PumpReadFails, HoldExpires, PumpEof, PumpSends,
                    PumpAborted, eventVars

LEMMA EnvironmentSimulates ==
    ASSUME IInv, Grant \/ Take \/ DropResponse \/ Client \/ Processes \/ UNCHANGED vars
    PROVE  [Abstract!Next]_(Abstract!vars)
<1> USE DEF eventVars, handlerVars, pumpVars, procVars, outVars
<1>1. CASE Grant \/ Take \/ DropResponse
  BY <1>1, Stutters DEF Grant, Take, DropResponse, queueFrame
<1>2. CASE Client
  BY <1>2, Stutters DEF Client, ClientSends, ClientEnds, ClientLeaves, clientFrame
<1>3. CASE UNCHANGED vars
  BY <1>3, Stutters DEF vars
<1>4. ASSUME NEW s \in Stream, ProcWrites(s) PROVE [Abstract!Next]_(Abstract!vars)
  <2>1. /\ wrote' = [wrote EXCEPT ![s] = @ + 1]
        /\ UNCHANGED <<sent, accepted, verdict, child>>
    BY <1>4 DEF ProcWrites, procFrame
  <2>2. child # "none" /\ s \in writer
    BY <1>4 DEF ProcWrites, SomeProcess, IInv, HandlerInPlace
  <2>3. Phase \in {"running", "failed"} /\ UNCHANGED Phase
    BY <2>1, <2>2, PhaseOfOutput DEF Phase
  <2>4. Abstract!Make(s)
    BY <2>1, <2>3 DEF Abstract!Make
  <2> QED
    BY <2>4 DEF Abstract!Next
<1>5. ASSUME UNCHANGED <<wrote, procFrame>>, child = "none" <=> child' = "none"
      PROVE  [Abstract!Next]_(Abstract!vars)
  BY <1>5, Stutters DEF procFrame
<1>6. CASE Processes
  BY <1>4, <1>5, <1>6 DEF Processes, ProcCloses, ProcReadsStdin, ProcClosesStdin, ProcForks,
                          ChildEnds, HeirEnds, ClosePipes
<1> QED
  BY <1>1, <1>2, <1>3, <1>6

(* A call does what Session promises: a refused call tells its outcome and *)
(* nothing else, packets of a stream are told once and in order, and       *)
(* "executed" is told last, after everything (server.rs:391-790, 855-982). *)
THEOREM Refinement == Spec => ImplementsSession
<1>1. Init => Abstract!Init
  BY DEF Init, Abstract!Init, Phase
<1>2. IInv /\ [Next]_vars => [Abstract!Next]_(Abstract!vars)
  <2> SUFFICES ASSUME IInv, [Next]_vars PROVE [Abstract!Next]_(Abstract!vars)
    OBVIOUS
  <2>1. CASE Handler \/ \E a \in HookAnswer : HookReturns(a)
    BY <2>1, HandlerSimulates
  <2>2. CASE \E s \in Stream : Pump(s)
    BY <2>2, PumpSimulates
  <2>3. CASE Grant \/ Take \/ DropResponse \/ Client \/ Processes \/ UNCHANGED vars
    BY <2>3, EnvironmentSimulates
  <2> QED
    BY <2>1, <2>2, <2>3 DEF Next, Terminated
<1> QED
  BY <1>1, <1>2, Invariant, PTL DEF Spec, ImplementsSession, Abstract!Spec

-----------------------------------------------------------------------------
(***************************************************************************)
(* The call with its client.                                               *)
(***************************************************************************)
-----------------------------------------------------------------------------
(* The client's packet queue.  What was proved of StreamQueue holds of it. *)

UpProofs == INSTANCE StreamQueueProofs WITH
    Sender <- {"main", "stdin"}, Item <- Message, Permit <- UpPermit, Capacity <- UpCapacity,
    budgetWait <- upBudgetWait, slotWait <- upSlotWait, queue <- upQueue,
    free <- upFree, rxOpen <- upOpen

UpQueueOK == Up!QueueTypeOK /\ Up!OneSend

\* w is a send that waited before this step.
Waited(w) ==
    \/ \E k \in DOMAIN upSlotWait : w.from = upSlotWait[k].from /\ w.item = upSlotWait[k].item
    \/ \E k \in DOMAIN upBudgetWait : w.from = upBudgetWait[k].from /\ w.item = upBudgetWait[k].item

(* The two instances of the queue are the same.                            *)
LEMMA SameCardinality ==
    /\ \A S : Up!Cardinality(S) = UpProofs!Cardinality(S)
    /\ \A S : Cardinality(S) = UpProofs!Cardinality(S)
    /\ \A S : IsFiniteSet(S) <=> UpProofs!IsFiniteSet(S)
<1>1. \A S : Up!Cardinality(S) = UpProofs!Cardinality(S)
  BY DEF Up!Cardinality, UpProofs!Cardinality
<1>2. \A S : Cardinality(S) = UpProofs!Cardinality(S)
  BY DEF Cardinality, UpProofs!Cardinality
<1>3. \A S : IsFiniteSet(S) <=> UpProofs!IsFiniteSet(S)
  BY DEF IsFiniteSet, UpProofs!IsFiniteSet
<1> QED
  BY <1>1, <1>2, <1>3

LEMMA SameRemoveAt ==
    /\ \A q, i : Up!RemoveAt(q, i) = RemoveAt(q, i)
    /\ \A q, i : UpProofs!RemoveAt(q, i) = RemoveAt(q, i)
<1>1. \A q, i : Up!RemoveAt(q, i) = RemoveAt(q, i)
  BY DEF Up!RemoveAt, RemoveAt
<1>2. \A q, i : UpProofs!RemoveAt(q, i) = RemoveAt(q, i)
  BY DEF UpProofs!RemoveAt, RemoveAt
<1> QED
  BY <1>1, <1>2

LEMMA SameTypes ==
    /\ Up!QueueTypeOK <=> UpProofs!QueueTypeOK
    /\ Up!OneSend <=> UpProofs!OneSend
  BY SameCardinality
  DEF Up!QueueTypeOK, UpProofs!QueueTypeOK, Up!OneSend, UpProofs!OneSend,
      Up!Request, UpProofs!Request, Up!QueuedItem, UpProofs!QueuedItem

LEMMA SameTypesThen ==
    /\ Up!QueueTypeOK' <=> UpProofs!QueueTypeOK'
    /\ Up!OneSend' <=> UpProofs!OneSend'
  BY SameCardinality
  DEF Up!QueueTypeOK, UpProofs!QueueTypeOK, Up!OneSend, UpProofs!OneSend,
      Up!Request, UpProofs!Request, Up!QueuedItem, UpProofs!QueuedItem

LEMMA UpBudget == IsFiniteSet(UpPermit) /\ UpProofs!IsFiniteSet(UpPermit)
                    /\ UpCapacity \in Nat \ {0} /\ 1 \in 1..UpProofs!Cardinality(UpPermit)
<1>1. Cardinality(UpPermit) \in Nat /\ Cardinality(UpPermit) # 0
  BY UpAssumption, FS_CardinalityType, FS_EmptySet
<1> QED
  BY <1>1, UpAssumption, SameCardinality

LEMMA UpLengths ==
    ASSUME UpQueueOK
    PROVE  /\ DOMAIN upSlotWait = 1..Len(upSlotWait) /\ Len(upSlotWait) \in Nat
           /\ DOMAIN upBudgetWait = 1..Len(upBudgetWait) /\ Len(upBudgetWait) \in Nat
           /\ DOMAIN upQueue = 1..Len(upQueue) /\ Len(upQueue) \in Nat
           /\ \A i \in DOMAIN upQueue : upQueue[i] \in Up!QueuedItem /\ upQueue[i].item \in Message
           /\ \A i \in DOMAIN upSlotWait :
                upSlotWait[i] \in Up!QueuedItem /\ upSlotWait[i].item \in Message
           /\ upQueue \in Seq(Up!QueuedItem) /\ upSlotWait \in Seq(Up!QueuedItem)
           /\ upBudgetWait \in Seq(Up!Request)
<1>1. upQueue \in Seq(Up!QueuedItem) /\ upSlotWait \in Seq(Up!QueuedItem)
        /\ upBudgetWait \in Seq(Up!Request)
  BY DEF UpQueueOK, Up!QueueTypeOK
<1>2. \A e \in Up!QueuedItem : e.item \in Message
  BY DEF Up!QueuedItem
<1> QED
  BY <1>1, <1>2, LenProperties

(* A send begins.                                                          *)
LEMMA UpSends ==
    ASSUME UpQueueOK, NEW p \in {"main", "stdin"}, NEW x \in Message, ~Up!InSend(p),
           Up!SendUnbounded(p, x) \/ Up!SendMetered(p, x, 1)
    PROVE  /\ UpQueueOK'
           /\ \A j \in DOMAIN upSlotWait' : Waited(upSlotWait'[j])
                    \/ (upSlotWait'[j].from = p /\ upSlotWait'[j].item = x)
           /\ \A j \in DOMAIN upBudgetWait' : Waited(upBudgetWait'[j])
                    \/ (upBudgetWait'[j].from = p /\ upBudgetWait'[j].item = x)
           /\ UpPending' = UpPending + 1
           /\ UNCHANGED <<upQueue, upOpen>>
<1>1. UpProofs!QueueTypeOK /\ UpProofs!OneSend
  BY SameTypes DEF UpQueueOK
<1>3. ~UpProofs!InSend(p)
  BY DEF Up!InSend, UpProofs!InSend
<1>4. UpProofs!SendUnbounded(p, x) \/ UpProofs!SendMetered(p, x, 1)
  BY DEF Up!SendUnbounded, UpProofs!SendUnbounded, Up!SendMetered, UpProofs!SendMetered
<1>5. UpProofs!QueueTypeOK'
  BY <1>1, <1>4, UpBudget, UpProofs!SendUnboundedType, UpProofs!SendMeteredType
<1>6. /\ UpProofs!OneSend'
      /\ \A j \in DOMAIN upBudgetWait' :
           \/ \E k \in DOMAIN upBudgetWait : upBudgetWait'[j] = upBudgetWait[k]
           \/ /\ upBudgetWait'[j].from = p /\ upBudgetWait'[j].item = x
              /\ ~UpProofs!SendUnbounded(p, x)
      /\ \A j \in DOMAIN upSlotWait' :
           \/ \E k \in DOMAIN upSlotWait : upSlotWait'[j] = upSlotWait[k]
           \/ /\ upSlotWait'[j].from = p /\ upSlotWait'[j].item = x
              /\ UpProofs!SendUnbounded(p, x)
  <2>1. \/ UpProofs!SendUnbounded(p, x)
        \/ \E n \in 1..UpProofs!Cardinality(UpPermit) : UpProofs!SendMetered(p, x, n)
    BY <1>4, UpBudget
  <2> QED
    BY <1>1, <1>3, <2>1, UpBudget, UpProofs!JoinsWaiters
<1>7. UpPending' = UpPending + 1 /\ UNCHANGED <<upQueue, upOpen>>
  <2>1. CASE Up!SendUnbounded(p, x)
    <3>1. [from |-> p, item |-> x, permit |-> {}] \in Up!QueuedItem
      BY DEF Up!QueuedItem
    <3>2. Len(upSlotWait') = Len(upSlotWait) + 1
      BY <2>1, <3>1, UpLengths, AppendProperties DEF Up!SendUnbounded
    <3> QED
      BY <2>1, <3>2, UpLengths DEF Up!SendUnbounded, UpPending
  <2>2. CASE Up!SendMetered(p, x, 1)
    <3>1. [from |-> p, item |-> x, bytes |-> 1] \in Up!Request
      BY UpBudget, SameCardinality DEF Up!Request
    <3>2. Len(upBudgetWait') = Len(upBudgetWait) + 1
      BY <2>2, <3>1, UpLengths, AppendProperties DEF Up!SendMetered
    <3> QED
      BY <2>2, <3>2, UpLengths DEF Up!SendMetered, UpPending
  <2> QED
    BY <2>1, <2>2
<1> QED
  BY <1>5, <1>6, <1>7, SameTypesThen DEF UpQueueOK, Waited

(* Permits are granted to the first that waits for some.                   *)
LEMMA UpGrants ==
    ASSUME UpQueueOK, NEW S, Up!GrantBudget(S)
    PROVE  /\ UpQueueOK'
           /\ \A j \in DOMAIN upSlotWait' : Waited(upSlotWait'[j])
           /\ \A j \in DOMAIN upBudgetWait' : Waited(upBudgetWait'[j])
           /\ UpPending' = UpPending
           /\ UNCHANGED <<upQueue, upOpen>>
<1>1. UpProofs!QueueTypeOK /\ UpProofs!OneSend /\ UpProofs!GrantBudget(S)
  BY SameTypes, SameCardinality DEF UpQueueOK, Up!GrantBudget, UpProofs!GrantBudget
<1>2. /\ UpProofs!QueueTypeOK'
      /\ \E e \in UpProofs!QueuedItem : e.permit = S /\ upSlotWait' = Append(upSlotWait, e)
  BY <1>1, UpBudget, UpProofs!GrantBudgetType
<1>3. /\ UpProofs!OneSend'
      /\ \A j \in DOMAIN upBudgetWait' :
           \E k \in DOMAIN upBudgetWait : upBudgetWait'[j] = upBudgetWait[k]
      /\ \A j \in DOMAIN upSlotWait' :
           \/ \E k \in DOMAIN upSlotWait : upSlotWait'[j] = upSlotWait[k]
           \/ \E k \in DOMAIN upBudgetWait :
                /\ upSlotWait'[j].from = upBudgetWait[k].from
                /\ upSlotWait'[j].item = upBudgetWait[k].item
  BY <1>1, UpBudget, UpProofs!MovesToSlotWait
<1>4. Len(upSlotWait') = Len(upSlotWait) + 1
  <2>1. Up!QueuedItem = UpProofs!QueuedItem
    BY DEF Up!QueuedItem, UpProofs!QueuedItem
  <2> QED
    BY <1>2, <2>1, UpLengths, AppendProperties
<1>5. Len(upBudgetWait') = Len(upBudgetWait) - 1
  BY UpLengths, TailDomain DEF Up!GrantBudget
<1>6. UpPending' = UpPending /\ UNCHANGED <<upQueue, upOpen>>
  BY <1>4, <1>5, UpLengths DEF UpPending, Up!GrantBudget
<1> QED
  BY <1>2, <1>3, <1>6, SameTypesThen DEF UpQueueOK, Waited

(* A send leaves the waiters for a slot, having queued its item or not.    *)
LEMMA UpLeaves ==
    ASSUME UpQueueOK, NEW i \in DOMAIN upSlotWait, Up!Push(i) \/ Up!DropSend(i)
    PROVE  /\ UpQueueOK'
           /\ Len(upSlotWait') = Len(upSlotWait) - 1
           /\ \A j \in DOMAIN upSlotWait' :
                Waited(upSlotWait'[j]) /\ upSlotWait'[j].from # upSlotWait[i].from
           /\ \A j \in DOMAIN upBudgetWait' :
                Waited(upBudgetWait'[j]) /\ upBudgetWait'[j].from # upSlotWait[i].from
           /\ UNCHANGED <<upBudgetWait, upOpen>>
<1>1. UpProofs!QueueTypeOK /\ UpProofs!OneSend
  BY SameTypes DEF UpQueueOK
<1>2. UpProofs!Push(i) \/ UpProofs!DropSend(i)
  BY SameRemoveAt DEF Up!Push, UpProofs!Push, Up!DropSend, UpProofs!DropSend
<1>3. UpProofs!QueueTypeOK'
  BY <1>1, <1>2, UpBudget, UpProofs!PushType, UpProofs!DropSendType
<1>4. upSlotWait' = RemoveAt(upSlotWait, i) /\ UNCHANGED <<upBudgetWait, upOpen>>
  BY SameRemoveAt DEF Up!Push, Up!DropSend
<1>5. /\ UpProofs!OneSend'
      /\ \A j \in DOMAIN upSlotWait' :
           /\ upSlotWait'[j].from # upSlotWait[i].from
           /\ \E k \in DOMAIN upSlotWait : upSlotWait'[j] = upSlotWait[k]
      /\ \A j \in DOMAIN upBudgetWait' : upBudgetWait'[j].from # upSlotWait[i].from
  <2>1. upSlotWait' = UpProofs!RemoveAt(upSlotWait, i) /\ upBudgetWait' = upBudgetWait
    BY <1>4, SameRemoveAt
  <2> QED
    BY <1>1, <2>1, UpBudget, UpProofs!LeavesSlotWait
<1>6. Len(upSlotWait') = Len(upSlotWait) - 1
  BY <1>4, UpLengths, RemoveAtProperties
<1> QED
  BY <1>3, <1>4, <1>5, <1>6, SameTypesThen DEF UpQueueOK, Waited

(* A send returns Ok: its item is the last of the queue.                   *)
LEMMA UpPushes ==
    ASSUME UpQueueOK, NEW i \in DOMAIN upSlotWait, Up!Push(i)
    PROVE  /\ UpPending' = UpPending
           /\ upOpen /\ upQueue' # <<>>
           /\ \A j \in DOMAIN upQueue' :
                \/ upQueue'[j] = upSlotWait[i]
                \/ \E k \in DOMAIN upQueue : upQueue'[j] = upQueue[k]
<1>1. upQueue' = Append(upQueue, upSlotWait[i]) /\ upOpen /\ upBudgetWait' = upBudgetWait
  BY DEF Up!Push
<1>2. /\ DOMAIN upQueue' = DOMAIN upQueue \union {Len(upQueue) + 1}
      /\ \A j \in DOMAIN upQueue : upQueue'[j] = upQueue[j]
      /\ upQueue'[Len(upQueue) + 1] = upSlotWait[i]
      /\ Len(upQueue') = Len(upQueue) + 1
  BY <1>1, UpLengths, AppendDomain, AppendProperties
<1>3. upQueue' # <<>>
  BY <1>2, UpLengths
<1>4. Len(upSlotWait') = Len(upSlotWait) - 1
  BY UpLeaves
<1> QED
  BY <1>1, <1>2, <1>3, <1>4, UpLengths DEF UpPending

(* A send fails.                                                           *)
LEMMA UpFails ==
    ASSUME UpQueueOK, NEW i \in DOMAIN upSlotWait, Up!DropSend(i)
    PROVE  UpPending' <= UpPending /\ UNCHANGED upQueue
<1>1. Len(upSlotWait') = Len(upSlotWait) - 1 /\ UNCHANGED <<upQueue, upBudgetWait>>
  BY UpLeaves DEF Up!DropSend
<1> QED
  BY <1>1, UpLengths DEF UpPending

(* A task that is aborted waits no more.                                   *)
LEMMA UpAborts ==
    ASSUME UpQueueOK, NEW p, Up!AbortSend(p)
    PROVE  /\ UpQueueOK'
           /\ \A j \in DOMAIN upSlotWait' :
                Waited(upSlotWait'[j]) /\ upSlotWait'[j].from # p
           /\ \A j \in DOMAIN upBudgetWait' :
                Waited(upBudgetWait'[j]) /\ upBudgetWait'[j].from # p
           /\ UpPending' <= UpPending
           /\ UNCHANGED <<upQueue, upOpen>>
<1>1. CASE ~Up!InSend(p) /\ UNCHANGED Up!queueVars
  <2>1. UNCHANGED <<upBudgetWait, upSlotWait, upQueue, upFree, upOpen>>
    BY <1>1 DEF Up!queueVars
  <2>2. UpQueueOK'
    BY <2>1 DEF UpQueueOK, Up!QueueTypeOK, Up!OneSend
  <2> QED
    BY <1>1, <2>1, <2>2, UpLengths DEF Up!InSend, Waited, UpPending
<1>2. ASSUME NEW i \in DOMAIN upBudgetWait, upBudgetWait[i].from = p,
             upBudgetWait' = Up!RemoveAt(upBudgetWait, i),
             UNCHANGED <<upSlotWait, upQueue, upFree, upOpen>>
      PROVE  /\ UpQueueOK'
             /\ \A j \in DOMAIN upSlotWait' : Waited(upSlotWait'[j]) /\ upSlotWait'[j].from # p
             /\ \A j \in DOMAIN upBudgetWait' : Waited(upBudgetWait'[j]) /\ upBudgetWait'[j].from # p
             /\ UpPending' <= UpPending
  <2>1. UpProofs!QueueTypeOK /\ UpProofs!OneSend
    BY SameTypes DEF UpQueueOK
  <2>2. upBudgetWait' = UpProofs!RemoveAt(upBudgetWait, i) /\ upSlotWait' = upSlotWait
          /\ upBudgetWait' = RemoveAt(upBudgetWait, i)
    BY <1>2, SameRemoveAt
  <2>3. /\ UpProofs!OneSend'
        /\ \A j \in DOMAIN upBudgetWait' :
             /\ upBudgetWait'[j].from # upBudgetWait[i].from
             /\ \E k \in DOMAIN upBudgetWait : upBudgetWait'[j] = upBudgetWait[k]
        /\ \A j \in DOMAIN upSlotWait' : upSlotWait'[j].from # upBudgetWait[i].from
    BY <2>1, <2>2, UpBudget, UpProofs!LeavesBudgetWait
  <2>4. upBudgetWait' \in Seq(Up!Request) /\ Len(upBudgetWait') = Len(upBudgetWait) - 1
    <3>1. upBudgetWait \in Seq(Up!Request)
      BY UpLengths
    <3> QED
      BY <2>2, <3>1, RemoveAtProperties
  <2>5. Up!QueueTypeOK'
    BY <1>2, <2>4 DEF UpQueueOK, Up!QueueTypeOK
  <2>6. UpQueueOK'
    BY <2>3, <2>5, SameTypesThen DEF UpQueueOK
  <2>7. UpPending' <= UpPending
    BY <1>2, <2>4, UpLengths DEF UpPending
  <2>8. \A j \in DOMAIN upSlotWait' : Waited(upSlotWait'[j]) /\ upSlotWait'[j].from # p
    BY <1>2, <2>3 DEF Waited
  <2>9. \A j \in DOMAIN upBudgetWait' : Waited(upBudgetWait'[j]) /\ upBudgetWait'[j].from # p
    BY <1>2, <2>3 DEF Waited
  <2> QED
    BY <2>6, <2>7, <2>8, <2>9
<1>3. ASSUME NEW i \in DOMAIN upSlotWait, upSlotWait[i].from = p, Up!DropSend(i)
      PROVE  /\ UpQueueOK'
             /\ \A j \in DOMAIN upSlotWait' : Waited(upSlotWait'[j]) /\ upSlotWait'[j].from # p
             /\ \A j \in DOMAIN upBudgetWait' : Waited(upBudgetWait'[j]) /\ upBudgetWait'[j].from # p
             /\ UpPending' <= UpPending
             /\ UNCHANGED <<upQueue, upOpen>>
  BY <1>3, UpLeaves, UpFails
<1> QED
  BY <1>1, <1>2, <1>3 DEF Up!AbortSend

(* The transport takes the first item.                                     *)
LEMMA UpPops ==
    ASSUME UpQueueOK, Up!Pop
    PROVE  /\ UpQueueOK'
           /\ UpPending' = UpPending - 1
           /\ 1 \in DOMAIN upQueue /\ Head(upQueue) = upQueue[1] /\ Head(upQueue).item \in Message
           /\ \A j \in DOMAIN upQueue' : \E k \in DOMAIN upQueue : upQueue'[j] = upQueue[k]
           /\ UNCHANGED <<upSlotWait, upBudgetWait, upOpen>>
<1>1. UpProofs!QueueTypeOK /\ UpProofs!Pop
  BY SameTypes DEF UpQueueOK, Up!Pop, UpProofs!Pop
<1>2. UpProofs!QueueTypeOK'
  BY <1>1, UpBudget, UpProofs!PopType
<1>3. upQueue # <<>> /\ upQueue' = Tail(upQueue) /\ UNCHANGED <<upSlotWait, upBudgetWait, upOpen>>
  BY DEF Up!Pop
<1>4. /\ Head(upQueue) = upQueue[1] /\ 1 \in DOMAIN upQueue
      /\ DOMAIN upQueue' = 1..(Len(upQueue) - 1)
      /\ Len(upQueue') = Len(upQueue) - 1
      /\ \A j \in 1..(Len(upQueue) - 1) : upQueue'[j] = upQueue[j + 1]
  BY <1>3, UpLengths, TailDomain
<1>5. \A j \in DOMAIN upQueue' : j + 1 \in DOMAIN upQueue /\ upQueue'[j] = upQueue[j + 1]
  BY <1>4, UpLengths
<1>6. UpPending' = UpPending - 1
  BY <1>3, <1>4, UpLengths DEF UpPending
<1>7. Up!OneSend'
  BY <1>3 DEF UpQueueOK, Up!OneSend
<1> QED
  BY <1>2, <1>3, <1>4, <1>5, <1>6, <1>7, UpLengths, SameTypesThen DEF UpQueueOK

(* The client's receiver is dropped.                                       *)
LEMMA UpCloses ==
    ASSUME UpQueueOK, Up!CloseRx
    PROVE  /\ UpQueueOK'
           /\ UpPending' <= UpPending
           /\ upQueue' = <<>> /\ ~upOpen' /\ upOpen
           /\ UNCHANGED <<upSlotWait, upBudgetWait>>
<1>1. UpProofs!QueueTypeOK /\ UpProofs!CloseRx
  BY SameTypes DEF UpQueueOK, Up!CloseRx, UpProofs!CloseRx, Up!PermitsIn, UpProofs!PermitsIn
<1>2. UpProofs!QueueTypeOK'
  BY <1>1, UpBudget, UpProofs!CloseRxType
<1>3. upQueue' = <<>> /\ ~upOpen' /\ upOpen /\ UNCHANGED <<upSlotWait, upBudgetWait>>
  BY DEF Up!CloseRx
<1>4. Len(upQueue') = 0
  BY <1>3, EmptySeq
<1>5. UpPending' <= UpPending
  BY <1>3, <1>4, UpLengths DEF UpPending
<1>6. Up!OneSend'
  BY <1>3 DEF UpQueueOK, Up!OneSend
<1> QED
  BY <1>2, <1>3, <1>5, <1>6, SameTypesThen DEF UpQueueOK

-----------------------------------------------------------------------------
(* The daemon within the call.                                             *)

LEMMA CallInit_Inv == CallInit => CallInv
<1> SUFFICES ASSUME CallInit
             PROVE  CallInv
  OBVIOUS
<1>1. IInv
  BY InitInv DEF CallInit
<1>2. /\ cpc = "start" /\ spc = "off" /\ result = NoVerdict /\ exit = NoExit /\ lost = FALSE
      /\ down = <<>> /\ got = <<>> /\ cread = 0 /\ torn = FALSE
      /\ mode \in {"live", "bytes"} /\ echo \in BOOLEAN
      /\ total \in (IF echo THEN EchoStdin ELSE 0..AnyStdin)
      /\ typed = (IF mode = "bytes" THEN total ELSE 0) /\ closed = (mode = "bytes")
  BY DEF CallInit
<1>3. /\ inbox = <<>> /\ inEnd = "open" /\ gone = FALSE /\ msgs = 0 /\ hpc = "recv"
      /\ accepted = <<>> /\ verdict = NoVerdict /\ queue = <<>> /\ rxOpen = TRUE
  BY DEF CallInit, Init, QueueInit
<1>4. /\ upBudgetWait = <<>> /\ upSlotWait = <<>> /\ upQueue = <<>> /\ upFree = UpPermit
      /\ upOpen = TRUE
  BY DEF CallInit, Up!QueueInit
<1>5. \A S : <<>> \in Seq(S) /\ Len(<<>>) = 0 /\ DOMAIN <<>> = {}
  OBVIOUS
<1>6. total \in Nat /\ total + 2 <= MaxMsgs
  BY <1>2, CallAssumption, CallerAssumption, BoundsAssumption
<1>7. CallTypeOK
  <2>1. Up!QueueTypeOK
    BY <1>4, <1>5 DEF Up!QueueTypeOK
  <2>2. typed \in 0..total /\ cread \in 0..typed
    BY <1>2, <1>6
  <2> QED
    BY <1>2, <1>5, <1>6, <2>1, <2>2 DEF CallTypeOK
<1>8. UpSendersWait
  BY <1>4, <1>5 DEF UpSendersWait, Up!OneSend
<1>9. CallerInPlace
  BY <1>2 DEF CallerInPlace, InputOver
<1>10. UpInPlace
  BY <1>2, <1>3, <1>4, <1>5 DEF UpInPlace, Begun, UpPending
<1>11. LinkInPlace
  BY <1>2, <1>3, <1>4 DEF LinkInPlace, Failed, NoVerdict
<1>12. DownInPlace
  BY <1>2, <1>3, <1>5 DEF DownInPlace, NoVerdict
<1> QED
  BY <1>1, <1>7, <1>8, <1>9, <1>10, <1>11, <1>12 DEF CallInv

(* The daemon has room for whatever the client sends.                      *)
LEMMA MessagesFit ==
    ASSUME CallInv, Up!Pop
    PROVE  msgs < MaxMsgs
<1>1. UpQueueOK
  BY DEF CallInv, CallTypeOK, UpSendersWait, UpQueueOK
<1>2. Len(upQueue) >= 1
  BY <1>1, UpLengths, UpPops
<1>3. msgs + UpPending <= Begun /\ msgs \in Nat
  BY DEF CallInv, UpInPlace, IInv, TypeOK, ClientTypeOK
<1>4. Begun <= total + 2 /\ total + 2 <= MaxMsgs /\ Begun \in Nat /\ total \in Nat
  BY DEF CallInv, CallTypeOK, Begun
<1> QED
  BY <1>1, <1>2, <1>3, <1>4, UpLengths, BoundsAssumption DEF UpPending

(* A call that is dropped is a client that leaves.                         *)
LEMMA Resets ==
    ASSUME CallReset
    PROVE  /\ UNCHANGED vars \/ ClientLeaves
           /\ gone \in BOOLEAN => gone' = TRUE
           /\ inbox' \in {inbox, <<>>}
           /\ UNCHANGED <<msgs, hpc, verdict, accepted, queue, rxOpen>>
<1>1. UNCHANGED <<hpc, verdict, accepted, queue, rxOpen>>
  BY DEF CallReset, daemonFrame, eventVars, queueVars, handlerVars
<1>2. CASE gone
  BY <1>1, <1>2 DEF CallReset, daemonFrame, vars, clientVars
<1>3. CASE ~gone
  BY <1>1, <1>3, CallerAssumption DEF CallReset, daemonFrame, ClientLeaves, clientFrame
<1> QED
  BY <1>2, <1>3

(* Whatever a step of the call is to the client, to the daemon it is one   *)
(* that ExecuteStream foresees.                                            *)
LEMMA DaemonStep ==
    ASSUME CallInv, [CallNext]_callVars
    PROVE  [Next]_vars
<1>1. CASE SendStart \/ SendBytes \/ Exits \/ StdinTask \/ StdinFails \/ StdinAborted \/ Types
           \/ ClientGrant \/ UploadReset \/ UNCHANGED callVars
  BY <1>1 DEF SendStart, SendBytes, Exits, StdinTask, StdinReads, StdinFails, StdinSendReturns,
              StdinAborted, stdinFrame, Types, ClientGrant, UploadReset, callVars
<1>2. CASE MainSendReturns \/ ReplyRead \/ ReplyFails
  <2>1. UNCHANGED vars \/ CallReset
    BY <1>2 DEF MainSendReturns, ReplyRead, ReplyFails, Return
  <2> QED
    BY <2>1, Resets DEF Next, Client
<1>3. CASE Upload
  <2>1. UpQueueOK
    BY DEF CallInv, CallTypeOK, UpSendersWait, UpQueueOK
  <2>2. Head(upQueue).item \in Message /\ upQueue # <<>> /\ msgs < MaxMsgs
    BY <1>3, <2>1, UpPops, MessagesFit DEF Upload, Up!Pop
  <2>3. inEnd = "open"
    BY <1>3, <2>2 DEF Upload, CallInv, UpInPlace
  <2>4. ClientSends \/ UNCHANGED vars
    BY <1>3, <2>2, <2>3 DEF Upload, ClientSends, clientFrame, daemonFrame, vars, clientVars
  <2> QED
    BY <2>4 DEF Next, Client
<1>4. CASE UploadEnds
  <2>1. ClientEnds
    BY <1>4 DEF UploadEnds, ClientEnds, clientFrame, daemonFrame
  <2> QED
    BY <2>1 DEF Next, Client
<1>5. CASE Download
  <2>1. Take
    BY <1>5 DEF Download, Take, queueFrame
  <2> QED
    BY <2>1 DEF Next
<1>6. CASE LinkLost
  BY <1>6, Resets DEF LinkLost, Next, Client
<1>7. CASE DaemonTask \/ HookAnswers \/ DaemonQueue
  BY <1>7 DEF DaemonTask, HookAnswers, DaemonQueue, Next
<1>8. CASE Killed9 \/ EchoSteps \/ AnyEnds \/ AnySteps
  <2>1. Killed \in Codes /\ 0 \in Codes
    BY CallerAssumption DEF Codes
  <2>2. "stdout" \in Stream
    BY DEF Stream
  <2>3. Processes
    BY <1>8, <2>1, <2>2 DEF Killed9, ChildDies, EchoSteps, EchoReads, EchoWrites, EchoEnds, AnyEnds,
                            AnySteps, Processes
  <2> QED
    BY <2>3 DEF Next
<1> QED
  BY <1>1, <1>2, <1>3, <1>4, <1>5, <1>6, <1>7, <1>8 DEF CallNext, Runs, Main

\* What the daemon, its command and its queue leave of what the client knows.
callerFrame == <<sourceVars, torn, cread, mainVars, spc, lost, upVars, down>>

DaemonKeeps ==
    /\ UNCHANGED <<inEnd, gone, msgs, callerFrame>>
    /\ inbox' = inbox \/ (inbox # <<>> /\ inbox' = Tail(inbox))
    /\ gone \/ rxOpen' = rxOpen
    /\ \/ UNCHANGED <<queue, accepted>>
       \/ \E i \in DOMAIN slotWait :
            queue' = Append(queue, slotWait[i]) /\ accepted' = Append(accepted, slotWait[i].item)
       \/ gone /\ UNCHANGED accepted
    /\ hpc = "end" => hpc' = "end"
    /\ verdict # NoVerdict => verdict' # NoVerdict
    /\ hpc = "recv" /\ inbox = <<>> /\ inEnd = "open" => hpc' = "recv" /\ inbox' = <<>>

LEMMA TaskKeeps ==
    ASSUME IInv, DaemonTask \/ HookAnswers
    PROVE  DaemonKeeps
<1> USE DEF handlerVars, clientVars, eventVars
<1>1. UNCHANGED callerFrame
  BY DEF DaemonTask, HookAnswers, callerVars, callerFrame
<1>2. /\ gone \/ rxOpen' = rxOpen
      /\ \/ UNCHANGED <<queue, accepted>>
         \/ \E i \in DOMAIN slotWait :
              queue' = Append(queue, slotWait[i]) /\ accepted' = Append(accepted, slotWait[i].item)
  BY Acceptance DEF DaemonTask, HookAnswers
<1>3. verdict = NoVerdict <=> hpc \notin {"done", "end"}
  BY DEF IInv, HandlerInPlace
<1>4. /\ UNCHANGED <<inEnd, gone, msgs>>
      /\ inbox' = inbox \/ (inbox # <<>> /\ inbox' = Tail(inbox))
      /\ hpc = "end" => hpc' = "end"
      /\ verdict # NoVerdict => verdict' # NoVerdict
      /\ hpc = "recv" /\ inbox = <<>> /\ inEnd = "open" => hpc' = "recv" /\ inbox' = <<>>
  <2>1. CASE RejectFirst \/ ReceiveStart
    BY <1>3, <2>1 DEF RejectFirst, ReceiveStart
  <2>2. CASE WaitReturns \/ WaitFails \/ KillReturns \/ JoinReturns \/ DoneReturns
             \/ \E s \in Stream : PumpJoined(s) \/ PumpBroken(s)
    BY <1>3, <2>2 DEF WaitReturns, WaitFails, KillReturns, JoinReturns, DoneReturns, PumpJoined,
                      PumpBroken, Kill, Conclude, Done, NoVerdict
  <2>3. CASE Inbound \/ WriteStdin
    BY <1>3, <2>3 DEF Inbound, WriteStdin, Kill
  <2>4. CASE \E a \in HookAnswer : HookReturns(a)
    BY <1>3, <2>4 DEF HookReturns
  <2>5. CASE \E s \in Stream : Pump(s)
    BY <2>5 DEF Pump, PumpReads, PumpReadFails, HoldExpires, PumpEof, PumpSends, PumpSendReturns,
                PumpAborted, pumpFrame
  <2> QED
    BY <2>1, <2>2, <2>3, <2>4, <2>5 DEF DaemonTask, HookAnswers, Handler
<1> QED
  BY <1>1, <1>2, <1>4 DEF DaemonKeeps

LEMMA RestKeeps ==
    ASSUME DaemonQueue \/ Killed9 \/ EchoSteps \/ AnyEnds \/ AnySteps
    PROVE  DaemonKeeps
<1> USE DEF handlerVars, clientVars, eventVars, queueVars
<1>1. CASE DaemonQueue
  BY <1>1 DEF DaemonQueue, Grant, DropResponse, GrantBudget, CloseRx, queueFrame, callerVars,
              callerFrame, DaemonKeeps
<1>2. CASE Killed9 \/ EchoSteps \/ AnyEnds \/ AnySteps
  <2>1. UNCHANGED callerFrame
    BY <1>2 DEF Killed9, EchoSteps, AnyEnds, AnySteps, callerVars, procCaller, callerFrame
  <2>2. UNCHANGED procFrame
    BY <1>2 DEF Killed9, ChildDies, ChildEnds, EchoSteps, EchoReads, EchoWrites, EchoEnds, AnyEnds,
                AnySteps, ProcWrites, ProcReadsStdin
  <2> QED
    BY <2>1, <2>2 DEF procFrame, DaemonKeeps
<1> QED
  BY <1>1, <1>2

(* Such a step leaves everything in its place.                             *)
LEMMA DaemonPreserves ==
    ASSUME CallInv, IInv', DaemonKeeps
    PROVE  CallInv'
<1> USE DEF callerFrame, sourceVars, mainVars, upVars
<1>1. CallTypeOK'
  BY DEF CallInv, CallTypeOK, DaemonKeeps, Up!QueueTypeOK
<1>2. UpSendersWait'
  BY DEF CallInv, UpSendersWait, Up!OneSend, UpSending, DaemonKeeps
<1>3. CallerInPlace'
  BY DEF CallInv, CallerInPlace, InputOver, DaemonKeeps
<1>4. UpInPlace'
  <2>1. \A i \in DOMAIN inbox' : \E k \in DOMAIN inbox : inbox'[i] = inbox[k]
    <3>1. inbox \in Seq(Message) /\ DOMAIN inbox = 1..Len(inbox) /\ Len(inbox) \in Nat
      BY LenProperties DEF CallInv, IInv, TypeOK, ClientTypeOK
    <3>2. CASE inbox # <<>> /\ inbox' = Tail(inbox)
      <4>1. DOMAIN inbox' = 1..(Len(inbox) - 1)
              /\ \A j \in 1..(Len(inbox) - 1) : inbox'[j] = inbox[j + 1]
        BY <3>1, <3>2, TailDomain
      <4> QED
        BY <3>1, <4>1
    <3> QED
      BY <3>2 DEF DaemonKeeps
  <2>2. \A i \in DOMAIN inbox' : inbox'[i] = StdinEof => InputOver
    BY <2>1 DEF CallInv, UpInPlace
  <2>3. ~gone /\ cpc \in {"start", "starting"} => hpc' = "recv" /\ inbox' = <<>>
    BY DEF CallInv, UpInPlace, AllSendersDropped, DaemonKeeps
  <2> QED
    BY <2>2, <2>3 DEF CallInv, UpInPlace, UpPending, AllSendersDropped, InputOver, Begun, DaemonKeeps
<1>5. LinkInPlace'
  BY DEF CallInv, LinkInPlace, DaemonKeeps
<1>6. DownInPlace'
  <2>1. accepted \in Seq(Item) /\ DOMAIN accepted = 1..Len(accepted) /\ Len(accepted) \in Nat
          /\ queue \in Seq(QueuedItem) /\ DOMAIN queue = 1..Len(queue) /\ Len(queue) \in Nat
          /\ Len(got) \in Nat /\ Len(down) \in Nat
    BY LenProperties DEF CallInv, IInv, TypeOK, QueueTypeOK, CallTypeOK
  <2>2. CASE UNCHANGED accepted /\ (gone \/ UNCHANGED queue)
    BY <2>2 DEF CallInv, DownInPlace, DaemonKeeps
  <2>3. ASSUME NEW i \in DOMAIN slotWait, queue' = Append(queue, slotWait[i]),
               accepted' = Append(accepted, slotWait[i].item)
        PROVE  DownInPlace'
    <3>1. slotWait[i] \in QueuedItem /\ slotWait[i].item \in Item
      BY Lengths DEF CallInv, IInv, TypeOK, QueuedItem
    <3>2. /\ DOMAIN accepted' = DOMAIN accepted \union {Len(accepted) + 1}
          /\ Len(accepted') = Len(accepted) + 1
          /\ \A j \in DOMAIN accepted : accepted'[j] = accepted[j]
          /\ accepted'[Len(accepted) + 1] = slotWait[i].item
      BY <2>1, <2>3, <3>1, AppendDomain, AppendProperties
    <3>3. /\ DOMAIN queue' = DOMAIN queue \union {Len(queue) + 1}
          /\ Len(queue') = Len(queue) + 1
          /\ \A j \in DOMAIN queue : queue'[j] = queue[j]
          /\ queue'[Len(queue) + 1] = slotWait[i]
      BY <2>1, <2>3, <3>1, AppendDomain, AppendProperties
    <3>4. UNCHANGED <<got, down, cpc, result, gone>>
      BY DEF DaemonKeeps
    <3>5. DownInPlace
      BY DEF CallInv
    <3>6. ~gone =>
            /\ Len(accepted') = Len(got) + Len(down) + Len(queue')
            /\ \A k \in DOMAIN queue' : queue'[k].item = accepted'[Len(got) + Len(down) + k]
      <4> SUFFICES ASSUME ~gone
                   PROVE  /\ Len(accepted') = Len(got) + Len(down) + Len(queue')
                          /\ \A k \in DOMAIN queue' :
                                queue'[k].item = accepted'[Len(got) + Len(down) + k]
        OBVIOUS
      <4>1. /\ Len(accepted) = Len(got) + Len(down) + Len(queue)
            /\ \A k \in DOMAIN queue : queue[k].item = accepted[Len(got) + Len(down) + k]
        BY <3>5 DEF DownInPlace
      <4>2. Len(accepted') = Len(got) + Len(down) + Len(queue')
        BY <2>1, <3>2, <3>3, <4>1
      <4>3. ASSUME NEW k \in DOMAIN queue
            PROVE  queue'[k].item = accepted'[Len(got) + Len(down) + k]
        BY <2>1, <3>2, <3>3, <4>1
      <4>4. Len(got) + Len(down) + (Len(queue) + 1) = Len(accepted) + 1
        BY <2>1, <4>1
      <4> QED
        BY <3>2, <3>3, <4>2, <4>3, <4>4
    <3> QED
      BY <3>2, <3>4, <3>5, <3>6 DEF DownInPlace
  <2> QED
    BY <2>2, <2>3 DEF DaemonKeeps
<1> QED
  BY <1>1, <1>2, <1>3, <1>4, <1>5, <1>6 DEF CallInv

-----------------------------------------------------------------------------
(* The client.                                                             *)

LEMMA Parts ==
    ASSUME CallInv
    PROVE  /\ CallTypeOK /\ UpSendersWait /\ CallerInPlace /\ UpInPlace /\ LinkInPlace
           /\ DownInPlace /\ UpQueueOK
           /\ gone \in BOOLEAN /\ msgs \in Nat /\ accepted \in Seq(Item)
           /\ UpPending \in Nat
<1>1. UpQueueOK
  BY DEF CallInv, CallTypeOK, UpSendersWait, UpQueueOK
<1> QED
  BY <1>1, UpLengths DEF CallInv, IInv, TypeOK, ClientTypeOK, UpPending

LEMMA UpPendingThen ==
    ASSUME UpQueueOK'
    PROVE  UpPending' \in Nat
<1>1. upQueue' \in Seq(Up!QueuedItem') /\ upSlotWait' \in Seq(Up!QueuedItem')
        /\ upBudgetWait' \in Seq(Up!Request')
  BY DEF UpQueueOK, Up!QueueTypeOK
<1> QED
  BY <1>1, LenProperties DEF UpPending

LEMMA DaemonStays ==
    ASSUME UNCHANGED vars
    PROVE  UNCHANGED <<inbox, inEnd, gone, msgs, hpc, verdict, accepted, queue, rxOpen>>
  BY DEF vars, eventVars, queueVars, clientVars, handlerVars

\* Who waited before, of a task that has not moved, is still where it was.
LEMMA StillSending ==
    ASSUME UpSendersWait, NEW w, Waited(w),
           w.from = "main" => cpc' = cpc, w.from = "stdin" => spc' = spc
    PROVE  UpSending(w)'
<1>1. PICK v : UpSending(v) /\ v.from = w.from /\ v.item = w.item
  BY DEF UpSendersWait, Waited
<1> QED
  BY <1>1 DEF UpSending

\* Sends that go on waiting, of tasks that stay where they are.
LEMMA WaitersStayUp ==
    ASSUME UpSendersWait, UpQueueOK', NEW T,
           \A j \in DOMAIN upSlotWait' : Waited(upSlotWait'[j]) /\ upSlotWait'[j].from \notin T,
           \A j \in DOMAIN upBudgetWait' : Waited(upBudgetWait'[j]) /\ upBudgetWait'[j].from \notin T,
           "main" \notin T => cpc' = cpc, "stdin" \notin T => spc' = spc
    PROVE  UpSendersWait'
<1>1. \A w : Waited(w) /\ w.from \notin T => UpSending(w)'
  BY StillSending
<1> QED
  BY <1>1 DEF UpSendersWait, UpQueueOK

\* One task begins a send.
LEMMA WaiterJoinsUp ==
    ASSUME UpSendersWait, UpQueueOK', NEW p, NEW x, ~Up!InSend(p),
           \A j \in DOMAIN upSlotWait' : Waited(upSlotWait'[j])
                    \/ (upSlotWait'[j].from = p /\ upSlotWait'[j].item = x),
           \A j \in DOMAIN upBudgetWait' : Waited(upBudgetWait'[j])
                    \/ (upBudgetWait'[j].from = p /\ upBudgetWait'[j].item = x),
           p # "main" => cpc' = cpc, p # "stdin" => spc' = spc,
           \A w : w.from = p /\ w.item = x => UpSending(w)'
    PROVE  UpSendersWait'
<1>1. \A w : Waited(w) => w.from # p
  BY DEF Waited, Up!InSend
<1>2. \A w : Waited(w) => UpSending(w)'
  BY <1>1, StillSending
<1> QED
  BY <1>2 DEF UpSendersWait, UpQueueOK

LEMMA SendStartPreserves ==
    ASSUME CallInv, IInv', SendStart
    PROVE  CallInv'
<1> USE DEF mainFrame, sourceVars
<1>1. PICK r \in ReqId : Up!SendUnbounded("main", [kind |-> "start", req |-> r])
  BY DEF SendStart
<1> DEFINE m == [kind |-> "start", req |-> r]
<1>2. m \in Message /\ m.kind = "start" /\ m # StdinEof
  BY DEF Message, StdinEof
<1>3. /\ cpc = "start" /\ cpc' = "starting" /\ UNCHANGED vars
      /\ UNCHANGED <<mode, echo, total, typed, closed, torn, lost, exit, cread, result, got, spc, down>>
  BY DEF SendStart
<1>4. ~Up!InSend("main")
  BY <1>3, Parts DEF Up!InSend, UpSendersWait, UpSending
<1>5. /\ UpQueueOK'
      /\ \A j \in DOMAIN upSlotWait' : Waited(upSlotWait'[j])
               \/ (upSlotWait'[j].from = "main" /\ upSlotWait'[j].item = m)
      /\ \A j \in DOMAIN upBudgetWait' : Waited(upBudgetWait'[j])
               \/ (upBudgetWait'[j].from = "main" /\ upBudgetWait'[j].item = m)
      /\ UpPending' = UpPending + 1
      /\ UNCHANGED <<upQueue, upOpen>>
  BY <1>1, <1>2, <1>4, Parts, UpSends
<1> HIDE DEF m
<1>6. UNCHANGED <<inbox, inEnd, gone, msgs, hpc, verdict, accepted, queue, rxOpen>>
  BY <1>3, DaemonStays
<1>7. CallTypeOK'
  BY <1>3, <1>5, Parts DEF CallTypeOK, UpQueueOK
<1>8. UpSendersWait'
  <2>1. \A w : w.from = "main" /\ w.item = m => UpSending(w)'
    BY <1>2, <1>3 DEF UpSending
  <2> QED
    BY <1>3, <1>4, <1>5, <2>1, Parts, WaiterJoinsUp
<1>9. CallerInPlace'
  BY <1>3, <1>5, Parts DEF CallerInPlace, InputOver
<1>10. UpInPlace'
  <2>1. Begun' = Begun + 1 /\ Begun \in Nat
    BY <1>3, Parts DEF Begun, CallTypeOK, CallerInPlace
  <2> QED
    BY <1>3, <1>5, <1>6, <2>1, Parts DEF UpInPlace, AllSendersDropped, InputOver
<1>11. LinkInPlace'
  BY <1>3, <1>5, <1>6, Parts DEF LinkInPlace
<1>12. DownInPlace'
  BY <1>3, <1>6, Parts DEF DownInPlace
<1> QED
  BY <1>7, <1>8, <1>9, <1>10, <1>11, <1>12 DEF CallInv

LEMMA Messages == Chunk \in Message /\ StdinEof \in Message /\ Chunk # StdinEof
  BY DEF Message, Chunk, StdinEof

LEMMA SendBytesPreserves ==
    ASSUME CallInv, IInv', SendBytes
    PROVE  CallInv'
<1> USE DEF mainFrame, sourceVars
<1>1. /\ cpc = "bytes" /\ ~Up!InSend("main") /\ UNCHANGED vars
      /\ UNCHANGED <<mode, echo, total, typed, closed, torn, lost, exit, result, got, spc, down>>
      /\ mode = "bytes" /\ typed = total /\ closed /\ spc = "off" /\ ~torn
  BY Parts DEF SendBytes, CallerInPlace
<1>2. PICK m \in {Chunk, StdinEof} :
        /\ Up!SendUnbounded("main", m) \/ Up!SendMetered("main", m, 1)
        /\ \/ m = Chunk /\ cread < total /\ cread' = cread + 1 /\ cpc' = "bytes"
           \/ m = StdinEof /\ cread = total /\ cread' = cread /\ cpc' = "eof"
  BY <1>1 DEF SendBytes
<1>3. /\ UpQueueOK'
      /\ \A j \in DOMAIN upSlotWait' : Waited(upSlotWait'[j])
               \/ (upSlotWait'[j].from = "main" /\ upSlotWait'[j].item = m)
      /\ \A j \in DOMAIN upBudgetWait' : Waited(upBudgetWait'[j])
               \/ (upBudgetWait'[j].from = "main" /\ upBudgetWait'[j].item = m)
      /\ UpPending' = UpPending + 1
      /\ UNCHANGED <<upQueue, upOpen>>
  BY <1>1, <1>2, Messages, Parts, UpSends
<1>4. UNCHANGED <<inbox, inEnd, gone, msgs, hpc, verdict, accepted, queue, rxOpen>>
  BY <1>1, DaemonStays
<1>5. InputOver => m = StdinEof /\ InputOver'
  BY <1>1, <1>2, Parts DEF InputOver, CallTypeOK
<1>6. CallTypeOK'
  BY <1>1, <1>2, <1>3, Parts DEF CallTypeOK, UpQueueOK
<1>7. UpSendersWait'
  <2>1. \A w : w.from = "main" /\ w.item = m => UpSending(w)'
    BY <1>2 DEF UpSending
  <2> QED
    BY <1>1, <1>3, <2>1, Parts, WaiterJoinsUp
<1>8. CallerInPlace'
  BY <1>1, <1>2, <1>3, Messages, Parts DEF CallerInPlace, InputOver
<1>9. UpInPlace'
  <2>1. Begun' = Begun + 1 /\ Begun \in Nat
    BY <1>1, <1>2, Messages, Parts DEF Begun, CallTypeOK
  <2> QED
    BY <1>1, <1>2, <1>3, <1>4, <1>5, <2>1, Parts DEF UpInPlace, AllSendersDropped
<1>10. LinkInPlace'
  BY <1>1, <1>2, <1>3, <1>4, Parts DEF LinkInPlace
<1>11. DownInPlace'
  BY <1>1, <1>2, <1>4, Parts DEF DownInPlace
<1> QED
  BY <1>6, <1>7, <1>8, <1>9, <1>10, <1>11 DEF CallInv

LEMMA StdinReadsPreserves ==
    ASSUME CallInv, IInv', StdinReads \/ StdinFails
    PROVE  CallInv'
<1> USE DEF stdinFrame, mainVars, sourceVars
<1>1. /\ spc = "read" /\ UNCHANGED vars
      /\ UNCHANGED <<mode, echo, total, typed, closed, lost, exit, result, got, cpc, down>>
      /\ mode = "live" /\ cpc \in {"reply", "over"} /\ (closed => typed = total)
      /\ torn = FALSE
  BY Parts DEF StdinReads, StdinFails, CallerInPlace, CallTypeOK
<1>2. PICK m \in {Chunk, StdinEof} :
        /\ Up!SendUnbounded("stdin", m) \/ Up!SendMetered("stdin", m, 1)
        /\ \/ m = Chunk /\ cread < typed /\ cread' = cread + 1 /\ spc' = "send" /\ torn' = FALSE
           \/ m = StdinEof /\ cread = typed /\ closed /\ cread' = cread /\ spc' = "eof" /\ torn' = FALSE
           \/ m = StdinEof /\ cread' = cread /\ spc' = "eof" /\ torn' = TRUE
  <2>1. CASE StdinReads /\ Up!SendMetered("stdin", Chunk, 1)
    BY <1>1, <2>1 DEF StdinReads
  <2>2. CASE StdinReads /\ ~Up!SendMetered("stdin", Chunk, 1)
    BY <1>1, <2>2 DEF StdinReads
  <2>3. CASE StdinFails
    BY <1>1, <2>3 DEF StdinFails
  <2> QED
    BY <2>1, <2>2, <2>3
<1>3. ~Up!InSend("stdin")
  BY <1>1, Parts DEF Up!InSend, UpSendersWait, UpSending
<1>4. /\ UpQueueOK'
      /\ \A j \in DOMAIN upSlotWait' : Waited(upSlotWait'[j])
               \/ (upSlotWait'[j].from = "stdin" /\ upSlotWait'[j].item = m)
      /\ \A j \in DOMAIN upBudgetWait' : Waited(upBudgetWait'[j])
               \/ (upBudgetWait'[j].from = "stdin" /\ upBudgetWait'[j].item = m)
      /\ UpPending' = UpPending + 1
      /\ UNCHANGED <<upQueue, upOpen>>
  BY <1>2, <1>3, Messages, Parts, UpSends
<1>5. UNCHANGED <<inbox, inEnd, gone, msgs, hpc, verdict, accepted, queue, rxOpen>>
  BY <1>1, DaemonStays
<1>6. InputOver => m = StdinEof /\ InputOver'
  BY <1>1, <1>2, Parts DEF InputOver, CallTypeOK
<1>7. CallTypeOK'
  <2>1. torn' \in BOOLEAN /\ spc' \in {"send", "eof"}
    BY <1>2
  <2>2. cread' \in 0..typed /\ typed' = typed
    BY <1>1, <1>2, Parts DEF CallTypeOK
  <2> QED
    BY <1>1, <1>4, <2>1, <2>2, Parts DEF CallTypeOK, UpQueueOK
<1>8. UpSendersWait'
  <2>1. \A w : w.from = "stdin" /\ w.item = m => UpSending(w)'
    BY <1>2 DEF UpSending
  <2> QED
    BY <1>1, <1>3, <1>4, <2>1, Parts, WaiterJoinsUp
<1>9. CallerInPlace'
  BY <1>1, <1>2, <1>4, Messages, Parts DEF CallerInPlace, InputOver
<1>10. UpInPlace'
  <2>1. Begun' = Begun + 1 /\ Begun \in Nat
    BY <1>1, <1>2, Messages, Parts DEF Begun, CallTypeOK
  <2> QED
    BY <1>1, <1>2, <1>4, <1>5, <1>6, <2>1, Parts DEF UpInPlace, AllSendersDropped
<1>11. LinkInPlace'
  BY <1>1, <1>4, <1>5, Parts DEF LinkInPlace
<1>12. DownInPlace'
  BY <1>1, <1>5, Parts DEF DownInPlace
<1> QED
  BY <1>7, <1>8, <1>9, <1>10, <1>11, <1>12 DEF CallInv

LEMMA StdinSendReturnsPreserves ==
    ASSUME CallInv, IInv', StdinSendReturns
    PROVE  CallInv'
<1> USE DEF stdinFrame, mainVars, sourceVars
<1>1. PICK i \in DOMAIN upSlotWait :
        /\ upSlotWait[i].from = "stdin"
        /\ \/ Up!Push(i) /\ spc' = IF spc = "send" THEN "read" ELSE "over"
           \/ Up!FailSend(i) /\ spc' = "over"
  BY DEF StdinSendReturns
<1>2. /\ UNCHANGED vars
      /\ UNCHANGED <<mode, echo, total, typed, closed, torn, lost, exit, result, got, cpc, down, cread>>
  BY DEF StdinSendReturns
<1>3. /\ \/ spc = "send" /\ upSlotWait[i].item = Chunk
         \/ spc = "eof" /\ upSlotWait[i].item = StdinEof
      /\ mode = "live" /\ cpc \in {"reply", "over"}
      /\ spc = "eof" => InputOver
  BY <1>1, Parts DEF UpSendersWait, UpSending, CallerInPlace
<1>4. UNCHANGED <<inbox, inEnd, gone, msgs, hpc, verdict, accepted, queue, rxOpen>>
  BY <1>2, DaemonStays
<1>5. Up!Push(i) \/ Up!DropSend(i)
  BY <1>1 DEF Up!FailSend
<1>6. /\ UpQueueOK' /\ upOpen' = upOpen
      /\ \A j \in DOMAIN upSlotWait' : Waited(upSlotWait'[j]) /\ upSlotWait'[j].from \notin {"stdin"}
      /\ \A j \in DOMAIN upBudgetWait' : Waited(upBudgetWait'[j]) /\ upBudgetWait'[j].from \notin {"stdin"}
  BY <1>1, <1>5, Parts, UpLeaves
<1>7. /\ UpPending' <= UpPending
      /\ \A j \in DOMAIN upQueue' :
            upQueue'[j].item = upSlotWait[i].item \/ \E k \in DOMAIN upQueue : upQueue'[j] = upQueue[k]
  BY <1>5, Parts, UpPushes, UpFails
<1>8. \A j \in DOMAIN upQueue' : upQueue'[j].item = StdinEof => InputOver
  BY <1>3, <1>7, Messages, Parts DEF UpInPlace
<1>9. CallTypeOK'
  BY <1>1, <1>2, <1>6, Parts DEF CallTypeOK, UpQueueOK
<1>10. UpSendersWait'
  BY <1>2, <1>6, Parts, WaitersStayUp
<1>11. CallerInPlace'
  <2>1. spc' = "over" /\ upOpen => spc = "eof"
    BY <1>1, <1>3 DEF Up!FailSend
  <2> QED
    BY <1>1, <1>2, <1>3, <1>6, <2>1, Parts DEF CallerInPlace, InputOver
<1>12. UpInPlace'
  <2>1. Begun' \in Nat /\ Begun \in Nat /\ Begun <= Begun'
    BY <1>1, <1>2, <1>3, Parts DEF Begun, CallTypeOK
  <2>2. ~gone => inEnd = "open"
    BY <1>3, Parts DEF UpInPlace, AllSendersDropped
  <2>3. UpPending' \in Nat
    BY <1>6, UpPendingThen
  <2> QED
    BY <1>2, <1>3, <1>4, <1>7, <1>8, <2>1, <2>2, <2>3, Parts DEF UpInPlace, InputOver
<1>13. LinkInPlace'
  BY <1>2, <1>4, <1>6, Parts DEF LinkInPlace
<1>14. DownInPlace'
  BY <1>2, <1>4, Parts DEF DownInPlace
<1> QED
  BY <1>9, <1>10, <1>11, <1>12, <1>13, <1>14 DEF CallInv

LEMMA StdinAbortedPreserves ==
    ASSUME CallInv, IInv', StdinAborted
    PROVE  CallInv'
<1> USE DEF stdinFrame, mainVars, sourceVars
<1>1. /\ cpc = "over" /\ spc \in {"read", "send", "eof"} /\ Up!AbortSend("stdin")
      /\ spc' = (IF spc = "read" THEN "left" ELSE "over")
      /\ UNCHANGED vars
      /\ UNCHANGED <<mode, echo, total, typed, closed, torn, lost, exit, result, got, cpc, down, cread>>
      /\ mode = "live" /\ gone
  BY Parts DEF StdinAborted, CallerInPlace, LinkInPlace
<1>2. UNCHANGED <<inbox, inEnd, gone, msgs, hpc, verdict, accepted, queue, rxOpen>>
  BY <1>1, DaemonStays
<1>3. /\ UpQueueOK' /\ UpPending' <= UpPending /\ UNCHANGED <<upQueue, upOpen>>
      /\ \A j \in DOMAIN upSlotWait' : Waited(upSlotWait'[j]) /\ upSlotWait'[j].from \notin {"stdin"}
      /\ \A j \in DOMAIN upBudgetWait' : Waited(upBudgetWait'[j]) /\ upBudgetWait'[j].from \notin {"stdin"}
  BY <1>1, Parts, UpAborts
<1>4. CallTypeOK'
  BY <1>1, <1>3, Parts DEF CallTypeOK, UpQueueOK
<1>5. UpSendersWait'
  BY <1>1, <1>3, Parts, WaitersStayUp
<1>6. CallerInPlace'
  BY <1>1, <1>3, Parts DEF CallerInPlace, InputOver
<1>7. UpInPlace'
  <2>1. Begun' \in Nat /\ Begun \in Nat /\ Begun <= Begun' /\ UpPending' \in Nat
    BY <1>1, <1>3, Parts, UpPendingThen DEF Begun, CallTypeOK
  <2> QED
    BY <1>1, <1>2, <1>3, <2>1, Parts DEF UpInPlace, InputOver
<1>8. LinkInPlace'
  BY <1>1, <1>2, <1>3, Parts DEF LinkInPlace
<1>9. DownInPlace'
  BY <1>1, <1>2, Parts DEF DownInPlace
<1> QED
  BY <1>4, <1>5, <1>6, <1>7, <1>8, <1>9 DEF CallInv

LEMMA TypesPreserves ==
    ASSUME CallInv, IInv', Types
    PROVE  CallInv'
<1> USE DEF mainVars, upVars
<1>1. /\ ~closed /\ UNCHANGED vars
      /\ \/ typed < total /\ typed' = typed + 1 /\ closed' = closed
         \/ typed = total /\ closed' = TRUE /\ typed' = typed
      /\ UNCHANGED <<mode, echo, total, torn, cread, cpc, result, exit, got, spc, lost, down>>
      /\ UNCHANGED <<upBudgetWait, upSlotWait, upQueue, upFree, upOpen>>
  BY DEF Types
<1>2. UNCHANGED <<inbox, inEnd, gone, msgs, hpc, verdict, accepted, queue, rxOpen>>
  BY <1>1, DaemonStays
<1>3. InputOver => InputOver'
  BY <1>1 DEF InputOver
<1>4. CallTypeOK'
  <2>1. total \in Nat /\ typed \in 0..total /\ cread \in 0..typed
    BY Parts DEF CallTypeOK
  <2>2. typed' \in 0..total /\ cread \in 0..typed'
    BY <1>1, <2>1
  <2>3. closed' \in BOOLEAN
    BY <1>1, Parts DEF CallTypeOK
  <2> QED
    BY <1>1, <2>2, <2>3, Parts DEF CallTypeOK, Up!QueueTypeOK
<1>5. UpSendersWait'
  BY <1>1, Parts DEF UpSendersWait, Up!OneSend, UpSending
<1>6. CallerInPlace'
  BY <1>1, <1>3, Parts DEF CallerInPlace
<1>7. UpInPlace'
  BY <1>1, <1>2, <1>3, Parts DEF UpInPlace, Begun, UpPending, AllSendersDropped
<1>8. LinkInPlace'
  BY <1>1, <1>2, Parts DEF LinkInPlace
<1>9. DownInPlace'
  BY <1>1, <1>2, Parts DEF DownInPlace
<1> QED
  BY <1>4, <1>5, <1>6, <1>7, <1>8, <1>9 DEF CallInv

LEMMA ExitsPreserves ==
    ASSUME CallInv, IInv', Exits
    PROVE  CallInv'
<1> USE DEF sourceVars, upVars
<1>1. /\ cpc = "over" /\ UNCHANGED vars
      /\ \/ result # Failed /\ exit' = IF mode = "live" THEN ShimExit(result) ELSE 0
         \/ result = Failed /\ exit' = 1
      /\ UNCHANGED <<mode, echo, total, typed, closed, torn, cread, cpc, result, got, spc, lost, down>>
      /\ UNCHANGED <<upBudgetWait, upSlotWait, upQueue, upFree, upOpen>>
  BY DEF Exits
<1>2. UNCHANGED <<inbox, inEnd, gone, msgs, hpc, verdict, accepted, queue, rxOpen>>
  BY <1>1, DaemonStays
<1>3. CallTypeOK'
  BY <1>1, Parts DEF CallTypeOK, Up!QueueTypeOK
<1>4. UpSendersWait'
  BY <1>1, Parts DEF UpSendersWait, Up!OneSend, UpSending
<1>5. CallerInPlace'
  BY <1>1, Parts DEF CallerInPlace, InputOver
<1>6. UpInPlace'
  BY <1>1, <1>2, Parts DEF UpInPlace, Begun, UpPending, AllSendersDropped, InputOver
<1>7. LinkInPlace'
  BY <1>1, <1>2, Parts DEF LinkInPlace
<1>8. DownInPlace'
  BY <1>1, <1>2, Parts DEF DownInPlace
<1> QED
  BY <1>3, <1>4, <1>5, <1>6, <1>7, <1>8 DEF CallInv

LEMMA ClientGrantPreserves ==
    ASSUME CallInv, IInv', ClientGrant
    PROVE  CallInv'
<1> USE DEF linkFrame, sourceVars, mainVars
<1>1. /\ UNCHANGED vars
      /\ UNCHANGED <<mode, echo, total, typed, closed, torn, cread, cpc, result, exit, got, spc, lost, down>>
  BY DEF ClientGrant
<1>2. /\ UpQueueOK' /\ UpPending' = UpPending /\ UNCHANGED <<upQueue, upOpen>>
      /\ \A j \in DOMAIN upSlotWait' : Waited(upSlotWait'[j])
      /\ \A j \in DOMAIN upBudgetWait' : Waited(upBudgetWait'[j])
  BY Parts, UpGrants DEF ClientGrant
<1>3. UNCHANGED <<inbox, inEnd, gone, msgs, hpc, verdict, accepted, queue, rxOpen>>
  BY <1>1, DaemonStays
<1>4. CallTypeOK'
  BY <1>1, <1>2, Parts DEF CallTypeOK, UpQueueOK
<1>5. UpSendersWait'
  <2> DEFINE T == {}
  <2>1. /\ \A j \in DOMAIN upSlotWait' : Waited(upSlotWait'[j]) /\ upSlotWait'[j].from \notin T
        /\ \A j \in DOMAIN upBudgetWait' : Waited(upBudgetWait'[j]) /\ upBudgetWait'[j].from \notin T
    BY <1>2
  <2> HIDE DEF T
  <2> QED
    BY <1>1, <1>2, <2>1, Parts, WaitersStayUp
<1>6. CallerInPlace'
  BY <1>1, <1>2, Parts DEF CallerInPlace, InputOver
<1>7. UpInPlace'
  BY <1>1, <1>2, <1>3, Parts DEF UpInPlace, Begun, AllSendersDropped, InputOver
<1>8. LinkInPlace'
  BY <1>1, <1>2, <1>3, Parts DEF LinkInPlace
<1>9. DownInPlace'
  BY <1>1, <1>3, Parts DEF DownInPlace
<1> QED
  BY <1>4, <1>5, <1>6, <1>7, <1>8, <1>9 DEF CallInv

\* execute_stream returns, and drops its half of the call.
LEMMA ReturnPreserves ==
    ASSUME CallInv, IInv', NEW r \in DoneEvent \union {Failed}, Return(r), cpc # "over",
           UNCHANGED <<mode, echo, total, typed, closed, torn, lost, exit, cread, got, spc>>,
           UpQueueOK', UpPending' <= UpPending, UNCHANGED <<upQueue, upOpen>>,
           \A j \in DOMAIN upSlotWait' : Waited(upSlotWait'[j]) /\ upSlotWait'[j].from # "main",
           \A j \in DOMAIN upBudgetWait' : Waited(upBudgetWait'[j]) /\ upBudgetWait'[j].from # "main",
           down' \in Seq(Item),
           r = Failed => lost \/ (mode = "bytes" /\ verdict # NoVerdict),
           r # Failed => Len(got) + 1 \in DOMAIN accepted /\ r = accepted[Len(got) + 1]
    PROVE  CallInv'
<1>1. /\ cpc' = "over" /\ result' = r /\ gone' = TRUE /\ inbox' \in {inbox, <<>>}
      /\ UNCHANGED <<msgs, hpc, verdict, accepted, queue, rxOpen>>
  BY Parts, Resets DEF Return
<1>2. r # NoVerdict /\ (r.kind = "done" => r # Failed)
  BY DEF NoVerdict, Failed, DoneEvent
<1>3. exit = NoExit
  BY Parts DEF CallerInPlace
<1>4. CallTypeOK'
  BY <1>1, Parts DEF CallTypeOK, UpQueueOK
<1>5. UpSendersWait'
  <2> DEFINE T == {"main"}
  <2>1. /\ \A j \in DOMAIN upSlotWait' : Waited(upSlotWait'[j]) /\ upSlotWait'[j].from \notin T
        /\ \A j \in DOMAIN upBudgetWait' : Waited(upBudgetWait'[j]) /\ upBudgetWait'[j].from \notin T
        /\ "main" \in T
    OBVIOUS
  <2> HIDE DEF T
  <2> QED
    BY <2>1, Parts, WaitersStayUp
<1>6. CallerInPlace'
  BY <1>1, <1>2, <1>3, Parts DEF CallerInPlace, InputOver
<1>7. UpInPlace'
  <2>1. Begun' \in Nat /\ Begun \in Nat /\ Begun <= Begun' /\ UpPending' \in Nat
    BY <1>1, Parts, UpPendingThen DEF Begun, CallTypeOK
  <2>2. \A i \in DOMAIN inbox' : inbox'[i] = StdinEof => InputOver
    BY <1>1, Parts DEF UpInPlace
  <2> QED
    BY <1>1, <2>1, <2>2, Parts DEF UpInPlace, InputOver
<1>8. LinkInPlace'
  BY <1>1, <1>2, Parts DEF LinkInPlace
<1>9. DownInPlace'
  BY <1>1, <1>2, Parts DEF DownInPlace
<1> QED
  BY <1>4, <1>5, <1>6, <1>7, <1>8, <1>9 DEF CallInv

\* The queue of the client as it is when nothing of it has moved.
LEMMA UpStays ==
    ASSUME CallInv, UNCHANGED upVars
    PROVE  /\ UpQueueOK' /\ UpPending' = UpPending /\ UNCHANGED <<upQueue, upOpen>>
           /\ \A j \in DOMAIN upSlotWait' : Waited(upSlotWait'[j]) /\ UpSending(upSlotWait'[j])
           /\ \A j \in DOMAIN upBudgetWait' : Waited(upBudgetWait'[j]) /\ UpSending(upBudgetWait'[j])
  BY Parts DEF upVars, UpQueueOK, Up!QueueTypeOK, Up!OneSend, UpPending, Waited, UpSendersWait

LEMMA MainSendReturnsPreserves ==
    ASSUME CallInv, IInv', MainSendReturns
    PROVE  CallInv'
<1> USE DEF mainFrame, sourceVars
<1>1. PICK i \in DOMAIN upSlotWait :
        /\ upSlotWait[i].from = "main"
        /\ \/ /\ Up!Push(i)
              /\ cpc' = CASE cpc = "starting" /\ mode = "bytes" -> "bytes"
                          [] cpc = "bytes" -> "bytes"
                          [] OTHER -> "reply"
              /\ spc' = IF cpc = "starting" /\ mode = "live" THEN "read" ELSE spc
              /\ UNCHANGED <<vars, result>>
           \/ /\ Up!FailSend(i)
              /\ Return(Failed)
              /\ UNCHANGED spc
  BY DEF MainSendReturns
<1>2. UNCHANGED <<mode, echo, total, typed, closed, torn, lost, exit, got, down, cread>>
  BY DEF MainSendReturns
<1>3. /\ cpc \in {"starting", "bytes", "eof"} /\ (cpc \in {"bytes", "eof"} => mode = "bytes")
      /\ upSlotWait[i].item = StdinEof => cpc = "eof"
      /\ cpc = "eof" => InputOver
      /\ spc = "off"
  BY <1>1, Messages, Parts DEF UpSendersWait, UpSending, CallerInPlace, StdinEof, Chunk
<1>4. /\ UpQueueOK' /\ upOpen' = upOpen
      /\ \A j \in DOMAIN upSlotWait' : Waited(upSlotWait'[j]) /\ upSlotWait'[j].from # "main"
      /\ \A j \in DOMAIN upBudgetWait' : Waited(upBudgetWait'[j]) /\ upBudgetWait'[j].from # "main"
  BY <1>1, Parts, UpLeaves DEF Up!FailSend
<1>5. CASE Up!FailSend(i) /\ Return(Failed) /\ UNCHANGED spc
  <2>1. UpPending' <= UpPending /\ UNCHANGED upQueue
    BY <1>5, Parts, UpFails DEF Up!FailSend
  <2>2. lost \/ (mode = "bytes" /\ verdict # NoVerdict)
    <3>1. gone \/ hpc = "end"
      BY <1>5, Parts DEF Up!FailSend, LinkInPlace
    <3>2. CASE gone
      BY <1>3, <3>2, Parts DEF LinkInPlace
    <3>3. CASE ~gone /\ hpc = "end"
      <4>1. verdict # NoVerdict
        BY <3>3 DEF CallInv, IInv, HandlerInPlace
      <4>2. cpc # "starting"
        BY <3>3, Parts DEF UpInPlace
      <4> QED
        BY <1>3, <4>1, <4>2
    <3> QED
      BY <3>1, <3>2, <3>3
  <2>3. down' \in Seq(Item) /\ cpc # "over"
    BY <1>2, <1>3, Parts DEF CallTypeOK
  <2> DEFINE r == Failed
  <2>4. r \in DoneEvent \union {Failed} /\ Return(r) /\ r = Failed
    BY <1>5
  <2> HIDE DEF r
  <2> QED
    BY <1>2, <1>4, <1>5, <2>1, <2>2, <2>3, <2>4, ReturnPreserves
<1>6. CASE /\ Up!Push(i)
           /\ cpc' = CASE cpc = "starting" /\ mode = "bytes" -> "bytes"
                       [] cpc = "bytes" -> "bytes"
                       [] OTHER -> "reply"
           /\ spc' = IF cpc = "starting" /\ mode = "live" THEN "read" ELSE spc
           /\ UNCHANGED <<vars, result>>
  <2>1. UNCHANGED <<inbox, inEnd, gone, msgs, hpc, verdict, accepted, queue, rxOpen>>
    BY <1>6, DaemonStays
  <2>2. /\ UpPending' = UpPending
        /\ \A j \in DOMAIN upQueue' :
              upQueue'[j].item = upSlotWait[i].item \/ \E k \in DOMAIN upQueue : upQueue'[j] = upQueue[k]
    BY <1>6, Parts, UpPushes
  <2>3. mode \in {"live", "bytes"} /\ cpc # "over" /\ exit = NoExit /\ result = NoVerdict
    BY <1>3, Parts DEF CallTypeOK, CallerInPlace
  <2>4. \/ mode = "live" /\ cpc' = "reply" /\ spc' = "read" /\ cpc = "starting"
        \/ mode = "bytes" /\ cpc' = "bytes" /\ spc' = "off" /\ cpc \in {"starting", "bytes"}
        \/ mode = "bytes" /\ cpc' = "reply" /\ spc' = "off" /\ cpc = "eof"
    BY <1>3, <1>6, <2>3
  <2>5. CallTypeOK'
    BY <1>2, <1>4, <1>6, <2>4, Parts DEF CallTypeOK, UpQueueOK
  <2>6. UpSendersWait'
    <3>1. /\ \A j \in DOMAIN upSlotWait' : upSlotWait'[j].from # "stdin"
          /\ \A j \in DOMAIN upBudgetWait' : upBudgetWait'[j].from # "stdin"
      BY <1>3, <1>4, Parts DEF Waited, UpSendersWait, UpSending
    <3> DEFINE T == {"main", "stdin"}
    <3>2. /\ \A j \in DOMAIN upSlotWait' : Waited(upSlotWait'[j]) /\ upSlotWait'[j].from \notin T
          /\ \A j \in DOMAIN upBudgetWait' : Waited(upBudgetWait'[j]) /\ upBudgetWait'[j].from \notin T
          /\ "main" \in T /\ "stdin" \in T
      BY <1>4, <3>1
    <3> HIDE DEF T
    <3> QED
      BY <1>4, <3>2, Parts, WaitersStayUp
  <2>7. CallerInPlace'
    BY <1>2, <1>3, <1>4, <1>6, <2>3, <2>4, Parts DEF CallerInPlace, InputOver
  <2>8. UpInPlace'
    <3>1. Begun' \in Nat /\ Begun \in Nat /\ Begun <= Begun'
      BY <1>2, <2>3, <2>4, Parts DEF Begun, CallTypeOK, CallerInPlace
    <3>2. \A j \in DOMAIN upQueue' : upQueue'[j].item = StdinEof => InputOver
      BY <1>3, <2>2, Parts DEF UpInPlace
    <3>3. ~gone => inEnd = "open"
      BY <1>3, Parts DEF UpInPlace, AllSendersDropped
    <3> QED
      BY <1>2, <2>1, <2>2, <2>4, <3>1, <3>2, <3>3, Parts DEF UpInPlace, InputOver
  <2>9. LinkInPlace'
    BY <1>2, <1>4, <1>6, <2>1, <2>3, <2>4, Parts DEF LinkInPlace
  <2>10. DownInPlace'
    BY <1>2, <1>6, <2>1, <2>3, <2>4, Parts DEF DownInPlace
  <2> QED
    BY <2>5, <2>6, <2>7, <2>8, <2>9, <2>10 DEF CallInv
<1> QED
  BY <1>1, <1>5, <1>6

\* While it waits for an event, execute_stream waits in no send.
LEMMA ReplyWaits ==
    ASSUME CallInv, cpc = "reply", UNCHANGED upVars
    PROVE  /\ UpQueueOK' /\ UpPending' = UpPending /\ UpPending' <= UpPending
           /\ UNCHANGED <<upQueue, upOpen>>
           /\ \A j \in DOMAIN upSlotWait' : Waited(upSlotWait'[j]) /\ upSlotWait'[j].from # "main"
           /\ \A j \in DOMAIN upBudgetWait' : Waited(upBudgetWait'[j]) /\ upBudgetWait'[j].from # "main"
<1>1. /\ UpQueueOK' /\ UpPending' = UpPending /\ UNCHANGED <<upQueue, upOpen>>
      /\ \A j \in DOMAIN upSlotWait' : Waited(upSlotWait'[j]) /\ upSlotWait'[j].from # "main"
      /\ \A j \in DOMAIN upBudgetWait' : Waited(upBudgetWait'[j]) /\ upBudgetWait'[j].from # "main"
  BY UpStays DEF UpSending
<1> QED
  BY <1>1, Parts

LEMMA ReplyReadPreserves ==
    ASSUME CallInv, IInv', ReplyRead
    PROVE  CallInv'
<1> USE DEF mainFrame, sourceVars
<1>1. /\ cpc = "reply" /\ down # <<>> /\ down' = Tail(down) /\ UNCHANGED upVars
      /\ UNCHANGED <<mode, echo, total, typed, closed, torn, lost, exit, cread, spc>>
  BY DEF ReplyRead
<1>2. down \in Seq(Item) /\ got \in Seq(Item) /\ DOMAIN got = 1..Len(got) /\ Len(got) \in Nat
        /\ DOMAIN down = 1..Len(down) /\ Len(down) \in Nat
  BY Parts, LenProperties DEF CallTypeOK
<1>3. /\ Head(down) \in Item /\ Head(down) = down[1] /\ 1 \in DOMAIN down
      /\ down' \in Seq(Item) /\ Len(down') = Len(down) - 1 /\ DOMAIN down' = 1..(Len(down) - 1)
      /\ \A j \in 1..(Len(down) - 1) : down'[j] = down[j + 1]
  BY <1>1, <1>2, TailDomain
<1>4. Len(got) + 1 \in DOMAIN accepted /\ Head(down) = accepted[Len(got) + 1]
  BY <1>1, <1>2, <1>3, Parts DEF DownInPlace
<1>5. CASE Head(down).kind = "done" /\ Return(Head(down)) /\ UNCHANGED got
  <2> DEFINE r == Head(down)
  <2>1. r \in DoneEvent \union {Failed} /\ r # Failed
    BY <1>3, <1>5, EventKinds DEF Failed, Stream
  <2>2. Return(r) /\ r = accepted[Len(got) + 1]
    BY <1>4, <1>5
  <2> HIDE DEF r
  <2> QED
    BY <1>1, <1>3, <1>4, <1>5, <2>1, <2>2, ReplyWaits, ReturnPreserves
<1>6. CASE /\ Head(down).kind \in Stream
           /\ got' = Append(got, Head(down))
           /\ UNCHANGED <<vars, cpc, result>>
  <2>1. UNCHANGED <<inbox, inEnd, gone, msgs, hpc, verdict, accepted, queue, rxOpen>>
    BY <1>6, DaemonStays
  <2>2. /\ got' \in Seq(Item) /\ DOMAIN got' = DOMAIN got \union {Len(got) + 1}
        /\ Len(got') = Len(got) + 1
        /\ \A j \in DOMAIN got : got'[j] = got[j]
        /\ got'[Len(got) + 1] = Head(down)
    BY <1>2, <1>3, <1>6, AppendDomain, AppendProperties
  <2>3. UpQueueOK' /\ UpPending' = UpPending /\ UNCHANGED <<upQueue, upOpen>>
    BY <1>1, ReplyWaits
  <2>4. CallTypeOK'
    BY <1>1, <1>3, <1>6, <2>2, <2>3, Parts DEF CallTypeOK, UpQueueOK
  <2>5. UpSendersWait'
    BY <1>1, <1>6, Parts DEF upVars, UpSendersWait, Up!OneSend, UpSending
  <2>6. CallerInPlace'
    BY <1>1, <1>6, <2>3, Parts DEF CallerInPlace, InputOver
  <2>7. UpInPlace'
    BY <1>1, <1>6, <2>1, <2>3, Parts DEF UpInPlace, AllSendersDropped, InputOver, Begun
  <2>8. LinkInPlace'
    BY <1>1, <1>6, <2>1, <2>3, Parts DEF LinkInPlace
  <2>9. DownInPlace'
    <3>1. \A i \in DOMAIN got' :
            i \in DOMAIN accepted /\ got'[i] = accepted[i] /\ got'[i].kind \in Stream
      BY <1>4, <1>6, <2>2, Parts DEF DownInPlace
    <3>2. ASSUME NEW i \in DOMAIN down'
          PROVE  Len(got') + i \in DOMAIN accepted /\ down'[i] = accepted[Len(got') + i]
      <4>1. i + 1 \in DOMAIN down /\ down'[i] = down[i + 1] /\ i \in Nat
        BY <1>2, <1>3
      <4>2. Len(got) + (i + 1) \in DOMAIN accepted /\ down[i + 1] = accepted[Len(got) + (i + 1)]
        BY <1>1, <4>1, Parts DEF DownInPlace
      <4>3. Len(got) + (i + 1) = Len(got') + i
        BY <1>2, <2>2, <4>1
      <4> QED
        BY <4>1, <4>2, <4>3
    <3>3. Len(got') + Len(down') = Len(got) + Len(down)
      BY <1>2, <1>3, <2>2
    <3>4. result.kind # "done"
      BY <1>1, Parts DEF CallerInPlace, NoVerdict
    <3> QED
      BY <1>6, <2>1, <3>1, <3>2, <3>3, <3>4, Parts DEF DownInPlace
  <2> QED
    BY <2>4, <2>5, <2>6, <2>7, <2>8, <2>9 DEF CallInv
<1> QED
  BY <1>5, <1>6 DEF ReplyRead

LEMMA ReplyFailsPreserves ==
    ASSUME CallInv, IInv', ReplyFails
    PROVE  CallInv'
<1>1. /\ cpc = "reply" /\ lost /\ UNCHANGED <<upVars, down>>
      /\ UNCHANGED <<mode, echo, total, typed, closed, torn, lost, exit, cread, got, spc>>
  BY DEF ReplyFails, mainFrame, sourceVars
<1>2. down' \in Seq(Item)
  BY <1>1, Parts DEF CallTypeOK
<1> DEFINE r == Failed
<1>3. r \in DoneEvent \union {Failed} /\ Return(r) /\ r = Failed
  BY DEF ReplyFails
<1> HIDE DEF r
<1> QED
  BY <1>1, <1>2, <1>3, ReplyWaits, ReturnPreserves

-----------------------------------------------------------------------------
(* The transport.                                                          *)

LEMMA UploadPreserves ==
    ASSUME CallInv, IInv', Upload
    PROVE  CallInv'
<1> USE DEF linkFrame, sourceVars, mainVars
<1>1. /\ upOpen /\ ~gone /\ Up!Pop
      /\ UNCHANGED <<mode, echo, total, typed, closed, torn, cread, cpc, result, exit, got, spc, lost, down>>
      /\ UNCHANGED <<inEnd, gone, hpc, verdict, accepted, queue, rxOpen>>
      /\ \/ inbox' = Append(inbox, Head(upQueue).item) /\ msgs' = msgs + 1
         \/ UNCHANGED <<inbox, msgs>>
  BY DEF Upload, daemonFrame, eventVars, queueVars, handlerVars
<1>2. /\ UpQueueOK' /\ UpPending' = UpPending - 1
      /\ 1 \in DOMAIN upQueue /\ Head(upQueue) = upQueue[1] /\ Head(upQueue).item \in Message
      /\ \A j \in DOMAIN upQueue' : \E k \in DOMAIN upQueue : upQueue'[j] = upQueue[k]
      /\ UNCHANGED <<upSlotWait, upBudgetWait, upOpen>>
  BY <1>1, Parts, UpPops
<1>3. inEnd = "open" /\ cpc \notin {"start", "starting"}
  BY <1>1, <1>2, Parts DEF UpInPlace
<1>4. CallTypeOK'
  BY <1>1, <1>2, Parts DEF CallTypeOK, UpQueueOK
<1>5. UpSendersWait'
  BY <1>1, <1>2, Parts DEF UpSendersWait, Up!OneSend, UpSending
<1>6. CallerInPlace'
  BY <1>1, <1>2, Parts DEF CallerInPlace, InputOver
<1>7. UpInPlace'
  <2>1. Begun' = Begun /\ Begun \in Nat
    BY <1>1, Parts DEF Begun, CallTypeOK
  <2>2. \A i \in DOMAIN upQueue' : upQueue'[i].item = StdinEof => InputOver
    BY <1>2, Parts DEF UpInPlace
  <2>3. ASSUME NEW i \in DOMAIN inbox', inbox'[i] = StdinEof
        PROVE  InputOver
    <3>1. CASE i \in DOMAIN inbox /\ inbox'[i] = inbox[i]
      BY <2>3, <3>1, Parts DEF UpInPlace
    <3>2. CASE ~(i \in DOMAIN inbox /\ inbox'[i] = inbox[i])
      <4>1. inbox \in Seq(Message)
        BY DEF CallInv, IInv, TypeOK, ClientTypeOK
      <4>2. inbox'[i] = Head(upQueue).item
        BY <1>1, <1>2, <3>2, <4>1, AppendDomain
      <4> QED
        BY <1>2, <2>3, <4>2, Parts DEF UpInPlace
    <3> QED
      BY <3>1, <3>2
  <2>4. msgs' + UpPending' <= msgs + UpPending
    BY <1>1, <1>2, Parts
  <2>5. msgs' \in Nat
    BY <1>1, Parts
  <2> QED
    BY <1>1, <1>2, <1>3, <2>1, <2>2, <2>3, <2>4, <2>5, Parts, UpPendingThen DEF UpInPlace, InputOver
<1>8. LinkInPlace'
  BY <1>1, <1>2, Parts DEF LinkInPlace
<1>9. DownInPlace'
  BY <1>1, Parts DEF DownInPlace
<1> QED
  BY <1>4, <1>5, <1>6, <1>7, <1>8, <1>9 DEF CallInv

LEMMA UploadEndsPreserves ==
    ASSUME CallInv, IInv', UploadEnds
    PROVE  CallInv'
<1> USE DEF callerVars, sourceVars, mainVars, upVars
<1>1. /\ AllSendersDropped /\ upOpen /\ upQueue = <<>> /\ ~gone /\ inEnd' = "end"
      /\ UNCHANGED <<mode, echo, total, typed, closed, torn, cread, cpc, result, exit, got, spc, lost, down>>
      /\ UNCHANGED <<upBudgetWait, upSlotWait, upQueue, upFree, upOpen>>
      /\ UNCHANGED <<inbox, gone, msgs, hpc, verdict, accepted, queue, rxOpen>>
  BY DEF UploadEnds, daemonFrame, eventVars, queueVars, handlerVars
<1>2. cpc = "reply" => InputOver
  BY <1>1, Parts DEF AllSendersDropped, CallerInPlace
<1>3. CallTypeOK'
  BY <1>1, Parts DEF CallTypeOK, Up!QueueTypeOK
<1>4. UpSendersWait'
  BY <1>1, Parts DEF UpSendersWait, Up!OneSend, UpSending
<1>5. CallerInPlace'
  BY <1>1, Parts DEF CallerInPlace, InputOver
<1>6. UpInPlace'
  BY <1>1, <1>2, Parts DEF UpInPlace, Begun, UpPending, AllSendersDropped, InputOver
<1>7. LinkInPlace'
  BY <1>1, Parts DEF LinkInPlace
<1>8. DownInPlace'
  BY <1>1, Parts DEF DownInPlace
<1> QED
  BY <1>3, <1>4, <1>5, <1>6, <1>7, <1>8 DEF CallInv

LEMMA UploadResetPreserves ==
    ASSUME CallInv, IInv', UploadReset
    PROVE  CallInv'
<1> USE DEF linkFrame, sourceVars, mainVars
<1>1. /\ gone \/ hpc = "end"
      /\ UNCHANGED vars
      /\ UNCHANGED <<mode, echo, total, typed, closed, torn, cread, cpc, result, exit, got, spc, lost, down>>
  BY DEF UploadReset, ResponseEnded
<1>2. /\ UpQueueOK' /\ UpPending' <= UpPending /\ upQueue' = <<>> /\ ~upOpen' /\ upOpen
      /\ UNCHANGED <<upSlotWait, upBudgetWait>>
  BY Parts, UpCloses DEF UploadReset
<1>3. UNCHANGED <<inbox, inEnd, gone, msgs, hpc, verdict, accepted, queue, rxOpen>>
  BY <1>1, DaemonStays
<1>4. CallTypeOK'
  BY <1>1, <1>2, Parts DEF CallTypeOK, UpQueueOK
<1>5. UpSendersWait'
  BY <1>1, <1>2, Parts DEF UpSendersWait, Up!OneSend, UpSending
<1>6. CallerInPlace'
  BY <1>1, <1>2, Parts DEF CallerInPlace, InputOver
<1>7. UpInPlace'
  <2>1. Begun' = Begun /\ Begun \in Nat /\ UpPending' \in Nat
    BY <1>1, <1>2, Parts, UpPendingThen DEF Begun, CallTypeOK
  <2> QED
    BY <1>1, <1>2, <1>3, <2>1, Parts DEF UpInPlace, AllSendersDropped, InputOver
<1>8. LinkInPlace'
  BY <1>1, <1>2, <1>3, Parts DEF LinkInPlace
<1>9. DownInPlace'
  BY <1>1, <1>3, Parts DEF DownInPlace
<1> QED
  BY <1>4, <1>5, <1>6, <1>7, <1>8, <1>9 DEF CallInv

LEMMA DownloadPreserves ==
    ASSUME CallInv, IInv', Download
    PROVE  CallInv'
<1> USE DEF linkFrame, sourceVars, mainVars
<1>1. /\ ~gone /\ queue # <<>> /\ queue' = Tail(queue) /\ rxOpen' = rxOpen
      /\ down' = Append(down, Head(queue).item) /\ UNCHANGED upVars
      /\ UNCHANGED <<mode, echo, total, typed, closed, torn, cread, cpc, result, exit, got, spc, lost>>
      /\ UNCHANGED <<inbox, inEnd, gone, msgs, hpc, verdict, accepted>>
  BY DEF Download, Pop, clientVars, handlerVars
<1>2. /\ queue \in Seq(QueuedItem) /\ down \in Seq(Item)
      /\ DOMAIN queue = 1..Len(queue) /\ Len(queue) \in Nat
      /\ DOMAIN down = 1..Len(down) /\ Len(down) \in Nat /\ Len(got) \in Nat
      /\ DOMAIN accepted = 1..Len(accepted)
  BY Parts, LenProperties DEF CallInv, IInv, TypeOK, QueueTypeOK, CallTypeOK
<1>3. /\ Head(queue) \in QueuedItem /\ Head(queue) = queue[1] /\ 1 \in DOMAIN queue
      /\ Len(queue') = Len(queue) - 1 /\ DOMAIN queue' = 1..(Len(queue) - 1)
      /\ \A j \in 1..(Len(queue) - 1) : queue'[j] = queue[j + 1]
  BY <1>1, <1>2, TailDomain
<1>4. Head(queue).item \in Item
  BY <1>3 DEF QueuedItem
<1>5. /\ down' \in Seq(Item) /\ DOMAIN down' = DOMAIN down \union {Len(down) + 1}
      /\ Len(down') = Len(down) + 1
      /\ \A j \in DOMAIN down : down'[j] = down[j]
      /\ down'[Len(down) + 1] = Head(queue).item
  BY <1>1, <1>2, <1>4, AppendDomain, AppendProperties
<1>6. UpQueueOK' /\ UpPending' = UpPending /\ UNCHANGED <<upQueue, upOpen>>
  BY <1>1, UpStays
<1>7. CallTypeOK'
  BY <1>1, <1>5, <1>6, Parts DEF CallTypeOK, UpQueueOK
<1>8. UpSendersWait'
  BY <1>1, Parts DEF upVars, UpSendersWait, Up!OneSend, UpSending
<1>9. CallerInPlace'
  BY <1>1, <1>6, Parts DEF CallerInPlace, InputOver
<1>10. UpInPlace'
  BY <1>1, <1>6, Parts DEF UpInPlace, Begun, AllSendersDropped, InputOver
<1>11. LinkInPlace'
  BY <1>1, <1>6, Parts DEF LinkInPlace
<1>12. DownInPlace'
  <2>1. /\ Len(accepted) = Len(got) + Len(down) + Len(queue)
        /\ \A i \in DOMAIN queue : queue[i].item = accepted[Len(got) + Len(down) + i]
    BY <1>1, Parts DEF DownInPlace
  <2>2. cpc # "over"
    BY <1>1, Parts DEF LinkInPlace
  <2>3. ASSUME NEW i \in DOMAIN down'
        PROVE  Len(got) + i \in DOMAIN accepted /\ down'[i] = accepted[Len(got) + i]
    <3>1. CASE i \in DOMAIN down
      BY <1>5, <2>2, <3>1, Parts DEF DownInPlace
    <3>2. CASE i = Len(down) + 1
      <4>1. Head(queue).item = accepted[Len(got) + Len(down) + 1]
        BY <1>3, <2>1
      <4>2. Len(got) + i = Len(got) + Len(down) + 1 /\ Len(got) + i \in DOMAIN accepted
        BY <1>2, <1>3, <2>1, <3>2
      <4> QED
        BY <1>5, <3>2, <4>1, <4>2
    <3> QED
      BY <1>5, <3>1, <3>2
  <2>4. Len(accepted) = Len(got) + Len(down') + Len(queue')
    BY <1>2, <1>3, <1>5, <2>1
  <2>5. ASSUME NEW i \in DOMAIN queue'
        PROVE  queue'[i].item = accepted[Len(got) + Len(down') + i]
    <3>1. i + 1 \in DOMAIN queue /\ queue'[i] = queue[i + 1]
      BY <1>2, <1>3
    <3>2. Len(got) + Len(down) + (i + 1) = Len(got) + Len(down') + i
      BY <1>2, <1>3, <1>5
    <3> QED
      BY <2>1, <3>1, <3>2
  <2> QED
    BY <1>1, <2>2, <2>3, <2>4, <2>5, Parts DEF DownInPlace
<1> QED
  BY <1>7, <1>8, <1>9, <1>10, <1>11, <1>12 DEF CallInv

LEMMA LinkLostPreserves ==
    ASSUME CallInv, IInv', LinkLost
    PROVE  CallInv'
<1> USE DEF linkFrame, sourceVars, mainVars
<1>1. /\ ~gone /\ lost' = TRUE /\ gone' = TRUE /\ down' \in {down, <<>>} /\ UNCHANGED upVars
      /\ UNCHANGED <<mode, echo, total, typed, closed, torn, cread, cpc, result, exit, got, spc>>
      /\ inbox' \in {inbox, <<>>} /\ UNCHANGED <<msgs, hpc, verdict, accepted, queue, rxOpen>>
  BY Parts, Resets DEF LinkLost
<1>2. UpQueueOK' /\ UpPending' = UpPending /\ UNCHANGED <<upQueue, upOpen>>
  BY <1>1, UpStays
<1>3. CallTypeOK'
  <2>1. down \in Seq(Item) /\ <<>> \in Seq(Item)
    BY Parts, EmptySeq DEF CallTypeOK
  <2> QED
    BY <1>1, <1>2, <2>1, Parts DEF CallTypeOK, UpQueueOK
<1>4. UpSendersWait'
  BY <1>1, Parts DEF upVars, UpSendersWait, Up!OneSend, UpSending
<1>5. CallerInPlace'
  BY <1>1, <1>2, Parts DEF CallerInPlace, InputOver
<1>6. UpInPlace'
  BY <1>1, <1>2, Parts DEF UpInPlace, Begun, InputOver
<1>7. LinkInPlace'
  BY <1>1, <1>2, Parts DEF LinkInPlace
<1>8. DownInPlace'
  BY <1>1, Parts DEF DownInPlace
<1> QED
  BY <1>3, <1>4, <1>5, <1>6, <1>7, <1>8 DEF CallInv

-----------------------------------------------------------------------------
(* The theorems.                                                           *)

LEMMA CallStep == CallInv /\ [CallNext]_callVars => CallInv'
<1> SUFFICES ASSUME CallInv, [CallNext]_callVars
             PROVE  CallInv'
  OBVIOUS
<1>1. IInv'
  BY DaemonStep, InvStep DEF CallInv
<1>2. CASE SendStart
  BY <1>1, <1>2, SendStartPreserves
<1>3. CASE SendBytes
  BY <1>1, <1>3, SendBytesPreserves
<1>4. CASE MainSendReturns
  BY <1>1, <1>4, MainSendReturnsPreserves
<1>5. CASE ReplyRead
  BY <1>1, <1>5, ReplyReadPreserves
<1>6. CASE ReplyFails
  BY <1>1, <1>6, ReplyFailsPreserves
<1>7. CASE Exits
  BY <1>1, <1>7, ExitsPreserves
<1>8. CASE StdinReads \/ StdinFails
  BY <1>1, <1>8, StdinReadsPreserves
<1>9. CASE StdinSendReturns
  BY <1>1, <1>9, StdinSendReturnsPreserves
<1>10. CASE StdinAborted
  BY <1>1, <1>10, StdinAbortedPreserves
<1>11. CASE Types
  BY <1>1, <1>11, TypesPreserves
<1>12. CASE ClientGrant
  BY <1>1, <1>12, ClientGrantPreserves
<1>13. CASE Upload
  BY <1>1, <1>13, UploadPreserves
<1>14. CASE UploadEnds
  BY <1>1, <1>14, UploadEndsPreserves
<1>15. CASE UploadReset
  BY <1>1, <1>15, UploadResetPreserves
<1>16. CASE Download
  BY <1>1, <1>16, DownloadPreserves
<1>17. CASE LinkLost
  BY <1>1, <1>17, LinkLostPreserves
<1>18. CASE DaemonTask \/ HookAnswers
  BY <1>1, <1>18, TaskKeeps, DaemonPreserves DEF CallInv
<1>19. CASE DaemonQueue \/ Killed9 \/ EchoSteps \/ AnyEnds \/ AnySteps
  BY <1>1, <1>19, RestKeeps, DaemonPreserves
<1>20. CASE UNCHANGED callVars
  <2>1. DaemonKeeps
    BY <1>20, DaemonStays DEF callVars, callerVars, callerFrame, DaemonKeeps
  <2> QED
    BY <1>1, <2>1, DaemonPreserves
<1> QED
  BY <1>2, <1>3, <1>4, <1>5, <1>6, <1>7, <1>8, <1>9, <1>10, <1>11, <1>12, <1>13, <1>14, <1>15,
     <1>16, <1>17, <1>18, <1>19, <1>20 DEF CallNext, Runs, Main, StdinTask

(* The client, its queue, the transport and the daemon's queue are where   *)
(* CallInv says, whatever the bounds, the windows and the capacities are.  *)
THEOREM CallInvariant == CallSpec => []CallInv
  BY CallInit_Inv, CallStep, PTL DEF CallSpec

(* Whatever the client and the transport do within a call is among what    *)
(* ExecuteStream foresees: what is proved of it holds within the call      *)
(* (client.rs:193-281, server.rs:414-789).                                 *)
THEOREM DaemonWithin == CallSpec => DaemonIsExecuteStream
<1>1. CallInit => Init
  BY DEF CallInit
<1>2. CallInv /\ [CallNext]_callVars => [Next]_vars
  BY DaemonStep
<1> QED
  BY <1>1, <1>2, CallInvariant, PTL DEF CallSpec, DaemonIsExecuteStream, Spec

(* So a call with its client, its queues and its transport is what Session *)
(* promises, whatever the client does (server.rs:391-790, client.rs:193).  *)
THEOREM CallIsSession == CallSpec => ImplementsSession
  BY DaemonWithin, Refinement DEF DaemonIsExecuteStream

(* An error of the client's own means a broken connection, or a send that  *)
(* failed because the daemon had answered (client.rs:195-199, 227, 253).   *)
THEOREM Errors == CallSpec => []ErrorsAreTheLinks
<1>1. CallInv => ErrorsAreTheLinks
  <2> SUFFICES ASSUME CallInv
               PROVE  ErrorsAreTheLinks
    OBVIOUS
  <2>1. result.kind = "done" => result = verdict
    BY Parts DEF DownInPlace, CallInv, IInv, EventsInPlace
  <2> QED
    BY <2>1, Parts DEF LinkInPlace, ErrorsAreTheLinks
<1> QED
  BY <1>1, CallInvariant, PTL

(* The daemon learns that standard input has ended only when all of it was *)
(* sent or reading it has failed, however the two tasks of the client,     *)
(* their sends and the end of the request stream interleave                *)
(* (client.rs:193-251).                                                    *)
THEOREM StdinEnd == CallSpec => []EndIsTheEnd
<1>1. CallInv => EndIsTheEnd
  <2> SUFFICES ASSUME CallInv, result = NoVerdict, ~lost,
                      inEnd = "end" \/ Contains(inbox, StdinEof)
               PROVE  InputOver
    BY DEF EndIsTheEnd, InputOver
  <2>1. cpc # "over" /\ ~gone
    BY Parts DEF CallerInPlace, LinkInPlace
  <2>2. CASE inEnd = "end"
    BY <2>1, <2>2, Parts DEF UpInPlace, AllSendersDropped
  <2>3. CASE Contains(inbox, StdinEof)
    BY <2>3, Parts DEF UpInPlace, Contains
  <2> QED
    BY <2>2, <2>3
<1> QED
  BY <1>1, CallInvariant, PTL

(* A response that ends while the connection holds has brought the outcome *)
(* (client.rs:276-281, server.rs:1049-1075).                               *)
THEOREM DoneComes == CallSpec => []NoEndWithoutDone
<1>1. CallInv => NoEndWithoutDone
  <2> SUFFICES ASSUME CallInv, cpc = "reply", ~lost, down = <<>>, ResponseEnded
               PROVE  FALSE
    BY DEF NoEndWithoutDone
  <2>1. ~gone /\ rxOpen /\ hpc = "end" /\ queue = <<>>
    BY Parts DEF LinkInPlace, ResponseEnded
  <2>2. verdict \in DoneEvent /\ verdict.kind = "done" /\ Contains(accepted, verdict)
    <3>1. verdict # NoVerdict /\ verdict \in DoneEvent \union {NoVerdict}
      BY <2>1 DEF CallInv, IInv, TypeOK, HandlerTypeOK, HandlerInPlace
    <3>2. Contains(accepted, verdict)
      BY <2>1 DEF CallInv, IInv, EventsInPlace
    <3> QED
      BY <3>1, <3>2 DEF DoneEvent
  <2>3. DOMAIN accepted = DOMAIN got
    <3>1. /\ DOMAIN got = 1..Len(got) /\ Len(got) \in Nat /\ DOMAIN accepted = 1..Len(accepted)
      BY Parts, LenProperties DEF CallTypeOK
    <3>2. Len(accepted) = Len(got) + Len(down) + Len(queue)
      BY <2>1, Parts DEF DownInPlace
    <3> QED
      BY <2>1, <3>1, <3>2
  <2>4. "done" \notin Stream
    BY DEF Stream
  <2> QED
    BY <2>2, <2>3, <2>4, Parts DEF DownInPlace, Contains
<1> QED
  BY <1>1, CallInvariant, PTL

(* A shim that exits with 0 has run its command, which exited with 0, and  *)
(* has printed all that the command wrote, each stream in order            *)
(* (client.rs:141-157, 253-275; server.rs:739-779).                        *)
THEOREM Zero == CallSpec => []ZeroMeansAll
<1>1. CallInv => ZeroMeansAll
  <2> SUFFICES ASSUME CallInv, mode = "live", exit = 0
               PROVE  /\ verdict = Done("executed", 0) /\ child = "reaped"
                      /\ \A s \in Stream : Printed(s, wrote[s])
    BY DEF ZeroMeansAll
  <2>1. result \in DoneEvent /\ ShimExit(result) = 0
    <3>1. cpc = "over" /\ exit = IF result = Failed THEN 1 ELSE ShimExit(result)
      BY Parts DEF CallerInPlace, NoExit
    <3> QED
      BY <3>1, Parts DEF CallerInPlace, CallTypeOK
  <2>2. result = Done("executed", 0)
    <3>1. result.kind = "done" /\ result.outcome \in Outcome /\ result.code \in Codes
            /\ result = [kind |-> "done", outcome |-> result.outcome, code |-> result.code]
      BY <2>1 DEF DoneEvent
    <3>2. result.outcome = "executed" /\ result.code = 0
      BY <2>1, <3>1 DEF ShimExit, Outcome
    <3> QED
      BY <3>1, <3>2 DEF Done
  <2>3. Len(got) + 1 \in DOMAIN accepted /\ result = accepted[Len(got) + 1]
    BY <2>2, Parts DEF DownInPlace, Done
  <2>4. verdict = result
    BY <2>2, <2>3 DEF Done, CallInv, IInv, EventsInPlace
  <2>5. child = "reaped" /\ \A s \in Stream : sent[s] = wrote[s]
    BY <2>2, <2>4 DEF CallInv, IInv, ExecutedIsComplete, Done, NoVerdict
  <2>6. /\ DOMAIN got = 1..Len(got) /\ Len(got) \in Nat
        /\ DOMAIN accepted = 1..(Len(got) + 1)
    <3>1. Len(got) + 1 = Len(accepted)
      BY <2>2, <2>3 DEF CallInv, IInv, EventsInOrder, Done
    <3> QED
      BY <3>1, Parts, LenProperties DEF CallTypeOK
  <2>7. \A i \in DOMAIN got : i \in DOMAIN accepted /\ got[i] = accepted[i]
    BY Parts DEF DownInPlace
  <2>8. EventsInOrder
    BY DEF CallInv, IInv
  <2>9. ASSUME NEW s \in Stream
        PROVE  Printed(s, wrote[s])
    <3>1. \A i, j \in DOMAIN got :
            i < j /\ got[i].kind = s /\ got[j].kind = s => got[i].num < got[j].num
      BY <2>7, <2>8 DEF EventsInOrder
    <3>2. \A i \in DOMAIN got : got[i].kind = s => got[i].num <= wrote[s]
      BY <2>5, <2>7, <2>8 DEF EventsInOrder
    <3>3. ASSUME NEW k \in 1..wrote[s]
          PROVE  \E i \in DOMAIN got : got[i] = Packet(s, k)
      <4>1. PICK i \in DOMAIN accepted : accepted[i] = Packet(s, k)
        BY <2>5, <2>8 DEF EventsInOrder
      <4>2. i # Len(got) + 1
        BY <2>2, <2>3, <4>1 DEF Packet, Done, Stream
      <4>3. i \in DOMAIN got
        BY <2>6, <4>2
      <4> QED
        BY <2>7, <4>1, <4>3
    <3> QED
      BY <3>1, <3>2, <3>3 DEF Printed
  <2> QED
    BY <2>2, <2>4, <2>5, <2>9
<1> QED
  BY <1>1, CallInvariant, PTL
==============================================================================
