------------------------- MODULE StreamQueueProofs -------------------------
(* What the actions of the packet queue do to its type and to the permits  *)
(* of the byte budget, whoever composes them, from what taking an element  *)
(* out of a sequence, and adding one at its end, leave of the others.      *)
EXTENDS StreamQueue, Integers, SequenceTheorems, TLAPS

-----------------------------------------------------------------------------
(* Sequences.                                                              *)

(* Taking out the i-th element keeps the others and their order.           *)
LEMMA RemoveAtProperties ==
    ASSUME NEW S, NEW q \in Seq(S), NEW i \in DOMAIN q
    PROVE  /\ RemoveAt(q, i) \in Seq(S)
           /\ Len(RemoveAt(q, i)) = Len(q) - 1
           /\ DOMAIN RemoveAt(q, i) = 1..(Len(q) - 1)
           /\ \A j \in 1..(Len(q) - 1) :
                RemoveAt(q, i)[j] = IF j < i THEN q[j] ELSE q[j + 1]
<1> DEFINE a == SubSeq(q, 1, i - 1)
           b == SubSeq(q, i + 1, Len(q))
<1>1. i \in 1..Len(q) /\ Len(q) \in Nat
  BY LenProperties
<1>2. a \in Seq(S) /\ Len(a) = i - 1 /\ \A j \in 1..(i - 1) : a[j] = q[j]
  BY <1>1, SubSeqProperties
<1>3. b \in Seq(S) /\ Len(b) = Len(q) - i /\ \A j \in 1..(Len(q) - i) : b[j] = q[i + j]
  BY <1>1, SubSeqProperties
<1> HIDE DEF a, b
<1>4. /\ a \o b \in Seq(S)
      /\ Len(a \o b) = Len(a) + Len(b)
      /\ \A j \in 1..(Len(a) + Len(b)) : (a \o b)[j] = IF j <= Len(a) THEN a[j] ELSE b[j - Len(a)]
  BY <1>2, <1>3, ConcatProperties
<1>5. ASSUME NEW j \in 1..(Len(q) - 1)
      PROVE  (a \o b)[j] = IF j < i THEN q[j] ELSE q[j + 1]
  <2>1. j \in 1..(Len(a) + Len(b))
    BY <1>1, <1>2, <1>3
  <2>2. CASE j < i
    BY <1>1, <1>2, <1>4, <2>1, <2>2
  <2>3. CASE ~(j < i)
    <3>1. j - (i - 1) \in 1..(Len(q) - i) /\ i + (j - (i - 1)) = j + 1
      BY <1>1, <2>3
    <3>2. (a \o b)[j] = b[j - (i - 1)]
      BY <1>1, <1>2, <1>4, <2>1, <2>3
    <3> QED
      BY <1>3, <2>3, <3>1, <3>2
  <2> QED
    BY <2>2, <2>3
<1>6. Len(a \o b) = Len(q) - 1
  BY <1>1, <1>2, <1>3, <1>4
<1>7. DOMAIN (a \o b) = 1..(Len(q) - 1)
  BY <1>4, <1>6, LenProperties
<1>8. RemoveAt(q, i) = a \o b
  BY DEF RemoveAt, a, b
<1> QED
  BY <1>4, <1>5, <1>6, <1>7, <1>8

(* Appending an element keeps the others and puts it last.                 *)
LEMMA AppendDomain ==
    ASSUME NEW S, NEW q \in Seq(S), NEW e \in S
    PROVE  /\ Append(q, e) \in Seq(S)
           /\ DOMAIN Append(q, e) = DOMAIN q \union {Len(q) + 1}
           /\ Len(q) + 1 \notin DOMAIN q
           /\ \A j \in DOMAIN q : Append(q, e)[j] = q[j]
           /\ Append(q, e)[Len(q) + 1] = e
<1>1. Append(q, e) \in Seq(S) /\ Len(Append(q, e)) = Len(q) + 1
  BY AppendProperties
<1>2. DOMAIN q = 1..Len(q) /\ Len(q) \in Nat /\ DOMAIN Append(q, e) = 1..(Len(q) + 1)
  BY <1>1, LenProperties
<1> QED
  BY <1>1, <1>2, AppendProperties

(* Taking off the head shifts the others down by one.                      *)
LEMMA TailDomain ==
    ASSUME NEW S, NEW q \in Seq(S), q # <<>>
    PROVE  /\ Head(q) \in S /\ Head(q) = q[1] /\ 1 \in DOMAIN q
           /\ Tail(q) \in Seq(S)
           /\ Len(Tail(q)) = Len(q) - 1
           /\ DOMAIN Tail(q) = 1..(Len(q) - 1)
           /\ \A j \in 1..(Len(q) - 1) : Tail(q)[j] = q[j + 1]
<1>1. DOMAIN q = 1..Len(q) /\ Len(q) \in Nat \ {0}
  BY LenProperties, EmptySeq
<1>2. /\ Head(q) \in S /\ Tail(q) \in Seq(S) /\ Len(Tail(q)) = Len(q) - 1
      /\ \A j \in 1..Len(Tail(q)) : Tail(q)[j] = q[j + 1]
  BY HeadTailProperties
<1>3. DOMAIN Tail(q) = 1..Len(Tail(q))
  BY <1>2, LenProperties
<1> QED
  BY <1>1, <1>2, <1>3

-----------------------------------------------------------------------------
(* The packet queue.                                                       *)

(* Queueing an item adds its permits to those in the sequence.             *)
LEMMA PermitsAppend ==
    ASSUME NEW q \in Seq(QueuedItem), NEW e \in QueuedItem
    PROVE  /\ PermitsIn(Append(q, e)) = PermitsIn(q) \union e.permit
           /\ Disjoint(q) /\ e.permit \intersect PermitsIn(q) = {}
                => Disjoint(Append(q, e))
<1>1. /\ DOMAIN Append(q, e) = DOMAIN q \union {Len(q) + 1}
      /\ Len(q) + 1 \notin DOMAIN q
      /\ \A j \in DOMAIN q : Append(q, e)[j] = q[j]
      /\ Append(q, e)[Len(q) + 1] = e
  BY AppendDomain
<1>2. PermitsIn(Append(q, e)) = PermitsIn(q) \union e.permit
  BY <1>1 DEF PermitsIn
<1>3. ASSUME Disjoint(q), e.permit \intersect PermitsIn(q) = {}
      PROVE  Disjoint(Append(q, e))
  BY <1>1, <1>3 DEF Disjoint, PermitsIn
<1> QED
  BY <1>2, <1>3

(* An item that is taken out takes exactly its own permits with it.        *)
LEMMA PermitsShrink ==
    ASSUME NEW q \in Seq(QueuedItem), NEW i \in DOMAIN q, Disjoint(q),
           NEW r, DOMAIN r = 1..(Len(q) - 1),
           \A j \in 1..(Len(q) - 1) : r[j] = IF j < i THEN q[j] ELSE q[j + 1]
    PROVE  /\ PermitsIn(r) = PermitsIn(q) \ q[i].permit
           /\ Disjoint(r)
<1> DEFINE old(j) == IF j < i THEN j ELSE j + 1
<1>1. DOMAIN q = 1..Len(q) /\ Len(q) \in Nat /\ i \in 1..Len(q)
  BY LenProperties
<1>2. \A j \in DOMAIN r : old(j) \in DOMAIN q /\ old(j) # i /\ r[j] = q[old(j)]
  BY <1>1
<1>3. \A j \in DOMAIN q : j # i => \E k \in DOMAIN r : r[k] = q[j]
  <2> SUFFICES ASSUME NEW j \in DOMAIN q, j # i
               PROVE  \E k \in DOMAIN r : r[k] = q[j]
    OBVIOUS
  <2>1. CASE j < i
    <3>1. j \in 1..(Len(q) - 1)
      BY <1>1, <2>1
    <3> QED
      BY <2>1, <3>1
  <2>2. CASE ~(j < i)
    <3>1. j - 1 \in 1..(Len(q) - 1) /\ ~(j - 1 < i) /\ (j - 1) + 1 = j
      BY <1>1, <2>2
    <3> QED
      BY <3>1
  <2> QED
    BY <2>1, <2>2
<1>4. \A j, k \in DOMAIN r : j # k => old(j) # old(k)
  BY <1>1
<1> HIDE DEF old
<1>5. PermitsIn(r) \subseteq PermitsIn(q) \ q[i].permit
  BY <1>2 DEF PermitsIn, Disjoint
<1>6. PermitsIn(q) \ q[i].permit \subseteq PermitsIn(r)
  BY <1>3 DEF PermitsIn
<1>7. Disjoint(r)
  BY <1>2, <1>4 DEF Disjoint
<1> QED
  BY <1>5, <1>6, <1>7

-----------------------------------------------------------------------------
(* What the actions of the queue do to its type.  Items are put on it by   *)
(* callers, so that the types of what they pass are assumptions here.      *)

LEMMA SendMeteredType ==
    ASSUME QueueTypeOK, NEW p \in Sender, NEW x \in Item, NEW n \in 1..Cardinality(Permit),
           SendMetered(p, x, n)
    PROVE  QueueTypeOK'
<1>1. [from |-> p, item |-> x, bytes |-> n] \in Request
  BY DEF Request
<1> QED
  BY <1>1, AppendDomain DEF QueueTypeOK, SendMetered

LEMMA SendUnboundedType ==
    ASSUME QueueTypeOK, NEW p \in Sender, NEW x \in Item, SendUnbounded(p, x)
    PROVE  QueueTypeOK'
<1>1. [from |-> p, item |-> x, permit |-> {}] \in QueuedItem
  BY DEF QueuedItem
<1> QED
  BY <1>1, AppendDomain DEF QueueTypeOK, SendUnbounded

LEMMA GrantBudgetType ==
    ASSUME QueueTypeOK, NEW S, GrantBudget(S)
    PROVE  /\ QueueTypeOK'
           /\ \E e \in QueuedItem : e.permit = S /\ slotWait' = Append(slotWait, e)
<1> DEFINE e == [from |-> Head(budgetWait).from, item |-> Head(budgetWait).item, permit |-> S]
<1>1. Head(budgetWait) \in Request /\ Tail(budgetWait) \in Seq(Request)
  BY TailDomain DEF QueueTypeOK, GrantBudget
<1>2. S \in SUBSET Permit
  BY DEF QueueTypeOK, GrantBudget
<1>3. e \in QueuedItem /\ e.permit = S
  BY <1>1, <1>2 DEF Request, QueuedItem
<1>4. slotWait' = Append(slotWait, e)
  BY DEF GrantBudget
<1>5. Append(slotWait, e) \in Seq(QueuedItem)
  BY <1>3, AppendDomain DEF QueueTypeOK
<1> QED
  BY <1>1, <1>2, <1>3, <1>4, <1>5 DEF QueueTypeOK, GrantBudget

LEMMA PushType ==
    ASSUME QueueTypeOK, NEW i \in DOMAIN slotWait, Push(i)
    PROVE  QueueTypeOK' /\ slotWait[i] \in QueuedItem
<1>1. slotWait[i] \in QueuedItem
  BY LenProperties DEF QueueTypeOK
<1>2. Append(queue, slotWait[i]) \in Seq(QueuedItem)
  BY <1>1, AppendDomain DEF QueueTypeOK
<1>3. RemoveAt(slotWait, i) \in Seq(QueuedItem)
  BY RemoveAtProperties DEF QueueTypeOK
<1> QED
  BY <1>1, <1>2, <1>3 DEF QueueTypeOK, Push

LEMMA DropSendType ==
    ASSUME QueueTypeOK, NEW i \in DOMAIN slotWait, DropSend(i)
    PROVE  QueueTypeOK'
<1> slotWait[i] \in QueuedItem
  BY LenProperties DEF QueueTypeOK
<1>1. slotWait[i].permit \in SUBSET Permit
  BY DEF QueuedItem
<1>2. RemoveAt(slotWait, i) \in Seq(QueuedItem)
  BY RemoveAtProperties DEF QueueTypeOK
<1> QED
  BY <1>1, <1>2 DEF QueueTypeOK, DropSend

LEMMA PopType ==
    ASSUME QueueTypeOK, Pop
    PROVE  QueueTypeOK' /\ Head(queue) \in QueuedItem
<1>1. Head(queue) \in QueuedItem /\ Tail(queue) \in Seq(QueuedItem)
  BY TailDomain DEF QueueTypeOK, Pop
<1> QED
  BY <1>1 DEF QueueTypeOK, Pop, QueuedItem

LEMMA CloseRxType ==
    ASSUME QueueTypeOK, CloseRx
    PROVE  QueueTypeOK'
<1> \A i \in DOMAIN queue : queue[i] \in QueuedItem
  BY LenProperties DEF QueueTypeOK
<1>1. PermitsIn(queue) \subseteq Permit
  BY DEF PermitsIn, QueuedItem
<1>2. <<>> \in Seq(QueuedItem)
  BY EmptySeq
<1> QED
  BY <1>1, <1>2 DEF QueueTypeOK, CloseRx

LEMMA AbortSendType ==
    ASSUME QueueTypeOK, NEW p, AbortSend(p)
    PROVE  QueueTypeOK'
<1>1. CASE UNCHANGED queueVars
  BY <1>1 DEF QueueTypeOK, queueVars
<1>2. ASSUME NEW i \in DOMAIN budgetWait, budgetWait' = RemoveAt(budgetWait, i),
             UNCHANGED <<slotWait, queue, free, rxOpen>>
      PROVE  QueueTypeOK'
  <2>1. RemoveAt(budgetWait, i) \in Seq(Request)
    BY RemoveAtProperties DEF QueueTypeOK
  <2> QED
    BY <1>2, <2>1 DEF QueueTypeOK
<1>3. ASSUME NEW i \in DOMAIN slotWait, DropSend(i)
      PROVE  QueueTypeOK'
  BY <1>3, DropSendType
<1> QED
  BY <1>1, <1>2, <1>3 DEF AbortSend

-----------------------------------------------------------------------------
(* What the sends of the queue do to the waiting senders.                  *)

LEMMA Lengths ==
    ASSUME QueueTypeOK
    PROVE  /\ DOMAIN slotWait = 1..Len(slotWait) /\ Len(slotWait) \in Nat
           /\ DOMAIN budgetWait = 1..Len(budgetWait) /\ Len(budgetWait) \in Nat
           /\ \A i \in DOMAIN slotWait : slotWait[i] \in QueuedItem
           /\ \A i \in DOMAIN budgetWait : budgetWait[i] \in Request
  BY LenProperties DEF QueueTypeOK

(* Taking one send out of slotWait leaves the others and nothing of it.    *)
LEMMA LeavesSlotWait ==
    ASSUME QueueTypeOK, OneSend, NEW i \in DOMAIN slotWait,
           slotWait' = RemoveAt(slotWait, i), budgetWait' = budgetWait
    PROVE  /\ OneSend'
           /\ \A j \in DOMAIN slotWait' :
                /\ slotWait'[j].from # slotWait[i].from
                /\ \E k \in DOMAIN slotWait : slotWait'[j] = slotWait[k]
           /\ \A j \in DOMAIN budgetWait' : budgetWait'[j].from # slotWait[i].from
<1> DEFINE old(j) == IF j < i THEN j ELSE j + 1
<1>1. /\ DOMAIN slotWait' = 1..(Len(slotWait) - 1)
      /\ \A j \in 1..(Len(slotWait) - 1) : slotWait'[j] = slotWait[old(j)]
  <2>1. slotWait \in Seq(QueuedItem)
    BY DEF QueueTypeOK
  <2> QED
    BY <2>1, RemoveAtProperties
<1>2. DOMAIN slotWait = 1..Len(slotWait) /\ Len(slotWait) \in Nat
  BY Lengths
<1>3. \A j \in DOMAIN slotWait' :
        old(j) \in DOMAIN slotWait /\ old(j) # i /\ slotWait'[j] = slotWait[old(j)]
  BY <1>1, <1>2
<1>4. \A j, k \in DOMAIN slotWait' : old(j) = old(k) => j = k
  BY <1>1, <1>2
<1> HIDE DEF old
<1> QED
  BY <1>3, <1>4 DEF OneSend

(* The same for budgetWait.                                                *)
LEMMA LeavesBudgetWait ==
    ASSUME QueueTypeOK, OneSend, NEW i \in DOMAIN budgetWait,
           budgetWait' = RemoveAt(budgetWait, i), slotWait' = slotWait
    PROVE  /\ OneSend'
           /\ \A j \in DOMAIN budgetWait' :
                /\ budgetWait'[j].from # budgetWait[i].from
                /\ \E k \in DOMAIN budgetWait : budgetWait'[j] = budgetWait[k]
           /\ \A j \in DOMAIN slotWait' : slotWait'[j].from # budgetWait[i].from
<1> DEFINE old(j) == IF j < i THEN j ELSE j + 1
<1>1. /\ DOMAIN budgetWait' = 1..(Len(budgetWait) - 1)
      /\ \A j \in 1..(Len(budgetWait) - 1) : budgetWait'[j] = budgetWait[old(j)]
  <2>1. budgetWait \in Seq(Request)
    BY DEF QueueTypeOK
  <2> QED
    BY <2>1, RemoveAtProperties
<1>2. DOMAIN budgetWait = 1..Len(budgetWait) /\ Len(budgetWait) \in Nat
  BY Lengths
<1>3. \A j \in DOMAIN budgetWait' :
        old(j) \in DOMAIN budgetWait /\ old(j) # i /\ budgetWait'[j] = budgetWait[old(j)]
  BY <1>1, <1>2
<1>4. \A j, k \in DOMAIN budgetWait' : old(j) = old(k) => j = k
  BY <1>1, <1>2
<1> HIDE DEF old
<1> QED
  BY <1>3, <1>4 DEF OneSend

(* The head of budgetWait moves to the end of slotWait.                    *)
LEMMA MovesToSlotWait ==
    ASSUME QueueTypeOK, OneSend, NEW S, GrantBudget(S)
    PROVE  /\ OneSend'
           /\ \A j \in DOMAIN budgetWait' :
                \E k \in DOMAIN budgetWait : budgetWait'[j] = budgetWait[k]
           /\ \A j \in DOMAIN slotWait' :
                \/ \E k \in DOMAIN slotWait : slotWait'[j] = slotWait[k]
                \/ \E k \in DOMAIN budgetWait :
                     /\ slotWait'[j].from = budgetWait[k].from
                     /\ slotWait'[j].item = budgetWait[k].item
<1> DEFINE h == Head(budgetWait)
           e == [from |-> h.from, item |-> h.item, permit |-> S]
<1>0. budgetWait \in Seq(Request) /\ slotWait \in Seq(QueuedItem) /\ budgetWait # <<>>
  BY DEF QueueTypeOK, GrantBudget
<1>1. /\ h \in Request /\ h = budgetWait[1] /\ 1 \in DOMAIN budgetWait
      /\ DOMAIN budgetWait' = 1..(Len(budgetWait) - 1)
      /\ \A j \in 1..(Len(budgetWait) - 1) : budgetWait'[j] = budgetWait[j + 1]
  <2>1. budgetWait' = Tail(budgetWait)
    BY DEF GrantBudget
  <2> QED
    BY <1>0, <2>1, TailDomain
<1>2. e \in QueuedItem
  <2>1. S \in SUBSET Permit
    BY DEF QueueTypeOK, GrantBudget
  <2> QED
    BY <1>1, <2>1 DEF Request, QueuedItem
<1>3. slotWait' = Append(slotWait, e) /\ e.from = h.from /\ e.item = h.item
  BY DEF GrantBudget
<1> HIDE DEF e, h
<1>4. /\ DOMAIN slotWait' = DOMAIN slotWait \union {Len(slotWait) + 1}
      /\ Len(slotWait) + 1 \notin DOMAIN slotWait
      /\ \A j \in DOMAIN slotWait : slotWait'[j] = slotWait[j]
      /\ slotWait'[Len(slotWait) + 1] = e
  BY <1>0, <1>2, <1>3, AppendDomain
<1>5. DOMAIN budgetWait = 1..Len(budgetWait) /\ Len(budgetWait) \in Nat
  BY Lengths
<1>6. \A j \in DOMAIN budgetWait' :
        j + 1 \in DOMAIN budgetWait /\ j + 1 # 1 /\ budgetWait'[j] = budgetWait[j + 1]
  BY <1>1, <1>5
<1>7. \A i, j \in DOMAIN budgetWait' : i + 1 = j + 1 => i = j
  BY <1>1, <1>5
<1>8. \A i, j \in DOMAIN budgetWait' : budgetWait'[i].from = budgetWait'[j].from => i = j
  BY <1>6, <1>7 DEF OneSend
<1>9. \A i, j \in DOMAIN slotWait' : slotWait'[i].from = slotWait'[j].from => i = j
  BY <1>1, <1>3, <1>4 DEF OneSend
<1>10. \A i \in DOMAIN budgetWait', j \in DOMAIN slotWait' :
        budgetWait'[i].from # slotWait'[j].from
  BY <1>1, <1>3, <1>4, <1>6 DEF OneSend
<1>11. OneSend'
  BY <1>8, <1>9, <1>10 DEF OneSend
<1>12. \A j \in DOMAIN budgetWait' :
        \E k \in DOMAIN budgetWait : budgetWait'[j] = budgetWait[k]
  BY <1>6
<1>13. \A j \in DOMAIN slotWait' :
        \/ \E k \in DOMAIN slotWait : slotWait'[j] = slotWait[k]
        \/ \E k \in DOMAIN budgetWait :
             /\ slotWait'[j].from = budgetWait[k].from
             /\ slotWait'[j].item = budgetWait[k].item
  BY <1>1, <1>3, <1>4
<1> QED
  BY <1>11, <1>12, <1>13

(* A new send joins the waiters, of a task that was in none.               *)
LEMMA JoinsWaiters ==
    ASSUME QueueTypeOK, OneSend, NEW p \in Sender, NEW x \in Item, ~InSend(p),
           \/ SendUnbounded(p, x)
           \/ \E n \in 1..Cardinality(Permit) : SendMetered(p, x, n)
    PROVE  /\ OneSend'
           /\ \A j \in DOMAIN budgetWait' :
                \/ \E k \in DOMAIN budgetWait : budgetWait'[j] = budgetWait[k]
                \/ /\ budgetWait'[j].from = p /\ budgetWait'[j].item = x
                   /\ ~SendUnbounded(p, x)
           /\ \A j \in DOMAIN slotWait' :
                \/ \E k \in DOMAIN slotWait : slotWait'[j] = slotWait[k]
                \/ /\ slotWait'[j].from = p /\ slotWait'[j].item = x
                   /\ SendUnbounded(p, x)
<1>0. budgetWait \in Seq(Request) /\ slotWait \in Seq(QueuedItem)
  BY DEF QueueTypeOK
<1>1. CASE SendUnbounded(p, x)
  <2> DEFINE e == [from |-> p, item |-> x, permit |-> {}]
  <2>1. e \in QueuedItem /\ e.from = p /\ e.item = x
    BY DEF QueuedItem
  <2>2. slotWait' = Append(slotWait, e) /\ budgetWait' = budgetWait
    BY <1>1 DEF SendUnbounded
  <2> HIDE DEF e
  <2>3. /\ DOMAIN slotWait' = DOMAIN slotWait \union {Len(slotWait) + 1}
        /\ Len(slotWait) + 1 \notin DOMAIN slotWait
        /\ \A j \in DOMAIN slotWait : slotWait'[j] = slotWait[j]
        /\ slotWait'[Len(slotWait) + 1] = e
    BY <1>0, <2>1, <2>2, AppendDomain
  <2>4. OneSend'
    BY <2>1, <2>2, <2>3 DEF OneSend, InSend
  <2> QED
    BY <1>1, <2>1, <2>2, <2>3, <2>4
<1>2. ASSUME NEW n \in 1..Cardinality(Permit), SendMetered(p, x, n)
      PROVE  /\ OneSend'
             /\ slotWait' = slotWait
             /\ \A j \in DOMAIN budgetWait' :
                  \/ \E k \in DOMAIN budgetWait : budgetWait'[j] = budgetWait[k]
                  \/ /\ budgetWait'[j].from = p /\ budgetWait'[j].item = x
                     /\ budgetWait' # budgetWait
  <2> DEFINE e == [from |-> p, item |-> x, bytes |-> n]
  <2>1. e \in Request /\ e.from = p /\ e.item = x
    BY DEF Request
  <2>2. budgetWait' = Append(budgetWait, e) /\ slotWait' = slotWait
    BY <1>2 DEF SendMetered
  <2> HIDE DEF e
  <2>3. /\ DOMAIN budgetWait' = DOMAIN budgetWait \union {Len(budgetWait) + 1}
        /\ Len(budgetWait) + 1 \notin DOMAIN budgetWait
        /\ \A j \in DOMAIN budgetWait : budgetWait'[j] = budgetWait[j]
        /\ budgetWait'[Len(budgetWait) + 1] = e
    BY <1>0, <2>1, <2>2, AppendDomain
  <2>4. OneSend'
    BY <2>1, <2>2, <2>3 DEF OneSend, InSend
  <2> QED
    BY <2>1, <2>2, <2>3, <2>4
<1>3. SendUnbounded(p, x) => budgetWait' = budgetWait
  BY DEF SendUnbounded
<1> QED
  BY <1>1, <1>2, <1>3
=============================================================================
