------------------------ MODULE StreamSendersProofs ------------------------
(* The byte budget is conserved and each sender's order is kept, for every *)
(* number of senders, items, permits and slots.                            *)
EXTENDS StreamSenders, StreamQueueProofs, FiniteSetTheorems

-----------------------------------------------------------------------------
(* Type correctness: every variable keeps its type (stream_queue.rs:9-55). *)
THEOREM Typing == Spec => []TypeOK
<1>1. Init => TypeOK
  <2> SUFFICES ASSUME Init PROVE TypeOK
    OBVIOUS
  <2>1. <<>> \in Seq(Request) /\ <<>> \in Seq(QueuedItem) /\ <<>> \in Seq([from : Sender, item : Item])
    BY EmptySeq
  <2> QED
    BY <2>1, ItemsAssumption DEF Init, QueueInit, TypeOK, QueueTypeOK
<1>2. TypeOK /\ [Next]_vars => TypeOK'
  <2> SUFFICES ASSUME TypeOK, [Next]_vars PROVE TypeOK'
    OBVIOUS
  <2> USE DEF TypeOK
  <2>1. ASSUME NEW p \in Sender, Send(p) PROVE TypeOK'
    <3>1. begun[p] + 1 \in Item /\ begun' \in [Sender -> 0..MaxItems]
      BY <2>1, ItemsAssumption DEF Send
    <3>2. 1..MaxBytes \subseteq 1..Cardinality(Permit)
      BY ChunkAssumption, BudgetAssumption, FS_CardinalityType
    <3>3. QueueTypeOK'
      BY <2>1, <3>1, <3>2, SendMeteredType, SendUnboundedType DEF Send
    <3> QED
      BY <2>1, <3>1, <3>3 DEF Send
  <2>2. ASSUME NEW p \in Sender, Finish(p) PROVE TypeOK'
    BY <2>2 DEF Finish, queueVars, QueueTypeOK
  <2>3. ASSUME NEW p \in Sender, SendReturns(p) PROVE TypeOK'
    BY <2>3, PushType, DropSendType DEF SendReturns, FailSend
  <2>4. ASSUME NEW p \in Sender, Abort(p) PROVE TypeOK'
    BY <2>4, AbortSendType DEF Abort
  <2>5. ASSUME Grant PROVE TypeOK'
    BY <2>5, GrantBudgetType DEF Grant
  <2>6. ASSUME Take PROVE TypeOK'
    <3>1. QueueTypeOK' /\ Head(queue) \in QueuedItem
      BY <2>6, PopType DEF Take
    <3>2. [from |-> Head(queue).from, item |-> Head(queue).item] \in [from : Sender, item : Item]
      BY <3>1 DEF QueuedItem
    <3>3. got' \in Seq([from : Sender, item : Item])
      BY <2>6, <3>2, AppendDomain DEF Take
    <3> QED
      BY <2>6, <3>1, <3>3 DEF Take
  <2>7. ASSUME Drop PROVE TypeOK'
    BY <2>7, CloseRxType DEF Drop
  <2>8. ASSUME UNCHANGED vars PROVE TypeOK'
    BY <2>8 DEF vars, queueVars, QueueTypeOK
  <2> QED
    BY <2>1, <2>2, <2>3, <2>4, <2>5, <2>6, <2>7, <2>8 DEF Next, Terminated
<1> QED
  BY <1>1, <1>2, PTL DEF Spec

-----------------------------------------------------------------------------
\* One waiting send leaves: its permits leave slotWait and nothing else.
LEMMA LeaveSlotWait ==
    ASSUME TypeOK, PermitsConserved, NEW i \in DOMAIN slotWait,
           slotWait' = RemoveAt(slotWait, i)
    PROVE  /\ PermitsIn(slotWait') = PermitsIn(slotWait) \ slotWait[i].permit
           /\ slotWait[i].permit \subseteq PermitsIn(slotWait)
           /\ Disjoint(slotWait')
<1>1. slotWait \in Seq(QueuedItem) /\ Disjoint(slotWait)
  BY DEF TypeOK, QueueTypeOK, PermitsConserved
<1>2. /\ DOMAIN RemoveAt(slotWait, i) = 1..(Len(slotWait) - 1)
      /\ \A j \in 1..(Len(slotWait) - 1) :
            RemoveAt(slotWait, i)[j] = IF j < i THEN slotWait[j] ELSE slotWait[j + 1]
  BY <1>1, RemoveAtProperties
<1>3. /\ PermitsIn(RemoveAt(slotWait, i)) = PermitsIn(slotWait) \ slotWait[i].permit
      /\ Disjoint(RemoveAt(slotWait, i))
  BY <1>1, <1>2, PermitsShrink
<1>4. slotWait[i].permit \subseteq PermitsIn(slotWait)
  BY DEF PermitsIn
<1> QED
  BY <1>3, <1>4

LEMMA DropSendConserves ==
    ASSUME TypeOK, PermitsConserved, NEW i \in DOMAIN slotWait, DropSend(i)
    PROVE  PermitsConserved'
<1>1. /\ PermitsIn(slotWait') = PermitsIn(slotWait) \ slotWait[i].permit
      /\ slotWait[i].permit \subseteq PermitsIn(slotWait)
      /\ Disjoint(slotWait')
  BY LeaveSlotWait DEF DropSend
<1>2. free' = free \union slotWait[i].permit /\ queue' = queue
  BY DEF DropSend
<1> QED
  BY <1>1, <1>2 DEF PermitsConserved

(* Conservation of the byte budget through sends that succeed, fail or are *)
(* aborted and through the loss of the receiver (stream_queue.rs:9-55).    *)
THEOREM BudgetConserved == Spec => []PermitsConserved
<1>1. Init => PermitsConserved
  BY DEF Init, QueueInit, PermitsConserved, Disjoint, PermitsIn
<1>2. TypeOK /\ PermitsConserved /\ [Next]_vars => PermitsConserved'
  <2> SUFFICES ASSUME TypeOK, PermitsConserved, [Next]_vars PROVE PermitsConserved'
    OBVIOUS
  <2>0. slotWait \in Seq(QueuedItem) /\ queue \in Seq(QueuedItem)
    BY DEF TypeOK, QueueTypeOK
  <2>1. ASSUME UNCHANGED <<slotWait, queue, free>> PROVE PermitsConserved'
    BY <2>1 DEF PermitsConserved
  <2>2. ASSUME NEW p \in Sender, Send(p) PROVE PermitsConserved'
    <3>1. CASE UNCHANGED <<slotWait, queue, free>>
      BY <3>1, <2>1
    <3>2. CASE SendUnbounded(p, begun[p] + 1)
      <4> DEFINE e == [from |-> p, item |-> begun[p] + 1, permit |-> {}]
      <4>1. e \in QueuedItem /\ e.permit = {}
        BY <2>2, ItemsAssumption DEF QueuedItem, Send, TypeOK
      <4> HIDE DEF e
      <4>2. PermitsIn(Append(slotWait, e)) = PermitsIn(slotWait) /\ Disjoint(Append(slotWait, e))
        BY <2>0, <4>1, PermitsAppend DEF PermitsConserved
      <4>3. slotWait' = Append(slotWait, e) /\ UNCHANGED <<queue, free>>
        BY <3>2 DEF SendUnbounded, e
      <4> QED
        BY <4>2, <4>3 DEF PermitsConserved
    <3> QED
      BY <2>2, <3>1, <3>2 DEF Send, SendMetered
  <2>3. ASSUME NEW S \in SUBSET free, GrantBudget(S) PROVE PermitsConserved'
    <3>1. PICK e \in QueuedItem : e.permit = S /\ slotWait' = Append(slotWait, e)
      BY <2>3, GrantBudgetType DEF TypeOK
    <3>2. free' = free \ S /\ queue' = queue
      BY <2>3 DEF GrantBudget
    <3>3. PermitsIn(slotWait') = PermitsIn(slotWait) \union S /\ Disjoint(slotWait')
      BY <2>0, <3>1, PermitsAppend DEF PermitsConserved
    <3> QED
      BY <3>2, <3>3 DEF PermitsConserved
  <2>4. ASSUME NEW i \in DOMAIN slotWait, Push(i) PROVE PermitsConserved'
    <3>1. /\ PermitsIn(slotWait') = PermitsIn(slotWait) \ slotWait[i].permit
          /\ slotWait[i].permit \subseteq PermitsIn(slotWait)
          /\ Disjoint(slotWait')
      BY <2>4, LeaveSlotWait DEF Push
    <3>2. slotWait[i] \in QueuedItem /\ queue' = Append(queue, slotWait[i]) /\ free' = free
      BY <2>4, PushType DEF TypeOK, Push
    <3>3. PermitsIn(queue') = PermitsIn(queue) \union slotWait[i].permit /\ Disjoint(queue')
      BY <2>0, <3>1, <3>2, PermitsAppend DEF PermitsConserved
    <3> QED
      BY <3>1, <3>2, <3>3 DEF PermitsConserved
  <2>5. ASSUME NEW p \in Sender, SendReturns(p) PROVE PermitsConserved'
    BY <2>4, <2>5, DropSendConserves DEF SendReturns, FailSend
  <2>6. ASSUME NEW p \in Sender, Abort(p) PROVE PermitsConserved'
    BY <2>1, <2>6, DropSendConserves DEF Abort, AbortSend, queueVars
  <2>7. ASSUME Take PROVE PermitsConserved'
    <3>1. /\ queue # <<>> /\ queue' = Tail(queue) /\ slotWait' = slotWait
          /\ free' = free \union Head(queue).permit
      BY <2>7 DEF Take, Pop
    <3>2. /\ Head(queue) = queue[1] /\ 1 \in DOMAIN queue
          /\ DOMAIN Tail(queue) = 1..(Len(queue) - 1)
          /\ \A j \in 1..(Len(queue) - 1) : Tail(queue)[j] = queue[j + 1]
      BY <2>0, <3>1, TailDomain
    <3>3. \A j \in 1..(Len(queue) - 1) : Tail(queue)[j] = IF j < 1 THEN queue[j] ELSE queue[j + 1]
      BY <3>2
    <3> DEFINE r == Tail(queue)
    <3>a. Disjoint(queue) /\ DOMAIN r = 1..(Len(queue) - 1) /\ 1 \in DOMAIN queue
      BY <3>2 DEF PermitsConserved
    <3> HIDE DEF r
    <3>b. \A j \in 1..(Len(queue) - 1) : r[j] = IF j < 1 THEN queue[j] ELSE queue[j + 1]
      BY <3>3 DEF r
    <3>c. PermitsIn(r) = PermitsIn(queue) \ queue[1].permit /\ Disjoint(r)
      BY <2>0, <3>a, <3>b, PermitsShrink
    <3>4. PermitsIn(queue') = PermitsIn(queue) \ Head(queue).permit /\ Disjoint(queue')
      BY <3>1, <3>2, <3>c DEF r
    <3>5. Head(queue).permit \subseteq PermitsIn(queue)
      BY <3>2 DEF PermitsIn
    <3> QED
      BY <3>1, <3>4, <3>5 DEF PermitsConserved
  <2>8. ASSUME Drop PROVE PermitsConserved'
    <3>1. free' = free \union PermitsIn(queue) /\ queue' = <<>> /\ slotWait' = slotWait
      BY <2>8 DEF Drop, CloseRx
    <3>2. PermitsIn(<<>>) = {} /\ Disjoint(<<>>)
      BY DEF PermitsIn, Disjoint
    <3> QED
      BY <3>1, <3>2 DEF PermitsConserved
  <2>9. ASSUME NEW p \in Sender, Finish(p) PROVE PermitsConserved'
    BY <2>1, <2>9 DEF Finish, queueVars
  <2>10. CASE UNCHANGED vars
    BY <2>1, <2>10 DEF vars, queueVars
  <2> QED
    BY <2>2, <2>3, <2>5, <2>6, <2>7, <2>8, <2>9, <2>10 DEF Next, Grant, Terminated
<1> QED
  BY <1>1, <1>2, Typing, PTL DEF Spec
-----------------------------------------------------------------------------
(* Per-sender order.  Which sends wait is a matter of who is in one.       *)

(* The waiters that stay when one leaves.                                  *)
LEMMA OthersStay ==
    ASSUME NEW S, NEW q \in Seq(S), NEW i \in DOMAIN q, NEW j \in DOMAIN q, j # i
    PROVE  \E k \in DOMAIN RemoveAt(q, i) : RemoveAt(q, i)[k] = q[j]
<1>1. /\ DOMAIN RemoveAt(q, i) = 1..(Len(q) - 1)
      /\ \A k \in 1..(Len(q) - 1) : RemoveAt(q, i)[k] = IF k < i THEN q[k] ELSE q[k + 1]
  BY RemoveAtProperties
<1>2. i \in 1..Len(q) /\ j \in 1..Len(q) /\ Len(q) \in Nat
  BY LenProperties
<1> DEFINE r == RemoveAt(q, i)
<1> HIDE DEF r
<1>3. /\ DOMAIN r = 1..(Len(q) - 1)
      /\ \A k \in 1..(Len(q) - 1) : r[k] = IF k < i THEN q[k] ELSE q[k + 1]
  BY <1>1 DEF r
<1>4. CASE j < i
  <2>1. j \in 1..(Len(q) - 1)
    BY <1>2, <1>4
  <2> QED
    BY <1>3, <1>4, <2>1 DEF r
<1>5. CASE ~(j < i)
  <2>1. j - 1 \in 1..(Len(q) - 1) /\ ~(j - 1 < i) /\ (j - 1) + 1 = j
    BY <1>2, <1>5
  <2>2. r[j - 1] = q[j]
    BY <1>3, <2>1
  <2> QED
    BY <1>3, <2>1, <2>2 DEF r
<1> QED
  BY <1>4, <1>5

(* A send that leaves slotWait or budgetWait is one less, and that is all. *)
LEMMA OneSendLeaves ==
    ASSUME QueueTypeOK, OneSend, NEW p,
           \/ \E i \in DOMAIN slotWait :
                /\ slotWait[i].from = p
                /\ slotWait' = RemoveAt(slotWait, i) /\ budgetWait' = budgetWait
           \/ \E i \in DOMAIN budgetWait :
                /\ budgetWait[i].from = p
                /\ budgetWait' = RemoveAt(budgetWait, i) /\ slotWait' = slotWait
    PROVE  /\ OneSend' /\ ~InSend(p)'
           /\ \A r : r # p => (InSend(r)' <=> InSend(r))
           /\ \A j \in DOMAIN slotWait' : \E k \in DOMAIN slotWait : slotWait'[j] = slotWait[k]
           /\ \A j \in DOMAIN budgetWait' : \E k \in DOMAIN budgetWait : budgetWait'[j] = budgetWait[k]
<1>1. slotWait \in Seq(QueuedItem) /\ budgetWait \in Seq(Request)
  BY DEF QueueTypeOK
<1>2. ASSUME NEW i \in DOMAIN slotWait, slotWait[i].from = p,
             slotWait' = RemoveAt(slotWait, i), budgetWait' = budgetWait
      PROVE  /\ OneSend' /\ ~InSend(p)'
             /\ \A r : r # p => (InSend(r)' <=> InSend(r))
             /\ \A j \in DOMAIN slotWait' : \E k \in DOMAIN slotWait : slotWait'[j] = slotWait[k]
  <2>1. /\ OneSend'
        /\ \A j \in DOMAIN slotWait' :
             slotWait'[j].from # p /\ \E k \in DOMAIN slotWait : slotWait'[j] = slotWait[k]
        /\ \A j \in DOMAIN budgetWait' : budgetWait'[j].from # p
    BY <1>2, LeavesSlotWait
  <2>2. \A j \in DOMAIN slotWait : j # i => \E k \in DOMAIN slotWait' : slotWait'[k] = slotWait[j]
    BY <1>1, <1>2, OthersStay
  <2>3. ASSUME NEW r, r # p PROVE InSend(r)' <=> InSend(r)
    BY <1>2, <2>1, <2>2, <2>3 DEF InSend
  <2>4. ~InSend(p)'
    BY <2>1 DEF InSend
  <2> QED
    BY <2>1, <2>3, <2>4
<1>3. ASSUME NEW i \in DOMAIN budgetWait, budgetWait[i].from = p,
             budgetWait' = RemoveAt(budgetWait, i), slotWait' = slotWait
      PROVE  /\ OneSend' /\ ~InSend(p)'
             /\ \A r : r # p => (InSend(r)' <=> InSend(r))
             /\ \A j \in DOMAIN budgetWait' : \E k \in DOMAIN budgetWait : budgetWait'[j] = budgetWait[k]
  <2>1. /\ OneSend'
        /\ \A j \in DOMAIN budgetWait' :
             budgetWait'[j].from # p /\ \E k \in DOMAIN budgetWait : budgetWait'[j] = budgetWait[k]
        /\ \A j \in DOMAIN slotWait' : slotWait'[j].from # p
    BY <1>3, LeavesBudgetWait
  <2>2. \A j \in DOMAIN budgetWait : j # i => \E k \in DOMAIN budgetWait' : budgetWait'[k] = budgetWait[j]
    BY <1>1, <1>3, OthersStay
  <2>3. ASSUME NEW r, r # p PROVE InSend(r)' <=> InSend(r)
    BY <1>3, <2>1, <2>2, <2>3 DEF InSend
  <2>4. ~InSend(p)'
    BY <2>1 DEF InSend
  <2> QED
    BY <2>1, <2>3, <2>4
<1>4. CASE \E i \in DOMAIN slotWait :
             /\ slotWait[i].from = p
             /\ slotWait' = RemoveAt(slotWait, i) /\ budgetWait' = budgetWait
  BY <1>2, <1>4
<1>5. CASE \E i \in DOMAIN budgetWait :
             /\ budgetWait[i].from = p
             /\ budgetWait' = RemoveAt(budgetWait, i) /\ slotWait' = slotWait
  BY <1>3, <1>5
<1> QED
  BY <1>4, <1>5

(* A granted budget moves its send and changes nobody's being in one.      *)
LEMMA GrantKeepsSends ==
    ASSUME QueueTypeOK, OneSend, NEW S, GrantBudget(S)
    PROVE  \A r : InSend(r)' <=> InSend(r)
<1> DEFINE h == Head(budgetWait)
           e == [from |-> h.from, item |-> h.item, permit |-> S]
<1>1. /\ budgetWait \in Seq(Request) /\ budgetWait # <<>> /\ budgetWait' = Tail(budgetWait)
      /\ slotWait \in Seq(QueuedItem) /\ slotWait' = Append(slotWait, e) /\ S \in SUBSET Permit
  BY DEF GrantBudget, QueueTypeOK
<1>2. /\ h \in Request /\ h = budgetWait[1] /\ 1 \in DOMAIN budgetWait
      /\ DOMAIN budgetWait' = 1..(Len(budgetWait) - 1)
      /\ \A j \in 1..(Len(budgetWait) - 1) : budgetWait'[j] = budgetWait[j + 1]
  BY <1>1, TailDomain
<1>3. e \in QueuedItem /\ e.from = h.from
  BY <1>1, <1>2 DEF Request, QueuedItem
<1> HIDE DEF e, h
<1>4. /\ DOMAIN slotWait' = DOMAIN slotWait \union {Len(slotWait) + 1}
      /\ \A j \in DOMAIN slotWait : slotWait'[j] = slotWait[j]
      /\ slotWait'[Len(slotWait) + 1] = e
  BY <1>1, <1>3, AppendDomain
<1>5. DOMAIN budgetWait = 1..Len(budgetWait) /\ Len(budgetWait) \in Nat
  BY Lengths
<1>6. \A j \in DOMAIN budgetWait : j # 1 =>
        j - 1 \in DOMAIN budgetWait' /\ budgetWait'[j - 1] = budgetWait[j]
  BY <1>2, <1>5
<1>7. \A j \in DOMAIN budgetWait' : j + 1 \in DOMAIN budgetWait /\ budgetWait'[j] = budgetWait[j + 1]
  BY <1>2, <1>5
<1>8. ASSUME NEW r, InSend(r) PROVE InSend(r)'
  <2>1. CASE \E i \in DOMAIN slotWait : slotWait[i].from = r
    BY <1>4, <2>1 DEF InSend
  <2>2. ASSUME NEW i \in DOMAIN budgetWait, budgetWait[i].from = r PROVE InSend(r)'
    <3>1. CASE i = 1
      BY <1>2, <1>3, <1>4, <2>2, <3>1 DEF InSend
    <3>2. CASE i # 1
      BY <1>6, <2>2, <3>2 DEF InSend
    <3> QED
      BY <3>1, <3>2
  <2> QED
    BY <1>8, <2>1, <2>2 DEF InSend
<1>9. ASSUME NEW r, InSend(r)' PROVE InSend(r)
  BY <1>2, <1>3, <1>4, <1>7, <1>9 DEF InSend
<1> QED
  BY <1>8, <1>9

(* The stream: what the receiver took, then what is queued.                *)
Entries == [from : Sender, item : Item]

LEMMA EntriesAre ==
    ASSUME NEW q \in Seq(QueuedItem)
    PROVE  LET o == [i \in DOMAIN q |-> Entry(q[i])] IN
           o \in Seq(Entries) /\ Len(o) = Len(q) /\ \A i \in 1..Len(q) : o[i] = Entry(q[i])
<1> DEFINE o == [i \in DOMAIN q |-> Entry(q[i])]
<1>1. DOMAIN q = 1..Len(q) /\ Len(q) \in Nat /\ \A i \in 1..Len(q) : q[i] \in QueuedItem
  BY LenProperties
<1>2. \A i \in 1..Len(q) : Entry(q[i]) \in Entries
  BY <1>1 DEF Entry, Entries, QueuedItem
<1>3. o \in [1..Len(q) -> Entries]
  BY <1>1, <1>2
<1>4. o \in Seq(Entries) /\ Len(o) = Len(q)
  BY <1>1, <1>3
<1>5. \A i \in 1..Len(q) : o[i] = Entry(q[i])
  BY <1>1
<1> QED
  BY <1>4, <1>5

Joined(g, q) == g \o [i \in DOMAIN q |-> Entry(q[i])]

LEMMA JoinedIs ==
    ASSUME NEW g \in Seq(Entries), NEW q \in Seq(QueuedItem)
    PROVE  /\ Len(g) \in Nat /\ Len(q) \in Nat
           /\ Joined(g, q) \in Seq(Entries) /\ Len(Joined(g, q)) = Len(g) + Len(q)
           /\ DOMAIN Joined(g, q) = 1..Len(g) + Len(q)
           /\ \A i \in 1..Len(g) : Joined(g, q)[i] = g[i]
           /\ \A i \in 1..Len(q) : Joined(g, q)[Len(g) + i] = Entry(q[i])
<1> DEFINE o == [i \in DOMAIN q |-> Entry(q[i])]
           j == Joined(g, q)
<1>1. o \in Seq(Entries) /\ Len(o) = Len(q) /\ \A i \in 1..Len(q) : o[i] = Entry(q[i])
  BY EntriesAre
<1>2. j = g \o o
  BY DEF Joined
<1> HIDE DEF o, j
<1>3. Len(g) \in Nat /\ Len(q) \in Nat
  BY LenProperties
<1>4. /\ j \in Seq(Entries) /\ Len(j) = Len(g) + Len(o)
      /\ \A i \in 1..Len(g) + Len(o) : j[i] = IF i <= Len(g) THEN g[i] ELSE o[i - Len(g)]
  <2>1. o \in Seq(Entries)
    BY <1>1
  <2>2. /\ g \o o \in Seq(Entries) /\ Len(g \o o) = Len(g) + Len(o)
        /\ \A i \in 1..Len(g) + Len(o) :
              (g \o o)[i] = IF i <= Len(g) THEN g[i] ELSE o[i - Len(g)]
    BY <2>1, ConcatProperties, Zenon
  <2> QED
    BY <1>2, <2>2
<1>5. ASSUME NEW i \in 1..Len(g) PROVE j[i] = g[i]
  BY <1>1, <1>3, <1>4
<1>6. ASSUME NEW i \in 1..Len(q) PROVE j[Len(g) + i] = Entry(q[i])
  <2>1. /\ Len(g) + i \in 1..Len(g) + Len(o) /\ ~(Len(g) + i <= Len(g))
        /\ (Len(g) + i) - Len(g) = i
    BY <1>1, <1>3
  <2> QED
    BY <1>1, <1>4, <2>1
<1>7. DOMAIN j = 1..Len(g) + Len(q)
  BY <1>1, <1>4, LenProperties
<1> QED
  BY <1>1, <1>3, <1>4, <1>5, <1>6, <1>7 DEF j

LEMMA StreamIs ==
    ASSUME TypeOK
    PROVE  got \in Seq(Entries) /\ queue \in Seq(QueuedItem) /\ Stream = Joined(got, queue)
  BY DEF TypeOK, QueueTypeOK, Entries, Stream, Joined

(* Taking an item moves it from one part of the stream to the other.       *)
LEMMA JoinedTakes ==
    ASSUME NEW g \in Seq(Entries), NEW q \in Seq(QueuedItem), q # <<>>
    PROVE  Joined(Append(g, Entry(Head(q))), Tail(q)) = Joined(g, q)
<1> DEFINE h == Entry(Head(q))
           f == Append(g, h)
           t == Tail(q)
           new == Joined(f, t)
           old == Joined(g, q)
<1>1. /\ Head(q) \in QueuedItem /\ Head(q) = q[1] /\ 1 \in DOMAIN q
      /\ t \in Seq(QueuedItem) /\ Len(t) = Len(q) - 1
      /\ \A j \in 1..(Len(q) - 1) : t[j] = q[j + 1]
  BY TailDomain
<1>2. h \in Entries /\ h = Entry(q[1]) /\ 1 \in 1..Len(q)
  BY <1>1, LenProperties DEF Entry, Entries, QueuedItem
<1> HIDE DEF h, t
<1>3. /\ f \in Seq(Entries) /\ Len(f) = Len(g) + 1 /\ f[Len(g) + 1] = h
      /\ \A j \in 1..Len(g) : f[j] = g[j]
  BY <1>2, AppendProperties
<1> HIDE DEF f
<1>4. /\ Len(g) \in Nat /\ Len(q) \in Nat
      /\ old \in Seq(Entries) /\ Len(old) = Len(g) + Len(q)
      /\ \A i \in 1..Len(g) : old[i] = g[i]
      /\ \A i \in 1..Len(q) : old[Len(g) + i] = Entry(q[i])
  BY JoinedIs
<1>5. /\ new \in Seq(Entries) /\ Len(new) = Len(f) + Len(t)
      /\ \A i \in 1..Len(f) : new[i] = f[i]
      /\ \A i \in 1..Len(t) : new[Len(f) + i] = Entry(t[i])
  BY <1>1, <1>3, JoinedIs
<1> HIDE DEF new, old
<1>6. Len(new) = Len(old)
  BY <1>1, <1>3, <1>4, <1>5
<1>7. ASSUME NEW i \in 1..Len(new) PROVE new[i] = old[i]
  <2>1. CASE i \in 1..Len(g)
    BY <1>3, <1>4, <1>5, <2>1
  <2>2. CASE i = Len(g) + 1
    BY <1>2, <1>3, <1>4, <1>5, <2>2
  <2>3. CASE i > Len(g) + 1
    <3> DEFINE j == i - (Len(g) + 1)
    <3>1. j \in 1..Len(t) /\ j \in 1..Len(q) - 1 /\ j + 1 \in 1..Len(q)
      BY <1>1, <1>4, <1>6, <2>3
    <3>2. Len(f) + j = i /\ Len(g) + (j + 1) = i
      BY <1>3, <1>4
    <3> HIDE DEF j
    <3>3. new[Len(f) + j] = Entry(t[j]) /\ old[Len(g) + (j + 1)] = Entry(q[j + 1]) /\ t[j] = q[j + 1]
      BY <1>1, <1>4, <1>5, <3>1
    <3> QED
      BY <3>2, <3>3
  <2>4. i \in 1..Len(g) \/ i = Len(g) + 1 \/ i > Len(g) + 1
    BY <1>4, <1>6
  <2> QED
    BY <2>1, <2>2, <2>3, <2>4
<1>8. new = old
  BY <1>4, <1>5, <1>6, <1>7, SeqEqual
<1> QED
  BY <1>8 DEF new, old, f, h, t

(* An item that is queued comes last.                                      *)
LEMMA JoinedPushes ==
    ASSUME NEW g \in Seq(Entries), NEW q \in Seq(QueuedItem), NEW e \in QueuedItem
    PROVE  /\ Joined(g, Append(q, e)) \in Seq(Entries)
           /\ DOMAIN Joined(g, Append(q, e)) = 1..Len(g) + Len(q) + 1
           /\ \A i \in 1..Len(g) + Len(q) : Joined(g, Append(q, e))[i] = Joined(g, q)[i]
           /\ Joined(g, Append(q, e))[Len(g) + Len(q) + 1] = Entry(e)
<1> DEFINE r == Append(q, e)
           new == Joined(g, r)
           old == Joined(g, q)
<1>1. r \in Seq(QueuedItem) /\ Len(r) = Len(q) + 1 /\ r[Len(q) + 1] = e
      /\ \A j \in 1..Len(q) : r[j] = q[j]
  BY AppendProperties
<1> HIDE DEF r
<1>2. /\ Len(g) \in Nat /\ Len(q) \in Nat
      /\ \A i \in 1..Len(g) : old[i] = g[i]
      /\ \A i \in 1..Len(q) : old[Len(g) + i] = Entry(q[i])
  BY JoinedIs
<1>3. /\ new \in Seq(Entries) /\ DOMAIN new = 1..Len(g) + Len(r)
      /\ \A i \in 1..Len(g) : new[i] = g[i]
      /\ \A i \in 1..Len(r) : new[Len(g) + i] = Entry(r[i])
  BY <1>1, JoinedIs
<1> HIDE DEF new, old
<1>4. ASSUME NEW i \in 1..Len(g) + Len(q) PROVE new[i] = old[i]
  <2>1. CASE i <= Len(g)
    BY <1>2, <1>3, <2>1
  <2>2. CASE ~(i <= Len(g))
    <3> DEFINE j == i - Len(g)
    <3>1. j \in 1..Len(q) /\ j \in 1..Len(r) /\ Len(g) + j = i
      BY <1>1, <1>2, <2>2
    <3> HIDE DEF j
    <3>2. new[Len(g) + j] = Entry(r[j]) /\ old[Len(g) + j] = Entry(q[j]) /\ r[j] = q[j]
      BY <1>1, <1>2, <1>3, <3>1
    <3> QED
      BY <3>1, <3>2
  <2> QED
    BY <2>1, <2>2
<1>5. new[Len(g) + Len(q) + 1] = Entry(e)
  <2>1. Len(q) + 1 \in 1..Len(r) /\ Len(g) + (Len(q) + 1) = Len(g) + Len(q) + 1
    BY <1>1, <1>2
  <2>2. new[Len(g) + (Len(q) + 1)] = Entry(r[Len(q) + 1])
    BY <1>3, <2>1
  <2> QED
    BY <1>1, <2>1, <2>2
<1>6. Len(g) + Len(r) = Len(g) + Len(q) + 1
  BY <1>1, <1>2
<1> QED
  BY <1>3, <1>4, <1>5, <1>6 DEF new, old, r

-----------------------------------------------------------------------------
\* What the senders do while the stream stays what it is.
LEMMA SameStream ==
    ASSUME Stream' = Stream
    PROVE  (InOrder(Stream) => InOrder(Stream)') /\ \A p : Items(p)' = Items(p)
  BY DEF InOrder, Items

\* A sender stops, in a send or elsewhere; nothing comes of that send.
LEMMA StopStep ==
    ASSUME FifoInv, QueueTypeOK, Stream' = Stream, NEW p \in Sender,
           stopped' = stopped \union {p}, begun' = begun, rxOpen' = rxOpen, OneSend',
           \A r : r # p => (InSend(r)' <=> InSend(r)), InSend(p)' => InSend(p),
           ~InSend(p)',
           \A j \in DOMAIN slotWait' : \E k \in DOMAIN slotWait : slotWait'[j] = slotWait[k],
           \A j \in DOMAIN budgetWait' : \E k \in DOMAIN budgetWait : budgetWait'[j] = budgetWait[k]
    PROVE  FifoInv'
<1>1. WaitWithLast'
  BY DEF FifoInv, WaitWithLast, Current, InSend
<1>2. InOrder(Stream)'
  BY SameStream DEF FifoInv
<1>3. ASSUME NEW r \in Sender PROVE ItemsOf(r)'
  <2>1. ItemsOf(r) /\ Items(r)' = Items(r)
    BY SameStream DEF FifoInv
  <2>2. CASE r = p
    BY <2>1, <2>2 DEF ItemsOf
  <2>3. CASE r # p
    BY <2>1, <2>3 DEF ItemsOf
  <2> QED
    BY <2>2, <2>3
<1> QED
  BY <1>1, <1>2, <1>3 DEF FifoInv

\* A sender begins to send its next item.
LEMMA SendStep ==
    ASSUME TypeOK, FifoInv, NEW p \in Sender, Send(p)
    PROVE  FifoInv'
<1> DEFINE x == begun[p] + 1
<1>1. /\ x \in Item /\ ~InSend(p) /\ p \notin stopped /\ begun[p] \in Nat
      /\ begun' = [begun EXCEPT ![p] = x] /\ begun'[p] = x
      /\ UNCHANGED <<stopped, got, queue, rxOpen>>
  <2>1. /\ ~InSend(p) /\ p \notin stopped /\ begun[p] < MaxItems
        /\ begun' = [begun EXCEPT ![p] = x] /\ UNCHANGED <<stopped, got>>
    BY DEF Send, Ready
  <2>2. UNCHANGED <<queue, rxOpen>>
    BY DEF Send, SendMetered, SendUnbounded
  <2>3. begun[p] \in 0..MaxItems /\ begun \in [Sender -> 0..MaxItems]
    BY DEF TypeOK
  <2>4. x \in Item /\ begun[p] \in Nat /\ begun'[p] = x
    BY <2>1, <2>3, ItemsAssumption
  <2> QED
    BY <2>1, <2>2, <2>4
<1>2. SendUnbounded(p, x) \/ \E n \in 1..Cardinality(Permit) : SendMetered(p, x, n)
  <2>1. 1..MaxBytes \subseteq 1..Cardinality(Permit)
    BY ChunkAssumption, BudgetAssumption, FS_CardinalityType
  <2> QED
    BY <2>1 DEF Send
<1>3. /\ OneSend'
      /\ \A j \in DOMAIN budgetWait' :
           \/ \E k \in DOMAIN budgetWait : budgetWait'[j] = budgetWait[k]
           \/ budgetWait'[j].from = p /\ budgetWait'[j].item = x
      /\ \A j \in DOMAIN slotWait' :
           \/ \E k \in DOMAIN slotWait : slotWait'[j] = slotWait[k]
           \/ slotWait'[j].from = p /\ slotWait'[j].item = x
  <2>1. QueueTypeOK /\ OneSend
    BY DEF TypeOK, FifoInv
  <2> HIDE DEF x
  <2> QED
    BY <1>1, <1>2, <2>1, JoinsWaiters
<1>4. InSend(p)' /\ \A r : r # p => (InSend(r)' <=> InSend(r))
  <2>1. slotWait \in Seq(QueuedItem) /\ budgetWait \in Seq(Request)
    BY DEF TypeOK, QueueTypeOK
  <2>2. CASE SendUnbounded(p, x)
    <3> DEFINE e == [from |-> p, item |-> x, permit |-> {}]
    <3>1. e \in QueuedItem /\ e.from = p
      BY <1>1 DEF QueuedItem
    <3>2. slotWait' = Append(slotWait, e) /\ budgetWait' = budgetWait
      BY <2>2 DEF SendUnbounded
    <3> HIDE DEF e, x
    <3>3. /\ DOMAIN slotWait' = DOMAIN slotWait \union {Len(slotWait) + 1}
          /\ \A j \in DOMAIN slotWait : slotWait'[j] = slotWait[j]
          /\ slotWait'[Len(slotWait) + 1] = e
      BY <2>1, <3>1, <3>2, AppendDomain
    <3> QED
      BY <3>1, <3>2, <3>3 DEF InSend
  <2>3. ASSUME NEW n \in 1..Cardinality(Permit), SendMetered(p, x, n)
        PROVE  InSend(p)' /\ \A r : r # p => (InSend(r)' <=> InSend(r))
    <3> DEFINE e == [from |-> p, item |-> x, bytes |-> n]
    <3>1. e \in Request /\ e.from = p
      BY <1>1 DEF Request
    <3>2. budgetWait' = Append(budgetWait, e) /\ slotWait' = slotWait
      BY <2>3 DEF SendMetered
    <3> HIDE DEF e, x
    <3>3. /\ DOMAIN budgetWait' = DOMAIN budgetWait \union {Len(budgetWait) + 1}
          /\ \A j \in DOMAIN budgetWait : budgetWait'[j] = budgetWait[j]
          /\ budgetWait'[Len(budgetWait) + 1] = e
      BY <2>1, <3>1, <3>2, AppendDomain
    <3> QED
      BY <3>1, <3>2, <3>3 DEF InSend
  <2> HIDE DEF x
  <2> QED
    BY <1>2, <2>2, <2>3
<1>5. WaitWithLast'
  <2>1. \A j \in DOMAIN budgetWait : Current(budgetWait[j]) /\ budgetWait[j].from # p
    BY <1>1 DEF FifoInv, WaitWithLast, InSend
  <2>2. \A j \in DOMAIN slotWait : Current(slotWait[j]) /\ slotWait[j].from # p
    BY <1>1 DEF FifoInv, WaitWithLast, InSend
  <2>3. \A w : Current(w) /\ w.from # p => Current(w)'
    BY <1>1 DEF Current, TypeOK
  <2>4. \A w : w.from = p /\ w.item = x => Current(w)'
    BY <1>1 DEF Current
  <2> HIDE DEF x
  <2> QED
    BY <1>3, <2>1, <2>2, <2>3, <2>4 DEF WaitWithLast, Current
<1>6. Stream' = Stream
  BY <1>1 DEF Stream
<1>7. ASSUME NEW r \in Sender PROVE ItemsOf(r)'
  <2>1. ItemsOf(r) /\ Items(r)' = Items(r)
    BY <1>6, SameStream DEF FifoInv
  <2>2. CASE r = p
    <3>1. Items(p) \subseteq 1..begun[p] /\ x \notin 1..begun[p] /\ 1..begun[p] \subseteq 1..x
      BY <1>1, <2>1, <2>2 DEF ItemsOf
    <3>2. rxOpen => \A n \in 1..begun[p] : n \in Items(p)
      BY <1>1, <2>1, <2>2 DEF ItemsOf
    <3>3. \A n \in 1..x : n \in 1..begun[p] \/ n = x
      BY <1>1
    <3>4. \A n \in Items(p) : 1..n \subseteq Items(p)
      BY <2>1, <2>2 DEF ItemsOf
    <3> HIDE DEF x
    <3> QED
      BY <1>1, <1>4, <2>1, <2>2, <3>1, <3>2, <3>3, <3>4 DEF ItemsOf
  <2>3. CASE r # p
    <3>1. begun'[r] = begun[r] /\ rxOpen' = rxOpen /\ stopped' = stopped /\ (InSend(r)' <=> InSend(r))
      BY <1>1, <1>4, <2>3 DEF TypeOK
    <3> QED
      BY <2>1, <3>1 DEF ItemsOf
  <2> QED
    BY <2>2, <2>3
<1> QED
  BY <1>3, <1>5, <1>6, <1>7, SameStream DEF FifoInv

\* A send is granted its bytes.
LEMMA GrantStep ==
    ASSUME TypeOK, FifoInv, Grant
    PROVE  FifoInv'
<1>1. PICK S \in SUBSET free : GrantBudget(S) /\ UNCHANGED <<begun, stopped, got>>
  BY DEF Grant
<1>2. QueueTypeOK /\ OneSend
  BY DEF TypeOK, FifoInv
<1>3. /\ OneSend'
      /\ \A j \in DOMAIN budgetWait' :
           \E k \in DOMAIN budgetWait : budgetWait'[j] = budgetWait[k]
      /\ \A j \in DOMAIN slotWait' :
           \/ \E k \in DOMAIN slotWait : slotWait'[j] = slotWait[k]
           \/ \E k \in DOMAIN budgetWait :
                /\ slotWait'[j].from = budgetWait[k].from
                /\ slotWait'[j].item = budgetWait[k].item
  BY <1>1, <1>2, MovesToSlotWait
<1>4. \A r : InSend(r)' <=> InSend(r)
  BY <1>1, <1>2, GrantKeepsSends
<1>5. queue' = queue /\ rxOpen' = rxOpen
  BY <1>1 DEF GrantBudget
<1>6. Stream' = Stream
  BY <1>1, <1>5 DEF Stream
<1>7. WaitWithLast'
  BY <1>1, <1>3 DEF FifoInv, WaitWithLast, Current
<1>8. ASSUME NEW r \in Sender PROVE ItemsOf(r)'
  <2>1. ItemsOf(r) /\ Items(r)' = Items(r)
    BY <1>6, SameStream DEF FifoInv
  <2> QED
    BY <1>1, <1>4, <1>5, <2>1 DEF ItemsOf
<1> QED
  BY <1>3, <1>6, <1>7, <1>8, SameStream DEF FifoInv

\* A send returns Ok: its item is the last of the stream.
LEMMA PushStep ==
    ASSUME TypeOK, FifoInv, NEW i \in DOMAIN slotWait, Push(i),
           UNCHANGED <<begun, stopped, got>>
    PROVE  FifoInv'
<1>0. PICK w \in QueuedItem : w = slotWait[i]
  BY Lengths DEF TypeOK
<1>a. PICK p \in Sender : p = w.from
  BY DEF QueuedItem
<1>b. PICK x \in Item : x = w.item
  BY DEF QueuedItem
<1> DEFINE n == Len(got) + Len(queue)
<1>1. /\ QueueTypeOK /\ OneSend /\ slotWait \in Seq(QueuedItem)
      /\ begun \in [Sender -> 0..MaxItems]
  BY DEF TypeOK, QueueTypeOK, FifoInv
<1>2. /\ p \in Sender /\ x = begun[p] /\ p \notin stopped /\ InSend(p) /\ x \in 1..MaxItems
  BY <1>0, <1>1, <1>a, <1>b, ItemsAssumption DEF FifoInv, WaitWithLast, Current, InSend
<1>3. /\ rxOpen /\ rxOpen' = rxOpen /\ queue' = Append(queue, w)
      /\ slotWait' = RemoveAt(slotWait, i) /\ budgetWait' = budgetWait
  BY <1>0 DEF Push
<1>4. /\ OneSend' /\ ~InSend(p)'
      /\ \A r : r # p => (InSend(r)' <=> InSend(r))
      /\ \A j \in DOMAIN slotWait' : \E k \in DOMAIN slotWait : slotWait'[j] = slotWait[k]
  <2>1. \E k \in DOMAIN slotWait :
          /\ slotWait[k].from = p
          /\ slotWait' = RemoveAt(slotWait, k) /\ budgetWait' = budgetWait
    BY <1>0, <1>3, <1>a
  <2> QED
    BY <1>1, <2>1, OneSendLeaves
<1>5. WaitWithLast'
  BY <1>3, <1>4 DEF FifoInv, WaitWithLast, Current
<1>6. /\ n \in Nat /\ DOMAIN Stream = 1..n /\ DOMAIN Stream' = 1..n + 1
      /\ \A j \in 1..n : Stream'[j] = Stream[j]
      /\ Stream'[n + 1] = Entry(w)
  <2>1. got \in Seq(Entries) /\ queue \in Seq(QueuedItem) /\ Stream = Joined(got, queue)
    BY StreamIs
  <2>2. Stream' = Joined(got, Append(queue, w))
    BY <1>3 DEF Stream, Joined
  <2>3. n \in Nat /\ DOMAIN Joined(got, queue) = 1..n
    BY <2>1, JoinedIs
  <2>4. /\ DOMAIN Joined(got, Append(queue, w)) = 1..n + 1
        /\ \A j \in 1..n : Joined(got, Append(queue, w))[j] = Joined(got, queue)[j]
        /\ Joined(got, Append(queue, w))[n + 1] = Entry(w)
    BY <1>1, <2>1, JoinedPushes
  <2> QED
    BY <2>1, <2>2, <2>3, <2>4
<1>7. Entry(w).from = p /\ Entry(w).item = x
  BY <1>a, <1>b DEF Entry
<1> HIDE DEF n
<1>8. \A r : Items(r) = {Stream[j].item : j \in {k \in 1..n : Stream[k].from = r}}
  BY <1>6 DEF Items
<1>9. Items(p)' = Items(p) \union {x}
  <2>1. Items(p)' = {Stream'[j].item : j \in {k \in 1..n + 1 : Stream'[k].from = p}}
    BY <1>6 DEF Items
  <2>2. \A j \in 1..n + 1 : j \in 1..n \/ j = n + 1
    BY <1>6
  <2>3. n + 1 \in 1..n + 1 /\ \A j \in 1..n : j \in 1..n + 1
    BY <1>6
  <2>4. ASSUME NEW y \in Items(p)' PROVE y \in Items(p) \union {x}
    <3>1. PICK j \in 1..n + 1 : Stream'[j].from = p /\ y = Stream'[j].item
      BY <2>1, <2>4
    <3> QED
      BY <1>6, <1>7, <1>8, <2>2, <3>1
  <2>5. x \in Items(p)'
    BY <1>6, <1>7, <2>1, <2>3
  <2>6. ASSUME NEW y \in Items(p) PROVE y \in Items(p)'
    <3>1. PICK j \in 1..n : Stream[j].from = p /\ y = Stream[j].item
      BY <1>8, <2>6
    <3> QED
      BY <1>6, <2>1, <2>3, <3>1
  <2> QED
    BY <2>4, <2>5, <2>6
<1>10. \A r : r # p => Items(r)' = Items(r)
  BY <1>6, <1>7, <1>8 DEF Items
<1>11. Items(p) \subseteq 1..x /\ x \notin Items(p) /\ \A m \in 1..x : m \in Items(p) \/ m = x
  BY <1>2, <1>3 DEF FifoInv, ItemsOf
<1>12. InOrder(Stream)'
  <2> SUFFICES ASSUME NEW j \in 1..n + 1, NEW k \in 1..n + 1, j < k, Stream'[j].from = Stream'[k].from
               PROVE  Stream'[j].item < Stream'[k].item
    BY <1>6 DEF InOrder
  <2>1. CASE k \in 1..n
    <3>1. j \in 1..n
      BY <1>6, <2>1
    <3> QED
      BY <1>6, <2>1, <3>1 DEF FifoInv, InOrder
  <2>2. CASE k = n + 1
    <3>1. j \in 1..n
      BY <1>6, <2>2
    <3>2. Stream[j].from = p
      BY <1>6, <1>7, <2>2, <3>1
    <3>3. Stream[j].item \in Items(p)
      BY <1>8, <3>1, <3>2
    <3>4. Stream[j].item \in 1..x /\ Stream[j].item # x
      BY <1>11, <3>3
    <3> QED
      BY <1>2, <1>6, <1>7, <2>2, <3>1, <3>4
  <2> QED
    BY <1>6, <2>1, <2>2
<1>13. ASSUME NEW r \in Sender PROVE ItemsOf(r)'
  <2>1. ItemsOf(r)
    BY DEF FifoInv
  <2>2. CASE r = p
    <3>1. Items(p)' \subseteq 1..x /\ \A m \in 1..x : m \in Items(p)'
      BY <1>2, <1>9, <1>11
    <3>2. \A m \in Items(p)' : 1..m \subseteq Items(p)'
      <4> SUFFICES ASSUME NEW m \in Items(p)', NEW l \in 1..m PROVE l \in Items(p)'
        OBVIOUS
      <4>1. m \in 1..x
        BY <3>1
      <4>2. l \in 1..x
        BY <1>2, <4>1
      <4> QED
        BY <3>1, <4>2
    <3>3. begun'[p] = x /\ ~InSend(p)'
      BY <1>2, <1>4
    <3>4. ItemsOf(p)'
      BY <3>1, <3>2, <3>3 DEF ItemsOf
    <3> QED
      BY <2>2, <3>4
  <2>3. CASE r # p
    <3>1. Items(r)' = Items(r) /\ (InSend(r)' <=> InSend(r))
      BY <1>4, <1>10, <2>3
    <3> QED
      BY <1>3, <2>1, <3>1 DEF ItemsOf
  <2> QED
    BY <2>2, <2>3
<1> QED
  BY <1>4, <1>5, <1>12, <1>13 DEF FifoInv

\* The receiver goes, with what is queued: what it took is a beginning of the
\* stream, and no send returns Ok any more.
LEMMA DropStep ==
    ASSUME TypeOK, FifoInv, Drop
    PROVE  FifoInv'
<1>1. /\ rxOpen' = FALSE /\ queue' = <<>>
      /\ UNCHANGED <<budgetWait, slotWait, begun, stopped, got>>
  BY DEF Drop, CloseRx
<1> DEFINE n == Len(got)
<1>2. /\ n \in Nat /\ DOMAIN Stream' = 1..n /\ 1..n \subseteq DOMAIN Stream
      /\ \A j \in 1..n : Stream'[j] = Stream[j]
  <2>1. got \in Seq(Entries) /\ queue \in Seq(QueuedItem) /\ Stream = Joined(got, queue)
    BY StreamIs
  <2>2. Stream' = Joined(got, <<>>) /\ <<>> \in Seq(QueuedItem) /\ Len(<<>>) = 0
    BY <1>1, EmptySeq DEF Stream, Joined
  <2>3. /\ n \in Nat /\ Len(queue) \in Nat /\ DOMAIN Stream = 1..n + Len(queue)
        /\ \A j \in 1..n : Stream[j] = got[j]
    BY <2>1, JoinedIs
  <2>4. DOMAIN Stream' = 1..n + 0 /\ \A j \in 1..n : Stream'[j] = got[j]
    BY <2>1, <2>2, JoinedIs
  <2> QED
    BY <2>3, <2>4
<1> HIDE DEF n
<1>3. DOMAIN Stream' \subseteq DOMAIN Stream /\ \A j \in DOMAIN Stream' : j \in Int
  BY <1>2
<1>4. InOrder(Stream)'
  BY <1>2, <1>3 DEF FifoInv, InOrder
<1>5. WaitWithLast'
  BY <1>1 DEF FifoInv, WaitWithLast, Current
<1>6. OneSend' /\ \A r : InSend(r)' <=> InSend(r)
  BY <1>1 DEF FifoInv, OneSend, InSend
<1>7. ASSUME NEW r \in Sender PROVE ItemsOf(r)'
  <2>1. ItemsOf(r) /\ InOrder(Stream)
    BY DEF FifoInv
  <2>2. Items(r)' \subseteq Items(r)
    BY <1>2, <1>3 DEF Items
  <2>3. ASSUME NEW m \in Items(r)', NEW l \in 1..m PROVE l \in Items(r)'
    <3>1. PICK j \in DOMAIN Stream' : Stream'[j].from = r /\ Stream'[j].item = m
      BY <2>3 DEF Items
    <3>2. Stream[j].from = r /\ Stream[j].item = m /\ j \in DOMAIN Stream /\ j \in 1..n
      BY <1>2, <1>3, <3>1
    <3>3. l \in Items(r)
      BY <2>1, <2>2, <2>3 DEF ItemsOf
    <3>4. PICK k \in DOMAIN Stream : Stream[k].from = r /\ Stream[k].item = l
      BY <3>3 DEF Items
    <3>5. m \in Nat /\ l \in Nat /\ l <= m /\ k \in Nat
      <4>1. begun[r] \in Nat /\ m \in 1..begun[r]
        BY <2>1, <2>2, <2>3 DEF TypeOK, ItemsOf
      <4>2. DOMAIN Stream \subseteq Nat
        BY StreamIs, JoinedIs
      <4> QED
        BY <2>3, <4>1, <4>2
    <3>6. ~(j < k)
      <4>1. j < k => m < l
        BY <2>1, <3>2, <3>4 DEF InOrder
      <4> QED
        BY <3>5, <4>1
    <3>7. k \in 1..n
      <4>1. k >= 1
        BY StreamIs, JoinedIs
      <4> QED
        BY <1>2, <3>2, <3>5, <3>6, <4>1
    <3> QED
      BY <1>2, <3>4, <3>7 DEF Items
  <2> QED
    BY <1>1, <1>6, <2>1, <2>2, <2>3 DEF ItemsOf
<1> QED
  BY <1>4, <1>5, <1>6, <1>7 DEF FifoInv

(* Each sender's items come out once and in order, and all that were sent  *)
(* with success are on the stream (stream_queue.rs:34-55).                 *)
THEOREM Fifo == Spec => []PerSenderFifo
<1>1. Init => FifoInv
  <2> SUFFICES ASSUME Init PROVE FifoInv
    OBVIOUS
  <2>1. /\ budgetWait = <<>> /\ slotWait = <<>> /\ queue = <<>> /\ got = <<>>
        /\ begun = [p \in Sender |-> 0]
    BY DEF Init, QueueInit
  <2>2. DOMAIN Stream = {}
    <3>1. <<>> \in Seq(Entries) /\ <<>> \in Seq(QueuedItem) /\ Len(<<>>) = 0
      BY EmptySeq
    <3>2. Stream = Joined(<<>>, <<>>)
      BY <2>1 DEF Stream, Joined
    <3> DEFINE e == <<>>
    <3>3. e \in Seq(Entries) /\ e \in Seq(QueuedItem) /\ Len(e) = 0
      BY <3>1
    <3> HIDE DEF e
    <3>4. DOMAIN Joined(e, e) = 1..0 + 0
      BY <3>3, JoinedIs
    <3> QED
      BY <3>2, <3>4 DEF e
  <2>3. InOrder(Stream) /\ \A p : Items(p) = {}
    BY <2>2 DEF InOrder, Items
  <2>4. OneSend /\ WaitWithLast /\ \A p : ~InSend(p)
    BY <2>1 DEF OneSend, WaitWithLast, InSend
  <2> QED
    BY <2>1, <2>3, <2>4 DEF FifoInv, ItemsOf
<1>2. TypeOK /\ TypeOK' /\ FifoInv /\ [Next]_vars => FifoInv'
  <2> SUFFICES ASSUME TypeOK, TypeOK', FifoInv, [Next]_vars PROVE FifoInv'
    OBVIOUS
  <2>0. QueueTypeOK /\ OneSend
    BY DEF TypeOK, FifoInv
  <2>1. ASSUME NEW p \in Sender, Send(p) PROVE FifoInv'
    BY <2>1, SendStep
  <2>2. ASSUME UNCHANGED <<queueVars, begun, got>>, stopped \subseteq stopped',
               \A r : InSend(r) => (r \in stopped' => r \in stopped)
        PROVE  FifoInv'
    <3>1. /\ UNCHANGED <<budgetWait, slotWait, queue, rxOpen>> /\ Stream' = Stream
          /\ OneSend' /\ \A r : InSend(r)' <=> InSend(r)
      BY <2>0, <2>2 DEF queueVars, Stream, OneSend, InSend
    <3>2. WaitWithLast'
      BY <2>2, <3>1 DEF FifoInv, WaitWithLast, Current, InSend
    <3>3. ASSUME NEW r \in Sender PROVE ItemsOf(r)'
      <4>1. ItemsOf(r) /\ Items(r)' = Items(r)
        BY <3>1, SameStream DEF FifoInv
      <4> QED
        BY <2>2, <3>1, <4>1 DEF ItemsOf
    <3> QED
      BY <3>1, <3>2, <3>3, SameStream DEF FifoInv
  <2>3. ASSUME NEW p \in Sender, Finish(p) PROVE FifoInv'
    BY <2>2, <2>3 DEF Finish, Ready
  <2>4. ASSUME NEW p \in Sender, NEW i \in DOMAIN slotWait, slotWait[i].from = p, DropSend(i),
               stopped' = stopped \union {p}, UNCHANGED <<begun, got>>
        PROVE  FifoInv'
    <3>1. /\ slotWait' = RemoveAt(slotWait, i)
          /\ UNCHANGED <<budgetWait, queue, rxOpen>> /\ Stream' = Stream
      BY <2>4 DEF DropSend, Stream
    <3> QED
      BY <2>0, <2>4, <3>1, OneSendLeaves, StopStep
  <2>5. ASSUME NEW p \in Sender, SendReturns(p) PROVE FifoInv'
    BY <2>4, <2>5, PushStep DEF SendReturns, FailSend
  <2>6. ASSUME NEW p \in Sender, Abort(p) PROVE FifoInv'
    <3>1. stopped' = stopped \union {p} /\ UNCHANGED <<begun, got>> /\ AbortSend(p)
      BY <2>6 DEF Abort
    <3>2. CASE ~InSend(p) /\ UNCHANGED queueVars
      BY <2>2, <3>1, <3>2
    <3>3. ASSUME NEW i \in DOMAIN budgetWait, budgetWait[i].from = p,
                 budgetWait' = RemoveAt(budgetWait, i), UNCHANGED <<slotWait, queue, free, rxOpen>>
          PROVE  FifoInv'
      <4>1. Stream' = Stream
        BY <3>1, <3>3 DEF Stream
      <4> QED
        BY <2>0, <3>1, <3>3, <4>1, OneSendLeaves, StopStep
    <3> QED
      BY <2>4, <3>1, <3>2, <3>3 DEF AbortSend
  <2>7. ASSUME Grant PROVE FifoInv'
    BY <2>7, GrantStep
  <2>8. ASSUME Take PROVE FifoInv'
    <3>1. queue # <<>> /\ queue' = Tail(queue) /\ got' = Append(got, Entry(Head(queue)))
          /\ UNCHANGED <<budgetWait, slotWait, rxOpen, begun, stopped>>
      BY <2>8 DEF Take, Pop, Entry
    <3>2. Stream' = Joined(Append(got, Entry(Head(queue))), Tail(queue))
      BY <3>1 DEF Stream, Joined
    <3>3. Stream' = Stream
      BY <3>1, <3>2, StreamIs, JoinedTakes
    <3>4. OneSend' /\ WaitWithLast' /\ \A r : InSend(r)' <=> InSend(r)
      BY <3>1 DEF FifoInv, OneSend, WaitWithLast, Current, InSend
    <3>5. ASSUME NEW r \in Sender PROVE ItemsOf(r)'
      <4>1. ItemsOf(r) /\ Items(r)' = Items(r)
        BY <3>3, SameStream DEF FifoInv
      <4> QED
        BY <3>1, <3>4, <4>1 DEF ItemsOf
    <3> QED
      BY <3>3, <3>4, <3>5, SameStream DEF FifoInv
  <2>9. ASSUME Drop PROVE FifoInv'
    BY <2>9, DropStep
  <2>10. CASE UNCHANGED vars
    BY <2>2, <2>10 DEF vars
  <2> QED
    BY <2>1, <2>3, <2>5, <2>6, <2>7, <2>8, <2>9, <2>10 DEF Next, Terminated
<1>3. TypeOK /\ FifoInv => PerSenderFifo
  <2> SUFFICES ASSUME TypeOK, FifoInv PROVE PerSenderFifo
    OBVIOUS
  <2>1. ASSUME NEW p \in Sender, rxOpen, Ready(p) PROVE Items(p) = 1..begun[p]
    BY <2>1 DEF FifoInv, ItemsOf, Ready
  <2> QED
    BY <2>1 DEF FifoInv, ItemsOf, PerSenderFifo
<1> QED
  BY <1>1, <1>2, <1>3, Typing, PTL DEF Spec
=============================================================================
