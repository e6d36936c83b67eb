----------------------------- MODULE StreamQueue -----------------------------
(***************************************************************************)
(* The metered packet queue of src/src/stream_queue.rs: a bounded tokio    *)
(* mpsc channel whose items carry permits of a byte-budget semaphore.  The *)
(* server puts the output of a command on one (server.rs), the client its  *)
(* standard input on another (client.rs).                                  *)
(*                                                                         *)
(* One permit stands for one unit of bytes.  Permits have identities, so   *)
(* that who owns which of them is a matter of sets: a permit is free, or   *)
(* owned by a send that waits for a slot, or travels with a queued item.   *)
(*                                                                         *)
(* A send waits first for its permits (budgetWait), then for a slot of the *)
(* channel (slotWait).  Both tokio semaphores serve their waiters in       *)
(* order; slots that are granted to several waiters may be filled in any   *)
(* order, because each sender runs on a task of its own.                   *)
(*                                                                         *)
(* The operators are actions on the queue's own variables.  A composed     *)
(* module conjoins them with what the calling task does.                   *)
(***************************************************************************)
EXTENDS Naturals, FiniteSets, SequencesExt

CONSTANTS
    Sender,    \* the tasks that hold a clone of the mpsc sender
    Item,      \* what they put on the queue
    Permit,    \* the permits of the byte budget
    Capacity   \* the slots of the channel

ASSUME BudgetAssumption == IsFiniteSet(Permit)
ASSUME CapacityAssumption == Capacity \in Nat \ {0}

VARIABLES
    budgetWait,  \* sends that wait in acquire_many_owned, first come first
    slotWait,    \* sends that own their permits and wait in tx.send
    queue,       \* the channel
    free,        \* permits left in the semaphore
    rxOpen       \* the receiver has not been dropped

queueVars == <<budgetWait, slotWait, queue, free, rxOpen>>

Request == [from : Sender, item : Item, bytes : 1..Cardinality(Permit)]
QueuedItem == [from : Sender, item : Item, permit : SUBSET Permit]

QueueTypeOK ==
    /\ budgetWait \in Seq(Request)
    /\ slotWait \in Seq(QueuedItem)
    /\ queue \in Seq(QueuedItem)
    /\ free \in SUBSET Permit
    /\ rxOpen \in BOOLEAN

QueueInit ==
    /\ budgetWait = <<>>
    /\ slotWait = <<>>
    /\ queue = <<>>
    /\ free = Permit
    /\ rxOpen = TRUE

\* p is suspended inside one of the send functions.
InSend(p) ==
    \/ \E i \in DOMAIN budgetWait : budgetWait[i].from = p
    \/ \E i \in DOMAIN slotWait : slotWait[i].from = p

\* send_metered is called: join the waiters of the byte budget.
SendMetered(p, item, n) ==
    /\ budgetWait' = Append(budgetWait, [from |-> p, item |-> item, bytes |-> n])
    /\ UNCHANGED <<slotWait, queue, free, rxOpen>>

\* acquire_many_owned returns to its first waiter, who goes on to tx.send.
GrantBudget(S) ==
    /\ budgetWait # <<>>
    /\ S \subseteq free
    /\ Cardinality(S) = Head(budgetWait).bytes
    /\ free' = free \ S
    /\ slotWait' = Append(slotWait, [from |-> Head(budgetWait).from,
                                     item |-> Head(budgetWait).item,
                                     permit |-> S])
    /\ budgetWait' = Tail(budgetWait)
    /\ UNCHANGED <<queue, rxOpen>>

\* send_unbounded is called: no permit, only a slot.
SendUnbounded(p, item) ==
    /\ slotWait' = Append(slotWait, [from |-> p, item |-> item, permit |-> {}])
    /\ UNCHANGED <<budgetWait, queue, free, rxOpen>>

\* Mutant: try_send instead of send, its result ignored.
PushOrLose(i) ==
    /\ rxOpen
    /\ IF Len(queue) < Capacity
       THEN queue' = Append(queue, slotWait[i]) /\ UNCHANGED free
       ELSE UNCHANGED queue /\ free' = free \union slotWait[i].permit
    /\ slotWait' = RemoveAt(slotWait, i)
    /\ UNCHANGED <<budgetWait, rxOpen>>

\* The i-th waiter has been granted a slot and its send returns Ok.
Push(i) ==
    /\ rxOpen
    /\ i <= Capacity - Len(queue)
    /\ queue' = Append(queue, slotWait[i])
    /\ slotWait' = RemoveAt(slotWait, i)
    /\ UNCHANGED <<budgetWait, free, rxOpen>>

\* Mutant: the permits are forgotten (OwnedSemaphorePermit::forget).
DropSendForgets(i) ==
    /\ slotWait' = RemoveAt(slotWait, i)
    /\ UNCHANGED <<budgetWait, queue, free, rxOpen>>

\* The i-th waiter leaves; the item it was given is dropped with its permits.
DropSend(i) ==
    /\ free' = free \union slotWait[i].permit
    /\ slotWait' = RemoveAt(slotWait, i)
    /\ UNCHANGED <<budgetWait, queue, rxOpen>>

\* The receiver is gone: tx.send returns Err.
FailSend(i) == ~rxOpen /\ DropSend(i)

\* The transport takes an item; into_stream unwraps it and drops its permit.
Pop ==
    /\ rxOpen
    /\ queue # <<>>
    /\ free' = free \union Head(queue).permit
    /\ queue' = Tail(queue)
    /\ UNCHANGED <<budgetWait, slotWait, rxOpen>>

PermitsIn(q) == UNION {q[i].permit : i \in DOMAIN q}

Disjoint(q) ==
    \A i, j \in DOMAIN q : i # j => q[i].permit \intersect q[j].permit = {}

\* The transport drops the stream, and with it the receiver and what it holds.
CloseRx ==
    /\ rxOpen
    /\ rxOpen' = FALSE
    /\ queue' = <<>>
    /\ free' = free \union PermitsIn(queue)
    /\ UNCHANGED <<budgetWait, slotWait>>

\* The task of p is aborted, be it suspended in a send or elsewhere.
AbortSend(p) ==
    \/ ~InSend(p) /\ UNCHANGED queueVars
    \/ \E i \in DOMAIN budgetWait :
        /\ budgetWait[i].from = p
        /\ budgetWait' = RemoveAt(budgetWait, i)
        /\ UNCHANGED <<slotWait, queue, free, rxOpen>>
    \/ \E i \in DOMAIN slotWait : slotWait[i].from = p /\ DropSend(i)

\* A task is in one send at a time.
OneSend ==
    /\ \A i, j \in DOMAIN budgetWait : budgetWait[i].from = budgetWait[j].from => i = j
    /\ \A i, j \in DOMAIN slotWait : slotWait[i].from = slotWait[j].from => i = j
    /\ \A i \in DOMAIN budgetWait, j \in DOMAIN slotWait :
            budgetWait[i].from # slotWait[j].from
=============================================================================
