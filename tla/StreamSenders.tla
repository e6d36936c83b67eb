---------------------------- MODULE StreamSenders ----------------------------
(***************************************************************************)
(* The packet queue of StreamQueue under the use its callers make of it:   *)
(* each sender is a task that sends its items one after the other, metered *)
(* or not, gives up at the first error (the `?` of send_text_events and of *)
(* the client's writers) and may be aborted; the receiver takes items one  *)
(* by one, stalls as long as it likes, and may be dropped at any moment.   *)
(***************************************************************************)
EXTENDS StreamQueue

CONSTANTS
    MaxItems,  \* bound: items a sender has to send
    MaxBytes   \* bound: bytes of an item

ASSUME ItemsAssumption == MaxItems \in Nat /\ Item = 1..MaxItems
\* server.rs:1020 and client.rs:217 cut every payload into chunks of at most
\* DEFAULT_CHUNK_BYTES, which is below DEFAULT_MAX_UNCONFIRMED_BYTES.
ASSUME ChunkAssumption == MaxBytes \in 1..Cardinality(Permit)

VARIABLES
    begun,    \* begun[p]: the items p has called a send function for
    stopped,  \* the senders that finished, failed or were aborted
    got       \* history: what the receiver has taken, in order

vars == <<queueVars, begun, stopped, got>>

TypeOK ==
    /\ QueueTypeOK
    /\ begun \in [Sender -> 0..MaxItems]
    /\ stopped \in SUBSET Sender
    /\ got \in Seq([from : Sender, item : Item])

Init ==
    /\ QueueInit
    /\ begun = [p \in Sender |-> 0]
    /\ stopped = {}
    /\ got = <<>>

Ready(p) == p \notin stopped /\ ~InSend(p)

Send(p) ==
    /\ Ready(p)
    /\ begun[p] < MaxItems
    /\ begun' = [begun EXCEPT ![p] = @ + 1]
    /\ \/ \E n \in 1..MaxBytes : SendMetered(p, begun[p] + 1, n)
       \/ SendUnbounded(p, begun[p] + 1)
    /\ UNCHANGED <<stopped, got>>

Finish(p) ==
    /\ Ready(p)
    /\ begun[p] = MaxItems
    /\ stopped' = stopped \union {p}
    /\ UNCHANGED <<queueVars, begun, got>>

Grant == \E S \in SUBSET free : GrantBudget(S) /\ UNCHANGED <<begun, stopped, got>>

SendReturns(p) ==
    \E i \in DOMAIN slotWait :
        /\ slotWait[i].from = p
        /\ \/ Push(i) /\ UNCHANGED stopped
           \/ FailSend(i) /\ stopped' = stopped \union {p}
        /\ UNCHANGED <<begun, got>>

Abort(p) ==
    /\ p \notin stopped
    /\ AbortSend(p)
    /\ stopped' = stopped \union {p}
    /\ UNCHANGED <<begun, got>>

Take ==
    /\ Pop
    /\ got' = Append(got, [from |-> Head(queue).from, item |-> Head(queue).item])
    /\ UNCHANGED <<begun, stopped>>

Drop == CloseRx /\ UNCHANGED <<begun, stopped, got>>

Terminated ==
    /\ stopped = Sender
    /\ queue = <<>>
    /\ UNCHANGED vars

Next ==
    \/ \E p \in Sender : Send(p) \/ Finish(p) \/ SendReturns(p) \/ Abort(p)
    \/ Grant
    \/ Take
    \/ Drop
    \/ Terminated

Spec == Init /\ [][Next]_vars

(***************************************************************************)
(* Fairness.  The tokio semaphores hand out what is released, the runtime  *)
(* polls a task that was woken, and the receiver keeps reading until it is *)
(* dropped.  No sender is obliged to send and nothing obliges the receiver *)
(* to go away.                                                             *)
(***************************************************************************)
FairSpec ==
    /\ Spec
    /\ WF_vars(Grant)
    /\ WF_vars(Take)
    /\ \A p \in Sender : WF_vars(SendReturns(p))

-----------------------------------------------------------------------------
(***************************************************************************)
(* Conservation of the byte budget: at every moment each permit is in      *)
(* exactly one place -- free, owned by one waiting send, or attached to    *)
(* one queued item -- through failed sends, aborted tasks and a dropped    *)
(* receiver.  A permit that leaked would shrink the budget of a session    *)
(* for good; one owned twice would let it queue more than 128 KiB.         *)
(* (stream_queue.rs:9-28, 40-55)                                           *)
(***************************************************************************)
PermitsConserved ==
    /\ Disjoint(queue)
    /\ Disjoint(slotWait)
    /\ free \intersect PermitsIn(queue) = {}
    /\ free \intersect PermitsIn(slotWait) = {}
    /\ PermitsIn(queue) \intersect PermitsIn(slotWait) = {}
    /\ free \union PermitsIn(queue) \union PermitsIn(slotWait) = Permit

\* The stream: what came out of it and then what is still queued.
Entry(e) == [from |-> e.from, item |-> e.item]
Stream == got \o [i \in DOMAIN queue |-> Entry(queue[i])]
Items(p) == {Stream[i].item : i \in {j \in DOMAIN Stream : Stream[j].from = p}}

InOrder(s) ==
    \A i, j \in DOMAIN s : i < j /\ s[i].from = s[j].from => s[i].item < s[j].item

(***************************************************************************)
(* Every send that returned Ok put its item on the stream once, and each   *)
(* sender's items come out in the order it sent them, whatever the waiters *)
(* of the two semaphores do (stream_queue.rs:34-55).                       *)
(***************************************************************************)
PerSenderFifo ==
    /\ InOrder(Stream)
    /\ \A p \in Sender :
        /\ \A n \in Items(p) : 1..n \subseteq Items(p)
        /\ rxOpen /\ Ready(p) => Items(p) = 1..begun[p]

(***************************************************************************)
(* No send waits for ever while the receiver keeps reading, nor when it is *)
(* gone: the two semaphores cannot make the senders wait on each other.    *)
(***************************************************************************)
SendsReturn == \A p \in Sender : InSend(p) ~> ~InSend(p)

-----------------------------------------------------------------------------
(* The inductive invariant behind PerSenderFifo (proved in                 *)
(* StreamSendersProofs).                                                   *)

\* Whoever waits in a send waits with the last item it has begun.
Current(w) == w.item = begun[w.from] /\ w.from \notin stopped

WaitWithLast ==
    /\ \A i \in DOMAIN budgetWait : Current(budgetWait[i])
    /\ \A i \in DOMAIN slotWait : Current(slotWait[i])

\* The items of p are those it has begun but for the one it waits with.
ItemsOf(p) ==
    /\ Items(p) \subseteq 1..begun[p]
    /\ InSend(p) => begun[p] \notin Items(p)
    /\ \A n \in Items(p) : 1..n \subseteq Items(p)
    /\ rxOpen /\ p \notin stopped =>
        \A n \in 1..begun[p] : n \in Items(p) \/ (InSend(p) /\ n = begun[p])

FifoInv == OneSend /\ WaitWithLast /\ InOrder(Stream) /\ \A p \in Sender : ItemsOf(p)
=============================================================================
