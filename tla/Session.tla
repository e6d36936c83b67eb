------------------------------- MODULE Session -------------------------------
(***************************************************************************)
(* What a caller of ExecuteStream may rely on, with no task, queue, pipe   *)
(* or timer in sight.  A call is refused or runs its command.  A refused   *)
(* call tells its caller the outcome and nothing else.  A command that     *)
(* runs makes output, which is told packet by packet, each stream in       *)
(* order.  "executed" is told last and only when everything was told       *)
(* before it; "error" promises neither.                                    *)
(***************************************************************************)
EXTENDS Naturals, SequencesExt

CONSTANTS
    Stream,    \* the output streams of a command
    Refusal,   \* the outcomes of a call whose command is not run
    Code,      \* exit codes
    NoResult,
    Result(_, _),   \* the event that tells outcome and exit code
    Packet(_, _)    \* the event that tells a packet of a stream

VARIABLES
    phase,    \* "open", "refused", "running", "executed" or "failed"
    made,     \* made[s]: packets of s the command has made
    count,    \* count[s]: packets of s the caller was told of
    told,     \* the events, in the order in which the caller gets them
    result    \* the outcome that was decided on

vars == <<phase, made, count, told, result>>

Init ==
    /\ phase = "open"
    /\ made = [s \in Stream |-> 0]
    /\ count = [s \in Stream |-> 0]
    /\ told = <<>>
    /\ result = NoResult

Refuse ==
    /\ phase = "open"
    /\ phase' = "refused"
    /\ \E o \in Refusal, c \in Code : result' = Result(o, c)
    /\ UNCHANGED <<made, count, told>>

Run ==
    /\ phase = "open"
    /\ phase' = "running"
    /\ UNCHANGED <<made, count, told, result>>

Make(s) ==
    /\ phase \in {"running", "failed"}
    /\ made' = [made EXCEPT ![s] = @ + 1]
    /\ UNCHANGED <<phase, count, told, result>>

Tell(s) ==
    /\ phase \in {"running", "failed"}
    /\ count[s] < made[s]
    /\ count' = [count EXCEPT ![s] = @ + 1]
    /\ told' = Append(told, Packet(s, count[s] + 1))
    /\ UNCHANGED <<phase, made, result>>

Execute ==
    /\ phase = "running"
    /\ \A s \in Stream : count[s] = made[s]
    /\ phase' = "executed"
    /\ \E c \in Code : result' = Result("executed", c)
    /\ UNCHANGED <<made, count, told>>

Fail ==
    /\ phase = "running"
    /\ phase' = "failed"
    /\ \E c \in Code : result' = Result("error", c)
    /\ UNCHANGED <<made, count, told>>

\* May be missing: the caller can go away before it is told.
Report ==
    /\ phase \in {"refused", "executed", "failed"}
    /\ ~Contains(told, result)
    /\ told' = Append(told, result)
    /\ UNCHANGED <<phase, made, count, result>>

Next ==
    \/ Refuse \/ Run \/ Execute \/ Fail \/ Report
    \/ \E s \in Stream : Make(s) \/ Tell(s)

Spec == Init /\ [][Next]_vars
=============================================================================
