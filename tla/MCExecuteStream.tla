--------------------------- MODULE MCExecuteStream ---------------------------
(***************************************************************************)
(* Small instances of ExecuteStream for TLC: one table of start messages   *)
(* per question, and how much output the command may make.                 *)
(***************************************************************************)
EXTENDS ExecuteStream

MCSender == Stream \union {"handler"}
MCItem == DoneEvent \union PacketEvent

Out(o, e) == [s \in Stream |-> IF s = "stdout" THEN o ELSE e]
Out10 == Out(1, 0)
Out11 == Out(1, 1)
Out20 == Out(2, 0)

\* A registered command that the policy allows.
Allowed ==
    [registered |-> TRUE, effect |-> "allow", intentRequired |-> FALSE,
     intent |-> FALSE, hook |-> FALSE]

AllowInfo == [r \in ReqId |-> Allowed]

\* One start message for every other way through the registry and the gate.
GateInfo ==
    [unregistered |-> [Allowed EXCEPT !.registered = FALSE],
     audited |-> [Allowed EXCEPT !.effect = "audit"],
     denied |-> [Allowed EXCEPT !.effect = "deny"],
     invalid |-> [Allowed EXCEPT !.effect = "invalid"],
     noIntent |-> [Allowed EXCEPT !.effect = "ask", !.intentRequired = TRUE, !.hook = TRUE],
     noHook |-> [Allowed EXCEPT !.effect = "ask"],
     asked |-> [Allowed EXCEPT !.effect = "ask", !.intentRequired = TRUE,
                               !.intent = TRUE, !.hook = TRUE]]
GateReqs == DOMAIN GateInfo
=============================================================================
