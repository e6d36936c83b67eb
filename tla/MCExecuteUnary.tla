---------------------------- MODULE MCExecuteUnary ----------------------------
(***************************************************************************)
(* A small instance of ExecuteUnary for TLC: a request for each way        *)
(* through the registry and the gate, with and without stdin.              *)
(***************************************************************************)
EXTENDS ExecuteUnary

Allowed ==
    [registered |-> TRUE, effect |-> "allow", intentRequired |-> FALSE,
     intent |-> FALSE, hook |-> FALSE, stdin |-> 0]
Asked == [Allowed EXCEPT !.effect = "ask", !.hook = TRUE]

MCReqInfo ==
    [plain |-> Allowed,
     fed |-> [Allowed EXCEPT !.stdin = 2],
     asked |-> Asked,
     askedFed |-> [Asked EXCEPT !.stdin = 1, !.intentRequired = TRUE, !.intent = TRUE],
     noIntent |-> [Asked EXCEPT !.intentRequired = TRUE],
     noHook |-> [Asked EXCEPT !.hook = FALSE],
     denied |-> [Allowed EXCEPT !.effect = "deny"],
     invalid |-> [Allowed EXCEPT !.effect = "invalid"],
     unregistered |-> [Allowed EXCEPT !.registered = FALSE]]
MCReqId == DOMAIN MCReqInfo
=============================================================================
