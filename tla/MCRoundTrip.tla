----------------------------- MODULE MCRoundTrip -----------------------------
(***************************************************************************)
(* A small instance of RoundTrip for TLC.                                  *)
(***************************************************************************)
EXTENDS RoundTrip

MCSender == Stream \union {"handler"}
MCItem == DoneEvent \union PacketEvent
MCOut == [s \in Stream |-> IF s = "stdout" THEN 10 ELSE 0]

Registered ==
    [registered |-> TRUE, effect |-> "allow", intentRequired |-> FALSE,
     intent |-> FALSE, hook |-> FALSE]
MCInfo == [ask |-> [Registered EXCEPT !.effect = "ask", !.hook = TRUE]]
MCReqs == DOMAIN MCInfo
=============================================================================
