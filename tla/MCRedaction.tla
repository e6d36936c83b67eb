----------------------------- MODULE MCRedaction -----------------------------
(***************************************************************************)
(* A small instance of Redaction for TLC: every set of at most two secrets *)
(* of at most three letters, so that secrets that repeat, contain, begin   *)
(* or overlap each other all occur.                                        *)
(***************************************************************************)
EXTENDS Redaction

Word == SeqOf(Letter, 3) \ {<<>>}
MCSecretSets == {{}} \union {{s, t} : s, t \in Word}
=============================================================================
