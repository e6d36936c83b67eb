--------------------------- MODULE MCStreamSenders ---------------------------
(* Small instances of StreamSenders for TLC. *)
EXTENDS StreamSenders

MCItem == 1..MaxItems
PermitSymmetry == Permutations(Permit)
=============================================================================
