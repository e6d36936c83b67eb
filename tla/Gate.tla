--------------------------------- MODULE Gate ---------------------------------
(***************************************************************************)
(* apply_gate of src/src/server.rs: what becomes of a registered command   *)
(* once the policy has spoken.  Pure; used by ExecuteStream, which does    *)
(* not look inside the policy, and by Policy, which has no calls.          *)
(***************************************************************************)

Effect == {"allow", "deny", "ask", "audit"}

\* r.effect is what policy.evaluate says, or "invalid" if it fails, r.intent
\* that the intent is not blank, r.hook that policy.allow_hook is Some.  The
\* answer "ask" means that only the hook can tell.
Gate(r) ==
    CASE r.effect \in {"allow", "audit"} -> "allow"
      [] r.effect = "deny" -> "denied"
      [] r.effect = "invalid" -> "error"
      [] r.effect = "ask" /\ r.intentRequired /\ ~r.intent -> "denied"
      [] r.effect = "ask" /\ (r.intentRequired => r.intent) /\ ~r.hook -> "cancelled"
      [] OTHER -> "ask"
=============================================================================
