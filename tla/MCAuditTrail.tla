---------------------------- MODULE MCAuditTrail -----------------------------
(* Two calls in one process, one in another. *)
EXTENDS AuditTrail, TLC

Where == ("a" :> "p") @@ ("b" :> "p") @@ ("c" :> "q")

WhereTwo == ("a" :> "p") @@ ("b" :> "p")

WhereApart == ("a" :> "p") @@ ("b" :> "q")

=============================================================================
