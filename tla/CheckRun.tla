------------------------------ MODULE CheckRun -------------------------------
(***************************************************************************)
(* What Runner.Run promises its caller, whatever the checks do: every      *)
(* check that was asked for ends with exactly one verdict, a verdict once  *)
(* given is never taken back, a check nobody asked for gets none, and Run  *)
(* returns when all are in, and it does return.                            *)
(***************************************************************************)
CONSTANTS Check, Verdict, NoVerdict

VARIABLES
  asked,     (* the checks of this run          *)
  verdict,   (* each check's verdict, if any    *)
  returned   (* Run has returned                *)

vars == <<asked, verdict, returned>>

Init ==
  /\ asked \in SUBSET Check
  /\ verdict = [c \in Check |-> NoVerdict]
  /\ returned = FALSE

Settle(c) ==
  /\ c \in asked
  /\ verdict[c] = NoVerdict
  /\ ~returned
  /\ \E v \in Verdict : verdict' = [verdict EXCEPT ![c] = v]
  /\ UNCHANGED <<asked, returned>>

Return ==
  /\ \A c \in asked : verdict[c] # NoVerdict
  /\ returned' = TRUE
  /\ UNCHANGED <<asked, verdict>>

Next == Return \/ \E c \in Check : Settle(c)

Spec == Init /\ [][Next]_vars

FairSpec == Spec /\ WF_vars(Next)

=============================================================================
