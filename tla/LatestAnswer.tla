---------------------------- MODULE LatestAnswer -----------------------------
(***************************************************************************)
(* What a pane that many requests write to promises its operator: it shows *)
(* the latest request and no other, the lines of that request in order and *)
(* none left out, an outcome only when all of its lines are there, and it  *)
(* does not leave the last request without one.                            *)
(***************************************************************************)
EXTENDS Naturals, Sequences

VARIABLES
  latest,   (* how many requests there have been                          *)
  lines,    (* how many lines the latest streams ahead of its outcome      *)
  shown     (* whose outcome the pane shows, its lines, and is it settled *)

vars == <<latest, lines, shown>>

Init ==
  /\ latest = 0 /\ lines = 0
  /\ shown = [of |-> 0, body |-> <<>>, settled |-> TRUE]

(* A request of n lines, or one that is answered on the spot. *)
Ask ==
  /\ latest' = latest + 1
  /\ lines' \in Nat
  /\ \E now \in BOOLEAN :
       shown' = [of |-> latest', body |-> <<>>, settled |-> now]

Line ==
  /\ ~shown.settled /\ Len(shown.body) < lines
  /\ LET line == [of |-> latest, n |-> Len(shown.body) + 1]
     IN  shown' = [shown EXCEPT !.body = Append(@, line)]
  /\ UNCHANGED <<latest, lines>>

Settle ==
  /\ ~shown.settled /\ Len(shown.body) = lines
  /\ shown' = [shown EXCEPT !.settled = TRUE]
  /\ UNCHANGED <<latest, lines>>

Next == Ask \/ Line \/ Settle

FairSpec == Init /\ [][Next]_vars /\ WF_vars(Line \/ Settle)

=============================================================================
