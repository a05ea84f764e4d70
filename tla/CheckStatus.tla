----------------------------- MODULE CheckStatus -----------------------------
(***************************************************************************)
(* The verdict algebra of internal/check: the six statuses and their rank, *)
(* worst-of, the exit code a status calls for, how a check's raw answer is *)
(* normalised and how a set of results is tallied.  Pure operators, shared *)
(* by the runner and the command that reports what it found.               *)
(***************************************************************************)
EXTENDS Integers, FiniteSets

(* The closed enum of statuses.  A check may leave the field empty (Unset) *)
(* and, since the Go type is a string, may spell one that is not in the    *)
(* enum; Unrecognised stands for all of those.                             *)
Status       == {"ok", "warn", "crit", "skipped", "unavailable", "error"}
Unset        == ""
Unrecognised == "unrecognised"
AnyStatus    == Status \union {Unset, Unrecognised}

Severity == {"ok", "warn", "crit"}

(* rank with error and crit the other way round. *)
rankErrorFirst(s) ==
  CASE s = "ok" -> 0 [] s = "skipped" -> 1 [] s = "unavailable" -> 2
    [] s = "warn" -> 3 [] s = "error" -> 5 [] s = "crit" -> 4 [] OTHER -> 6

rank(s) ==
  CASE s = "ok"          -> 0
    [] s = "skipped"     -> 1
    [] s = "unavailable" -> 2
    [] s = "warn"        -> 3
    [] s = "error"       -> 4
    [] s = "crit"        -> 5
    [] OTHER             -> 6

Worse(a, b) == IF rank(b) > rank(a) THEN b ELSE a

(* The code folds Worse over a list starting at ok.  What the fold returns *)
(* does not depend on the order unless two different unrecognised spellings*)
(* meet, and there is one of those here.                                   *)
WorstOf(S) ==
  CHOOSE s \in S \union {"ok"} : \A t \in S \union {"ok"} : rank(t) <= rank(s)

(* internal/exitcode *)
ExitOK      == 0
ExitWarn    == 1
ExitCrit    == 2
ExitUnknown == 3

ExitCode(s) ==
  CASE s = "warn"                          -> ExitWarn
    [] s = "crit"                          -> ExitCrit
    [] s \in {"ok", "skipped", "unavailable"} -> ExitOK
    [] OTHER                               -> ExitUnknown

FromSeverity(sev) == IF sev \in {"crit", "warn"} THEN sev ELSE "ok"

(***************************************************************************)
(* A Result keeps what the properties tell apart: the graded trips as the  *)
(* set of their severities, steps as a count, the error text as where it   *)
(* came from, and nils, whether trips, metrics or steps is still a nil     *)
(* slice that would marshal to null.                                       *)
(***************************************************************************)
Cause == {"", "own", "panic", "budget"}

Results(Id) ==
  [id : Id, status : AnyStatus, trips : SUBSET Severity, steps : Nat,
   error : Cause, nils : BOOLEAN]

(* What Run hands back before the runner stamps the id on it. *)
RawResult ==
  [status : AnyStatus, trips : SUBSET Severity, steps : Nat, error : Cause]

Normalize(r) ==
  [r EXCEPT !.nils   = FALSE,
            !.status = IF @ = Unset
                         THEN WorstOf({FromSeverity(t) : t \in r.trips})
                         ELSE @]

(* One counter per status; anything outside the enum is counted as error.  *)
CountedAs(s) == IF s \in Status THEN s ELSE "error"

Tally(results, ids) ==
  [counts |-> [s \in Status |->
                 Cardinality({i \in ids : CountedAs(results[i].status) = s})],
   status |-> WorstOf({results[i].status : i \in ids})]

=============================================================================
