----------------------------- MODULE CheckAnswer ------------------------------
(***************************************************************************)
(* What the built-in checks have in common: what a check hands back, what  *)
(* running a program came to, and how a check answers when it is not given *)
(* a rule to grade by or cannot read what it lives on.                     *)
(*                                                                         *)
(* An answer keeps its trips and its steps; a step is what it is about and *)
(* its status.  Data, metrics and every text are left out.                 *)
(***************************************************************************)
EXTENDS Thresholds

CONSTANT Nothing  (* the place of an answer that did not come *)

(* The elements of a sequence that are in a set, in order: what a loop that *)
(* skips the others collects.                                               *)
Kept(seq, keep) ==
  LET upTo[i \in 0..Len(seq)] ==
        IF i = 0 THEN <<>>
        ELSE IF seq[i] \in keep THEN Append(upTo[i - 1], seq[i]) ELSE upTo[i - 1]
  IN  upTo[Len(seq)]

Answers(Trip, About) ==
  [status : Status \union {Unset}, trips : SUBSET Trip,
   steps : SUBSET [about : About, status : Status]]

(* What became of a program that was run: ErrNotFound, another error, an    *)
(* exit code that is not zero, or an ordinary end.                          *)
Ran == {"absent", "failed", "nonzero", "ok"}

Bare(status)          == [status |-> status, trips |-> {}, steps |-> {}]
Graded(trips, steps)  == [status |-> Unset, trips |-> trips, steps |-> steps]
Judged(status, steps) == [status |-> status, trips |-> {}, steps |-> steps]
Step(about, status)   == [about |-> about, status |-> status]

unreadable == Bare("error")
Unavailable == Bare("unavailable")

(* ungraded: a check that is not given its rule says so, and looks no further. *)
GradedBy(id, set, answer) == IF id \in DOMAIN set THEN answer ELSE Bare("error")

(* The answer of a check whose one program did not run: without it the      *)
(* question does not arise on this host, any other failure is a fault.      *)
NotRun(how) == IF how = "absent" THEN Unavailable ELSE Bare("error")

(* What the runner makes of it, in the terms of CheckStatus. *)
ToRaw(a) ==
  [status |-> a.status, trips |-> {t.severity : t \in a.trips},
   steps  |-> Cardinality(a.steps),
   error  |-> IF a.status = "error" THEN "own" ELSE ""]

(* The status it ends with once normalised, no budget having run out. *)
Final(a) == IF a.status = Unset
              THEN WorstOf({FromSeverity(t.severity) : t \in a.trips})
              ELSE a.status

(* The steps about nothing in particular: that not all of it was seen, and  *)
(* a remark that is no warning.                                             *)
Unseen == Step(Nothing, "warn")
Aside  == Step(Nothing, "ok")

=============================================================================
