---------------------------- MODULE MCCheckRunner ----------------------------
(* A run of two or three checks in which every gate, every kind of answer   *)
(* and a width below the number of checks occur.                            *)
EXTENDS CheckRunner

Answer(status, trips, steps, error) ==
  [status |-> status, trips |-> trips, steps |-> steps, error |-> error]

(* A check that leaves its status to its trips, one that sets it, one that  *)
(* built its own steps, one that reports its own failure, one that spells a *)
(* status nobody knows.                                                     *)
Answers ==
  { Answer(Unset, {"warn", "crit"}, 0, ""), Answer("ok", {}, 0, ""),
    Answer(Unset, {}, 3, ""), Answer("error", {}, 0, "own"),
    Answer(Unrecognised, {}, 0, "") }

TwoAnswers == { Answer(Unset, {"crit"}, 0, ""), Answer("ok", {}, 3, "") }

=============================================================================
