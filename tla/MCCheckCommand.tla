---------------------------- MODULE MCCheckCommand ---------------------------
(* Two checks in two domains.  Names: 1 and 2 are ids, -1 and -2 the        *)
(* domains, 9 a typo.                                                       *)
EXTENDS CheckCommand, TLC

Answers ==
  { [status |-> Unset, trips |-> {"warn", "crit"}, steps |-> 0, error |-> ""],
    [status |-> Unset, trips |-> {"warn"}, steps |-> 0, error |-> ""],
    [status |-> "ok", trips |-> {}, steps |-> 0, error |-> ""],
    [status |-> Unrecognised, trips |-> {}, steps |-> 0, error |-> ""] }

Domains == (1 :> -1) @@ (2 :> -2)

Selectors == {1, -1, -2, 9}

=============================================================================
