------------------------------- MODULE MCHost --------------------------------
(***************************************************************************)
(* Host for TLC.  The three questions have a lock each and nothing else in *)
(* common, so each process asks one of them -- the trail and the daemon at *)
(* once in a process of their own, which is what doctor does.  The callers *)
(* are interchangeable.                                                    *)
(***************************************************************************)
EXTENDS Host, TLC

Quiet ==
  [asking |-> {}, root |-> {FALSE}, sudo |-> {"refuses"}, daemon |-> {"up"},
   stateDir |-> {TRUE}, writable |-> {Place}]

MCStarts ==
  {[Quiet EXCEPT !.asking = {"check", "doctor"}, !.root = BOOLEAN, !.sudo = Sudo],
   [Quiet EXCEPT !.asking = {"runtime"}, !.daemon = Daemon],
   [Quiet EXCEPT !.asking = {"trail"}, !.stateDir = BOOLEAN, !.writable = SUBSET Place],
   [Quiet EXCEPT !.asking = {"doctor", "runtime", "trail"}, !.root = {TRUE},
                 !.daemon = {"uninstalled", "up"}]}

Symm == Permutations(Caller)
==============================================================================
