--------------------------- MODULE MCFirstVersion ----------------------------
(* The two modelled parts of the first version for TLC.  They share nothing, *)
(* so a behaviour is one of either part while the other rests.               *)
EXTENDS NetworkView, LogSqueeze

VARIABLE part

MCInit == part \in {"pane", "squeeze"} /\ PaneInit /\ SqueezeInit

MCNext ==
  /\ UNCHANGED part
  /\ \/ part = "pane" /\ PaneNext /\ UNCHANGED squeezeVars
     \/ part = "squeeze" /\ SqueezeNext /\ UNCHANGED paneVars

MCFairSpec == MCInit /\ [][MCNext]_<<part, paneVars, squeezeVars>> /\ PaneFairness

==============================================================================
