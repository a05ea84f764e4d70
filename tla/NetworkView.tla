----------------------------- MODULE NetworkView -----------------------------
(***************************************************************************)
(* The one output pane of the first version's network screen               *)
(* (screens/network.py).  Every button starts a thread that works for many *)
(* seconds and hands what it found to the UI thread; a later button        *)
(* cancels the worker object, which stops a thread that is still waiting   *)
(* to start and no other.  A request is named by its number, the value of  *)
(* _probe_seq that its button set.                                         *)
(***************************************************************************)
EXTENDS Naturals, Sequences

CONSTANTS
  Targets,   (* how many probes the configured set has *)
  Rungs,     (* how many rungs the ladder has          *)
  MaxAsks    (* bound: buttons pressed                 *)

ASSUME NetworkViewAssumption ==
  Targets \in Nat \ {0} /\ Rungs \in Nat \ {0} /\ MaxAsks \in Nat

VARIABLES
  probeSeq,   (* _probe_seq                                                *)
  verdict,    (* #probe-verdict: whose it is, and no longer "running"      *)
  rawLines,   (* _raw_lines, the streamed ones                             *)
  kind,       (* what each request is                                      *)
  at,         (* where the thread of each request is                       *)
  step        (* how many of its steps each request has taken              *)

paneVars == <<probeSeq, verdict, rawLines, kind, at, step>>

Request == 1..MaxAsks

Steps(k) == CASE k = "set" -> Targets [] k = "ladder" -> Rungs [] OTHER -> 0

PaneInit ==
  /\ probeSeq = 0
  /\ verdict = [of |-> 0, settled |-> TRUE]
  /\ rawLines = <<>>
  /\ kind = [r \in Request |-> "none"]
  /\ at = [r \in Request |-> "none"]
  /\ step = [r \in Request |-> 0]

(* _show_verdict for the request the counter has just been moved to. *)
Show(settled) ==
  /\ probeSeq < MaxAsks
  /\ probeSeq' = probeSeq + 1
  /\ verdict' = [of |-> probeSeq', settled |-> settled]
  /\ rawLines' = <<>>

-----------------------------------------------------------------------------
(* The UI thread: one handler at a time, each of them whole. *)

(* _start_probe and the worker: a single probe, the set, or the ladder. *)
Start(k) ==
  /\ Show(FALSE)
  /\ kind' = [kind EXCEPT ![probeSeq'] = k]
  /\ at' = [at EXCEPT ![probeSeq'] = "pending"]
  /\ UNCHANGED step

(* No target, no port, nothing configured: a message, and the counter moves *)
(* on so that nothing under way lands on top of it.                          *)
Refuse ==
  /\ Show(TRUE)
  /\ kind' = [kind EXCEPT ![probeSeq'] = "refused"]
  /\ UNCHANGED <<at, step>>

(* _apply_probe: the verdict and the body, unless a later button was used. *)
ApplyProbe(r) ==
  /\ at[r] = "answer"
  /\ IF r = probeSeq THEN verdict' = [of |-> r, settled |-> TRUE] /\ rawLines' = <<>>
                     ELSE UNCHANGED <<verdict, rawLines>>
  /\ at' = [at EXCEPT ![r] = "gone"]
  /\ UNCHANGED <<probeSeq, kind, step>>

(* _append_body without its look at the counter. *)
AppendAnyway(r) ==
  /\ at[r] = "line"
  /\ rawLines' = Append(rawLines, [of |-> r, n |-> step[r]])
  /\ at' = [at EXCEPT ![r] = "check"]
  /\ UNCHANGED <<probeSeq, verdict, kind, step>>

(* _append_body: one line below those that are there. *)
AppendBody(r) ==
  /\ at[r] = "line"
  /\ rawLines' = IF r = probeSeq THEN Append(rawLines, [of |-> r, n |-> step[r]])
                                 ELSE rawLines
  /\ at' = [at EXCEPT ![r] = "check"]
  /\ UNCHANGED <<probeSeq, verdict, kind, step>>

(* _apply_summary: the verdict alone, over the lines already there. *)
ApplySummary(r) ==
  /\ at[r] = "summary"
  /\ verdict' = IF r = probeSeq THEN [of |-> r, settled |-> TRUE] ELSE verdict
  /\ at' = [at EXCEPT ![r] = "gone"]
  /\ UNCHANGED <<probeSeq, rawLines, kind, step>>

-----------------------------------------------------------------------------
(* The threads, and the library that runs them. *)

Move(r, from, to) ==
  /\ at[r] = from
  /\ at' = [at EXCEPT ![r] = to]
  /\ UNCHANGED <<probeSeq, verdict, rawLines, kind, step>>

(* exclusive=True: only the last worker of the group is kept, but a thread  *)
(* that has begun goes on.                                                   *)
Cancel(r) ==
  /\ \E later \in Request : later > r /\ at[later] # "none"
  /\ Move(r, "pending", "gone")

Run(r) ==
  Move(r, "pending", IF kind[r] = "probe" THEN "probing" ELSE "check")

(* _probe_worker: compute() returns; the tools it runs have timeouts. *)
Compute(r) == Move(r, "probing", "answer")

(* Between two steps the thread looks at the counter: a set that has been   *)
(* overtaken stops, a ladder that has been still sends its summary.          *)
Check(r) ==
  /\ step[r] < Steps(kind[r])
  /\ IF r = probeSeq THEN Move(r, "check", "stepping")
                     ELSE Move(r, "check", IF kind[r] = "ladder" THEN "summary" ELSE "gone")

Step(r) ==
  /\ at[r] = "stepping"
  /\ at' = [at EXCEPT ![r] = "line"]
  /\ step' = [step EXCEPT ![r] = @ + 1]
  /\ UNCHANGED <<probeSeq, verdict, rawLines, kind>>

(* After the last step nobody looks at the counter again. *)
Finish(r) ==
  /\ step[r] = Steps(kind[r])
  /\ Move(r, "check", "summary")

-----------------------------------------------------------------------------
Thread(r) == Run(r) \/ Compute(r) \/ Check(r) \/ Step(r) \/ Finish(r)
Apply(r)  == ApplyProbe(r) \/ AppendBody(r) \/ ApplySummary(r)

PaneNext ==
  \/ \E k \in {"probe", "set", "ladder"} : Start(k)
  \/ Refuse
  \/ \E r \in Request : Thread(r) \/ Cancel(r) \/ Apply(r)

(* Threads get to run and their tools return, since each has a timeout; the *)
(* UI loop serves every call it is handed.                                   *)
PaneFairness ==
  \A r \in Request : WF_paneVars(Thread(r)) /\ WF_paneVars(Apply(r))

-----------------------------------------------------------------------------
Latest == INSTANCE LatestAnswer WITH
  latest <- probeSeq,
  lines  <- IF probeSeq = 0 THEN 0 ELSE Steps(kind[probeSeq]),
  shown  <- [of |-> verdict.of, body |-> rawLines, settled |-> verdict.settled]

(* However many threads of earlier buttons come back, and whenever they do, *)
(* the pane shows the latest request: its lines in order with none missing, *)
(* its outcome only below all of them, and an outcome there will be          *)
(* (_apply_probe, _append_body and _apply_summary of network.py).            *)
ShowsTheLatest == Latest!FairSpec

=============================================================================
