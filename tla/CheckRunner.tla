----------------------------- MODULE CheckRunner -----------------------------
(***************************************************************************)
(* internal/check/runner.go: Runner.Run asks once whether Tier 2 is        *)
(* available, starts one goroutine per check, lets at most Width of them   *)
(* hold a slot, gates each check, calls it under a budget, turns whatever  *)
(* happens into a Result, and returns when every goroutine is done.        *)
(*                                                                         *)
(* A check's own Run is the environment: it may emit events, return any of *)
(* Outcome, panic, or never come back.                                     *)
(***************************************************************************)
EXTENDS CheckStatus, Sequences

CONSTANTS
  Check,        (* the ids of the checks a build registers, as numbers: the *)
                (* order of the numbers is the order of the ids             *)
  Tier2,        (* those whose Spec says Tier2                              *)
  NeedsParam,   (* those with a required parameter that has no default      *)
  NeedsBin,     (* those that name a program in NeedsBins                   *)
  Concurrency,  (* Runner.Concurrency; zero or less means the default       *)
  Outcome,      (* what a check may return                                  *)
  MaxEvents     (* bound: events one check emits                            *)

ASSUME CheckAssumption ==
  /\ Check \subseteq Int /\ IsFiniteSet(Check)
  /\ Tier2 \subseteq Check /\ NeedsParam \subseteq Check /\ NeedsBin \subseteq Check
  /\ Concurrency \in Int
  /\ Outcome \subseteq RawResult
  /\ MaxEvents \in Nat

(* The other two causes are the runner's to give. *)
ASSUME OutcomeAssumption == \A r \in Outcome : r.error \in {"", "own"}

VARIABLES
  selected,   (* the checks this run was asked for                          *)
  params,     (* the checks whose required parameters the operator supplied *)
  phase,      (* where Run is: "start", "running", "done"                   *)
  tier2,      (* the one answer CanTier2 gave                               *)
  cancelled,  (* the caller's context has been cancelled                    *)
  pc,         (* where each check's goroutine is                            *)
  expired,    (* checks whose own budget has run out                        *)
  raw,        (* what the check returned, or the panic result               *)
  emitted,    (* events the collector holds, per check                      *)
  shown,      (* events passed on to Runner.Progress, per check             *)
  results     (* results[i] of each check, NoResult until it is assigned    *)

vars == <<selected, params, phase, tier2, cancelled, pc, expired, raw,
          emitted, shown, results>>

(* What a step of a check's goroutine leaves alone. *)
runVars == <<selected, params, phase, tier2, cancelled>>

NoResult == [none |-> TRUE]
NoRaw    == [none |-> TRUE]

PC == {"idle", "queued", "slotted", "running", "returned", "stored", "exited"}

DefaultConcurrency == 8

(* The slots channel has one place per check at most, and at least one. *)
Width ==
  LET asked == IF Concurrency <= 0 THEN DefaultConcurrency ELSE Concurrency
      width == IF asked > Cardinality(selected) THEN Cardinality(selected)
                                                ELSE asked
  IN  IF width > 1 THEN width ELSE 1

Holding == {c \in Check : pc[c] \in {"slotted", "running", "returned", "stored"}}

(* As it would be with one deadline shared by all. *)
CtxDoneShared(c) == expired # {} \/ cancelled

(* runCtx.Err() != nil: the check's own deadline or the caller's context. *)
CtxDone(c) == c \in expired \/ cancelled

-----------------------------------------------------------------------------
(* Results the runner makes itself *)

skipped(c) ==
  [id |-> c, status |-> "skipped", trips |-> {}, steps |-> 0, error |-> "",
   nils |-> TRUE]

unavailable(c) ==
  Normalize([id |-> c, status |-> "unavailable", trips |-> {}, steps |-> 0,
             error |-> "", nils |-> TRUE])

(* As it would be with a status of its own invention. *)
panickedByName == [status |-> "panic", trips |-> {}, steps |-> 0, error |-> "panic"]

panicked == [status |-> "error", trips |-> {}, steps |-> 0, error |-> "panic"]

(* outcome without the second look at the deadline. *)
outcomeUnchecked(c) ==
  LET r == raw[c] IN
  Normalize([id |-> c, status |-> r.status, trips |-> r.trips,
             steps |-> IF r.steps = 0 THEN emitted[c] ELSE r.steps,
             error |-> r.error, nils |-> TRUE])

(* outcome without the fallback to the collected steps. *)
outcomeOwnSteps(c) ==
  LET r == raw[c]
      late == CtxDone(c) /\ r.status # "error"
  IN  Normalize([id |-> c, status |-> IF late THEN "error" ELSE r.status,
                 trips |-> r.trips, steps |-> r.steps,
                 error |-> IF late /\ r.error = "" THEN "budget" ELSE r.error,
                 nils |-> TRUE])

(* The tail of runOne: stamp the id, fall back to the collected steps, make *)
(* an ordinary answer given after the deadline an error, normalise.         *)
outcome(c) ==
  LET r == raw[c]
      late == CtxDone(c) /\ r.status # "error"
  IN  Normalize(
        [id     |-> c,
         status |-> IF late THEN "error" ELSE r.status,
         trips  |-> r.trips,
         steps  |-> IF r.steps = 0 THEN emitted[c] ELSE r.steps,
         error  |-> IF late /\ r.error = "" THEN "budget" ELSE r.error,
         nils   |-> TRUE])

-----------------------------------------------------------------------------
Init ==
  /\ selected \in SUBSET Check
  /\ params \in SUBSET NeedsParam
  /\ phase = "start"
  /\ tier2 = FALSE
  /\ cancelled = FALSE
  /\ pc = [c \in Check |-> "idle"]
  /\ expired = {}
  /\ raw = [c \in Check |-> NoRaw]
  /\ emitted = [c \in Check |-> 0]
  /\ shown = [c \in Check |-> 0]
  /\ results = [c \in Check |-> NoResult]

(* Run up to the end of its loop: the one privilege question, then a        *)
(* goroutine per check.                                                     *)
Spawn ==
  /\ phase = "start"
  /\ phase' = "running"
  /\ tier2' \in BOOLEAN
  /\ pc' = [c \in Check |-> IF c \in selected THEN "queued" ELSE "idle"]
  /\ UNCHANGED <<selected, params, cancelled, expired, raw, emitted, shown,
                 results>>

(* Acquire with room for one more than the width. *)
AcquireOneMore(c) ==
  /\ pc[c] = "queued"
  /\ Cardinality(Holding) <= Width
  /\ pc' = [pc EXCEPT ![c] = "slotted"]
  /\ UNCHANGED <<runVars, expired, raw, emitted, shown, results>>

Acquire(c) ==
  /\ pc[c] = "queued"
  /\ Cardinality(Holding) < Width
  /\ pc' = [pc EXCEPT ![c] = "slotted"]
  /\ UNCHANGED <<runVars, expired, raw, emitted, shown, results>>

(* results[i] = what runOne returned without calling the check *)
Refuse(c, r) ==
  /\ pc[c] = "slotted"
  /\ pc' = [pc EXCEPT ![c] = "stored"]
  /\ results' = [results EXCEPT ![c] = r]
  /\ UNCHANGED <<runVars, expired, raw, emitted, shown>>

LacksTier2(c) == c \in Tier2 /\ ~tier2
LacksParam(c) == c \in NeedsParam \ params

SkipTier2(c) == LacksTier2(c) /\ Refuse(c, skipped(c))

SkipParam(c) == ~LacksTier2(c) /\ LacksParam(c) /\ Refuse(c, skipped(c))

(* MissingBin asked before the other gates. *)
MissingBinFirst(c) == c \in NeedsBin /\ Refuse(c, unavailable(c))

(* Look fails for one of the programs the check needs. *)
MissingBin(c) ==
  /\ ~LacksTier2(c) /\ ~LacksParam(c)
  /\ c \in NeedsBin
  /\ Refuse(c, unavailable(c))

(* Every gate is passed: the budget starts and the check is called. *)
Call(c) ==
  /\ pc[c] = "slotted"
  /\ ~LacksTier2(c) /\ ~LacksParam(c)
  /\ pc' = [pc EXCEPT ![c] = "running"]
  /\ UNCHANGED <<runVars, expired, raw, emitted, shown, results>>

-----------------------------------------------------------------------------
(* The check, while it runs *)

(* collector.Emit appends under its lock and passes the event on after the  *)
(* unlock; the check is inside Emit between the two.                        *)
EmitAppend(c) ==
  /\ pc[c] = "running"
  /\ emitted[c] = shown[c]
  /\ emitted[c] < MaxEvents
  /\ emitted' = [emitted EXCEPT ![c] = @ + 1]
  /\ UNCHANGED <<runVars, pc, expired, raw, shown, results>>

EmitFanout(c) ==
  /\ pc[c] = "running"
  /\ shown[c] < emitted[c]
  /\ shown' = [shown EXCEPT ![c] = @ + 1]
  /\ UNCHANGED <<runVars, pc, expired, raw, emitted, results>>

Return(c) ==
  /\ pc[c] = "running"
  /\ emitted[c] = shown[c]
  /\ \E r \in Outcome : raw' = [raw EXCEPT ![c] = r]
  /\ pc' = [pc EXCEPT ![c] = "returned"]
  /\ UNCHANGED <<runVars, expired, emitted, shown, results>>

(* A panic in the check, or in the Progress it called; call recovers it. *)
Panic(c) ==
  /\ pc[c] = "running"
  /\ raw' = [raw EXCEPT ![c] = panicked]
  /\ pc' = [pc EXCEPT ![c] = "returned"]
  /\ UNCHANGED <<runVars, expired, emitted, shown, results>>

(* The deadline passes while the check runs, or after it came back and      *)
(* before runCtx.Err() is read.                                             *)
Expire(c) ==
  /\ pc[c] \in {"running", "returned"}
  /\ c \notin expired
  /\ expired' = expired \union {c}
  /\ UNCHANGED <<runVars, pc, raw, emitted, shown, results>>

Cancel ==
  /\ phase = "running"
  /\ ~cancelled
  /\ cancelled' = TRUE
  /\ UNCHANGED <<selected, params, phase, tier2, pc, expired, raw, emitted,
                 shown, results>>

-----------------------------------------------------------------------------
(* results[i] = what the rest of runOne makes of it *)
Finish(c) ==
  /\ pc[c] = "returned"
  /\ pc' = [pc EXCEPT ![c] = "stored"]
  /\ results' = [results EXCEPT ![c] = outcome(c)]
  /\ UNCHANGED <<runVars, expired, raw, emitted, shown>>

(* Leave as it would be if it were not deferred: a panic steps over it. *)
LeaveAtTheEnd(c) ==
  /\ pc[c] = "stored" /\ raw[c] # panicked
  /\ pc' = [pc EXCEPT ![c] = "exited"]
  /\ UNCHANGED <<runVars, expired, raw, emitted, shown, results>>

(* The deferred slot release and wg.Done. *)
Leave(c) ==
  /\ pc[c] = "stored"
  /\ pc' = [pc EXCEPT ![c] = "exited"]
  /\ UNCHANGED <<runVars, expired, raw, emitted, shown, results>>

(* Collect as it would be with wg.Add inside the goroutine: it waits only   *)
(* for those that have a slot.                                              *)
CollectStarted ==
  /\ phase = "running"
  /\ Holding = {}
  /\ phase' = "done"
  /\ UNCHANGED <<selected, params, tier2, cancelled, pc, expired, raw, emitted,
                 shown, results>>

(* wg.Wait returns and Run with it. *)
Collect ==
  /\ phase = "running"
  /\ \A c \in selected : pc[c] = "exited"
  /\ phase' = "done"
  /\ UNCHANGED <<selected, params, tier2, cancelled, pc, expired, raw, emitted,
                 shown, results>>

(* Where SortResults puts the result of a check: after those with a smaller *)
(* id.                                                                      *)
Place(c) == Cardinality({d \in selected : results[d].id <= results[c].id})

(* The list Run returns, in the order of the ids. *)
Sorted ==
  [i \in 1 .. Cardinality(selected) |-> results[CHOOSE c \in selected : Place(c) = i]]

Runner(c) ==
  Acquire(c) \/ SkipTier2(c) \/ SkipParam(c) \/ MissingBin(c) \/ Call(c)
  \/ Finish(c) \/ Leave(c)

Body(c) == EmitAppend(c) \/ EmitFanout(c) \/ Return(c) \/ Panic(c)

(* Run has returned and nothing of it is left. *)
Returned == phase = "done" /\ UNCHANGED vars

Next ==
  \/ Spawn \/ Cancel \/ Collect \/ Returned
  \/ \E c \in Check : Runner(c) \/ Body(c) \/ Expire(c)

Spec == Init /\ [][Next]_vars

(* The Go scheduler runs every runnable goroutine, and a timer fires.       *)
RunnerFairness ==
  /\ WF_vars(Spawn) /\ WF_vars(Collect)
  /\ \A c \in Check : WF_vars(Runner(c))
  /\ \A c \in Check : WF_vars(Expire(c))

(* Every check comes back in the end, whatever it returns. *)
ChecksReturn == \A c \in Check : WF_vars(EmitFanout(c)) /\ WF_vars(Return(c))

FairSpec == Spec /\ RunnerFairness /\ ChecksReturn

-----------------------------------------------------------------------------
(* Properties *)

(* Every variable has its type; a result that was assigned has a status.    *)
TypeOK ==
  /\ selected \subseteq Check
  /\ params \subseteq NeedsParam
  /\ phase \in {"start", "running", "done"}
  /\ tier2 \in BOOLEAN
  /\ cancelled \in BOOLEAN
  /\ pc \in [Check -> PC]
  /\ expired \subseteq Check
  /\ raw \in [Check -> RawResult \union {NoRaw}]
  /\ emitted \in [Check -> Nat]
  /\ shown \in [Check -> Nat]
  /\ results \in [Check -> Results(Check) \union {NoResult}]

(* Never more checks at work on the host than the run's width, counting     *)
(* those that have come back but whose slot is not released yet.            *)
SlotBound == Cardinality(Holding) <= Width

(* A check whose budget ran out before its answer was looked at is reported *)
(* as an error with a reason, never as a verdict about the host: a timeout  *)
(* does not become a green panel, even if the check itself said ok.         *)
NoLateVerdict ==
  \A c \in expired :
    results[c] # NoResult =>
      /\ results[c].status = "error"
      /\ raw[c].status # "error" => results[c].error # ""

(* A check this process may not run, or was not given what it needs, is     *)
(* skipped -- never called, never "unavailable", whatever is installed.     *)
GatesHold ==
  \A c \in selected :
    (phase # "start" /\ (LacksTier2(c) \/ LacksParam(c))) =>
      /\ raw[c] = NoRaw /\ emitted[c] = 0 /\ c \notin expired
      /\ results[c] # NoResult => results[c].status = "skipped"

(* What the operator saw on screen is in the report: unless the check built *)
(* its own steps, the result holds every event that was passed to Progress, *)
(* and at most the one whose delivery panicked besides.                     *)
StepsShown ==
  \A c \in selected :
    (results[c] # NoResult /\ raw[c] # NoRaw /\ raw[c].steps = 0) =>
      results[c].steps \in {shown[c], shown[c] + 1}

(* A panic costs only the check that panicked: every other check's result   *)
(* is the one its own answer and deadline call for, whatever the others did.*)
OwnAnswer ==
  \A c \in selected :
    (results[c] # NoResult /\ raw[c] # NoRaw /\ c \notin expired /\ ~cancelled) =>
      /\ results[c].id = c
      /\ results[c].status = IF raw[c].status = Unset
                               THEN WorstOf({FromSeverity(t) : t \in raw[c].trips})
                               ELSE raw[c].status

(* Run returns one result per check, in id order, each with a status.       *)
Complete ==
  phase = "done" =>
    /\ \A c \in selected : results[c] # NoResult
    /\ Len(Sorted) = Cardinality(selected)
    /\ \A i \in 1..Len(Sorted) :
         /\ Sorted[i].id \in selected
         /\ Sorted[i].status # Unset
         /\ \A j \in 1..(i - 1) : Sorted[j].id < Sorted[i].id

(* The abstract promise: one lasting verdict per check asked for, and Run   *)
(* returns.  A verdict is a status; the rest of the result is detail.       *)
Promise == INSTANCE CheckRun WITH
  Verdict   <- AnyStatus \ {Unset},
  NoVerdict <- Unset,
  asked     <- selected,
  verdict   <- [c \in Check |-> IF results[c] = NoResult
                                  THEN Unset ELSE results[c].status],
  returned  <- (phase = "done")

ImplementsPromise == Promise!Spec
KeepsPromise      == Promise!FairSpec

=============================================================================
