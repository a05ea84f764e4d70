----------------------------- MODULE CheckProofs -----------------------------
(***************************************************************************)
(* What the check runner promises, for any finite number of checks, any    *)
(* width, any answers and any number of events; and what the check command *)
(* promises on top of it, for any registry, any selectors and any flags: it*)
(* exits 0 only when all is well, a critical finding is heard, the document*)
(* agrees with itself and nothing excluded is touched.                     *)
(***************************************************************************)
EXTENDS CheckCommand, FiniteSetTheorems, TLAPS

(***************************************************************************)
(* The runner                                                              *)
(***************************************************************************)


(* No answer of a check can be taken for there being none. *)
LEMMA NoRawIsNoAnswer == NoRaw \notin RawResult
  BY DEF NoRaw, RawResult

(* Nor can a result. *)
LEMMA NoResultIsNoResult == NoResult \notin Results(Check)
  BY DEF NoResult, Results

(* The worst of severities is one of them, or ok. *)
LEMMA WorstOfSeverities ==
  ASSUME NEW S \in SUBSET Severity
  PROVE  WorstOf(S) \in Severity
<1>1. \E s \in S \union {"ok"} : \A t \in S \union {"ok"} : rank(t) <= rank(s)
  <2>1. CASE "crit" \in S
    <3>1. \A t \in S \union {"ok"} : rank(t) <= rank("crit")
      BY DEF Severity, rank
    <3> QED BY <2>1, <3>1
  <2>2. CASE "crit" \notin S /\ "warn" \in S
    <3>1. \A t \in S \union {"ok"} : rank(t) <= rank("warn")
      BY <2>2 DEF Severity, rank
    <3> QED BY <2>2, <3>1
  <2>3. CASE "crit" \notin S /\ "warn" \notin S
    <3>1. \A t \in S \union {"ok"} : rank(t) <= rank("ok")
      BY <2>3 DEF Severity, rank
    <3> QED BY <3>1
  <2> QED BY <2>1, <2>2, <2>3
<1>2. WorstOf(S) \in S \union {"ok"}
  BY <1>1 DEF WorstOf
<1> QED BY <1>2 DEF Severity

(* The status a result is left with is never the unset one. *)
LEMMA NormalizeHasStatus ==
  ASSUME NEW r \in Results(Check)
  PROVE  /\ Normalize(r) \in Results(Check)
         /\ Normalize(r).status # Unset
         /\ Normalize(r).id = r.id
         /\ Normalize(r).steps = r.steps
         /\ Normalize(r).error = r.error
         /\ Normalize(r).nils = FALSE
         /\ r.status # Unset => Normalize(r).status = r.status
<1> DEFINE S == {FromSeverity(t) : t \in r.trips}
<1>1. S \in SUBSET Severity
  BY DEF FromSeverity, Severity
<1>2. WorstOf(S) \in Severity
  BY <1>1, WorstOfSeverities
<1>3. WorstOf(S) \in AnyStatus \ {Unset}
  BY <1>2 DEF Severity, AnyStatus, Status, Unset, Unrecognised
<1> HIDE DEF S
<1>4. Normalize(r) = [r EXCEPT !.nils = FALSE,
                               !.status = IF @ = Unset THEN WorstOf(S) ELSE @]
  BY DEF Normalize, S
<1> QED BY <1>3, <1>4 DEF Results, Unset

(***************************************************************************)
(* Types                                                                   *)
(***************************************************************************)

(* The two results runOne makes without calling the check say so. *)
LEMMA RunnersOwnResults ==
  ASSUME NEW c \in Check
  PROVE  /\ skipped(c) \in Results(Check)
         /\ skipped(c).status = "skipped"
         /\ unavailable(c) \in Results(Check)
         /\ unavailable(c).status = "unavailable"
<1>1. skipped(c) \in Results(Check) /\ skipped(c).status = "skipped"
  BY DEF skipped, Results, AnyStatus, Status, Severity, Cause
<1> DEFINE u == [id |-> c, status |-> "unavailable", trips |-> {}, steps |-> 0,
                 error |-> "", nils |-> TRUE]
<1>2. u \in Results(Check) /\ u.status = "unavailable"
  BY DEF Results, AnyStatus, Status, Severity, Cause
<1>3. unavailable(c) = Normalize(u)
  BY DEF unavailable
<1> HIDE DEF u
<1> QED BY <1>1, <1>2, <1>3, NormalizeHasStatus DEF Unset

(* What the runner makes of a check's answer, given the answer's type: the  *)
(* facts every invariant about results rests on.                            *)
LEMMA OutcomeFacts ==
  ASSUME NEW c \in Check, raw[c] \in RawResult, emitted[c] \in Nat
  PROVE  /\ outcome(c) \in Results(Check)
         /\ outcome(c).status # Unset
         /\ outcome(c).id = c
         /\ raw[c].steps = 0 => outcome(c).steps = emitted[c]
         /\ CtxDone(c) => /\ outcome(c).status = "error"
                          /\ raw[c].status # "error" => outcome(c).error # ""
         /\ ~CtxDone(c) =>
              outcome(c).status = IF raw[c].status = Unset
                THEN WorstOf({FromSeverity(t) : t \in raw[c].trips})
                ELSE raw[c].status
<1> DEFINE r == raw[c]
           late == CtxDone(c) /\ r.status # "error"
           before == [id     |-> c,
                      status |-> IF late THEN "error" ELSE r.status,
                      trips  |-> r.trips,
                      steps  |-> IF r.steps = 0 THEN emitted[c] ELSE r.steps,
                      error  |-> IF late /\ r.error = "" THEN "budget" ELSE r.error,
                      nils   |-> TRUE]
<1>1. before \in Results(Check)
  BY DEF Results, RawResult, AnyStatus, Status, Cause
<1>2. outcome(c) = Normalize(before)
  BY DEF outcome
<1>3. /\ Normalize(before) \in Results(Check)
      /\ Normalize(before).status # Unset
      /\ Normalize(before).id = before.id
      /\ Normalize(before).steps = before.steps
      /\ Normalize(before).error = before.error
      /\ before.status # Unset => Normalize(before).status = before.status
  BY <1>1, NormalizeHasStatus
<1>4. CtxDone(c) => /\ before.status = "error"
                    /\ r.status # "error" => before.error # ""
  OBVIOUS
<1>5. ~CtxDone(c) => Normalize(before).status =
        IF raw[c].status = Unset
          THEN WorstOf({FromSeverity(t) : t \in raw[c].trips})
          ELSE raw[c].status
  BY DEF Normalize
<1>6. /\ before.id = c
      /\ raw[c].steps = 0 => before.steps = emitted[c]
  OBVIOUS
<1> HIDE DEF before
<1>7. CtxDone(c) => /\ outcome(c).status = "error"
                    /\ raw[c].status # "error" => outcome(c).error # ""
  BY <1>2, <1>3, <1>4 DEF Unset
<1> QED BY <1>2, <1>3, <1>5, <1>6, <1>7

(***************************************************************************)
(* The inductive invariant.  The types alone are not inductive: Finish reads*)
(* an answer, and that there is one follows from where the goroutine is.    *)
(***************************************************************************)

Untouched(c) == raw[c] = NoRaw /\ emitted[c] = 0 /\ shown[c] = 0 /\ c \notin expired

MayBeCalled(c) == ~LacksTier2(c) /\ ~LacksParam(c)

(* What a goroutine's place says of its check: untouched until it is called,*)
(* called only behind the gates, answered before it is finished, and settled*)
(* by a gate or by its answer.                                              *)
Progress(c) ==
  /\ pc[c] = "idle" <=> (phase = "start" \/ c \notin selected)
  /\ pc[c] \in {"idle", "queued", "slotted"} => Untouched(c)
  /\ pc[c] \in {"running", "returned"} => MayBeCalled(c)
  /\ pc[c] = "running" => raw[c] = NoRaw
  /\ pc[c] = "returned" => raw[c] # NoRaw
  /\ pc[c] \in {"stored", "exited"} <=> results[c] # NoResult

(* The status an answer given in time calls for. *)
OwnStatus(c) ==
  IF raw[c].status = Unset THEN WorstOf({FromSeverity(t) : t \in raw[c].trips})
                           ELSE raw[c].status

(* Where a result came from. *)
Settled(c) ==
  \/ Untouched(c) /\ ~MayBeCalled(c) /\ results[c].status = "skipped"
  \/ Untouched(c) /\ MayBeCalled(c) /\ results[c].status = "unavailable"
  \/ /\ MayBeCalled(c) /\ raw[c] # NoRaw
     /\ results[c].id = c
     /\ results[c].status # Unset
     /\ raw[c].steps = 0 => results[c].steps = emitted[c]
     /\ c \in expired => /\ results[c].status = "error"
                         /\ raw[c].status # "error" => results[c].error # ""
     /\ ~CtxDone(c) => results[c].status = OwnStatus(c)

Inv ==
  /\ TypeOK
  /\ \A c \in Check : Progress(c)
  /\ \A c \in Check : results[c] # NoResult => Settled(c)
  /\ \A c \in Check : emitted[c] \in {shown[c], shown[c] + 1}
  /\ phase = "done" => \A c \in selected : pc[c] = "exited"

(* The invariant holds before Run starts. *)
LEMMA InitInv == Init => Inv
<1> SUFFICES ASSUME Init PROVE Inv
  OBVIOUS
<1>1. TypeOK
  BY CheckAssumption DEF Init, TypeOK, PC
<1>2. ASSUME NEW c \in Check
      PROVE  Progress(c) /\ results[c] = NoResult /\ emitted[c] = shown[c]
  BY <1>2 DEF Init, Progress, Untouched
<1>3. phase # "done"
  BY DEF Init
<1> QED BY <1>1, <1>2, <1>3 DEF Inv, TypeOK

(* No step gives a variable a value outside its type. *)
LEMMA NextTypes == Inv /\ [Next]_vars => TypeOK'
<1> SUFFICES ASSUME Inv, [Next]_vars PROVE TypeOK'
  OBVIOUS
<1> USE DEF TypeOK, PC, Inv
<1>1. CASE Spawn
  BY <1>1 DEF Spawn
<1>2. CASE Cancel
  BY <1>2 DEF Cancel
<1>3. CASE Collect
  BY <1>3 DEF Collect
<1>4. CASE UNCHANGED vars
  BY <1>4 DEF vars
<1>5. ASSUME NEW c \in Check, Acquire(c) PROVE TypeOK'
  BY <1>5 DEF Acquire, runVars
<1>6. ASSUME NEW c \in Check, NEW r \in Results(Check), Refuse(c, r) PROVE TypeOK'
  BY <1>6 DEF Refuse, runVars
<1>7. ASSUME NEW c \in Check, SkipTier2(c) \/ SkipParam(c) \/ MissingBin(c)
      PROVE  TypeOK'
  BY <1>6, <1>7, RunnersOwnResults DEF SkipTier2, SkipParam, MissingBin
<1>8. ASSUME NEW c \in Check, Call(c) PROVE TypeOK'
  BY <1>8 DEF Call, runVars
<1>9. ASSUME NEW c \in Check, Finish(c) PROVE TypeOK'
  <2>1. raw[c] \in RawResult
    BY <1>9 DEF Finish, Progress
  <2>2. outcome(c) \in Results(Check)
    BY <2>1, OutcomeFacts
  <2> QED BY <1>9, <2>2 DEF Finish, runVars
<1>10. ASSUME NEW c \in Check, Leave(c) PROVE TypeOK'
  BY <1>10 DEF Leave, runVars
<1>11. ASSUME NEW c \in Check, EmitAppend(c) PROVE TypeOK'
  BY <1>11 DEF EmitAppend, runVars
<1>12. ASSUME NEW c \in Check, EmitFanout(c) PROVE TypeOK'
  BY <1>12 DEF EmitFanout, runVars
<1>13. ASSUME NEW c \in Check, Return(c) PROVE TypeOK'
  BY <1>13, CheckAssumption DEF Return, runVars
<1>14. ASSUME NEW c \in Check, Panic(c) PROVE TypeOK'
  <2>1. panicked \in RawResult
    BY DEF panicked, RawResult, AnyStatus, Status, Cause
  <2> QED BY <1>14, <2>1 DEF Panic, runVars
<1>15. ASSUME NEW c \in Check, Expire(c) PROVE TypeOK'
  BY <1>15 DEF Expire, runVars
<1> QED
  BY <1>1, <1>2, <1>3, <1>4, <1>5, <1>7, <1>8, <1>9, <1>10, <1>11, <1>12, <1>13,
     <1>14, <1>15 DEF Next, Runner, Body, Returned

(* A step of the goroutine of c leaves every other check as it was. *)
Elsewhere(c) ==
  /\ UNCHANGED <<selected, params, phase, tier2, cancelled>>
  /\ \A d \in Check \ {c} :
       /\ pc'[d] = pc[d] /\ raw'[d] = raw[d] /\ results'[d] = results[d]
       /\ emitted'[d] = emitted[d] /\ shown'[d] = shown[d]
       /\ d \in expired' <=> d \in expired

(* A step of one check touches nothing of another. *)
LEMMA StepsAreLocal ==
  ASSUME TypeOK, NEW c \in Check, Runner(c) \/ Body(c) \/ Expire(c)
  PROVE  Elsewhere(c)
<1> USE DEF Elsewhere, runVars, TypeOK
<1>1. CASE Acquire(c)
  BY <1>1 DEF Acquire
<1>2. CASE SkipTier2(c) \/ SkipParam(c) \/ MissingBin(c)
  BY <1>2 DEF SkipTier2, SkipParam, MissingBin, Refuse
<1>3. CASE Call(c)
  BY <1>3 DEF Call
<1>4. CASE Finish(c)
  BY <1>4 DEF Finish
<1>5. CASE Leave(c)
  BY <1>5 DEF Leave
<1>6. CASE EmitAppend(c)
  BY <1>6 DEF EmitAppend
<1>7. CASE EmitFanout(c)
  BY <1>7 DEF EmitFanout
<1>8. CASE Return(c)
  BY <1>8 DEF Return
<1>9. CASE Panic(c)
  BY <1>9 DEF Panic
<1>10. CASE Expire(c)
  BY <1>10 DEF Expire
<1> QED
  BY <1>1, <1>2, <1>3, <1>4, <1>5, <1>6, <1>7, <1>8, <1>9, <1>10 DEF Runner, Body

(* The part of the invariant that is about one check. *)
CheckInv(c) ==
  /\ Progress(c)
  /\ results[c] # NoResult => Settled(c)
  /\ emitted[c] \in {shown[c], shown[c] + 1}

(* So what is known of the other checks stays known. *)
LEMMA OthersKeepTheirs ==
  ASSUME Inv, NEW c \in Check, Elsewhere(c), NEW d \in Check \ {c}
  PROVE  CheckInv(d)'
<1>0. /\ pc'[d] = pc[d] /\ raw'[d] = raw[d] /\ results'[d] = results[d]
      /\ emitted'[d] = emitted[d] /\ shown'[d] = shown[d]
      /\ d \in expired' <=> d \in expired
  BY DEF Elsewhere
<1>1. /\ Untouched(d)' <=> Untouched(d)
      /\ MayBeCalled(d)' <=> MayBeCalled(d)
      /\ CtxDone(d)' <=> CtxDone(d)
      /\ OwnStatus(d)' = OwnStatus(d)
  BY DEF Elsewhere, Untouched, MayBeCalled, LacksTier2, LacksParam, CtxDone, OwnStatus
<1>2. Progress(d)'
  BY <1>1 DEF Inv, Elsewhere, Progress
<1>3. results'[d] # NoResult => Settled(d)'
  <2>1. results[d] # NoResult => Settled(d)
    BY DEF Inv
  <2> QED BY <1>0, <1>1, <2>1 DEF Settled
<1>4. emitted'[d] \in {shown'[d], shown'[d] + 1}
  BY DEF Inv, Elsewhere
<1> QED BY <1>2, <1>3, <1>4 DEF CheckInv

(* And what is known of the check itself is kept by each of its steps. *)
LEMMA StepKeepsOwn ==
  ASSUME Inv, TypeOK', NEW c \in Check, Runner(c) \/ Body(c) \/ Expire(c)
  PROVE  CheckInv(c)'
<1>0. TypeOK /\ CheckInv(c)
  BY DEF Inv, CheckInv
<1> USE <1>0 DEF TypeOK, CheckInv, PC, runVars
<1>a. phase # "start" /\ c \in selected
  BY DEF Progress, Runner, Body, Acquire, SkipTier2, SkipParam, MissingBin, Refuse, Call,
         Finish, Leave, EmitAppend, EmitFanout, Return, Panic, Expire
<1>1. CASE Acquire(c)
  BY <1>1, <1>a DEF Acquire, Progress, Untouched
<1>2. ASSUME NEW r \in Results(Check), Refuse(c, r),
             r.status = IF MayBeCalled(c) THEN "unavailable" ELSE "skipped"
      PROVE  CheckInv(c)'
  <2>1. Untouched(c) /\ Untouched(c)' /\ (MayBeCalled(c)' <=> MayBeCalled(c))
    BY <1>2 DEF Refuse, Progress, Untouched, MayBeCalled, LacksTier2, LacksParam
  <2>2. results'[c] = r /\ r # NoResult /\ pc'[c] = "stored"
    BY <1>2, NoResultIsNoResult DEF Refuse
  <2>3. Progress(c)'
    BY <1>2, <1>a, <2>1, <2>2 DEF Refuse, Progress
  <2>4. Settled(c)'
    BY <1>2, <2>1, <2>2 DEF Settled
  <2>5. emitted'[c] \in {shown'[c], shown'[c] + 1}
    BY <1>2 DEF Refuse
  <2> QED BY <2>3, <2>4, <2>5
<1>3. CASE SkipTier2(c) \/ SkipParam(c) \/ MissingBin(c)
  BY <1>2, <1>3, RunnersOwnResults
     DEF SkipTier2, SkipParam, MissingBin, MayBeCalled
<1>4. CASE Call(c)
  BY <1>4, <1>a DEF Call, Progress, Untouched, MayBeCalled, LacksTier2, LacksParam
<1>5. CASE Finish(c)
  <2>1. raw[c] \in RawResult /\ raw[c] # NoRaw /\ MayBeCalled(c)
    BY <1>5 DEF Finish, Progress
  <2>2. /\ results'[c] = outcome(c) /\ pc'[c] = "stored"
        /\ UNCHANGED <<selected, params, phase, tier2, cancelled, expired, raw, emitted, shown>>
    BY <1>5 DEF Finish
  <2>3. results'[c] # NoResult
    <3>1. outcome(c) \in Results(Check)
      BY <2>1, OutcomeFacts
    <3> QED BY <3>1, <2>2, NoResultIsNoResult
  <2>4. MayBeCalled(c)' /\ OwnStatus(c)' = OwnStatus(c) /\ (CtxDone(c)' <=> CtxDone(c))
    BY <2>1, <2>2 DEF MayBeCalled, LacksTier2, LacksParam, OwnStatus, CtxDone
  <2>5. /\ outcome(c).id = c /\ outcome(c).status # Unset
        /\ raw[c].steps = 0 => outcome(c).steps = emitted[c]
        /\ CtxDone(c) => /\ outcome(c).status = "error"
                         /\ raw[c].status # "error" => outcome(c).error # ""
        /\ ~CtxDone(c) => outcome(c).status = OwnStatus(c)
    BY <2>1, OutcomeFacts DEF OwnStatus
  <2>6. Progress(c)'
    BY <1>a, <2>1, <2>2, <2>3 DEF Progress
  <2>7. Settled(c)'
    BY <2>1, <2>2, <2>4, <2>5 DEF Settled, CtxDone
  <2> QED BY <2>2, <2>6, <2>7
<1>6. CASE Leave(c)
  <2>1. /\ pc[c] = "stored" /\ pc'[c] = "exited"
        /\ UNCHANGED <<selected, params, phase, tier2, cancelled, expired, raw, emitted,
                       shown, results>>
    BY <1>6 DEF Leave
  <2>2. Settled(c)' <=> Settled(c)
    BY <2>1 DEF Settled, Untouched, MayBeCalled, LacksTier2, LacksParam, CtxDone, OwnStatus
  <2>3. Progress(c)'
    BY <1>a, <2>1 DEF Progress
  <2> QED BY <2>1, <2>2, <2>3
<1>7. CASE Body(c) \/ Expire(c)
  <2>1. results[c] = NoResult /\ results' = results
    BY <1>7 DEF Body, EmitAppend, EmitFanout, Return, Panic, Expire, Progress
  <2>2. Progress(c)'
    <3>1. MayBeCalled(c) /\ MayBeCalled(c)'
      BY <1>7 DEF Body, EmitAppend, EmitFanout, Return, Panic, Expire, Progress,
                  MayBeCalled, LacksTier2, LacksParam
    <3>2. CASE EmitAppend(c)
      BY <1>a, <3>1, <3>2, <2>1 DEF EmitAppend, Progress
    <3>3. CASE EmitFanout(c)
      BY <1>a, <3>1, <3>3, <2>1 DEF EmitFanout, Progress
    <3>4. CASE Return(c)
      BY <1>a, <3>1, <3>4, <2>1, NoRawIsNoAnswer, CheckAssumption DEF Return, Progress
    <3>5. CASE Panic(c)
      BY <1>a, <3>1, <3>5, <2>1 DEF Panic, Progress, panicked, NoRaw
    <3>6. CASE Expire(c)
      BY <1>a, <3>1, <3>6, <2>1 DEF Expire, Progress
    <3> QED BY <1>7, <3>2, <3>3, <3>4, <3>5, <3>6 DEF Body
  <2>3. emitted'[c] \in {shown'[c], shown'[c] + 1}
    BY <1>7 DEF Body, EmitAppend, EmitFanout, Return, Panic, Expire
  <2> QED BY <2>1, <2>2, <2>3
<1> QED
  BY <1>1, <1>3, <1>4, <1>5, <1>6, <1>7 DEF Runner

(* Every step of Run, and the stutter, keeps the invariant. *)
LEMMA NextInv == Inv /\ [Next]_vars => Inv'
<1> SUFFICES ASSUME Inv, [Next]_vars PROVE Inv'
  OBVIOUS
<1>1. TypeOK'
  BY NextTypes
<1>2. CASE Spawn
  <2>1. \A c \in Check : Untouched(c) /\ results[c] = NoResult /\ results'[c] = NoResult
    BY <1>2 DEF Inv, Progress, Spawn
  <2>2. ASSUME NEW c \in Check PROVE Progress(c)' /\ emitted'[c] = shown'[c]
    BY <1>2, <2>1, <2>2 DEF Spawn, Inv, TypeOK, Progress, Untouched
  <2>3. phase' # "done"
    BY <1>2 DEF Spawn
  <2> QED BY <1>1, <2>1, <2>2, <2>3 DEF Inv, TypeOK
<1>3. CASE Cancel
  <2>1. ASSUME NEW c \in Check PROVE CheckInv(c)'
    <3>1. /\ CheckInv(c) /\ TypeOK
          /\ UNCHANGED <<selected, params, phase, tier2, pc, expired, raw, emitted, shown,
                         results>>
      BY <1>3 DEF Inv, CheckInv, Cancel
    <3>2. CtxDone(c)'
      BY <1>3 DEF Cancel, CtxDone
    <3>3. Progress(c)'
      BY <3>1 DEF CheckInv, Progress, Untouched, MayBeCalled, LacksTier2, LacksParam
    <3>4. results'[c] # NoResult => Settled(c)'
      BY <3>1, <3>2 DEF CheckInv, Settled, Untouched, MayBeCalled, LacksTier2, LacksParam
    <3> QED BY <3>1, <3>3, <3>4 DEF CheckInv
  <2> QED BY <1>1, <1>3, <2>1 DEF Inv, CheckInv, Cancel
<1>4. CASE Collect
  <2>1. ASSUME NEW c \in Check PROVE CheckInv(c)'
    <3>1. /\ CheckInv(c) /\ phase = "running" /\ phase' = "done"
          /\ UNCHANGED <<selected, params, tier2, cancelled, pc, expired, raw, emitted, shown,
                         results>>
      BY <1>4 DEF Inv, CheckInv, Collect
    <3>2. Progress(c)'
      BY <3>1 DEF CheckInv, Progress, Untouched, MayBeCalled, LacksTier2, LacksParam
    <3>3. results'[c] # NoResult => Settled(c)'
      BY <3>1 DEF CheckInv, Settled, Untouched, MayBeCalled, LacksTier2, LacksParam,
                  CtxDone, OwnStatus
    <3> QED BY <3>1, <3>2, <3>3 DEF CheckInv
  <2> QED BY <1>1, <1>4, <2>1 DEF Inv, CheckInv, Collect
<1>5. ASSUME NEW c \in Check, Runner(c) \/ Body(c) \/ Expire(c) PROVE Inv'
  <2>1. Elsewhere(c)
    BY <1>5, StepsAreLocal DEF Inv
  <2>2. \A d \in Check : CheckInv(d)'
    <3>1. CheckInv(c)'
      BY <1>1, <1>5, StepKeepsOwn
    <3>2. ASSUME NEW d \in Check \ {c} PROVE CheckInv(d)'
      BY <2>1, <3>2, OthersKeepTheirs
    <3> QED BY <3>1, <3>2
  <2>3. phase' = "done" => \A d \in selected' : pc'[d] = "exited"
    <3>1. phase' = "done" => pc[c] \notin {"queued", "slotted", "running", "returned", "stored"}
      BY <2>1 DEF Elsewhere, Inv, Progress, TypeOK
    <3>2. pc[c] \in {"queued", "slotted", "running", "returned", "stored"}
      BY <1>5 DEF Runner, Body, Acquire, SkipTier2, SkipParam, MissingBin, Refuse, Call,
             Finish, Leave, EmitAppend, EmitFanout, Return, Panic, Expire
    <3> QED BY <3>1, <3>2
  <2> QED BY <1>1, <2>2, <2>3 DEF Inv, CheckInv
<1>6. CASE UNCHANGED vars
  <2>1. ASSUME NEW c \in Check PROVE CheckInv(c)'
    <3>1. CheckInv(c)
      BY DEF Inv, CheckInv
    <3> QED BY <3>1, <1>6 DEF CheckInv, vars, Progress, Settled, Untouched, MayBeCalled,
               LacksTier2, LacksParam, CtxDone, OwnStatus
  <2> QED BY <1>1, <1>6, <2>1 DEF Inv, CheckInv, vars
<1> QED
  BY <1>2, <1>3, <1>4, <1>5, <1>6 DEF Next, Returned

(***************************************************************************)
(* The theorems                                                            *)
(***************************************************************************)

(* Every reachable state of Runner.Run satisfies the invariant. *)
THEOREM Invariance == Spec => []Inv
<1>1. Init => Inv
  BY InitInv
<1>2. Inv /\ [Next]_vars => Inv'
  BY NextInv
<1> QED BY <1>1, <1>2, PTL DEF Spec

(* Every variable of the runner always has its type. *)
THEOREM TypesAlways == Spec => []TypeOK
<1>1. Inv => TypeOK
  BY DEF Inv
<1> QED BY <1>1, Invariance, PTL

(* Whatever a check answers and whenever its deadline passes, a check whose *)
(* budget ran out before its answer was looked at is an error in the report.*)
THEOREM LateIsNeverAVerdict == Spec => []NoLateVerdict
<1>1. Inv => NoLateVerdict
  BY DEF Inv, NoLateVerdict, Settled, Untouched, TypeOK
<1> QED BY <1>1, Invariance, PTL

(* runOne never calls a check it may not run or cannot parameterise, for any*)
(* set of checks and whatever else is missing on the host.                  *)
THEOREM GatesAlwaysHold == Spec => []GatesHold
<1>1. ASSUME Inv, NEW c \in selected, phase # "start", LacksTier2(c) \/ LacksParam(c)
      PROVE  /\ raw[c] = NoRaw /\ emitted[c] = 0 /\ c \notin expired
             /\ results[c] # NoResult => results[c].status = "skipped"
  <2>1. c \in Check /\ Progress(c) /\ ~MayBeCalled(c)
    BY <1>1 DEF Inv, TypeOK, MayBeCalled
  <2>2. CASE results[c] # NoResult
    <3>1. Settled(c)
      BY <1>1, <2>1, <2>2 DEF Inv
    <3> QED BY <2>1, <3>1 DEF Settled, Untouched
  <2>3. CASE results[c] = NoResult
    <3>1. pc[c] \in {"idle", "queued", "slotted"}
      BY <1>1, <2>1, <2>3 DEF Inv, TypeOK, PC, Progress
    <3> QED BY <2>1, <2>3, <3>1 DEF Progress, Untouched
  <2> QED BY <2>2, <2>3
<1>2. Inv => GatesHold
  BY <1>1 DEF GatesHold
<1> QED BY <1>2, Invariance, PTL

(* A check's result is the one its own answer calls for, in any number of   *)
(* checks running side by side, whichever of them panic.                    *)
THEOREM EveryCheckItsOwnAnswer == Spec => []OwnAnswer
<1>1. Inv => OwnAnswer
  BY DEF Inv, OwnAnswer, Settled, Untouched, TypeOK, OwnStatus, CtxDone
<1> QED BY <1>1, Invariance, PTL

(* No event that was passed to Progress is missing from the report.         *)
THEOREM StepsAlwaysShown == Spec => []StepsShown
<1>1. Inv => StepsShown
  BY DEF Inv, StepsShown, Settled, Untouched, TypeOK
<1> QED BY <1>1, Invariance, PTL

(***************************************************************************)
(* The slots channel bounds the checks at work                             *)
(***************************************************************************)

(* The width is a positive number: no run has a channel of no places. *)
LEMMA WidthIsANumber ==
  ASSUME TypeOK PROVE Width \in Nat \ {0}
<1>1. IsFiniteSet(selected)
  BY CheckAssumption, FS_Subset DEF TypeOK
<1>2. Cardinality(selected) \in Nat
  BY <1>1, FS_CardinalityType
<1> QED BY <1>2, CheckAssumption DEF Width, DefaultConcurrency

(* Only finitely many checks hold a slot, so they can be counted. *)
LEMMA HoldingIsFinite ==
  ASSUME TypeOK
  PROVE  IsFiniteSet(Holding) /\ Cardinality(Holding) \in Nat
<1>1. Holding \subseteq Check
  BY DEF Holding
<1> QED BY <1>1, CheckAssumption, FS_Subset, FS_CardinalityType

(* Only Acquire makes a check hold a slot; every other step leaves the set  *)
(* of holders as it is or smaller, and none changes the width.              *)
LEMMA OnlyAcquireTakesASlot ==
  ASSUME Inv, [Next]_vars,
         \A c \in Check : ~Acquire(c)
  PROVE  Holding' \subseteq Holding
<1> USE DEF Inv, TypeOK, Holding
<1>1. CASE Spawn
  BY <1>1 DEF Spawn, Progress
<1>2. CASE Cancel \/ Collect \/ UNCHANGED vars
  BY <1>2 DEF Cancel, Collect, vars
<1>3. ASSUME NEW c \in Check, Runner(c) \/ Body(c) \/ Expire(c)
      PROVE  Holding' \subseteq Holding
  BY <1>3 DEF Runner, Body, SkipTier2, SkipParam, MissingBin, Refuse, Call, Finish, Leave,
              EmitAppend, EmitFanout, Return, Panic, Expire
<1> QED BY <1>1, <1>2, <1>3 DEF Next, Returned

(* The width stays what it was when Run started. *)
LEMMA WidthIsFixed ==
  ASSUME [Next]_vars PROVE Width' = Width
<1>1. selected' = selected
  BY DEF Next, Returned, Spawn, Cancel, Collect, Runner, Body, Acquire, SkipTier2, SkipParam,
         MissingBin, Refuse, Call, Finish, Leave, EmitAppend, EmitFanout, Return, Panic,
         Expire, vars, runVars
<1> QED BY <1>1 DEF Width

(* Never more checks at work on the host than the run's width, for any      *)
(* number of checks and any configured concurrency, zero and negative too.  *)
THEOREM SlotsAreBounded == Spec => []SlotBound
<1>1. Init => SlotBound
  <2> SUFFICES ASSUME Init PROVE SlotBound
    OBVIOUS
  <2>1. Holding = {}
    BY DEF Init, Holding
  <2>2. TypeOK
    BY InitInv DEF Inv
  <2> QED BY <2>1, <2>2, WidthIsANumber, FS_EmptySet DEF SlotBound
<1>2. Inv /\ SlotBound /\ [Next]_vars => SlotBound'
  <2> SUFFICES ASSUME Inv, SlotBound, [Next]_vars PROVE SlotBound'
    OBVIOUS
  <2>1. /\ IsFiniteSet(Holding) /\ Cardinality(Holding) \in Nat
        /\ Width \in Nat \ {0} /\ Width' = Width
    BY HoldingIsFinite, WidthIsANumber, WidthIsFixed DEF Inv
  <2>2. ASSUME NEW c \in Check, Acquire(c) PROVE SlotBound'
    <3>1. c \notin Holding /\ Cardinality(Holding) < Width
      BY <2>2 DEF Acquire, Holding
    <3>2. Holding' = Holding \union {c}
      BY <2>2 DEF Acquire, Holding, Inv, TypeOK
    <3>3. Cardinality(Holding \union {c}) = Cardinality(Holding) + 1
      BY <2>1, <3>1, FS_AddElement
    <3> QED BY <2>1, <3>1, <3>2, <3>3 DEF SlotBound
  <2>3. CASE \A c \in Check : ~Acquire(c)
    <3>1. Holding' \subseteq Holding
      BY <2>3, OnlyAcquireTakesASlot
    <3>2. Cardinality(Holding') \in Nat /\ Cardinality(Holding') <= Cardinality(Holding)
      BY <2>1, <3>1, FS_Subset, FS_CardinalityType
    <3> QED BY <2>1, <3>2 DEF SlotBound
  <2> QED BY <2>2, <2>3
<1> QED BY <1>1, <1>2, Invariance, PTL DEF Spec

(***************************************************************************)
(* The runner implements the promise of CheckRun                           *)
(***************************************************************************)

Verdicts == [c \in Check |-> IF results[c] = NoResult THEN Unset ELSE results[c].status]

(* A result comes with a verdict: the status is never the unset one.        *)
LEMMA ResultsAreVerdicts ==
  ASSUME Inv, NEW c \in Check, results[c] # NoResult
  PROVE  Verdicts[c] \in AnyStatus \ {Unset}
<1>1. results[c] \in Results(Check) /\ Settled(c)
  BY DEF Inv, TypeOK
<1>2. results[c].status \in AnyStatus
  BY <1>1 DEF Results
<1>3. results[c].status # Unset
  BY <1>1 DEF Settled, Unset
<1> QED BY <1>2, <1>3 DEF Verdicts

(* Before Run starts nobody has a verdict and Run has not returned. *)
LEMMA InitKeepsPromise == Init => Promise!Init
  BY DEF Init, Promise!Init

(* Storing a result is the promise's Settle. *)
LEMMA StoringSettles ==
  ASSUME Inv, Inv', NEW c \in Check, pc[c] \in {"slotted", "returned"}, pc'[c] = "stored",
         Elsewhere(c)
  PROVE  Promise!Settle(c)
<1> DEFINE v == results'[c].status
<1>1. results[c] = NoResult /\ c \in selected /\ phase # "done" /\ results'[c] # NoResult
  BY DEF Inv, Progress
<1>2. v \in AnyStatus \ {Unset}
  <2>1. results'[c] \in Results(Check) /\ Settled(c)'
    BY <1>1 DEF Inv, TypeOK
  <2>2. v \in AnyStatus
    BY <2>1 DEF Results
  <2>3. v # Unset
    BY <2>1 DEF Settled, Unset
  <2> QED BY <2>2, <2>3
<1>3. Verdicts' = [Verdicts EXCEPT ![c] = v]
  BY <1>1 DEF Verdicts, Elsewhere
<1>4. UNCHANGED <<selected, phase>>
  BY DEF Elsewhere
<1> QED BY <1>1, <1>2, <1>3, <1>4 DEF Promise!Settle, Verdicts

(* Every step of Run is a step of the promise, or changes nothing it sees. *)
LEMMA NextKeepsPromise == Inv /\ Inv' /\ [Next]_vars => [Promise!Next]_(Promise!vars)
<1> SUFFICES ASSUME Inv, Inv', [Next]_vars PROVE [Promise!Next]_(Promise!vars)
  OBVIOUS
<1>1. CASE Collect
  <2>1. \A c \in selected : Verdicts[c] # Unset
    <3>1. ASSUME NEW c \in selected PROVE c \in Check /\ results[c] # NoResult
      BY <1>1 DEF Collect, Inv, TypeOK, Progress
    <3> QED BY <3>1, ResultsAreVerdicts
  <2>2. Verdicts' = Verdicts /\ selected' = selected /\ phase' = "done"
    BY <1>1 DEF Collect, Verdicts
  <2>3. (phase' = "done") = TRUE
    BY <2>2
  <2>4. Promise!Return
    BY <2>1, <2>2, <2>3 DEF Promise!Return, Verdicts
  <2> QED BY <2>4 DEF Promise!Next
<1>2. CASE Spawn \/ Cancel \/ UNCHANGED vars
  <2>1. Verdicts' = Verdicts /\ selected' = selected
    BY <1>2 DEF Spawn, Cancel, vars, Verdicts
  <2>2. (phase' = "done") = (phase = "done")
    BY <1>2 DEF Spawn, Cancel, vars
  <2> QED BY <2>1, <2>2 DEF Promise!vars, Verdicts
<1>3. ASSUME NEW c \in Check, Runner(c) \/ Body(c) \/ Expire(c)
      PROVE  [Promise!Next]_(Promise!vars)
  <2>1. Elsewhere(c)
    BY <1>3, StepsAreLocal DEF Inv
  <2>2. CASE SkipTier2(c) \/ SkipParam(c) \/ MissingBin(c) \/ Finish(c)
    <3>1. pc[c] \in {"slotted", "returned"} /\ pc'[c] = "stored"
      BY <2>2 DEF SkipTier2, SkipParam, MissingBin, Finish, Refuse, Inv, TypeOK
    <3>2. Promise!Settle(c)
      BY <2>1, <3>1, StoringSettles
    <3> QED BY <3>2 DEF Promise!Next
  <2>3. CASE ~(SkipTier2(c) \/ SkipParam(c) \/ MissingBin(c) \/ Finish(c))
    <3>1. results' = results
      BY <1>3, <2>3 DEF Runner, Body, Acquire, Call, Leave, EmitAppend, EmitFanout,
                        Return, Panic, Expire
    <3>2. Verdicts' = Verdicts
      BY <3>1 DEF Verdicts
    <3>3. selected' = selected /\ (phase' = "done") = (phase = "done")
      BY <2>1 DEF Elsewhere
    <3> QED BY <3>2, <3>3 DEF Promise!vars, Verdicts
  <2> QED BY <2>2, <2>3
<1> QED
  BY <1>1, <1>2, <1>3 DEF Next, Returned

(* Runner.Run implements what it promises: one lasting verdict per check,   *)
(* none for a check nobody asked for, and no return before they are all in. *)
THEOREM RunKeepsItsPromise == Spec => ImplementsPromise
<1>1. Init => Promise!Init
  BY InitKeepsPromise
<1>2. Inv /\ Inv' /\ [Next]_vars => [Promise!Next]_(Promise!vars)
  BY NextKeepsPromise
<1> QED BY <1>1, <1>2, Invariance, PTL DEF Spec, ImplementsPromise, Promise!Spec

(***************************************************************************)
(* What Run returns                                                        *)
(***************************************************************************)

(* Counting those that are no greater numbers a finite set of numbers from  *)
(* one, in their order and with no gap.                                     *)
LEMMA CountingOrders ==
  ASSUME NEW S \in SUBSET Int, IsFiniteSet(S)
  PROVE  /\ \A c \in S : Cardinality({d \in S : d <= c}) \in 1 .. Cardinality(S)
         /\ \A b, c \in S : b < c =>
              Cardinality({d \in S : d <= b}) < Cardinality({d \in S : d <= c})
         /\ \A i \in 1 .. Cardinality(S) : \E c \in S : Cardinality({d \in S : d <= c}) = i
<1> DEFINE n == Cardinality(S)
           upTo(c) == {d \in S : d <= c}
<1>1. n \in Nat
  BY FS_CardinalityType
<1>2. ASSUME NEW c \in S
      PROVE  /\ IsFiniteSet(upTo(c)) /\ Cardinality(upTo(c)) \in Nat
             /\ Cardinality(upTo(c)) <= n /\ Cardinality(upTo(c)) # 0 /\ c \in upTo(c)
  <2>1. c \in upTo(c) /\ upTo(c) \in SUBSET S
    OBVIOUS
  <2> HIDE DEF upTo
  <2> QED BY <2>1, FS_Subset, FS_CardinalityType, FS_EmptySet
<1>3. ASSUME NEW b \in S, NEW c \in S, b < c
      PROVE  Cardinality(upTo(b)) < Cardinality(upTo(c))
  <2>0. b \in Int /\ c \in Int /\ \A d \in S : d \in Int
    OBVIOUS
  <2>1. upTo(b) \in SUBSET upTo(c) /\ c \notin upTo(b) /\ c \in upTo(c)
    <3>1. \A d \in S : d <= b => d <= c
      BY <1>3, <2>0
    <3>2. ~(c <= b) /\ c <= c
      BY <1>3, <2>0
    <3> QED BY <3>1, <3>2
  <2>2. IsFiniteSet(upTo(c)) /\ Cardinality(upTo(b)) \in Nat /\ Cardinality(upTo(c)) \in Nat
    BY <1>2
  <2> HIDE DEF upTo
  <2>3. Cardinality(upTo(b)) <= Cardinality(upTo(c))
    BY <2>1, <2>2, FS_Subset
  <2>4. Cardinality(upTo(b)) # Cardinality(upTo(c))
    BY <2>1, <2>2, FS_Subset
  <2> QED BY <2>2, <2>3, <2>4
<1>4. \A i \in 1 .. n : \E c \in S : Cardinality(upTo(c)) = i
  <2> DEFINE f == [c \in S |-> Cardinality(upTo(c))]
  <2> HIDE DEF upTo
  <2>1. f \in [S -> 1 .. n]
    BY <1>1, <1>2
  <2>2. \A b, c \in S : f[b] = f[c] => b = c
    <3>1. \A b, c \in S : b = c \/ b < c \/ c < b
      OBVIOUS
    <3>2. \A c \in S : f[c] \in Nat
      BY <1>2
    <3>3. \A b, c \in S : b < c => f[b] < f[c]
      BY <1>3
    <3> QED BY <3>1, <3>2, <3>3
  <2> HIDE DEF f
  <2>3. f \in Injection(S, 1 .. n)
    BY <2>1, <2>2 DEF Injection, IsInjective
  <2>4. IsFiniteSet(1 .. n) /\ Cardinality(1 .. n) = n
    BY <1>1, FS_Interval
  <2>5. f \in Surjection(S, 1 .. n)
    BY <2>3, <2>4, FS_Injection
  <2>6. \A i \in 1 .. n : \E c \in S : f[c] = i
    BY <2>5 DEF Surjection
  <2> QED BY <2>6 DEF f
<1>5. \A c \in S : Cardinality(upTo(c)) \in 1 .. n
  BY <1>1, <1>2
<1> QED BY <1>3, <1>4, <1>5

(* Every result carries the id of its check. *)
OwnIds == \A c \in Check : results[c] # NoResult => results[c].id = c

(* Every step keeps the ids of the results (runOne stamps them).            *)
LEMMA IdsKept == Inv /\ OwnIds /\ [Next]_vars => OwnIds'
<1> SUFFICES ASSUME Inv, OwnIds, [Next]_vars PROVE OwnIds'
  OBVIOUS
<1>0. TypeOK
  BY DEF Inv
<1>1. ASSUME NEW c \in Check, NEW r, results' = [results EXCEPT ![c] = r], r.id = c
      PROVE  OwnIds'
  BY <1>0, <1>1 DEF OwnIds, TypeOK
<1>2. CASE UNCHANGED results
  BY <1>2 DEF OwnIds
<1>3. ASSUME NEW c \in Check, SkipTier2(c) \/ SkipParam(c) \/ MissingBin(c) PROVE OwnIds'
  <2>1. skipped(c).id = c
    BY DEF skipped
  <2>2. unavailable(c).id = c
    <3> DEFINE u == [id |-> c, status |-> "unavailable", trips |-> {}, steps |-> 0,
                     error |-> "", nils |-> TRUE]
    <3>1. u \in Results(Check) /\ u.id = c
      BY DEF Results, AnyStatus, Status, Severity, Cause
    <3>2. unavailable(c) = Normalize(u)
      BY DEF unavailable
    <3> HIDE DEF u
    <3> QED BY <3>1, <3>2, NormalizeHasStatus
  <2> QED BY <1>1, <1>3, <2>1, <2>2 DEF SkipTier2, SkipParam, MissingBin, Refuse
<1>4. ASSUME NEW c \in Check, Finish(c) PROVE OwnIds'
  <2>1. raw[c] \in RawResult /\ emitted[c] \in Nat
    BY <1>0, <1>4 DEF Inv, Progress, Finish, TypeOK
  <2> QED BY <1>1, <1>4, <2>1, OutcomeFacts DEF Finish
<1>5. ASSUME NEW c \in Check, Acquire(c) \/ Call(c) \/ Leave(c) \/ Body(c) \/ Expire(c)
      PROVE  UNCHANGED results
  BY <1>5 DEF Acquire, Call, Leave, Body, EmitAppend, EmitFanout, Return, Panic, Expire
<1>6. Spawn \/ Cancel \/ Collect \/ Returned \/ UNCHANGED vars => UNCHANGED results
  BY DEF Spawn, Cancel, Collect, Returned, vars
<1> QED BY <1>2, <1>3, <1>4, <1>5, <1>6 DEF Next, Runner

(* In every state of every run each result carries the id of its check.     *)
LEMMA IdsStay == Spec => []OwnIds
<1>1. Init => OwnIds
  BY DEF Init, OwnIds
<1> QED BY <1>1, IdsKept, Invariance, PTL DEF Spec

(* The check whose result SortResults puts at a place. *)
Order(i) == CHOOSE c \in selected : Place(c) = i

(* When Run has returned, SortResults has put every result at a place of its*)
(* own, in the order of the ids.                                            *)
LEMMA SortedIsInOrder ==
  ASSUME Inv, OwnIds, phase = "done"
  PROVE  /\ Cardinality(selected) \in Nat /\ IsFiniteSet(selected)
         /\ Sorted = [i \in 1 .. Cardinality(selected) |-> results[Order(i)]]
         /\ \A c \in selected : /\ results[c] # NoResult /\ results[c] \in Results(Check)
                                /\ results[c].id = c /\ results[c].status # Unset
         /\ \A i \in 1 .. Cardinality(selected) : Order(i) \in selected
         /\ \A c \in selected : \E i \in 1 .. Cardinality(selected) : Order(i) = c
         /\ \A i, j \in 1 .. Cardinality(selected) : i < j => Order(i) < Order(j)
<1> DEFINE n == Cardinality(selected)
<1>1. selected \in SUBSET Int /\ IsFiniteSet(selected) /\ selected \subseteq Check
  BY CheckAssumption, FS_Subset DEF Inv, TypeOK
<1>2. n \in Nat
  BY <1>1, FS_CardinalityType
<1>3. \A c \in selected : /\ results[c] # NoResult /\ results[c] \in Results(Check)
                          /\ results[c].id = c /\ results[c].status # Unset
  <2> SUFFICES ASSUME NEW c \in selected
               PROVE  /\ results[c] # NoResult /\ results[c] \in Results(Check)
                      /\ results[c].id = c /\ results[c].status # Unset
    OBVIOUS
  <2>1. c \in Check /\ pc[c] = "exited" /\ Progress(c)
    BY <1>1 DEF Inv
  <2>2. results[c] # NoResult
    BY <2>1 DEF Progress
  <2>3. Settled(c) /\ results[c] \in Results(Check)
    BY <2>1, <2>2 DEF Inv, TypeOK
  <2> QED BY <2>1, <2>2, <2>3 DEF Settled, OwnIds, Unset
<1>4. \A c \in selected : {d \in selected : results[d].id <= results[c].id}
                            = {d \in selected : d <= c}
  BY <1>3
<1>5. \A c \in selected : Place(c) = Cardinality({d \in selected : d <= c})
  BY <1>4 DEF Place
<1>6. /\ \A c \in selected : Place(c) \in 1 .. n
      /\ \A b, c \in selected : b < c => Place(b) < Place(c)
      /\ \A i \in 1 .. n : \E c \in selected : Place(c) = i
  <2> HIDE DEF n
  <2>1. /\ \A c \in selected : Cardinality({d \in selected : d <= c}) \in 1 .. n
        /\ \A b, c \in selected : b < c =>
             Cardinality({d \in selected : d <= b}) < Cardinality({d \in selected : d <= c})
        /\ \A i \in 1 .. n : \E c \in selected : Cardinality({d \in selected : d <= c}) = i
    BY <1>1, CountingOrders DEF n
  <2> QED BY <1>5, <2>1
<1>7. \A i \in 1 .. n : Order(i) \in selected /\ Place(Order(i)) = i
  BY <1>6 DEF Order
<1>8. \A b, c \in selected : Place(b) = Place(c) => b = c
  <2>1. \A b, c \in selected : b = c \/ b < c \/ c < b
    BY <1>1
  <2> QED BY <1>6, <2>1
<1>9. \A c \in selected : Order(Place(c)) = c
  BY <1>6, <1>7, <1>8
<1>10. \A i, j \in 1 .. n : i < j => Order(i) < Order(j)
  <2> SUFFICES ASSUME NEW i \in 1 .. n, NEW j \in 1 .. n, i < j PROVE Order(i) < Order(j)
    OBVIOUS
  <2>1. Order(i) \in selected /\ Order(j) \in selected
        /\ Place(Order(i)) = i /\ Place(Order(j)) = j
    BY <1>7
  <2>2. Order(i) = Order(j) \/ Order(j) < Order(i) \/ Order(i) < Order(j)
    <3>1. \A b, c \in selected : b = c \/ b < c \/ c < b
      BY <1>1
    <3> QED BY <2>1, <3>1
  <2>3. CASE Order(j) < Order(i)
    <3>1. Place(Order(j)) < Place(Order(i))
      BY <1>6, <2>1, <2>3
    <3> QED BY <1>2, <2>1, <3>1
  <2> QED BY <1>2, <2>1, <2>2, <2>3
<1> QED BY <1>1, <1>2, <1>3, <1>6, <1>7, <1>9, <1>10 DEF Sorted, Order

(* Run returns one result per check, in the order of the ids, each with a   *)
(* status, however many checks there are (Runner.Run, SortResults).         *)
THEOREM AlwaysComplete == Spec => []Complete
<1>1. Inv /\ OwnIds => Complete
  <2> SUFFICES ASSUME Inv, OwnIds, phase = "done"
               PROVE  /\ \A c \in selected : results[c] # NoResult
                      /\ Len(Sorted) = Cardinality(selected)
                      /\ \A i \in 1 .. Len(Sorted) :
                           /\ Sorted[i].id \in selected
                           /\ Sorted[i].status # Unset
                           /\ \A j \in 1 .. (i - 1) : Sorted[j].id < Sorted[i].id
    BY DEF Complete
  <2> DEFINE n == Cardinality(selected)
  <2>1. /\ n \in Nat
        /\ Sorted = [i \in 1 .. n |-> results[Order(i)]]
        /\ \A c \in selected : /\ results[c] # NoResult
                               /\ results[c].id = c /\ results[c].status # Unset
        /\ \A i \in 1 .. n : Order(i) \in selected
        /\ \A i, j \in 1 .. n : i < j => Order(i) < Order(j)
    BY SortedIsInOrder
  <2> HIDE DEF n
  <2>2. Len(Sorted) = n
    <3> DEFINE e(i) == results[Order(i)]
    <3>1. Sorted = [i \in 1 .. n |-> e(i)] /\ n \in Nat
      BY <2>1
    <3> HIDE DEF e
    <3> QED BY <3>1
  <2>3. \A i \in 1 .. n : Sorted[i].id = Order(i) /\ Sorted[i].status # Unset
    BY <2>1
  <2>4. \A i \in 1 .. n : \A j \in 1 .. (i - 1) : j \in 1 .. n /\ j < i
    BY <2>1
  <2> QED BY <2>1, <2>2, <2>3, <2>4 DEF n
<1> QED BY <1>1, Invariance, IdsStay, PTL

-----------------------------------------------------------------------------
(***************************************************************************)
(* The command                                                             *)
(***************************************************************************)

(***************************************************************************)
(* The inductive invariant, on top of the runner's.  A result says what its*)
(* check answered or "error", the report is what was assembled from results*)
(* that do not change any more, and the exit code is what the report and   *)
(* the flags call for.                                                     *)
(***************************************************************************)

(* Only the runner says "panic", and it says "error" with it. *)
PanicsAreErrors ==
  \A c \in Check : (raw[c] # NoRaw /\ raw[c].error = "panic") => raw[c].status = "error"

(* A result holds the status its check's own answer calls for, or "error". *)
Graded ==
  \A c \in Check : (results[c] # NoResult /\ raw[c] # NoRaw) =>
    results[c].status \in {OwnStatus(c), "error"}

Chosen ==
  /\ selected = Select
  /\ strict \in BOOLEAN /\ exitZero \in BOOLEAN
  /\ (Unmatched \/ selected = {}) => phase = "start"

Reported ==
  \/ report = NoReport /\ exit = NoExit /\ written = "no"
  \/ report = Failed /\ (Unmatched \/ selected = {})
  \/ report = New(selected) /\ phase = "done" /\ ~Unmatched /\ selected # {}

Ended ==
  \/ exit = NoExit /\ written = "no"
  \/ exit = code /\ written = "ok"
  \/ exit = ExitUnknown /\ written = "failed"

CmdInv ==
  Inv /\ OwnIds /\ PanicsAreErrors /\ Graded /\ Chosen /\ Reported /\ Ended

(***************************************************************************)
(* The verdict algebra                                                     *)
(***************************************************************************)

(* WorstOf is one of what it is given, or ok, and nothing it is given ranks *)
(* above it (check.WorstOf).                                                *)
LEMMA WorstIsWorst ==
  ASSUME NEW S \in SUBSET AnyStatus
  PROVE  /\ WorstOf(S) \in S \union {"ok"}
         /\ \A t \in S : rank(t) <= rank(WorstOf(S))
<1> DEFINE T == S \union {"ok"}
           worst(s) == s \in T /\ \A t \in T : rank(t) <= rank(s)
<1>0. \A t \in T : rank(t) \in 0 .. 6
  BY DEF rank
<1>1. \E s \in T : worst(s)
  <2>1. ASSUME NEW s \in T, NEW k \in 0 .. 6, rank(s) = k, \A t \in T : rank(t) <= k
        PROVE  worst(s)
    BY <2>1
  <2>2. CASE \E s \in T : rank(s) = 6
    BY <1>0, <2>1, <2>2
  <2>3. CASE (\A t \in T : rank(t) # 6) /\ \E s \in T : rank(s) = 5
    <3>1. \A t \in T : rank(t) <= 5
      BY <1>0, <2>3
    <3> QED BY <2>1, <2>3, <3>1
  <2>4. CASE (\A t \in T : rank(t) \notin {5, 6}) /\ \E s \in T : rank(s) = 4
    <3>1. \A t \in T : rank(t) <= 4
      BY <1>0, <2>4
    <3> QED BY <2>1, <2>4, <3>1
  <2>5. CASE (\A t \in T : rank(t) \notin {4, 5, 6}) /\ \E s \in T : rank(s) = 3
    <3>1. \A t \in T : rank(t) <= 3
      BY <1>0, <2>5
    <3> QED BY <2>1, <2>5, <3>1
  <2>6. CASE (\A t \in T : rank(t) \notin {3, 4, 5, 6}) /\ \E s \in T : rank(s) = 2
    <3>1. \A t \in T : rank(t) <= 2
      BY <1>0, <2>6
    <3> QED BY <2>1, <2>6, <3>1
  <2>7. CASE (\A t \in T : rank(t) \notin {2, 3, 4, 5, 6}) /\ \E s \in T : rank(s) = 1
    <3>1. \A t \in T : rank(t) <= 1
      BY <1>0, <2>7
    <3> QED BY <2>1, <2>7, <3>1
  <2>8. CASE \A t \in T : rank(t) \notin {1, 2, 3, 4, 5, 6}
    <3>1. \A t \in T : rank(t) <= 0
      BY <1>0, <2>8
    <3>2. "ok" \in T /\ rank("ok") = 0
      BY DEF rank
    <3> QED BY <2>1, <3>1, <3>2
  <2> QED BY <2>2, <2>3, <2>4, <2>5, <2>6, <2>7, <2>8
<1>2. WorstOf(S) = CHOOSE s \in T : \A t \in T : rank(t) <= rank(s)
  BY DEF WorstOf
<1>3. worst(WorstOf(S))
  BY <1>1, <1>2
<1> QED BY <1>3

(* A status in the enum that ranks no higher than unavailable is one of the *)
(* three that exit 0, and only crit ranks as high as crit.                  *)
LEMMA RanksTell ==
  /\ \A s \in AnyStatus : rank(s) <= 2 => s \in {"ok", "skipped", "unavailable"}
  /\ \A s \in {"ok", "skipped", "unavailable"} : rank(s) <= 2
  /\ \A s \in Status : rank(s) >= 5 => s = "crit"
  /\ rank("crit") = 5 /\ rank("ok") = 0 /\ rank("warn") = 3
  /\ \A s \in AnyStatus : rank(s) \in 0 .. 6
  BY DEF AnyStatus, Status, Unset, Unrecognised, rank

(* Exit code 0 belongs to the three statuses that are no finding, and no    *)
(* status has a code that means the process has not ended (exitcode).       *)
LEMMA CodesTell ==
  \A s \in AnyStatus :
    /\ ExitCode(s) \in 0 .. 3
    /\ ExitCode(s) = ExitOK => s \in {"ok", "skipped", "unavailable"}
    /\ s = "crit" => ExitCode(s) = ExitCrit
    /\ s = "error" => ExitCode(s) = ExitUnknown
<1> TAKE s \in AnyStatus
<1>1. CASE s \in {"ok", "skipped", "unavailable"}
  BY <1>1 DEF ExitCode, ExitOK, ExitWarn, ExitCrit, ExitUnknown
<1>2. CASE s \in {"warn", "crit"}
  BY <1>2 DEF ExitCode, ExitOK, ExitWarn, ExitCrit, ExitUnknown
<1>3. CASE s \in {"error", Unset, Unrecognised}
  <2>1. s \notin {"ok", "skipped", "unavailable", "warn", "crit"}
    BY <1>3 DEF Unset, Unrecognised
  <2>2. ExitCode(s) = ExitUnknown
    BY <2>1 DEF ExitCode
  <2> QED BY <2>1, <2>2 DEF ExitOK, ExitUnknown
<1> QED BY <1>1, <1>2, <1>3 DEF AnyStatus, Status

(***************************************************************************)
(* The invariant is kept                                                   *)
(***************************************************************************)

(* The three documents that Reported tells apart are three. *)
LEMMA DocumentsDiffer ==
  /\ NoReport # Failed /\ NoReport # New(selected) /\ Failed # New(selected)
  /\ Failed.failed /\ ~New(selected).failed
  /\ Failed.exitCode = ExitUnknown
<1>1. Failed.failed = TRUE /\ New(selected).failed = FALSE
  BY DEF Failed, New
<1>2. Failed.exitCode = ExitUnknown
  BY DEF Failed, ExitCode
<1>3. "failed" \in DOMAIN Failed /\ "failed" \in DOMAIN New(selected)
  BY DEF Failed, New
<1>4. DOMAIN NoReport = {"none"}
  BY DEF NoReport
<1> QED BY <1>1, <1>2, <1>3, <1>4

(* Before the run nothing is reported and the process has no exit code. *)
LEMMA CmdInitInv == CmdInit => CmdInv
<1> SUFFICES ASSUME CmdInit PROVE CmdInv
  OBVIOUS
<1>1. Inv
  BY InitInv DEF CmdInit
<1>2. OwnIds /\ PanicsAreErrors /\ Graded
  BY DEF CmdInit, Init, OwnIds, PanicsAreErrors, Graded
<1> QED BY <1>1, <1>2 DEF CmdInv, CmdInit, Init, Chosen, Reported, Ended

(* The runner's steps keep a panic an error and a result what its check's   *)
(* answer calls for (call's recover, runOne).                               *)
LEMMA RunnerKeepsGrades ==
  Inv /\ PanicsAreErrors /\ Graded /\ [Next]_vars => PanicsAreErrors' /\ Graded'
<1> SUFFICES ASSUME Inv, PanicsAreErrors, Graded, [Next]_vars
             PROVE  PanicsAreErrors' /\ Graded'
  OBVIOUS
<1>0. TypeOK
  BY DEF Inv
<1>1. CASE UNCHANGED <<raw, results>>
  BY <1>1 DEF PanicsAreErrors, Graded, OwnStatus
<1>2. Spawn \/ Cancel \/ Collect \/ Returned \/ UNCHANGED vars => UNCHANGED <<raw, results>>
  BY DEF Spawn, Cancel, Collect, Returned, vars
<1>3. ASSUME NEW c \in Check, Acquire(c) \/ Call(c) \/ Leave(c) \/ Expire(c)
                              \/ EmitAppend(c) \/ EmitFanout(c)
      PROVE  UNCHANGED <<raw, results>>
  BY <1>3 DEF Acquire, Call, Leave, Expire, EmitAppend, EmitFanout
<1>4. ASSUME NEW c \in Check, SkipTier2(c) \/ SkipParam(c) \/ MissingBin(c)
      PROVE  PanicsAreErrors' /\ Graded'
  <2>1. pc[c] = "slotted" /\ raw' = raw /\ \A d \in Check \ {c} : results'[d] = results[d]
    BY <1>0, <1>4 DEF SkipTier2, SkipParam, MissingBin, Refuse, TypeOK
  <2>2. raw[c] = NoRaw
    BY <2>1 DEF Inv, Progress, Untouched
  <2> QED BY <2>1, <2>2 DEF PanicsAreErrors, Graded, OwnStatus
<1>5. ASSUME NEW c \in Check, Finish(c) PROVE PanicsAreErrors' /\ Graded'
  <2>1. /\ raw[c] \in RawResult /\ emitted[c] \in Nat
        /\ raw' = raw /\ results'[c] = outcome(c)
        /\ \A d \in Check \ {c} : results'[d] = results[d]
    BY <1>0, <1>5 DEF Finish, Inv, Progress, TypeOK
  <2>2. outcome(c).status \in {OwnStatus(c), "error"}
    BY <2>1, OutcomeFacts DEF OwnStatus
  <2> QED BY <2>1, <2>2 DEF PanicsAreErrors, Graded, OwnStatus
<1>6. ASSUME NEW c \in Check, Return(c) \/ Panic(c) PROVE PanicsAreErrors' /\ Graded'
  <2>1. results' = results /\ results[c] = NoResult
        /\ \A d \in Check \ {c} : raw'[d] = raw[d]
    BY <1>0, <1>6 DEF Return, Panic, Inv, Progress, TypeOK
  <2>2. raw'[c] \in Outcome \/ raw'[c] = panicked
    BY <1>0, <1>6 DEF Return, Panic, TypeOK
  <2>3. raw'[c].error = "panic" => raw'[c].status = "error"
    <3>1. CASE raw'[c] \in Outcome
      <4>1. raw'[c].error \in {"", "own"}
        BY <3>1, OutcomeAssumption
      <4> QED BY <4>1
    <3>2. CASE raw'[c] = panicked
      BY <3>2 DEF panicked
    <3> QED BY <2>2, <3>1, <3>2
  <2> QED BY <2>1, <2>3 DEF PanicsAreErrors, Graded, OwnStatus
<1> QED BY <1>1, <1>2, <1>3, <1>4, <1>5, <1>6 DEF Next, Runner, Body

(* Every step of the command keeps its invariant. *)
LEMMA CmdNextInv == CmdInv /\ [CmdNext]_cmdVars => CmdInv'
<1> SUFFICES ASSUME CmdInv, [CmdNext]_cmdVars PROVE CmdInv'
  OBVIOUS
<1>1. [Next]_vars
  BY DEF CmdNext, cmdVars, RefuseRun, RunStep, Assemble, Emit, Exited
<1>2. Inv' /\ OwnIds' /\ PanicsAreErrors' /\ Graded'
  BY <1>1, NextInv, IdsKept, RunnerKeepsGrades DEF CmdInv
<1>3. UNCHANGED options /\ selected' = selected
  <2>1. [Next]_vars => selected' = selected
    BY DEF Next, Returned, Spawn, Cancel, Collect, Runner, Body, Acquire, SkipTier2,
           SkipParam, MissingBin, Refuse, Call, Finish, Leave, EmitAppend, EmitFanout, Return,
           Panic, Expire, vars, runVars
  <2> QED BY <1>1, <2>1 DEF CmdNext, cmdVars, RefuseRun, RunStep, Assemble, Emit, Exited
<1>4. (Unmatched' <=> Unmatched) /\ Select' = Select
  BY <1>3 DEF options, Unmatched, Select, match
<1>5. UNCHANGED vars => New(selected)' = New(selected)
  BY DEF vars, New, Tally, Sorted, Place
<1>6. CASE RunStep
  <2>1. report = NoReport /\ exit = NoExit /\ written = "no"
    BY <1>6, DocumentsDiffer DEF CmdInv, Reported, RunStep, Ended, Emit
  <2> QED BY <1>2, <1>3, <1>4, <1>6, <2>1
          DEF CmdInv, Chosen, Reported, Ended, RunStep, options
<1>7. CASE RefuseRun \/ Assemble
  <2>1. /\ report = NoReport /\ exit = NoExit /\ written = "no"
        /\ UNCHANGED <<vars, options, written, exit>>
    BY <1>7, DocumentsDiffer DEF RefuseRun, Assemble, CmdInv, Reported
  <2>2. Chosen'
    BY <1>4, <2>1 DEF CmdInv, Chosen, options, vars
  <2>3. Ended'
    BY <2>1 DEF CmdInv, Ended, NoExit, ExitUnknown
  <2>4. Reported'
    BY <1>4, <1>5, <1>7, <2>1 DEF RefuseRun, Assemble, Reported, CmdInv, Chosen, vars, Failed
  <2> QED BY <1>2, <2>2, <2>3, <2>4 DEF CmdInv
<1>8. CASE Emit \/ Exited \/ UNCHANGED cmdVars
  <2>1. UNCHANGED <<vars, options, report>>
    BY <1>8 DEF Emit, Exited, cmdVars
  <2>2. code' = code
    BY <2>1 DEF code, options, notDetermined
  <2>3. Chosen'
    BY <1>4, <2>1 DEF CmdInv, Chosen, options, vars
  <2>4. Ended'
    BY <1>8, <2>2 DEF CmdInv, Ended, Emit, Exited, cmdVars
  <2>5. Reported'
    BY <1>4, <1>5, <1>8, <2>1 DEF CmdInv, Reported, Emit, Exited, cmdVars, vars, Failed
  <2> QED BY <1>2, <2>3, <2>4, <2>5 DEF CmdInv
<1> QED BY <1>6, <1>7, <1>8 DEF CmdNext

(* The command's invariant holds in every state of every run: a report never*)
(* goes stale, and the exit code is always the report's and the flags'.     *)
THEOREM CommandInvariant == CmdSpec => []CmdInv
<1> QED BY CmdInitInv, CmdNextInv, PTL DEF CmdSpec

(***************************************************************************)
(* What the document and the exit code say                                 *)
(***************************************************************************)

(* The report of a run that was not refused: it stands on settled results,  *)
(* one per check asked for, and no result outranks its status (report.New). *)
LEMMA ReportStands ==
  ASSUME CmdInv, report # NoReport, ~report.failed
  PROVE  /\ report = New(selected) /\ phase = "done" /\ selected # {}
         /\ report.status = WorstOf({results[c].status : c \in selected})
         /\ report.status \in {results[c].status : c \in selected} \union {"ok"}
         /\ report.status \in AnyStatus
         /\ report.exitCode = ExitCode(report.status)
         /\ \A s \in Status : report.counts[s] =
              Cardinality({c \in selected : CountedAs(results[c].status) = s})
         /\ \A c \in selected : /\ c \in Check /\ results[c] # NoResult
                                /\ results[c] \in Results(Check)
                                /\ results[c].status \in AnyStatus \ {Unset}
                                /\ rank(results[c].status) <= rank(report.status)
<1>1. report = New(selected) /\ phase = "done" /\ selected # {}
  BY DocumentsDiffer DEF CmdInv, Reported
<1> DEFINE S == {results[c].status : c \in selected}
<1>2. \A c \in selected : /\ c \in Check /\ results[c] # NoResult
                          /\ results[c] \in Results(Check)
                          /\ results[c].status \in AnyStatus \ {Unset}
  <2>1. \A c \in selected : /\ results[c] # NoResult /\ results[c] \in Results(Check)
                            /\ results[c].status # Unset
    BY <1>1, SortedIsInOrder DEF CmdInv
  <2>2. \A r \in Results(Check) : r.status \in AnyStatus
    BY DEF Results
  <2> QED BY <2>1, <2>2 DEF CmdInv, Inv, TypeOK
<1>3. S \in SUBSET AnyStatus
  BY <1>2
<1>4. /\ report.status = WorstOf(S)
      /\ report.exitCode = ExitCode(report.status)
      /\ \A s \in Status : report.counts[s] =
           Cardinality({c \in selected : CountedAs(results[c].status) = s})
  BY <1>1 DEF New, Tally
<1> HIDE DEF S
<1>5. WorstOf(S) \in S \union {"ok"} /\ \A t \in S : rank(t) <= rank(WorstOf(S))
  BY <1>3, WorstIsWorst
<1>6. "ok" \in AnyStatus
  BY DEF AnyStatus, Status
<1>7. \A c \in selected : results[c].status \in S
  BY DEF S
<1> QED BY <1>1, <1>2, <1>3, <1>4, <1>5, <1>6, <1>7 DEF S

(* A refused run has the empty document and never exits green by itself.    *)
LEMMA ExitIsTheReports ==
  ASSUME CmdInv, exit # NoExit
  PROVE  /\ report # NoReport
         /\ report.failed => report.exitCode = ExitUnknown
         /\ written = "ok" => exit = code
         /\ exit = code \/ exit = ExitUnknown
         /\ report = Failed \/ ~report.failed
<1>1. report # NoReport /\ (report = Failed \/ ~report.failed)
  BY DocumentsDiffer DEF CmdInv, Reported
<1> QED BY <1>1, DocumentsDiffer DEF CmdInv, Ended, Reported

(* Exit code 0 without --exit-zero means green, for any registry and any    *)
(* answers: no check asked for tripped, broke, panicked or ran out of time, *)
(* and under --strict each looked and found its part of the host well       *)
(* (checkcmd's exit, report.New).                                           *)
THEOREM GreenIsGreen == CmdSpec => []GreenMeansGreen
<1>1. CmdInv => GreenMeansGreen
  <2> SUFFICES ASSUME CmdInv, exit = ExitOK, ~exitZero
               PROVE  /\ ~report.failed /\ selected # {}
                      /\ \A c \in selected :
                           /\ results[c].status \in {"ok", "skipped", "unavailable"}
                           /\ c \notin expired
                           /\ raw[c] # NoRaw =>
                                /\ raw[c].error # "panic"
                                /\ raw[c].status = Unset => raw[c].trips \subseteq {"ok"}
                           /\ strict => raw[c] # NoRaw /\ results[c].status = "ok"
    BY DEF GreenMeansGreen
  <2>1. exit # NoExit /\ exit # ExitUnknown
    BY DEF NoExit, ExitOK, ExitUnknown
  <2>2. /\ report # NoReport /\ exit = code
        /\ report.failed => report.exitCode = ExitUnknown
        /\ report = Failed \/ ~report.failed
    BY <2>1, ExitIsTheReports
  <2>3. /\ report.exitCode = ExitOK
        /\ ~(strict /\ notDetermined(report.counts) > 0)
    BY <2>2 DEF code, ExitOK, ExitUnknown
  <2>4. ~report.failed
    BY <2>2, <2>3 DEF ExitOK, ExitUnknown
  <2>5. /\ selected # {} /\ phase = "done"
        /\ report.status \in AnyStatus
        /\ report.exitCode = ExitCode(report.status)
        /\ \A s \in Status : report.counts[s] =
             Cardinality({c \in selected : CountedAs(results[c].status) = s})
        /\ \A c \in selected : /\ c \in Check /\ results[c] # NoResult
                               /\ results[c].status \in AnyStatus \ {Unset}
                               /\ rank(results[c].status) <= rank(report.status)
    BY <2>2, <2>4, ReportStands
  <2>6. report.status \in {"ok", "skipped", "unavailable"}
    BY <2>3, <2>5, CodesTell
  <2>7. \A c \in selected : results[c].status \in {"ok", "skipped", "unavailable"}
    <3> SUFFICES ASSUME NEW c \in selected
                 PROVE  results[c].status \in {"ok", "skipped", "unavailable"}
      OBVIOUS
    <3>1. /\ rank(report.status) <= 2
          /\ rank(results[c].status) \in 0 .. 6 /\ rank(report.status) \in 0 .. 6
      BY <2>5, <2>6, RanksTell
    <3>2. rank(results[c].status) <= 2
      BY <2>5, <3>1
    <3> QED BY <2>5, <3>2, RanksTell
  <2>8. ASSUME NEW c \in selected, strict
        PROVE  results[c].status = "ok"
    <3> DEFINE Of(s) == {d \in selected : CountedAs(results[d].status) = s}
    <3>1. IsFiniteSet(selected)
      BY CheckAssumption, FS_Subset DEF CmdInv, Inv, TypeOK
    <3>2. \A s \in Status : /\ IsFiniteSet(Of(s)) /\ Cardinality(Of(s)) \in Nat
                            /\ report.counts[s] = Cardinality(Of(s))
      BY <2>5, <3>1, FS_Subset, FS_CardinalityType
    <3>3. "skipped" \in Status /\ "unavailable" \in Status
      BY DEF Status
    <3>4. Cardinality(Of("skipped")) = 0 /\ Cardinality(Of("unavailable")) = 0
      <4> HIDE DEF Of
      <4> QED BY <2>3, <2>8, <3>2, <3>3 DEF notDetermined
    <3>5. Of("skipped") = {} /\ Of("unavailable") = {}
      <4> HIDE DEF Of
      <4> QED BY <3>2, <3>3, <3>4, FS_EmptySet
    <3>6. CountedAs(results[c].status) = results[c].status
      BY <2>7 DEF CountedAs, Status
    <3> QED BY <2>7, <3>5, <3>6
  <2>9. ASSUME NEW c \in selected
        PROVE  /\ c \notin expired
               /\ raw[c] # NoRaw =>
                    /\ raw[c].error # "panic"
                    /\ raw[c].status = Unset => raw[c].trips \subseteq {"ok"}
               /\ strict => raw[c] # NoRaw
    <3>1. /\ c \in Check /\ results[c] # NoResult /\ Settled(c)
          /\ raw[c] \in RawResult \union {NoRaw}
      BY <2>5 DEF CmdInv, Inv, TypeOK
    <3>2. c \notin expired /\ (strict => raw[c] # NoRaw)
      BY <2>7, <2>8, <3>1 DEF Settled, Untouched
    <3>3. ASSUME raw[c] # NoRaw PROVE raw[c].status # "error" /\ raw[c].error # "panic"
      <4>1. results[c].status = OwnStatus(c)
        BY <2>7, <3>1, <3>3 DEF CmdInv, Graded
      <4>2. raw[c].status # "error"
        BY <2>7, <4>1 DEF OwnStatus, Unset
      <4> QED BY <3>1, <3>3, <4>2 DEF CmdInv, PanicsAreErrors
    <3>4. ASSUME raw[c] # NoRaw, raw[c].status = Unset PROVE raw[c].trips \subseteq {"ok"}
      <4> DEFINE S == {FromSeverity(t) : t \in raw[c].trips}
      <4>1. raw[c].trips \in SUBSET Severity
        BY <3>1, <3>4 DEF RawResult
      <4>2. S \in SUBSET AnyStatus /\ \A t \in raw[c].trips : FromSeverity(t) = t /\ t \in S
        BY <4>1 DEF FromSeverity, Severity, AnyStatus, Status
      <4>3. WorstOf(S) \in {"ok", "skipped", "unavailable"}
        BY <2>7, <3>1, <3>4 DEF CmdInv, Graded, OwnStatus
      <4> HIDE DEF S
      <4>4. \A t \in S : rank(t) <= rank(WorstOf(S))
        BY <4>2, WorstIsWorst
      <4>5. rank(WorstOf(S)) <= 2 /\ rank(WorstOf(S)) \in 0 .. 6
        BY <4>3, RanksTell DEF AnyStatus, Status
      <4>6. ASSUME NEW t \in raw[c].trips PROVE t = "ok"
        <5>1. t \in Severity /\ t \in S /\ t \in AnyStatus
          BY <4>1, <4>2
        <5>2. rank(t) <= 2
          BY <4>4, <4>5, <5>1, RanksTell
        <5> QED BY <5>1, <5>2, RanksTell DEF Severity
      <4> QED BY <4>6
    <3> QED BY <3>2, <3>3, <3>4
  <2> QED BY <2>4, <2>5, <2>7, <2>8, <2>9
<1> QED BY <1>1, CommandInvariant, PTL

(* A critical finding that came back in time makes the process exit 2,      *)
(* whatever the other checks did and however many there are, unless it was  *)
(* told to exit 0, could not write, or a check invented a status.           *)
THEOREM CritIsAlwaysHeard == CmdSpec => []CritIsHeard
<1>1. CmdInv => CritIsHeard
  <2> SUFFICES ASSUME CmdInv, written = "ok", ~exitZero,
                      \A c \in selected : results[c].status \in Status,
                      NEW c \in selected, raw[c] # NoRaw, ~CtxDone(c),
                      raw[c].status = Unset, "crit" \in raw[c].trips
               PROVE  exit = ExitCrit
    BY DEF CritIsHeard
  <2>1. report # NoReport /\ exit = code
    BY DocumentsDiffer DEF CmdInv, Ended, Reported
  <2>2. c \in Check /\ ~(Unmatched \/ selected = {})
    BY DEF CmdInv, Inv, TypeOK, Chosen, Progress, Untouched
  <2>3. ~report.failed
    BY <2>1, <2>2, DocumentsDiffer DEF CmdInv, Reported
  <2>4. /\ report.status \in {results[d].status : d \in selected} \union {"ok"}
        /\ report.exitCode = ExitCode(report.status)
        /\ report.status \in AnyStatus
        /\ results[c] # NoResult /\ rank(results[c].status) <= rank(report.status)
    BY <2>1, <2>3, ReportStands
  <2>5. results[c].status = "crit"
    <3> DEFINE S == {FromSeverity(t) : t \in raw[c].trips}
    <3>1. Settled(c) /\ raw[c] \in RawResult
      BY <2>2, <2>4 DEF CmdInv, Inv, TypeOK
    <3>2. results[c].status = WorstOf(S)
      BY <3>1 DEF Settled, Untouched, OwnStatus
    <3>3. S \in SUBSET Severity
      BY DEF FromSeverity, Severity
    <3>4. "crit" \in S
      BY DEF FromSeverity
    <3> HIDE DEF S
    <3>5. S \in SUBSET AnyStatus /\ WorstOf(S) \in Severity
      BY <3>3, WorstOfSeverities DEF Severity, AnyStatus, Status
    <3>6. rank("crit") <= rank(WorstOf(S))
      BY <3>4, <3>5, WorstIsWorst
    <3>7. WorstOf(S) \in Status /\ rank(WorstOf(S)) >= 5
      BY <3>5, <3>6, RanksTell DEF Severity, Status
    <3> QED BY <3>2, <3>7, RanksTell
  <2>6. report.status = "crit"
    <3>1. report.status \in Status
      BY <2>4 DEF Status
    <3>2. rank(report.status) >= 5
      BY <2>4, <2>5, RanksTell
    <3> QED BY <3>1, <3>2, RanksTell
  <2>7. report.exitCode = ExitCrit
    BY <2>4, <2>6 DEF ExitCode
  <2> QED BY <2>1, <2>7 DEF code, ExitCrit, ExitOK
<1> QED BY <1>1, CommandInvariant, PTL

(* A selector that names nothing is loud, and a check the operator excluded *)
(* is not touched, for any selectors (Registry.Select).                     *)
THEOREM OnlyTheAskedRun == CmdSpec => []OnlyWhatWasAsked
<1>1. CmdInv => OnlyWhatWasAsked
  <2> SUFFICES ASSUME CmdInv PROVE OnlyWhatWasAsked
    OBVIOUS
  <2>1. ASSUME Unmatched
        PROVE  /\ \A c \in Check : pc[c] = "idle"
               /\ exit \in {NoExit, ExitUnknown, IF exitZero THEN ExitOK ELSE NoExit}
    <3>1. phase = "start"
      BY <2>1 DEF CmdInv, Chosen
    <3>2. \A c \in Check : pc[c] = "idle"
      BY <3>1 DEF CmdInv, Inv, Progress
    <3>3. CASE exit # NoExit
      <4>1. report = Failed /\ (exit = code \/ exit = ExitUnknown)
        BY <2>1, <3>3, ExitIsTheReports DEF CmdInv, Reported
      <4>2. report.exitCode = ExitUnknown
        BY <4>1, DocumentsDiffer
      <4> QED BY <3>2, <4>1, <4>2 DEF code, ExitOK, ExitUnknown
    <3> QED BY <3>2, <3>3
  <2>2. ASSUME NEW c \in Check, NEW s \in exclude, c \in match(s) PROVE pc[c] = "idle"
    <3>1. c \notin selected
      BY <2>2 DEF CmdInv, Chosen, Select
    <3> QED BY <3>1 DEF CmdInv, Inv, Progress
  <2> QED BY <2>1, <2>2 DEF OnlyWhatWasAsked
<1> QED BY <1>1, CommandInvariant, PTL

(* The keys of one document do not disagree, for any number of checks and   *)
(* whatever they answered: the counts count its checks, no check is missing *)
(* or listed twice, the status is the worst and the exit code is the        *)
(* status's (report.New).                                                   *)
THEOREM DocumentsAlwaysAgree == CmdSpec => []DocumentAgrees
<1>1. CmdInv => DocumentAgrees
  <2> DEFINE n == Cardinality(selected)
             listed == report.checks
  <2> SUFFICES ASSUME CmdInv, report # NoReport, ~report.failed
               PROVE  /\ {listed[i].id : i \in 1 .. Len(listed)} = selected
                      /\ Len(listed) = n
                      /\ \A s \in Status : report.counts[s] =
                           Cardinality({i \in 1 .. Len(listed) :
                                          CountedAs(listed[i].status) = s})
                      /\ \A i \in 1 .. Len(listed) :
                           /\ rank(listed[i].status) <= rank(report.status)
                           /\ ~listed[i].nils
                      /\ report.exitCode = ExitCode(report.status)
    BY DEF DocumentAgrees
  <2>1. /\ report = New(selected) /\ phase = "done"
        /\ report.exitCode = ExitCode(report.status)
        /\ \A s \in Status : report.counts[s] =
             Cardinality({c \in selected : CountedAs(results[c].status) = s})
        /\ \A c \in selected : /\ results[c] \in Results(Check)
                               /\ results[c].status # Unset
                               /\ rank(results[c].status) <= rank(report.status)
    BY ReportStands
  <2>2. /\ n \in Nat /\ IsFiniteSet(selected)
        /\ Sorted = [i \in 1 .. n |-> results[Order(i)]]
        /\ \A c \in selected : results[c].id = c
        /\ \A i \in 1 .. n : Order(i) \in selected
        /\ \A c \in selected : \E i \in 1 .. n : Order(i) = c
        /\ \A i, j \in 1 .. n : i < j => Order(i) < Order(j)
    BY <2>1, SortedIsInOrder DEF CmdInv
  <2>3. listed = [i \in 1 .. n |-> Normalize(results[Order(i)])]
    <3>1. listed = [i \in DOMAIN Sorted |-> Normalize(Sorted[i])]
      BY <2>1 DEF New
    <3> HIDE DEF n, listed
    <3>2. DOMAIN Sorted = 1 .. n /\ \A i \in 1 .. n : Sorted[i] = results[Order(i)]
      BY <2>2
    <3> QED BY <3>1, <3>2
  <2>4. \A i \in 1 .. n : /\ listed[i].id = Order(i)
                          /\ listed[i].status = results[Order(i)].status
                          /\ listed[i].nils = FALSE
    <3> SUFFICES ASSUME NEW i \in 1 .. n
                 PROVE  /\ listed[i].id = Order(i)
                        /\ listed[i].status = results[Order(i)].status
                        /\ listed[i].nils = FALSE
      OBVIOUS
    <3> DEFINE r == results[Order(i)]
    <3>1. r \in Results(Check) /\ r.status # Unset /\ r.id = Order(i)
      BY <2>1, <2>2
    <3>2. listed[i] = Normalize(r)
      BY <2>3
    <3> HIDE DEF r, listed
    <3>3. /\ Normalize(r).id = r.id /\ Normalize(r).nils = FALSE
          /\ Normalize(r).status = r.status
      BY <3>1, NormalizeHasStatus
    <3> QED BY <3>1, <3>2, <3>3 DEF r
  <2>5. Len(listed) = n
    <3> DEFINE e(i) == Normalize(results[Order(i)])
    <3>1. listed = [i \in 1 .. n |-> e(i)] /\ n \in Nat
      BY <2>2, <2>3
    <3> HIDE DEF e, n, listed
    <3> QED BY <3>1
  <2> HIDE DEF n, listed
  <2>6. {listed[i].id : i \in 1 .. n} = selected
    BY <2>2, <2>4
  <2>7. \A i \in 1 .. n : rank(listed[i].status) <= rank(report.status) /\ ~listed[i].nils
    BY <2>1, <2>2, <2>4
  <2>8. ASSUME NEW s \in Status
        PROVE  Cardinality({i \in 1 .. n : CountedAs(listed[i].status) = s})
                 = Cardinality({c \in selected : CountedAs(results[c].status) = s})
    <3> DEFINE I == {i \in 1 .. n : CountedAs(listed[i].status) = s}
               C == {c \in selected : CountedAs(results[c].status) = s}
               f == [i \in I |-> Order(i)]
    <3>1. IsFiniteSet(I)
      <4>1. I \subseteq 1 .. n
        OBVIOUS
      <4>2. IsFiniteSet(1 .. n)
        BY <2>2, FS_Interval
      <4> HIDE DEF I
      <4> QED BY <4>1, <4>2, FS_Subset
    <3>2. f \in [I -> C] /\ \A i \in I : f[i] = Order(i)
      BY <2>2, <2>4
    <3>3. \A i, j \in I : i # j => f[i] # f[j]
      <4>1. selected \subseteq Int
        BY CheckAssumption DEF CmdInv, Inv, TypeOK
      <4>2. \A i, j \in 1 .. n : i = j \/ i < j \/ j < i
        <5>1. \A i, j \in Int : i = j \/ i < j \/ j < i
          OBVIOUS
        <5> QED BY <2>2, <5>1
      <4>3. ASSUME NEW i \in 1 .. n, NEW j \in 1 .. n, i # j PROVE Order(i) # Order(j)
        <5>1. Order(i) \in Int /\ Order(j) \in Int
          BY <2>2, <4>1
        <5>2. Order(i) < Order(j) \/ Order(j) < Order(i)
          BY <2>2, <4>2, <4>3
        <5> QED BY <5>1, <5>2
      <4> QED BY <3>2, <4>3
    <3>4. \A c \in C : \E i \in I : f[i] = c
      BY <2>2, <2>4, <3>2
    <3> HIDE DEF I, C, f
    <3>5. f \in Bijection(I, C)
      BY <3>2, <3>3, <3>4 DEF Bijection, Injection, Surjection, IsInjective
    <3>6. ExistsBijection(I, C)
      BY <3>5 DEF ExistsBijection
    <3>7. Cardinality(C) = Cardinality(I)
      BY <3>1, <3>6, FS_Bijection
    <3> QED BY <3>7 DEF I, C
  <2> QED BY <2>1, <2>5, <2>6, <2>7, <2>8 DEF n
<1> QED BY <1>1, CommandInvariant, PTL

=============================================================================
