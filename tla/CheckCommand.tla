---------------------------- MODULE CheckCommand -----------------------------
(***************************************************************************)
(* `fleetfix check`: the registry turns the --check and --exclude          *)
(* selectors into the checks to run, the runner of CheckRunner runs them,  *)
(* internal/report derives one verdict from the results, and checkcmd      *)
(* writes the document and turns the verdict into the exit code.           *)
(***************************************************************************)
EXTENDS CheckRunner

CONSTANTS
  Domain,      (* each check's domain, named by a number that is no id      *)
  InDefault,   (* the checks a run without --check includes                 *)
  Selector     (* what an operator may type: ids, domains, and typos        *)

ASSUME CommandAssumption ==
  /\ Domain \in [Check -> Int \ Check]
  /\ InDefault \subseteq Check
  /\ Selector \subseteq Int

VARIABLES
  include, exclude,   (* the selectors given                          *)
  strict, exitZero,   (* the two flags                                *)
  report,             (* the document, NoReport until it is assembled *)
  written,            (* "no", "ok" or "failed"                       *)
  exit                (* the process's exit code, NoExit until it ends*)

options == <<include, exclude, strict, exitZero>>
cmdVars == <<vars, options, report, written, exit>>

NoReport == [none |-> TRUE]
NoExit   == -1

-----------------------------------------------------------------------------
(* Registry.Select *)

match(sel) == IF sel \in Check THEN {sel} ELSE {c \in Check : Domain[c] = sel}

Unmatched == \E sel \in include \union exclude : match(sel) = {}

(* Select with --exclude understood as ids only. *)
SelectExcludingIds ==
  IF Unmatched THEN {}
  ELSE (IF include = {} THEN InDefault ELSE UNION {match(s) : s \in include}) \ exclude

Select ==
  IF Unmatched THEN {}
  ELSE (IF include = {} THEN InDefault ELSE UNION {match(s) : s \in include})
         \ UNION {match(s) : s \in exclude}

(* New with the results as they came. *)
NewUnnormalised(ids) ==
  LET tally == Tally(results, ids)
  IN  [counts |-> tally.counts, status |-> tally.status,
       exitCode |-> ExitCode(tally.status), failed |-> FALSE, checks |-> Sorted]

(* report.New: the verdict is tallied from the results as they came, the    *)
(* checks of the document are normalised and sorted copies of them.         *)
New(ids) ==
  LET tally == Tally(results, ids)
  IN  [counts |-> tally.counts, status |-> tally.status,
       exitCode |-> ExitCode(tally.status), failed |-> FALSE,
       checks |-> [i \in DOMAIN Sorted |-> Normalize(Sorted[i])]]

Failed ==
  [counts |-> [s \in Status |-> 0], status |-> "error",
   exitCode |-> ExitCode("error"), failed |-> TRUE, checks |-> <<>>]

(* notDetermined with a missing program not counted. *)
notDeterminedSkipped(counts) == counts["skipped"]

notDetermined(counts) == counts["skipped"] + counts["unavailable"]

code ==
  IF exitZero THEN ExitOK
  ELSE IF strict /\ report.exitCode = ExitOK /\ notDetermined(report.counts) > 0
       THEN ExitUnknown
       ELSE report.exitCode

-----------------------------------------------------------------------------
CmdInit ==
  /\ Init
  /\ include \in SUBSET Selector
  /\ exclude \in SUBSET Selector
  /\ strict \in BOOLEAN
  /\ exitZero \in BOOLEAN
  /\ selected = Select
  /\ report = NoReport
  /\ written = "no"
  /\ exit = NoExit

(* RefuseRun with an empty selection let through. *)
RefuseUnmatched ==
  /\ phase = "start" /\ report = NoReport
  /\ Unmatched
  /\ report' = Failed
  /\ UNCHANGED <<vars, options, written, exit>>

(* A selector that names nothing, or a selection with nothing in it: a      *)
(* document that says so, and no check is run.                              *)
RefuseRun ==
  /\ phase = "start"
  /\ report = NoReport
  /\ Unmatched \/ selected = {}
  /\ report' = Failed
  /\ UNCHANGED <<vars, options, written, exit>>

RunStep ==
  /\ ~Unmatched /\ selected # {}
  /\ phase # "done"
  /\ Next
  /\ UNCHANGED <<options, report, written, exit>>

Assemble ==
  /\ phase = "done"
  /\ report = NoReport
  /\ report' = New(selected)
  /\ UNCHANGED <<vars, options, written, exit>>

(* emit: the write may fail, and then nothing the report says counts. *)
Emit ==
  /\ report # NoReport
  /\ exit = NoExit
  /\ \/ written' = "ok"     /\ exit' = code
     \/ written' = "failed" /\ exit' = ExitUnknown
  /\ UNCHANGED <<vars, options, report>>

Exited == exit # NoExit /\ UNCHANGED cmdVars

CmdNext == RefuseRun \/ RunStep \/ Assemble \/ Emit \/ Exited

CmdSpec == CmdInit /\ [][CmdNext]_cmdVars

(* The process's own steps are not put off for ever, and checks come back. *)
CmdFairness ==
  /\ WF_cmdVars(RefuseRun \/ Assemble \/ Emit)
  /\ WF_cmdVars(RunStep /\ (Spawn \/ Collect))
  /\ \A c \in Check :
       /\ WF_cmdVars(RunStep /\ Runner(c))
       /\ WF_cmdVars(RunStep /\ EmitFanout(c))
       /\ WF_cmdVars(RunStep /\ Return(c))

CmdFairSpec == CmdSpec /\ CmdFairness

-----------------------------------------------------------------------------
(* Properties *)

(* Exit code 0 without --exit-zero means green: the selection named checks, *)
(* none of them tripped, broke or ran out of time, and under --strict every *)
(* one of them looked at the host and found it well.                        *)
GreenMeansGreen ==
  (exit = ExitOK /\ ~exitZero) =>
    /\ ~report.failed /\ selected # {}
    /\ \A c \in selected :
         /\ results[c].status \in {"ok", "skipped", "unavailable"}
         /\ c \notin expired
         /\ raw[c] # NoRaw =>
              /\ raw[c].error # "panic"
              /\ raw[c].status = Unset => raw[c].trips \subseteq {"ok"}
         /\ strict => raw[c] # NoRaw /\ results[c].status = "ok"

(* A critical finding pages: if a check came back in time with one, and     *)
(* every status is one of the six, the process exits 2 whatever the other   *)
(* checks did -- unless it was told to exit 0 or could not write.           *)
CritIsHeard ==
  (/\ written = "ok" /\ ~exitZero
   /\ \A c \in selected : results[c].status \in Status
   /\ \E c \in selected : raw[c] # NoRaw /\ ~CtxDone(c)
                          /\ raw[c].status = Unset /\ "crit" \in raw[c].trips)
    => exit = ExitCrit

(* The keys of one document do not disagree: the counts count its checks,   *)
(* no check is missing or listed twice, the status is the worst of them,    *)
(* the exit code is that status's even when the flags make the process exit *)
(* with another, and no list in it is null.                                 *)
DocumentAgrees ==
  (report # NoReport /\ ~report.failed) =>
    LET n == Len(report.checks)
    IN  /\ {report.checks[i].id : i \in 1..n} = selected
        /\ n = Cardinality(selected)
        /\ \A s \in Status : report.counts[s] =
             Cardinality({i \in 1..n : CountedAs(report.checks[i].status) = s})
        /\ \A i \in 1..n :
             /\ rank(report.checks[i].status) <= rank(report.status)
             /\ ~report.checks[i].nils
        /\ report.exitCode = ExitCode(report.status)

(* A typo is loud and an excluded check is never touched: with a selector   *)
(* that names nothing, no check runs and the exit code is 3 (0 only by      *)
(* --exit-zero); a check that --exclude names never leaves idle.            *)
OnlyWhatWasAsked ==
  /\ Unmatched => /\ \A c \in Check : pc[c] = "idle"
                  /\ exit \in {NoExit, ExitUnknown, IF exitZero THEN ExitOK ELSE NoExit}
  /\ \A c \in Check :
       (\E s \in exclude : c \in match(s)) => pc[c] = "idle"

(* Every invocation ends with a document or a failed write, and an exit     *)
(* code.                                                                    *)
CommandEnds == <>(exit # NoExit)

=============================================================================
