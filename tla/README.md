# FleetFix in TLA+

FleetFix is a triage tool for server fleets: `fleetfix check` runs a registry of
health checks on one host and exits with a code a scheduler can act on,
destructive actions are written to an audit trail before they happen, and
`fleetfix update` replaces the running binary. The Go code under `cmd/` and
`internal/` is the current version; `src/fleetfix` is the first version, in
Python, with a terminal UI. Paths below are the repository's.

This directory holds TLA+ modules translated from that code, TLC configurations
that check them on small instances, and proofs that TLAPS checks for every
instance. `PROJECT.json` records, for each definition, the lines it models; for
each run, what it checks; for each property, a plausible bug that breaks it
(the `mutants`); and the hazards of the code with the properties that cover them.

## The parts of the system

| part | state it keeps | operations | what makes it hard |
| --- | --- | --- | --- |
| check runner, `internal/check/runner.go` | results, slots, collected events, one deadline per check | `Run`, `runOne`, `call`, `Emit` | the one place in the Go code that starts goroutines; panics, deadlines and cancellation race with answers |
| statuses, `internal/check/check.go`, `internal/exitcode` | none | `Worse`, `Normalize`, `Tally`, `ExitCode` | one wrong rank silences a page |
| registry, `internal/check/registry.go` | checks by id | `Register`, `Select`, `match` | selectors by id and by domain that combine to nothing |
| check command, `internal/cli/checkcmd`, `internal/report` | the document | `Run`, `New`, `Failed`, `emit`, `code` | every failure must reach the exit code |
| audit writer, `internal/audit/writer.go` | sequence number, lock; the log file | `New`, `Event`, `Do` | several calls and processes, kills, short writes, rotation between any two system calls |
| audit reader, `internal/audit/tail.go`, `recent.go` | offset and identity of the file | `Next`, `ParseRecords` | torn lines, the file changing under its name |
| log rotation, `installer/install.sh` | the log and its archives | rename, create, compress | runs beside writers and readers and knows neither |
| updater, `internal/updater/installer.go`, `cli/updatecmd` | staged download, staging file, target | `Apply` | two ways to swap, kills, timeouts of `sudo`, two updaters |
| release check, `internal/updater/checker.go`, `release.go`, `pep440.go` | the answer cache, a file that every process of the host shares | `Check`, `fresh`, `writeCache`, `ParseRelease`, `IsNewer` | a cache written in place and stamped by a clock that may be set; releases that come and go |
| privilege probe and resolution, `internal/privilege`, `internal/resolve`, `internal/container` | memos of what the host answered | `CanTier2`, `State`, `Container`, `Audit` | memos that expire or never do, asked by several goroutines while the host changes |
| command runner, `internal/cmdrun` | look-path memo | `Run`, `Look` | deadline and result race; a non-zero exit is no error |
| configuration, thresholds, probes, `internal/config`, `internal/threshold`, `internal/core/network/probes.go` | merged layers, rules and knobs | `Load`, `ParseOverrides`, `Merge`, `Validate`, `Grade` | sequential; half a rule in each of two files, numbers that are none |
| collectors and graders, `internal/check/builtin`, `internal/core`, `internal/netprobe` | none | one `Run` per check, 24 of them | several readings of a host that goes on, each of which may be refused or come in part |
| terminal UI of the first version, `src/fleetfix/app.py`, `screens`, `widgets` | widgets, a generation counter, worker threads | buttons, workers, `_apply_*` | a cancelled worker thread still delivers its answer |
| destructive actions of the first version, `src/fleetfix/modules` | files, processes | squeeze, truncate, delete, signal, prune | checks before acts, kills between steps, writers beside them |

How they interact. `checkcmd.Run` asks the registry for the checks, the resolved
host for the privilege answer, and calls `Runner.Run`; the report is built from
the results, and the exit code from the report. Checks receive the host's facts
and an emitter, which calls back into the command's progress display.
`updatecmd` asks the release check what is new and calls `Installer.Apply`
inside `Writer.Do`, so that the intent line precedes the download and the result
line follows the swap. Any number of processes append to one audit log;
`logrotate` moves it; `Tailer` follows it by polling.

What each must get right. The runner: one verdict per check, its own, never a
verdict from a check that ran out of time, no more at work than the width, and an
end. The command: exit 0 means a healthy host, a critical finding always pages,
a typo is loud. The trail: no action ahead of its record, no record that lies, in
the order of its numbers. The tail: nothing twice, nothing passed over. The
installer: the installed file is a whole binary at every instant, and the trail
accounts for how it got there. A built-in check: no green from a host it could
not look at, no fault unheard that was there all along, no alarm about what never
was, and the right unit, container or mount named. The policy: nothing an operator
wrote lost in silence, nothing left that cannot grade. The memos: recent, asked
once, and the same for everybody. The release check: an offer is newer by PEP 440,
whole, and from an answer no older than it may be. The screen: the latest request
and no other. The squeeze: the log's lines never without a name.

## The modules

`CheckRunner` is the core; `CheckCommand` composes it with the registry, the
report and the exit code. What the runner takes from a check, an answer of any
kind, `BuiltinChecks` fills in: it composes the policy (`Thresholds`, `Probes`),
the four modules of pure operators that grade readings, and a host that changes
while it is read. `TrailFile` is the audit log seen as a file; `AuditTrail`
(writers) is checked to stay within it, and `AuditTail` (a reader) takes its
writers from it, so that the two ends meet at one specification of the file.
`ReleaseCheck` ends where `Installer` begins: one run checks both, and a behaviour of
it either asks or installs. `NetworkView` and `LogSqueeze` are
of the first version, share nothing, and are checked by one run that behaves as
either.

    CheckStatus <- CheckRunner <- CheckCommand <- MCCheckCommand, CheckProofs
        ^             |   ^-- MCCheckRunner
        |             +--> CheckRun          (refinement)
    Thresholds <- CheckAnswer <- HostChecks ------------+
                       ^-------- UnitChecks ------------+
                       ^-------- TreeChecks ------------+
                       ^-------- NetworkChecks <- Probes +
                                                        v
        HostWorld <- BuiltinChecks <- MCBuiltinChecks, BuiltinChecksProofs
    TrailFile <- AuditTrail <- MCAuditTrail, AuditTrailProofs
        ^------- AuditTail <- AuditTailProofs
    Installer <- MCUpdate, InstallerProofs
    Pep440 <- ReleaseCheck <- MCUpdate, ReleaseCheckProofs
    Host <- MCHost, HostProofs
    NetworkView, LogSqueeze <- MCFirstVersion, FirstVersionProofs
        +----> LatestAnswer                  (refinement)

(An arrow to the left is EXTENDS or INSTANCE. The modules named `...Proofs` hold
the theorems; `CheckProofs` has those of the runner and, on top of them, those of
the command, and `FirstVersionProofs` those of the screen and of the squeeze.)

**CheckStatus.** The status algebra as pure operators. A status is one of the six
of the enum, the empty one a check may leave, or `Unrecognised`, which stands for
every other spelling (the type is a Go string). `WorstOf` replaces the fold of
`Worse`; the two agree on any order because two statuses of one rank are equal.

**CheckRun.** What `Run` promises its caller: verdicts appear one by one, only for
checks asked for, are never taken back, and `Run` returns when all are in.

**CheckRunner.** `Spawn` is `Run` up to the end of its loop; each check's
goroutine then passes through `pc`: `queued` (before the send on `slots`),
`slotted`, `running` (inside the check), `returned`, `stored` (its result is
assigned), `exited`. The gates are three actions in the code's order
(`SkipTier2`, `SkipParam`, `MissingBin`); whether a program is missing is chosen
when it is looked for. Inside the check, `EmitAppend` and `EmitFanout` are the
two halves of `collector.Emit`, with the unlock between them; `Return` answers
anything in `Outcome`; `Panic` is the recovered panic. `Expire` is a check's own
timer, `Cancel` the caller's context. `Finish` is the rest of `runOne`, as the
operator `outcome`. Results keep status, the severities tripped, the number of
steps and where an error text came from; summaries, metrics and durations are
left out.

**CheckCommand.** Adds selectors, flags, the document and the exit code.
`RunStep` is any step of the runner; `Assemble` is `report.New`; `Emit` is
`emit`, whose write may fail.

**TrailFile.** The path names at most one inode; inodes are `live`, then
`rotated`, `packed` (compress has read it) and `gone` (unlinked). A line is two
cells, its head and its tail with the newline, so that a short write leaves a
head. `AppendLine` goes to any inode ever opened, since a writer may hold a file
open across its rename and removal.

**AuditTrail.** Each call of `Do` goes `intent`, `acting`, `result` and each of
its lines through `Stamp` (lock, count), `OpenLine`, `WriteLine`, `Unlock`, with
rotation, other calls and a kill possible between any two. `proc` is the
process: a panic of the function kills it after its result line is written.
`reported` holds the records whose append failed and was reported.

**AuditTail.** `Next` is two actions, the open and everything after it, because
the file may be renamed between them. `Resume` is the choice of where to read on.

**Installer.** Each updater is a process installing a release of its own name, so
that content tells who wrote it. `job` is the copy and the rename: the updater's
own system calls when it may write to the directory (`access = "direct"`), the
commands of `sudo` otherwise, which run on when the updater dies or its deadline
passes. A file is a sequence of `Chunks` writes; `WriteAt` overwrites in place,
or leaves a hole, as two copies to one inode do. What an update does and what the
trail says of it are apart: `err` is what `Apply` returns, `intent` whether the first
line was written, `result` what the second says, if it was. Either append may fail,
and neither failure stops anything (`Begin`, `End`), since no build installs the
`OnError` that would hear of it.

**Thresholds, Probes.** The shipped policy, an operator's two files over it, and
the probes file: what a value must be to count, what a later layer overrules, which
pair of bounds is put back, and the warning each of it leaves. A bound is a whole
number in the rule's unit (hundredths for a ratio; probes' seconds too), `NaN`, or
no number at all. Sections and values are what the YAML reader hands over; the
reader itself, which re-creates PyYAML, stays out. What a file says is in hundredths,
so that a whole knob may be given a fraction, which `intVal` cuts off (`asRead`)
before it clamps and warns of what is left.

**CheckAnswer, HostChecks, UnitChecks, NetworkChecks, TreeChecks.** What each of
the 24 checks makes of its readings, as one operator per check (`DfRun`,
`ContainersRun`, ...) and one per reader that drops, joins or clips what it read.
An answer keeps its status, the bounds that tripped and its steps with whom they
are about; data, metrics and wording are left out. A program that was run is what
became of the process and what the parser found in its output. `TopRun` has the two
rankings with both of their cuts, the depth asked for (`topN`, refused by
`topRefused`) and the five lines of `narrate`, ties going to the lower pid.

**HostWorld.** External: the facts one check lives on, and what each file, program
and socket may say of them: the truth of that moment, whole, or one of the torn
replies its reader provides for. `whole` is known to the properties and not to
the check. The one fact that is not of the moment is `motd`, the file the update
notifier left behind: it is of the night it was written, need not agree with what
is pending now, and may have the layout that its reader gets wrong.

**BuiltinChecks.** One process, one check: `Resolve` merges the files, `Read` takes
the next reading (which one follows from those so far), `Drift` changes the host
between two, `Expire` is the deadline, `Answer` is the operator of the check.
`been` collects the worlds that were true while the check was looking. Three of the
properties say of some check what its code says of it. `system.updates` is right or
wrong by the source it asked (`SecurityOf`), because it takes last night's file by
design ("worth more than being current"); the layout that is misread is excepted
(`Misread`: its reader's comment says that it is wrong about the host). `procs.top` owes a name to the
processes that are among the largest by memory, as far down as it was asked and no
further than the fifth; of its second ranking the properties ask only that whoever
is named is there, since how busy a process was is a matter between two readings.
A trace goes to `--param target`, to nowhere if that is blank, and otherwise to the
target of the ladder's internet rung (`SentTo`).

**Host.** The goroutines of one process and the three things it asks the host for
all of them. A question is asked under a lock held until the answer is kept:
`Waits`, `AskSudo`, `SudoAnswers` or `SudoTimesOut`, `Keep` for the privilege
probe, the same shape for the daemon and the trail. `Change` is `sudo -v` in
another terminal, a daemon that comes up, a directory that becomes read-only.

**Pep440, ReleaseCheck.** Versions are spellings whose groups, as the pattern finds
them, are the constant `Groups`; comparison is done on what `parsePEP440` makes of
the groups. `Order` is the order PEP 440 itself gives the spellings, and what the
comparison is checked against. Each process reads the cache or fetches, decodes,
writes the cache back (truncate, then write, so that a reader between the two or a
writer that dies leaves half a file) and decides; `update --apply` installs in one
step.

**LatestAnswer, NetworkView.** The abstract specification is a pane that shows the
latest of many requests. The detailed one is the screen: a button moves
`_probe_seq` and starts a thread; a later button cancels the worker, which stops
only a thread that has not begun; threads deliver through the UI thread, whose
handlers (`ApplyProbe`, `AppendBody`, `ApplySummary`) are one step each because
`call_from_thread` runs them there. `Check` is the look at the counter from the
worker's own thread, which the code calls advisory, and the model shows that
nothing rests on it.

**LogSqueeze.** Four names and what is in the file behind each. The squeeze goes
`look`, `lsof`, `open`, `copy`, `replace`, `unlink`, `size` with its intent and
result lines around them; any of them may fail where the code catches or does not
catch it, and the process may die at any. A writer opens, appends and closes, and
logrotate renames; a descriptor follows its file.

## The runs

| run | checks | bounds |
| --- | --- | --- |
| `runner` | `TypeOK`, `SlotBound`, `NoLateVerdict`, `GatesHold`, `StepsShown`, `OwnAnswer`, `Complete`, and `KeepsPromise`: the refinement of `CheckRun` with its liveness | three checks, two slots, each gate on a different subset, two answers, one event per check |
| `command` | `GreenMeansGreen`, `CritIsHeard`, `DocumentAgrees`, `OnlyWhatWasAsked`, `CommandEnds` | two checks in two domains, every set of four selectors (an id, two domains, a typo) on both sides, both flags, four answers |
| `trail` | `OneAtATime`, `SeqOrder`, `IntentFirst`, `ResultIsTrue`, `CallsEnd`, `StaysWithinFile` | two calls of one process, one rotation, one failed append |
| `trail_glued` | finds `AttemptIsOnRecord` false | two processes, no rotation, one failed append |
| `tail` | `ShownOnce`, `NothingSkipped`, `EventuallyShown` | three lines, one rotation, no limit |
| `update` | `OffersAreRight`, `AnswersAreFresh`; `InstTypeOK`, `NeverHalfWritten`, `TrailAccounts`, `NothingLeft` | either it asks: one process over every pair of spellings, and each way a release can be unfit (an asset, its address, the checksum, the tag or the list missing or blank); two processes with TTL 2, timeout 1, time 3, one setting of the clock forwards or back; or it installs: two updaters that do not overlap, two chunks |
| `installer_overlap` | finds `NeverHalfWritten` false | the same two updaters, overlapping |
| `installer_unrecorded` | finds `SwapIsRecorded` false | the same two, not overlapping |
| `checks` | `NeverGreenBlind`, `FaultIsHeard`, `NoFalseAlarm`, `RightOneNamed`, `NothingVanishes`, `PolicyStands` | every check, up to seven worlds each, two changes of the host, each kind of torn reply; every pair of eleven threshold files, nine probe files |
| `checks_https` | finds `DeadIsCritical` false | `network.https` alone |
| `host` | `AnswersAreRecent`, `OneQuestion`, `HostAgrees` | two callers, two questions each, two changes; TTL 3, timeout and budget 1, time 4 |
| `first_version` | `ShowsTheLatest`: the refinement of `LatestAnswer` with its liveness; `InputSurvives` | either three buttons, a set of two targets, the ladder's five rungs; or two squeezes, three lines, one rotation, two failures or kills |

Why the bounds are enough. Three checks and two slots is the least where a check
waits for a slot while two others differ; checks meet only in the slots, the
caller's context and the final order, and the proofs hold for any number. Two
checks in two domains give every relation between an included and an excluded
set. In the trail one lock orders two calls of one process, and calls of other
processes meet them only in the file, whose cells show any interleaving of two
appends; one rotation opens every window between an open and a write once. A
third line in the tail lets one line be torn, one be whole behind it, and one
follow after the rotation. Two chunks is the least where a file can be half
written, and two updaters the least where one finds what another left. A check
takes its readings one after the other, so two changes put a different world
before, between and after any two of them; the worlds of a check hold one that is
well, the worst of what it looks for, and where it lists, two entries that differ,
which is the least a join by position can get wrong. `StepCap = 2`, `Half = 200`
days and `Now = 100` scale constants of the code down; no world reaches the caps
on steps, which cut lists and say so. Two callers are the least that can arrive
together, and TTL 3 against a timeout of 1 lets an answer be given, age, and
expire while another question hangs. Two processes are the least that can spoil a
cache for each other; the one-process part of `update` meets every pair of a
chain with every kind of segment in every spelling. Three buttons give two stale
threads and a fresh one. Two squeezes let the second find what the first, killed
between its rename and its unlink, left behind.

The four runs that end in a violation each show one statement of a comment to be
stronger than the code: what the writer's phases promise after a short write of
another process; what the installer's rename promises when two updates overlap;
that no swap goes unrecorded, when the append of the intent line fails and `Do`
goes on; and which failures of a URL `probes.go` calls critical. `PROJECT.json`
quotes them.

Met while modelling, and not the matter of a run:

- A check that ignores its context is not "cut off at the result"
  (`internal/check/check.go`, `Spec.Budget`): `runOne` waits for it to return, and
  `Run` with it. The runs assume that checks return; see Fairness.
- `Tailer.Next` drops what was appended to the old file after its last poll when
  the log is rotated.
- A `sudo mv` whose deadline passes may still land, before or after `Apply` has
  reported a failure, though `installer.go` says that a failure leaves the binary
  exactly as it was. `TrailAccounts` leaves room for it only where the trail has
  no result line, or one that says that `sudo` ran out of time.
- Of "9 packages can be updated, 1 security updates" on one line, the notifier's
  reader takes both counts for 9, and `system.updates` pages for them; its comment
  knows it, while `system.updates` says that it gives the numbers of the MOTD.
- A fraction on a whole knob of `probes.yml` (`count: 3.7`) is dropped without a
  warning, which its test says is meant; `NothingVanishes` excepts it.
- `fleetfix update` asks with a TTL of zero so that every cached answer is stale,
  but one stamped in the future (`checker.go`, `fresh`) is fresh until then;
  `AnswersAreFresh` allows it what the clock was set back by. A comment on
  `CachePath` says that an empty path is what the command uses; it uses the TTL.
- A cache directory that is empty makes the cache's path relative to wherever the
  process runs.
- A default route without a gateway is read as the gateway `0.0.0.0`, and pinged.
- `ss` that exits non-zero without rows is a host where nothing listens: ok. This
  is why `network.sockets` is left out of `NeverGreenBlind`.
- The budget of `network.https` counts the timeouts it gives to curl, and each curl
  is waited for a little longer than that: from three URLs on, a host where all
  of them hang is cut off by the budget. `PolicyStands` says up to how many it fits.
- `older_than_days` above 106751 overflows a `time.Duration`, and `storage.stale`
  then lists files of another age (`WindowFits` is the hypothesis that it does not).
- A log directory that can be opened and not listed is an ok with a step that warns.
- A share of CPU that is divided by the ticks between two readings of `/proc` may
  exceed 100.
- `storage.env` opens the file it has just described by name; the two may differ.
- Containers without a user make the check of owners refuse as a whole, and the
  exit code of `docker inspect` is not looked at: what it printed is.
- First version: the link and resolver lines, the sockets table and the other
  screens have no generation counter; a cancelled reading that comes late is
  shown. `gzip_inplace.py` asks once, before it copies, whether anybody writes: a
  process that opens the log after that loses what it appends behind the copy,
  since the unlink removes the only name of its file, or, after a rotation, of the
  new log. `InputSurvives` claims no more than what was there at the open. A
  squeeze of a name that was squeezed before replaces the older archive.
  `is_open_for_write` says that an error of `lsof` refuses; one that prints
  nothing passes. A signal that failed is recorded with `ok` true, which a unit
  test says is meant.

## Fairness

`RunnerFairness`: the Go scheduler runs every runnable goroutine, and a timer
fires. `ChecksReturn`, which only the passing run assumes: a check comes back.
The built-in checks run every command through `cmdrun` with a context, and
`cmdrun.OS.Run` kills the command at its deadline and stops waiting for its pipes
a second later; a check written otherwise would hold its slot and the run. `TrailFairness`: a call that
has begun keeps taking steps while its process lives. Nobody has to start a call
or a process, or rotate the log. `TailFairSpec`: the viewer's timer keeps
ticking. `FairSpec` of `NetworkView`: threads run and their tools return, because
each is given a timeout, and the UI loop serves what it is handed; nobody has to
press a button, and no cancellation has to work. No fairness is assumed of crashes,
timeouts, cancellation or faults.

Deadlock is checked in `CheckRunner` and `CheckCommand`, where `Returned` and
`Exited` are the only rests. In the others the system may stop for good: every
process may be dead, or nothing may be left to append. `Installer`,
`BuiltinChecks`, `Host`, `ReleaseCheck` and `LogSqueeze` state no fairness: they are
checked for safety, and end when their bounds are used up. (An update is
straight-line code with timeouts: that it ends is what its fairness would say.)

## What is proved

Every theorem holds for every value of the constants that satisfies the
assumptions of its module, each named in the module that declares the constants
and evaluated by TLC on the small instances. Each inductive invariant was checked
with TLC before it was proved.

| module | properties proved | inductive invariant (distinct states TLC checked it on) |
| --- | --- | --- |
| `CheckProofs`, runner | `TypeOK`, `SlotBound`, `NoLateVerdict`, `GatesHold`, `OwnAnswer`, `StepsShown`, `Complete`; the safety half of `KeepsPromise` | `Inv` |
| `CheckProofs`, command | `GreenMeansGreen`, `CritIsHeard`, `OnlyWhatWasAsked`, `DocumentAgrees` | `CmdInv` (87,052) |
| `AuditTrailProofs` | `OneAtATime`, `SeqOrder`, `IntentFirst`, `ResultIsTrue`, `StaysWithinFile`; the writers implement `TrailFile` | `TrailInv` (177,972) |
| `AuditTailProofs` | `ShownOnce`, `NothingSkipped` | `TailInv` (21,084 without a limit, 23,118 with the limit 1) |
| `InstallerProofs` | `InstTypeOK`, `NothingLeft`; `NeverHalfWritten` and `TrailAccounts` if updates do not overlap | `Inv`, `TrailInv`, `LeftInv` (130,760; 264,544 with overlap) |
| `HostProofs` | `AnswersAreRecent`, `OneQuestion`, `HostAgrees` | `HostInv` (1,958,987) |
| `ReleaseCheckProofs` | `AnswersAreFresh`; `IsNewer` is an order, and by it a host goes back only past an update that overlaps; `OffersAreRight` if that order is PEP 440's | `RelInv`, `NoneOlder`, `BegunNoOlder` (788,288) |
| `BuiltinChecksProofs` | `PolicyStands`, `NothingVanishes`, `NeverGreenBlind`, `NoFalseAlarm`; `FaultIsHeard` and `RightOneNamed`, of `storage.stale` if its window fits | `Inv` (66,443) |
| `FirstVersionProofs`, screen | the safety half of `ShowsTheLatest` | `PaneInv` |
| `FirstVersionProofs`, squeeze | `InputSurvives` | `SqueezeInv` |

**The runner.** For every finite set of checks, width, gates, set of answers and
number of events. None of the invariants is inductive alone: that a stored result
is right depends on what the goroutine had seen when it stored it, and that on
where it had been. `Inv` adds, per check, `Progress` (what holds at each `pc`: an
untouched check has no answer, no events and no deadline; one past its gates may
be called; the events shown lag those stored by at most one) and `Settled` (what a
stored result says, for a refused check and for one that answered). `StepsAreLocal`
and `OthersKeepTheirs` say that a step of one check touches nothing of another,
which leaves one step per action for the check that took it. `SlotBound` is a
second induction over the set of holders, where `Acquire` is the only step that
adds one and its guard leaves room for it. `RunKeepsItsPromise`, the refinement of
`CheckRun`, follows from `Inv`: storing a result is `Settle`, `Collect` is `Return`,
every other step leaves the mapped variables alone. `Complete` needs that the ids
of the results are those of their checks (`IdsStay`), and `CountingOrders`: the
place of a check in the answer is the number of ids up to its own, which counts
every check once and in order.

**The command.** `CmdInv` stands on `Inv`. It adds where a result's status comes
from (`Graded`: its own answer or "error"; `PanicsAreErrors`), that the report is
the one `New` makes of results that do not change any more (`Reported`, by
`ReportStands`), and that the exit code is the one that report and flags call for
(`Ended`). The properties then follow from the algebra of statuses, stated once:
`WorstIsWorst`, `RanksTell` and `CodesTell`. `OutcomeAssumption` says that a check
answers with an error of its own or none, and leaves "panic" and "budget" to the
runner, which is the one that knows of either.

**The trail.** For any number of processes and calls, rotations and failed appends.
That lines stand in the order of their numbers is not inductive: it needs that the
number of a line that is not written yet is above every one in the file (`Ahead`),
that an open handle is on a file no earlier line of the process is beyond, however
often the log was rotated since it was opened (`Opened`), that inodes are made in
order (`MadeInOrder`), and that all of it is under the lock (`OneAtATime`).
`IntentFirst` and `ResultIsTrue` need what a call knows where it is (`Told`) and
that what was appended whole stays so (`AppendedStays`). `WritersImplementFile`
shows that each step of a writer is one of `TrailFile` or leaves the file alone,
with the part that each record is appended once, because its number is new.

**The tail.** The reader is proved over `FileSpec`, which is what
`WritersImplementFile` shows of the writers, so what holds of it holds of them: the
two proofs meet at the file. The run has `Limit = 0`; the theorem has any limit.
`TailInv` says that the reader never goes back to an older file (`GoesForward`),
that its offset is the end of a line (`AtLineEnd`), that everything shown is behind
the offset or in an older file (`FromBehind`), and that a record has the end of its
line in one place (`OneEnd`). `ParsedAreLines` is what `ParseRecords` returns of any
window: lines of it that decode, each once, and without a limit all of them.

**The installer.** For any set of updaters and any number of writes to a copy. The
hypothesis `~Overlap` of `AlwaysAWholeBinary` and `AlwaysAccounted` is needed:
`installer_overlap` is the counterexample. It is used once, for the second conjunct
of `Inv`, that at most one updater is at work or has a swap running; a sudo command
that outlived its updater counts as work. `NeverHalfWritten` is inductive only with
the rest of `Inv`: the staging name is never the target's inode, and per updater
`Untouched` (before it opens `target.new` it has no inode there), `Verified` (what
it copies was compared with the digest) and `Staged` (the staging file is exactly
what was copied so far, and the whole release from the end of the copy to the
rename). That an update may truncate what an earlier one left behind costs nothing:
no one else is at work, and the file is not the target. `TrailAccounts`
is an action property: what a result line says when it is written, and who may still
install under one that is there. `TrailInv` adds `Recorded` (where an update has
failed, and which result goes with that) and `Accounted` (what is installed, and by
whom, without a word about what was recorded, since either line may be missing);
`OnlyARenameInstalls` reduces every step but one to the case in which the installed
bytes are what they were, and `StepsAreAccounted` puts the steps together. `NothingIsLeft` needs no `~Overlap`: `LeftInv` says that
an updater that has renamed or removed what it staged does not find it under
`target.new` again, since nobody but itself makes its inode (`Unmade`).

**The host.** For any callers, TTL, timeout shorter than the TTL and changes. The
three questions have a lock each and nothing else in common; `HostInv` has a part
for each, and a step of one question leaves the other two parts alone. The hard part
is `AnswersAreRecent`: what is kept was true when the question was put or later
(`MemoWasTrue`), and a question lasts no longer than the timeout (`SudoIsLocked`),
so an answer is younger than the TTL when it is reused. `GateFollows` is why a
document is of one piece: no time passes between envelope and gate.
`StartsAssumption` gives the constants their types, and says that only the runner,
after the envelope, asks for the gate.

**The release check.** For any processes, releases, assets, TTL and settings of the
clock. `CacheAged` is the invariant behind `AnswersAreFresh`: by the clock of the
host an entry is no younger than it is, but for what the clock was set back by;
that holds for the entry in the file and for the one a process has in hand, whoever
tears the file in between.

`NewerIsAnOrder` is about `IsNewer` itself, for any versions: nothing is newer than
itself, what is newer than something newer is newer, and a version that parses and
lies between two is told from one of them, so that two spellings of one version are
newer and older than the same. What takes work is `cmpSlice`, the comparison of two
lists element by element and then by length: `ListsAreRanked` shows that it ranks
lists of any length if the comparison of the elements ranks those. It is used twice:
for lists of numbers, and for the local segments, which are lists of such lists.
`ParsedIsAVersion` says that what parses has no number in it that overflowed.
`NoWayBack` rests on it. Nothing keeps two updates that apply from overlapping, and
the one that installs last may install the older release: each compares with the
version it is itself running. So a host does go back, and what holds is who can take
it there: it is older than an update it was told is installed only where another
that was under way when that one installed has installed since (`NoneOlder`). The
history that tells this is `passed`: who installed while each was under way. The
second half of the argument is `BegunNoOlder`: whoever is under way and was not when
an update installed began with what that update left, or with what one that overlaps
with it did; what it then installs is newer than that, and newer is transitive.

`OffersFollowTheOrder` adds that offers, refusals and installations follow the order
of PEP 440 if `ComparisonIsRight`, that is, if the order that `IsNewer` is agrees
with it on the spellings that are in play. The hypothesis is what the one-process
part of the run `update` checks, on every pair of a chain with every kind of segment
in every spelling; the theorem adds what no run can, that no interleaving of caches,
kills and releases makes anything else of it. `GroupsAssumption` says what the
pattern can find in a spelling, `SpelledAssumption` that whatever is installed or
is a tag has been spelled; `ListsAssumption` and `NothingAssumption` that assets are
lists and that the model value for "nothing" is no release.

**The built-in checks.** For every world a host can be in (`Hosts`: any number of
mounts, units, containers, zones, routes, hops and files), every set of worlds it
moves between, every torn reply, any two threshold files that are documents, any
probes file and any parameters. There are two layers. `Inv` is about the process:
the policy and the probes are what `Resolve` and `resolveProbes` make of the layers
(`Configured`), the readings are replies of worlds the host was in, each to the
question of the script in its place (`Asked`), all of those worlds are among the
check's own and alike in what does not change (`Placed`), and no reading is taken
that the ones before made needless (`GoesOn`). The rest is about answers: one lemma
per check (`DiskIsRight`, `ContainersAreRight`, ...) says that in a state of `Inv`
its answer has all four properties at once (`RightAnswer`). They rest on what the
loops of the collectors compute. The provers cannot use an induction theorem on
them, so each is unrolled by its least counterexample: `LeastExists` says that a
non-empty set of numbers has one, and a list whose filter, join, maximum or merge
came out wrong has a shortest wrong prefix, which the loop's own step refutes
(`KeptIsCollected`, `CollectedNext`, `HottestIs`, `WorstOfGrades`, `RowsAre`).
`EveryCheckIsRight` puts the checks together.

The assumptions, each one that TLC evaluates: `WorldsAssumption` (a check moves
between worlds of its own, which differ in nothing that stays: how many cores there
are does not drift), `StartsAssumption` (what is run is a registered check; files hold
what the YAML reader can hand over; a trace arrives at the target it was sent to),
`ParamAssumption` (the types of the parameters; a required key is a key) and
`NothingAssumption` (the model value for "did not come" is no answer). `WindowFits`
is the one hypothesis that is about the code: `internal/check/builtin/storage/stale.go`
multiplies `older_than_days` into an `int64` of nanoseconds, and a window of more
than 106751 days wraps around to one of another age, so that what it then lists is
not what was asked for. `FaultsAreHeard` and `NamesAreTrue` ask it of `storage.stale`
alone; `GreenHasLooked` and `AlarmsAreTrue` hold without it (`StaleIsQuiet`).

**The pane.** For any number of buttons, targets and rungs, `PaneInv` counts: the
pane is one line behind the thread of the latest request while a line is on its
way, and level with it otherwise. A step of an earlier thread changes only its own
place (`EarlierKeeps`), which is the whole point of the counter in the code.

**The squeeze.** For any lines, squeezes, rotations, faults and kills. `SqueezeInv`
follows the lines: while they are copied, the file they come from has all of them
(`CopySoFar`: an append only adds to it); from the end of the copy they are in the
closed archive that is about to be renamed, and from the rename in the one that was
(`ArchiveHasIt`). Only then is a name unlinked. `LogSqueezeAssumption` says that
the absent file is no list of lines.

What the attempts changed in the modules, each time towards the code or towards
something that can be reasoned about: `ParseRelease` refuses a tag of blanks, and a
later asset without an address does not hide an earlier one with it, as in
`release.go`; the two branches of `NetworkView.Check` no longer overlap; the order of
`Run`'s results and of `ParseRecords` is defined by counting (`Place`, `Nth`), since
what a sort of the library computes is not visible to the provers. For the same
reason a merge is `Over`, and a loop that skips entries is `Kept`, a recursive
function. What is wrong of a host (`Worth`) counts failed units only where there are
any: a policy that is critical from zero units on would page a healthy host by the
letter of its rule, while the check answers ok before it looks at the rule, and it
is the check that is right. A `UNION` beside a `\union` is bracketed everywhere:
SANY and the prover read it differently without.

Left to TLC:

- Liveness, that is `CommandEnds`, `CallsEnd`, `EventuallyShown`, and the
  liveness halves of `KeepsPromise` and `ShowsTheLatest`: they rest on fairness, and on
  ENABLED, which the provers cannot handle.
- That `IsNewer` of `Pep440`, which is proved to be an order, is the one of PEP 440,
  the hypothesis `ComparisonIsRight` of the release check: that order is only given
  for the spellings of the run.
- The properties of the runs that end in a violation, which are false.

## What is not modelled

- A power loss. Neither the trail nor the installer syncs, and the code promises
  nothing; a kill is modelled at every step, and keeps what was written.
- `copytruncate` and other rotation schemes: `install.sh` ships `create` with
  `compress` and no `delaycompress`.
- Sinks of the audit writer: `resolve.Audit` installs none. It installs no `OnError`
  either: in `AuditTrail` a failure that was handed to it counts as `reported`, which
  is all that `writer.go` promises; that in the builds there are nobody hears of it is
  the matter of `installer_unrecorded`.
- `Call.SetResult` overriding the result's fields; no `ok` is set that way.
- Rendering, wording, parsing of command output, metrics and data rows, and the
  re-creations of Python's formats (`internal/pytext`, `internal/pytime`,
  `internal/config/pyyaml.go`): functions of one text, without a state.
- Of the built-in checks: programs that vanish while a check runs; refusals of the
  first of two passes over `/proc`, which the code by design does not count;
  traceroute's opening step that names the tool; the resident memory of a process
  that cannot be read, which is ranked as zero. An `operstate` that cannot be
  read is a link of unknown state, and a thermal zone without a temperature a
  fact of the host, as the code has it; a notifier of updates that cannot be read
  falls back to `apt`, by design.
- Of `internal/resolve`: a caller's own context never cuts the privilege question
  short, since the command line hands down `Background`; the daemon's question is
  cut by the budget of whoever asks first. Between the envelope and the gate no
  time passes but what the questions take. `sudo` that is not installed refuses.
- Of the release check: HTTP headers. An install is one step there; what two that
  overlap do to the file itself is `installer_overlap`.
- Of the first version: two squeezes of one log at the same time; the other
  screens, which load one table each; truncating, deleting and killing, each one
  system call inside the audit context that `LogSqueeze` has around the squeeze;
  the readers that the Go packages port.
- `Register`: it runs while the program starts, where `MustRegister` turns a refusal
  into a panic.
- Everything `PROJECT.json` lists as `not_modelled`, with its reason.

A range of lines in the map takes in the comment above a definition and the
helpers next to it that it calls.

## Plan

What is left, the most consequential first:

1. *Registry*: `Register` before `Select`.
2. *First version*: the confirmation modal and the update flow.
