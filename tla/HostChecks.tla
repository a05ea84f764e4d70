------------------------------ MODULE HostChecks ------------------------------
(***************************************************************************)
(* The system and disk domains: cpu.load, mem.usage, thermal, updates and  *)
(* uptime, disk.usage and disk.inodes, each a function of the policy and   *)
(* of what its files and programs gave it.  Readings that did not come, or *)
(* came as something that is no number, are Nothing.                       *)
(***************************************************************************)
EXTENDS CheckAnswer

(* Ties keep the incumbent: the first of the largest. *)
FirstLargest(seq, Key(_)) ==
  seq[CHOOSE i \in DOMAIN seq :
        /\ \A j \in DOMAIN seq : Key(seq[j]) <= Key(seq[i])
        /\ \A j \in 1..(i - 1) : Key(seq[j]) # Key(seq[i])]

-----------------------------------------------------------------------------
(* cpu.load: three fields of /proc/loadavg, converted left to right.        *)

ReadLoadavg(file) ==
  IF file = Nothing \/ Len(file) < 3 \/ (\E i \in 1..3 : file[i] = Nothing)
    THEN Nothing ELSE file[1]

cpuCount(host) == IF host.cpus > 1 THEN host.cpus ELSE 1

LoadRun(set, host) ==
  LET one == ReadLoadavg(host.loadavg)
      trip == Check(set, "cpu.load_per_cpu", one \div cpuCount(host), "load")
  IN  GradedBy("cpu.load_per_cpu", set,
        IF one \in {Nothing, NaN} THEN unreadable ELSE Graded(trip, {}))

(* memory: a function from the fields that had a number to their values; a  *)
(* field past int64 is not among them, one int() rejects fails the read.    *)
ReadMeminfo(file) ==
  LET f(key) == IF key \in DOMAIN file THEN file[key] ELSE 0
      available == IF "MemAvailable" \in DOMAIN file THEN file["MemAvailable"]
                                                     ELSE f("MemFree")
  IN  [total |-> f("MemTotal"),
       used  |-> IF available > f("MemTotal") THEN 0 ELSE f("MemTotal") - available]

UsedPct(mem) == IF mem.total = 0 THEN 0 ELSE (mem.used * 100) \div mem.total

memoryGraded(set, file) ==
  Graded(Check(set, "mem.used_pct", UsedPct(ReadMeminfo(file)), "memory"), {})

MemoryRun(set, host) ==
  GradedBy("mem.used_pct", set,
    IF host.meminfo = Nothing \/ ReadMeminfo(host.meminfo).total = 0
      THEN unreadable ELSE memoryGraded(set, host.meminfo))

(* thermal: a zone whose temperature cannot be had is dropped; a label that *)
(* is there and will not read (label = "denied") loses the whole reading.   *)
ReadZones(zones) ==
  LET read == Kept(zones, {z \in Range(zones) : z.temp # Nothing})
  IN  IF \E i \in DOMAIN read : read[i].label = "denied" THEN Nothing ELSE read

Hottest(zones) == FirstLargest(zones, LAMBDA z : z.temp)

ThermalRun(set, host) ==
  LET zones == ReadZones(host.zones)
      z     == Hottest(zones)
  IN  GradedBy("thermal.temp_c", set,
        IF zones = Nothing THEN unreadable
        ELSE IF zones = <<>> THEN Unavailable
        ELSE Graded(Check(set, "thermal.temp_c", z.temp, z.name), {}))

(* updates: the security count of the notifier's file, where it says how    *)
(* many packages there are at all.  The pattern takes the number its line   *)
(* starts with, which is the other one when the security count is behind it *)
(* on the same line.                                                        *)
ParseNotifierText(text) ==
  CASE text.regular = Nothing -> Nothing
    [] text.regular # Nothing /\ text.security = Nothing -> 0
    [] OTHER -> IF text.behind THEN text.regular
                ELSE IF text.security = NaN THEN Nothing ELSE text.security

(* A file that says nothing, or cannot be read, is no answer: apt is asked. *)
fromNotifier(host) ==
  IF host.notifier = Nothing THEN Nothing ELSE ParseNotifierText(host.notifier)

ParseAptUpgradable(rows) ==
  Len(Kept(rows, {r \in Range(rows) : r.suite = "security" \/ r.pocket = "security"}))

UpdatesRun(set, host) ==
  LET told == fromNotifier(host)
      count == IF told # Nothing THEN told ELSE ParseAptUpgradable(host.apt.rows)
      steps == IF told = Nothing /\ host.apt.stderr THEN {Unseen} ELSE {}
  IN  GradedBy("updates.security", set,
        IF told = Nothing /\ host.apt.how # "ok" THEN NotRun(host.apt.how)
        ELSE Graded(Check(set, "updates.security", count, "security updates"), steps))

(* system.uptime grades nothing: a duration, or a fault. *)
UptimeRun(host) ==
  IF host.uptime \in {Nothing, NaN} THEN Bare("error")
  ELSE IF host.uptime < 0 THEN Bare("error") ELSE Judged("ok", {})

-----------------------------------------------------------------------------
(* disk.usage and disk.inodes: a trip per mount, from what df printed.      *)

PctRounded(used, total) ==
  LET q == (used * 100) \div total
      r == 2 * ((used * 100) % total)
  IN  IF r > total \/ (r = total /\ q % 2 = 1) THEN q + 1 ELSE q

usedPercent(row) ==
  IF row.capacity # Nothing THEN row.capacity ELSE PctRounded(row.used, row.total)

(* The rows the parsers keep: a real filesystem, three counts, some size.   *)
ParseDF(rows) ==
  Kept(rows, {r \in Range(rows) :
                ~r.pseudo /\ r.total \notin {Nothing, 0} /\ r.used # Nothing})

Fullest(rows) == FirstLargest(rows, usedPercent)

(* df exits with an error having printed what it could: its text is used,   *)
(* and the complaint is a step.                                             *)
Complaint(df) == df.how = "nonzero"

nothingToGrade(df) == IF Complaint(df) THEN Bare("error") ELSE Unavailable

gradeRows(set, id, rows) ==
  UNION {Check(set, id, usedPercent(rows[i]), rows[i].mount) : i \in DOMAIN rows}

(* DfRun that takes a df that complained for one with nothing to say. *)
DfRunQuiet(set, id, df) ==
  GradedBy(id, set,
    IF df.how \in {"absent", "failed"} THEN NotRun(df.how)
    ELSE IF ParseDF(df.rows) = <<>> THEN Unavailable
    ELSE Graded(gradeRows(set, id, ParseDF(df.rows)), {}))

DfRun(set, id, df) ==
  GradedBy(id, set,
    IF df.how \in {"absent", "failed"} THEN NotRun(df.how)
    ELSE IF ParseDF(df.rows) = <<>> THEN nothingToGrade(df)
    ELSE Graded(gradeRows(set, id, ParseDF(df.rows)),
                IF Complaint(df) THEN {Unseen} ELSE {}))

=============================================================================
