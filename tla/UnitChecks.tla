------------------------------ MODULE UnitChecks ------------------------------
(***************************************************************************)
(* The services and docker domains.  Each asks twice: first for the list,  *)
(* then for what the list does not say of every entry in it, and joins the *)
(* second answer to the first by position.  Between the two the host goes  *)
(* on: a unit is removed, a container restarts or goes away.               *)
(***************************************************************************)
EXTENDS CheckAnswer

CONSTANT StepCap  (* slow units named one by one before "and N more" *)

StepOf(row, status) == Step(row.id, status)

(* join: the i-th description belongs to the i-th row, or to none.          *)
NoJoin(rows, default) == [i \in DOMAIN rows |-> Over(rows[i], default)]

(* A join that matches up what there is and leaves the rest as it was. *)
JoinHopefully(rows, described, default) ==
  [i \in DOMAIN rows |->
     Over(rows[i], IF i <= Len(described) THEN described[i] ELSE default)]

Join(rows, described, default) ==
  IF Len(described) = Len(rows)
    THEN [i \in DOMAIN rows |-> Over(rows[i], described[i])]
    ELSE NoJoin(rows, default)

-----------------------------------------------------------------------------
(* services.failed                                                          *)

(* The rows of list-units with four fields, header and summary left out.    *)
ParseFailedUnits(rows) == Kept(rows, {r \in Range(rows) : r.fields >= 4})

(* One answer per block that has text.  A unit whose kind has no User=      *)
(* prints an empty block, which is no block; an empty User= is root.        *)
ParseShowUser(blocks) ==
  LET kept == Kept(blocks, Range(blocks) \ {Nothing})
  IN  [i \in DOMAIN kept |-> [owner |-> IF kept[i] = "" THEN "root" ELSE kept[i]]]

NoOwner == [owner |-> ""]

owners(rows, show) ==
  Join(rows, IF show.how = "ok" THEN ParseShowUser(show.blocks) ELSE <<>>, NoOwner)

OwnersLost(rows, show) ==
  show.how # "ok" \/ Len(ParseShowUser(show.blocks)) # Len(rows)

FailedRun(set, list, show) ==
  LET rows == ParseFailedUnits(list.rows)
  IN  GradedBy("services.failed", set,
        IF list.how # "ok" THEN NotRun(list.how)
        ELSE IF rows = <<>> THEN Judged("ok", {})
        ELSE Graded(Check(set, "services.failed", Len(rows), "failed units"),
                    {StepOf(rows[i], "warn") : i \in DOMAIN rows}
                      \union (IF OwnersLost(rows, show) THEN {Unseen} ELSE {})))

(* services.boot: an observation, graded by nothing.  A duration the parser *)
(* cannot read or that overflows loses its line, and the loss is said.      *)
OutlierMS == 5000

parseTime(t) == IF t.bad THEN Nothing ELSE 60000 * t.min + 1000 * t.s + t.ms

ParseBlame(lines) == Kept(lines, {l \in Range(lines) : parseTime(l) # Nothing})

outliers(entries) == Kept(entries, {e \in Range(entries) : parseTime(e) >= OutlierMS})

BootSteps(lines) ==
  LET slow == outliers(ParseBlame(lines))
      cap  == IF Len(slow) > StepCap THEN StepCap ELSE Len(slow)
  IN  {StepOf(slow[i], "ok") : i \in 1..cap}
        \union (IF Len(slow) > StepCap THEN {Step("more", "ok")} ELSE {})
        \union (IF Len(ParseBlame(lines)) < Len(lines) THEN {Aside} ELSE {})

BootRun(blame) ==
  IF blame.how # "ok" THEN NotRun(blame.how)
  ELSE IF ParseBlame(blame.rows) = <<>> THEN Unavailable
  ELSE Judged("ok", BootSteps(blame.rows))

-----------------------------------------------------------------------------
(* internal/container: what is installed, then whether its daemon answers.  *)

NoRuntime == [found |-> FALSE, available |-> FALSE]

Detect(onPath) == IF onPath THEN [found |-> TRUE, available |-> FALSE] ELSE NoRuntime

Probe(rt, version) ==
  IF ~rt.found \/ version = "absent" THEN NoRuntime
  ELSE [rt EXCEPT !.available = (version = "ok")]

(* docker.runtime is the one check that speaks of a daemon that is down.    *)
statusFor(rt) ==
  IF ~rt.found THEN "unavailable" ELSE IF rt.available THEN "ok" ELSE "crit"

RuntimeRun(rt) ==
  Judged(statusFor(rt), IF rt.found THEN {Step("docker", statusFor(rt))} ELSE {})

(* docker.disk: nothing graded, a step per category.                        *)
DiskUsageRun(rt, df) ==
  IF ~rt.available THEN Unavailable
  ELSE IF df.how # "ok" \/ df.rows = <<>> THEN Bare("error")
  ELSE Judged("ok", {StepOf(df.rows[i], "ok") : i \in DOMAIN df.rows})

(* docker.containers *)
RestartLoopThreshold == 3
RestartLoopWindow    == 10   (* minutes *)

rowsFrom(lines) == Kept(lines, {l \in Range(lines) : l.id # Nothing})

NoInspect == [restarts |-> 0, started |-> Nothing]

(* inspect answers for the ids that still exist; its exit code is not read. *)
inspected(rows, insp) == IF insp.how = "failed" THEN <<>> ELSE insp.lines

inspect(rows, insp) == Join(rows, inspected(rows, insp), NoInspect)

noInspect(rows, insp) == Len(inspected(rows, insp)) # Len(rows)

(* restartLoop that does not ask how long ago. *)
restartLoopEver(c, now) == c.restarts > RestartLoopThreshold /\ c.started # Nothing

restartLoop(c, now) ==
  /\ c.restarts > RestartLoopThreshold
  /\ c.started # Nothing
  /\ now - c.started <= RestartLoopWindow

Dead(c) == c.state = "dead"

flag(c, now) ==
  IF restartLoop(c, now) THEN {StepOf(c, "crit")}
  ELSE IF Dead(c) \/ c.unhealthy THEN {StepOf(c, "warn")} ELSE {}

report(rows, now) ==
  LET some(Test(_)) == \E i \in DOMAIN rows : Test(rows[i])
  IN  IF some(LAMBDA c : restartLoop(c, now)) THEN "crit"
      ELSE IF some(LAMBDA c : Dead(c) \/ c.unhealthy) THEN "warn" ELSE "ok"

ContainersRun(rt, ps, insp, now) ==
  LET listed == rowsFrom(ps.rows)
      rows   == inspect(listed, insp)
  IN  IF ~rt.available THEN Unavailable
      ELSE IF ps.how # "ok" THEN Bare("error")
      ELSE IF listed = <<>> THEN Judged("ok", {})
      ELSE Judged(report(rows, now),
                  (UNION {flag(rows[i], now) : i \in DOMAIN rows})
                    \union (IF noInspect(listed, insp) THEN {Unseen} ELSE {}))

=============================================================================
