---------------------------- MODULE BuiltinChecks -----------------------------
(***************************************************************************)
(* One process that runs one built-in check: it resolves the policy and    *)
(* the probes from their files, takes the check's readings one after the   *)
(* other while the host goes on changing under it and its budget may run   *)
(* out, and answers.  What a check makes of its readings is in HostChecks, *)
(* UnitChecks, NetworkChecks and TreeChecks; which readings it takes, in   *)
(* which order and until when, is here.                                    *)
(***************************************************************************)
EXTENDS HostWorld

CONSTANTS
  Starts,    (* the checks and what they start from: see MCBuiltinChecks *)
  Worlds,    (* check -> sets of worlds a host can move between          *)
  MaxDrift,  (* changes of the host in one run                           *)
  Days,      (* --param older_than_days                                  *)
  Now,       (* today, and the minute it is                              *)
  Required   (* --param required                                         *)

(* The texts of the code that are told from an answer that did not come: the*)
(* provers know of no literal that it is in STRING.                         *)
Spelled == {"8.8.8.8", "1.1.1.1", "github.com", "archive.ubuntu.com", "https://github.com",
            "github.com:443", "traceroute", "tracepath", "failed units", "docker", "absent",
            "link", "gateway", "internet", "dns", "https"}

Texts == STRING \union Spelled

(* What stands for an answer that did not come is none of those that do.    *)
ASSUME NothingAssumption ==
  /\ Nothing \notin Spelled
  /\ Nothing \notin Int \union STRING \union FileFacts \union {{"192.0.2.1"}}
  /\ Nothing \notin Seq(Int \union {NaN}) \union Seq(EntryFacts)
  /\ Nothing \notin Seq([label : {"x", "denied"}, name : STRING, temp : Int])
  /\ Nothing \notin [MemTotal : Int, MemFree : Int]
  /\ Nothing \notin [MemTotal : Int, MemFree : Int, MemAvailable : Int]
  /\ Nothing \notin MotdFacts
  /\ Nothing \notin [default : BOOLEAN, gateway : STRING]
  /\ Nothing \notin [gateway : STRING, ipv4 : STRING \union {Nothing}, operstate : STRING]

(* A check moves between worlds of its own that differ in nothing that stays.*)
ASSUME WorldsAssumption ==
  \A c \in DOMAIN Worlds : \A group \in Worlds[c] :
    \A v, w \in group : w \in Hosts(c) /\ Alike(c, v, w)

(* Where a trace is sent: where it was told to be, nowhere if that is blank, *)
(* and else where the internet rung of the ladder pings.                     *)
SentTo(f, ladder) == IF f.target = Nothing THEN ladder.internet ELSE f.target

(* What is installed is checked, with files that hold documents and params   *)
(* of the command line, and a trace arrives where it is sent.                *)
ASSUME StartsAssumption ==
  \A start \in Starts :
    /\ start.check \in CheckName \intersect DOMAIN Worlds
    /\ \A f \in start.files :
         /\ \A layer \in {"system", "user", "probes"} :
              f[layer].state \in FileState /\ IsDocument(f[layer].doc)
         /\ f.top \in Int \union {Nothing, NaN} /\ f.target \in STRING \union {Nothing}
         /\ LET target == SentTo(f, resolveProbes(f.probes).ladder)
            IN  start.check = "network.traceroute" /\ target # "" =>
                  \A group \in Worlds[start.check] : \A w \in group :
                    w.arrives <=> ArrivesAt(w, target)

ASSUME ParamAssumption ==
  /\ Required \subseteq STRING \ {"bad", ""}
  /\ Days \in Int \union {Nothing} /\ Now \in Int
  /\ Half \in Nat \ {0} /\ MinBytes \in Nat /\ StepCap \in Nat

VARIABLES
  check,    (* the check that is run                           *)
  files,    (* thresholds.yml of the system and the user, probes.yml; *)
            (* --param top and --param target, Nothing when not given *)
  policy,   (* what Resolve made of the first two, or Nothing  *)
  probes,   (* what resolveProbes made of the third            *)
  host,     (* the world now                                   *)
  been,     (* the worlds the host was in while it was read    *)
  seen,     (* the readings taken                              *)
  expired,  (* the budget has run out                          *)
  answer    (* what Run returned, or Nothing                   *)

vars == <<check, files, policy, probes, host, been, seen, expired, answer>>

-----------------------------------------------------------------------------
(* Which readings a check takes. *)

LadderScript ==
  <<Ask("look"), Ask("route"), Ask("gateway"), Ask("ping"), Ask("dns"), Ask("curl")>>

Each(what, targets) == [i \in DOMAIN targets |-> AskOf(what, targets[i])]

Script ==
  CASE check = "system.load"          -> <<Ask("loadavg")>>
    [] check = "system.memory"         -> <<Ask("meminfo")>>
    [] check = "system.thermal"     -> <<Ask("zones")>>
    [] check = "system.updates"  -> <<Ask("notifier"), Ask("apt")>>
    [] check = "system.uptime"     -> <<Ask("uptime")>>
    [] check \in {"disk.usage", "disk.inodes"} -> <<Ask("df")>>
    [] check = "services.failed"   -> <<Ask("units"), Ask("owners")>>
    [] check = "services.boot"     -> <<Ask("blame")>>
    [] check = "docker.runtime"    -> <<Ask("version")>>
    [] check = "docker.disk"       -> <<Ask("version"), Ask("dockerdf")>>
    [] check = "docker.containers" -> <<Ask("version"), Ask("ps"), Ask("inspect")>>
    [] check = "network.ladder"    -> LadderScript
    [] check = "network.interface" -> <<Ask("route")>>
    [] check = "network.resolver"  -> <<Ask("resolvers")>>
    [] check = "network.ping"      -> Each("ping", probes.targets.ping)
    [] check = "network.dns"       -> Each("dns", probes.targets.dns)
    [] check = "network.https"     -> Each("curl", probes.targets.http)
    [] check = "network.tcp"       -> Each("dial", probes.targets.tcp)
    [] check = "network.sockets"   -> <<Ask("ss")>>
    [] check = "network.traceroute" -> <<Ask("tools"), Ask("trace")>>
    [] check = "logsqueeze.candidates" -> <<Ask("root"), Ask("listing")>>
    [] check = "storage.stale"     -> <<Ask("root"), Ask("open"), Ask("tree")>>
    [] check = "storage.env"       -> <<Ask("root"), Ask("text"), Ask("reopen")>>
    [] check = "procs.top"         -> <<Ask("ticks"), Ask("procs")>>

Taken(i) == i \in DOMAIN seen
Got(i)   == IF Taken(i) THEN seen[i].got ELSE Nothing

Runtime == Probe(Detect(Got(1) # "absent"), Got(1))

TraceTarget == SentTo(files, probes.ladder)

(* What the notifier left behind is the answer: apt is not asked.           *)
MotdTold == Taken(1) /\ fromNotifier([notifier |-> Got(1)]) # Nothing

(* The readings so far answer the question: no more of them are taken.      *)
Settled ==
  \/ Len(seen) = Len(Script)
  \/ check = "network.ladder" /\ expired
  \/ check = "system.updates" /\ MotdTold
  \/ check = "services.failed" /\ Taken(1) /\ (Got(1).how # "ok" \/ Got(1).rows = <<>>)
  \/ check \in {"docker.disk", "docker.containers"} /\ Taken(1) /\ ~Runtime.available
  \/ check = "docker.containers" /\ Taken(2) /\ (Got(2).how # "ok" \/ Got(2).rows = <<>>)
  \/ check = "network.traceroute"
       /\ (TraceTarget = "" \/ (Taken(1) /\ Got(1) = {}))
  \/ check = "logsqueeze.candidates" /\ Taken(1) /\ openable(Got(1)) # Bare("ok")
  \/ check = "storage.stale" /\ Taken(1)
       /\ walkable(Got(1), IF Taken(2) THEN Got(2) ELSE "opened") # Bare("ok")
  \/ check = "storage.env" /\ Taken(1)
       /\ (readable(Got(1)) # Bare("ok") \/ (Taken(2) /\ Got(2).how # "unread"))
  \/ check = "procs.top" /\ (topRefused(files.top) \/ (Taken(1) /\ Got(1).how # "ok"))

(* The readings of the rungs: what came after the look for curl.            *)
RungsRead ==
  LET net == IF Taken(2) THEN Network(Got(2)) ELSE Nothing
  IN  SubSeq(<<net, IF Taken(3) /\ net # Nothing THEN Ping(Got(3)) ELSE Nothing,
               IF Taken(4) THEN Ping(Got(4)) ELSE Nothing,
               DNS(Got(5)), IF Taken(6) THEN Curl(Got(6)) ELSE Nothing>>,
             1, Len(seen) - 1)

-----------------------------------------------------------------------------
(* What a check makes of the readings it took. *)

Run ==
  CASE check = "system.load"         -> LoadRun(policy.set, Got(1))
    [] check = "system.memory"        -> MemoryRun(policy.set, [meminfo |-> Got(1)])
    [] check = "system.thermal"    -> ThermalRun(policy.set, [zones |-> Got(1)])
    [] check = "system.updates" ->
         UpdatesRun(policy.set, [notifier |-> Got(1), apt |-> Got(2)])
    [] check = "system.uptime"    -> UptimeRun([uptime |-> Got(1)])
    [] check = "disk.usage"       -> DfRun(policy.set, "disk.used_pct", Got(1))
    [] check = "disk.inodes"      -> DfRun(policy.set, "disk.inode_pct", Got(1))
    [] check = "services.failed"  -> FailedRun(policy.set, Got(1), Got(2))
    [] check = "services.boot"    -> BootRun(Got(1))
    [] check = "docker.runtime"   -> RuntimeRun(Runtime)
    [] check = "docker.disk"      -> DiskUsageRun(Runtime, Got(2))
    [] check = "docker.containers" -> ContainersRun(Runtime, Got(2), Got(3), Now)
    [] check = "network.ladder"   -> LadderRun(Taken(1) /\ ~Got(1), RungsRead)
    [] check = "network.interface" -> IfaceRun(Network(Got(1)))
    [] check = "network.resolver" -> ResolverRun(Resolver(Got(1)))
    [] check = "network.ping" -> 
         ProbesRun(probes.targets.ping, [i \in DOMAIN seen |-> PingStatus(Ping(Got(i)))])
    [] check = "network.dns"  -> 
         ProbesRun(probes.targets.dns, [i \in DOMAIN seen |-> DNSStatus(DNS(Got(i)))])
    [] check = "network.https" ->
         ProbesRun(probes.targets.http, [i \in DOMAIN seen |-> HTTPSStatus(Curl(Got(i)))])
    [] check = "network.tcp" ->
         ProbesRun(probes.targets.tcp,
                   [i \in DOMAIN seen |-> portStatus(Port(Got(i).addresses, Got(i).dial))])
    [] check = "network.sockets" -> SocketsRun(Got(1))
    [] check = "network.traceroute" ->
         TracerouteRun(TraceTarget,
                       IF Taken(1) THEN SelectTraceTool(Got(1)) ELSE Nothing, Got(2))
    [] check = "logsqueeze.candidates" -> CandidatesRun(Got(1), Got(2))
    [] check = "storage.stale"    -> StaleRun(Days, Now, Got(1), Got(2), Got(3))
    [] check = "storage.env"      -> EnvRun(Required, Got(1), Got(2), Got(3))
    [] check = "procs.top"        -> TopRun(files.top, Got(1), Got(2))

-----------------------------------------------------------------------------
(* Start has the files as they are found; the first world is one of any.    *)
Init ==
  /\ \E start \in Starts :
       /\ check = start.check
       /\ files \in start.files
  /\ \E group \in Worlds[check] : host \in group
  /\ policy = Nothing /\ probes = Nothing
  /\ been = {} /\ seen = <<>> /\ expired = FALSE /\ answer = Nothing

(* The process starts: its configuration is resolved, once. *)
Configure ==
  /\ policy = Nothing
  /\ policy' = Resolve(files.system, files.user)
  /\ probes' = resolveProbes(files.probes)
  /\ UNCHANGED <<check, files, host, been, seen, expired, answer>>

(* The check takes its next reading of the host as it is now. *)
Read ==
  /\ policy # Nothing /\ answer = Nothing /\ ~Settled
  /\ \E reply \in Replies(Script[Len(seen) + 1], host, seen) :
       seen' = Append(seen, reply)
  /\ been' = been \union {host}
  /\ UNCHANGED <<check, files, policy, probes, host, expired, answer>>

(* The check returns what it makes of them. *)
Answer ==
  /\ policy # Nothing /\ answer = Nothing /\ Settled
  /\ answer' = Run
  /\ UNCHANGED <<check, files, policy, probes, host, been, seen, expired>>

(* The host goes on between two readings. *)
Drift ==
  /\ policy # Nothing /\ answer = Nothing /\ ~Settled /\ seen # <<>>
  /\ Cardinality(been) <= MaxDrift
  /\ \E group \in Worlds[check] : host \in group /\ host' \in group \ {host}
  /\ UNCHANGED <<check, files, policy, probes, been, seen, expired, answer>>

(* The runner's budget for the check runs out. *)
Expire ==
  /\ policy # Nothing /\ answer = Nothing /\ ~expired
  /\ expired' = TRUE
  /\ UNCHANGED <<check, files, policy, probes, host, been, seen, answer>>

Next == Configure \/ Read \/ Answer \/ Drift \/ Expire

Spec == Init /\ [][Next]_vars

-----------------------------------------------------------------------------
(* What is true of a world, for the properties alone: what a check ought to *)
(* speak of, each with how bad it is; ok for what is only to be named.       *)

Bad(about, status) == IF status = "ok" THEN {} ELSE {Step(about, status)}

GradedBad(id, v, about) == Bad(about, SetGrade(policy.set, id, v))

ContainerBad(c) ==
  Bad(c.id, IF c.restarts > 3 /\ c.started # Nothing /\ Now - c.started <= 10 THEN "crit"
            ELSE IF c.state = "dead" \/ c.unhealthy THEN "warn" ELSE "ok")

UsedOf(w) ==
  LET available == IF w.available = Nothing THEN w.free ELSE w.available
  IN  ((w.total - available) * 100) \div w.total

Linked(w) == w.link # "down" /\ \E i \in DOMAIN w.routes : w.routes[i].default

RungsBad(w) ==
  Bad("link", IF Linked(w) THEN "ok" ELSE "crit")
    \union Bad("gateway", IF w.loss = 100 THEN "crit" ELSE "ok")
    \union Bad("internet", IF w.loss = 100 THEN "crit" ELSE "ok")
    \union Bad("dns", IF w.resolves THEN "ok" ELSE "crit")
    \union Bad("https", IF ~w.curl THEN "warn" ELSE IF w.code = 0 THEN "crit" ELSE "ok")

LinkBad(w) ==
  Bad("link", IF ~Linked(w) THEN "crit" ELSE IF w.ipv4 = Nothing THEN "warn" ELSE "ok")

EachBad(targets, status) == UNION {Bad(targets[i], status) : i \in DOMAIN targets}

(* The files of a tree the check is after. *)
FilesIn(w, After(_)) ==
  LET all == {w.entries[i] : i \in DOMAIN w.entries}
  IN  {Step(e.name, "ok") :
         e \in {f \in all : f.kind = "file" /\ f.matches /\ f.info.regular /\ After(f)}}

PrunedIn(w) ==
  {w.entries[i].name : i \in {j \in DOMAIN w.entries :
                              w.entries[j].kind = "dir" /\ w.entries[j].pruned}}

Repeats(lines) ==
  \E i, j \in DOMAIN lines : i # j /\ lines[i] = lines[j] /\ lines[i] # ""

EnvBad(w) ==
  IF w.root \notin {"file", "absent"} THEN {}
  ELSE IF w.root = "absent" \/ w.text # "ok" THEN Bad("", "crit")
  ELSE (UNION {Bad(k, "crit") : k \in Required \ Range(w.lines)})
         \union Bad("", IF "bad" \in Range(w.lines) \/ Repeats(w.lines) THEN "warn" ELSE "ok")

(* The security updates there are, by the source that was asked: the file of *)
(* the notifier is taken as it is, agreeing with what the operator read in it*)
(* at login being worth more than being current (updates.go).                *)
SecurityOf(w) ==
  IF ~MotdTold THEN w.security
  ELSE IF w.motd.security = Nothing THEN 0 ELSE w.motd.security

(* The processes that are among the n largest whichever way ties are broken.*)
Largest(w, n) ==
  {p \in w.running : Cardinality({q \in w.running \ {p} : w.rss[q] >= w.rss[p]}) < n}

Worth(w) ==
  CASE check = "system.load"    -> GradedBad("cpu.load_per_cpu", w.load \div w.cpus, "load")
    [] check = "system.memory"  -> GradedBad("mem.used_pct", UsedOf(w), "memory")
    [] check = "system.thermal" ->
         UNION {GradedBad("thermal.temp_c", w.zones[i].temp, w.zones[i].name) :
                  i \in {j \in DOMAIN w.zones : w.zones[j].temp # Nothing}}
    [] check = "system.updates" ->
         GradedBad("updates.security", SecurityOf(w), "security updates")
    [] check \in {"disk.usage", "disk.inodes"} ->
         UNION {GradedBad(IF check = "disk.usage" THEN "disk.used_pct" ELSE "disk.inode_pct",
                          w.mounts[i].capacity, w.mounts[i].mount) :
                  i \in {j \in DOMAIN w.mounts : ~w.mounts[j].pseudo}}
    [] check = "services.failed" /\ w.units # <<>> ->   (* none is fine by any bound *)
         GradedBad("services.failed", Len(w.units), "failed units")
           \union {Step(w.units[i].id, "ok") : i \in DOMAIN w.units}
    [] check = "docker.runtime" -> Bad("docker", IF w.installed /\ ~w.up THEN "crit" ELSE "ok")
    [] check = "docker.containers" /\ w.up ->
         UNION {ContainerBad(w.containers[i]) : i \in DOMAIN w.containers}
    [] check = "network.ladder"    -> RungsBad(w)
    [] check = "network.interface" -> LinkBad(w)
    [] check = "network.resolver" ->
         Bad("resolvers", IF w.nameservers = {} THEN "crit" ELSE "ok")
    [] check = "network.ping" ->
         EachBad(probes.targets.ping,
                 IF w.loss = 100 THEN "crit" ELSE IF w.loss > 0 THEN "warn" ELSE "ok")
    [] check = "network.dns" -> EachBad(probes.targets.dns, IF w.resolves THEN "ok" ELSE "crit")
    [] check = "network.https" ->
         EachBad(probes.targets.http,
                 IF w.code = 0 THEN "crit" ELSE IF w.code >= 400 THEN "warn" ELSE "ok")
    [] check = "network.tcp" ->
         EachBad(probes.targets.tcp,
                 IF ~w.resolves \/ w.dial \notin {"connected", "refused"} THEN "crit"
                 ELSE IF w.dial = "refused" THEN "warn" ELSE "ok")
    [] check = "network.traceroute" /\ w.tools # {} ->
         Bad("trace", IF w.arrives THEN "ok"
                      ELSE IF \E i \in DOMAIN w.hops : w.hops[i].hosts # {} THEN "warn"
                      ELSE "crit")
    [] check = "logsqueeze.candidates" /\ w.root = "dir" ->
         FilesIn(w, LAMBDA e : e.info.size >= MinBytes)
    [] check = "storage.stale" /\ w.root = "dir" ->
         FilesIn(w, LAMBDA e : e.info.mtime <= Now - Days /\ e.inside \notin PrunedIn(w))
    [] check = "storage.env" -> EnvBad(w)
    [] check = "procs.top" /\ ~topRefused(files.top) ->   (* the largest of them *)
         {Step(p, "ok") : p \in Largest(w, IF files.top = Nothing \/ files.top > 5 THEN 5 ELSE files.top)}
    [] OTHER -> {}

-----------------------------------------------------------------------------

Answered == answer # Nothing
AllWhole == \A i \in DOMAIN seen : seen[i].whole
Verdict  == IF expired THEN "error" ELSE Final(answer)

(* The checks that name what they found, and those that name what is bad.   *)
Finds == {"logsqueeze.candidates", "storage.stale", "procs.top"}
Lists == {"system.thermal", "disk.usage", "disk.inodes", "services.failed",
          "docker.containers"}

Named ==
  ({s.about : s \in {t \in answer.steps : check \in Finds \/ t.status \in {"warn", "crit"}}}
     \union {t.subject : t \in answer.trips}) \ {Nothing}

(* It says that it has not seen everything.  Of the lines that services.boot*)
(* lost it says so in passing: no unit that is slow is among them.          *)
Admits ==
  Unseen \in answer.steps \/ (check = "services.boot" /\ Aside \in answer.steps)

(* What an answer may name.  Who is busy is a matter of two readings, not of*)
(* one world: of a process that procs.top names, that it is there.          *)
Abouts(w) ==
  IF check = "procs.top" THEN w.running \ w.hidden ELSE {x.about : x \in Worth(w)}

(* The layout of the notifier's file that ParseNotifierText gets wrong, and *)
(* whose comment says so: nothing is claimed of an answer from it.          *)
Misread == check = "system.updates" /\ MotdTold /\ Got(1).behind

(* No green from a check that could not look: an ok answer that does not    *)
(* admit to having missed something rests on readings that all came whole.  *)
(* (network.sockets is left out: an ss that fails with nothing printed is   *)
(* taken for a host where nothing listens.)                                 *)
NeverGreenBlind ==
  (Answered /\ check # "network.sockets" /\ Verdict = "ok" /\ ~Admits) => AllWhole

(* What is wrong in every world the check looked at is heard: the verdict   *)
(* is at least as bad, and the checks that name things name it, unless the  *)
(* check says that it could not look or did not see all.  (The severity of  *)
(* a dead URL is left to DeadIsCritical, and of system.updates it is wrong  *)
(* by the source that was asked: see SecurityOf.)                           *)
FaultIsHeard ==
  (Answered /\ been # {} /\ ~Misread) =>
    \A x \in UNION {Worth(w) : w \in been} :
      (\A w \in been : x \in Worth(w)) =>
        \/ Verdict \in {"error", "unavailable"} \/ Admits
        \/ /\ \/ rank(Verdict) >= rank(x.status)
              \/ check = "network.https" /\ Verdict = "warn"
           /\ check \in Finds \union (Lists \ {"system.thermal"}) => x.about \in Named

(* Nobody is paged for nothing: a warn or a crit that rests on whole        *)
(* readings was true, at that severity, of a world the check looked at; of  *)
(* system.updates, true of the file that the notifier left there.           *)
NoFalseAlarm ==
  (Answered /\ AllWhole /\ ~Misread /\ Verdict \in {"warn", "crit"}) =>
    \E w \in been : \E x \in Worth(w) : rank(x.status) >= rank(Verdict)

(* Nobody is sent to the wrong place: what an answer names is at fault, or  *)
(* what it says it found is there, in a world the check looked at; for the  *)
(* checks that list what they find, however torn the readings were.         *)
RightOneNamed ==
  (Answered /\ check # "network.traceroute" /\ ~Misread
     /\ (AllWhole \/ check \in Finds \union Lists)) =>
    Named \subseteq UNION {Abouts(w) : w \in been}

(* What a file sets, what a later one overrules, what came of it.           *)
Sets(file, id, s) ==
  /\ Contributes(file) /\ id \in DOMAIN file.doc /\ file.doc[id].kind = "map"
  /\ s \in DOMAIN file.doc[id].of

Overrules(file, id, s) ==
  Sets(file, id, s) \/ (Contributes(file) /\ id \in DOMAIN file.doc /\ file.doc[id].kind # "map")

InEffect(file, id, s) ==
  /\ id \in DOMAIN policy.set /\ s \in {"warn", "crit"}
  /\ file.doc[id].of[s] = Number(policy.set[id][s])

(* What a knob ought to be for a number that was written: that number, but  *)
(* for the fraction of a unit, above it or below none, that a whole knob has*)
(* no room for.                                                             *)
Follows(knob, key, n) ==
  /\ n # NaN
  /\ IF Knob[key].whole
       THEN IF n >= 0 THEN n - 100 * knob \in 0..99 ELSE 100 * knob - n \in 0..99
       ELSE knob = n

Complained(id) == \E w \in policy.warnings : "id" \in DOMAIN w /\ w.id = id

(* Nothing an operator wrote is lost in silence: a bound or a knob of a file*)
(* that was read is in effect, or a later layer set it, or a warning names  *)
(* it, and a file that was not read is named itself.  (The fraction of a    *)
(* whole knob is the exception: probes.go drops it in silence, and its test *)
(* says that it must.)                                                      *)
NothingVanishes ==
  policy # Nothing =>
    /\ \A id \in RuleId, s \in Setting :
         /\ Sets(files.user, id, s) => InEffect(files.user, id, s) \/ Complained(id)
         /\ Sets(files.system, id, s) =>
              \/ InEffect(files.system, id, s) \/ Complained(id)
              \/ Overrules(files.user, id, s)
    /\ \A layer \in {"system", "user"} :
         files[layer].state \in {"unreadable", "unparseable"} =>
           [layer |-> layer] \in policy.warnings
    /\ Contributes(files.probes) =>
         \A key \in DOMAIN Knob :
           LET v == At(section(files.probes.doc, Knob[key].section), key)
           IN  v.kind = "number" =>
                 \/ Follows(probes.knobs[key], key, v.n)
                 \/ \E w \in probes.warnings : w.key = key

(* Whatever the files say, what results can be run with: every rule is one  *)
(* that can grade, every knob is within its bounds, and a check whose probes*)
(* all take up to their own timeouts is not cut off by its budget, which    *)
(* for curl, that is waited for past its timeout, is so up to two URLs.     *)
PolicyStands ==
  policy # Nothing =>
    /\ DOMAIN policy.set = DOMAIN Defaults
    /\ \A id \in DOMAIN policy.set : Valid(policy.set[id])
    /\ \A key \in DOMAIN Knob :
         probes.knobs[key] # NaN /\ probes.knobs[key] \in Knob[key].low..Knob[key].high
    /\ \A c \in {"network.ping", "network.dns", "network.https", "network.tcp",
                 "network.ladder"} :
         \/ Longest(c, probes) <= Budget(c, probes)
         \/ c = "network.https" /\ Len(probes.targets.http) > 2

(* probes.go says of a URL that gave no exchange (its name, the connect or  *)
(* the handshake) that it is critical, and of a server that answered with   *)
(* an error that it is a warning: a URL that is dead throughout is critical.*)
DeadIsCritical ==
  (Answered /\ AllWhole /\ check = "network.https" /\ probes.targets.http # <<>>
     /\ \A w \in been : w.code = 0) => Verdict \in {"crit", "error"}

=============================================================================
