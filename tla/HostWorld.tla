------------------------------ MODULE HostWorld -------------------------------
(***************************************************************************)
(* The host a check looks at, external to the program: what is true of it, *)
(* and what each file, program and socket may say when it is asked.  Every *)
(* reply is the reading and whether it is whole; one that is not is one of *)
(* the ways the code's readers provide for: refused, gone, cut short, full *)
(* of complaints.  A whole reading tells the truth as it is when asked.    *)
(*                                                                         *)
(* A world is a record of the facts that one check lives on.               *)
(***************************************************************************)
EXTENDS HostChecks, UnitChecks, Probes, TreeChecks

Whole(reading) == [whole |-> TRUE,  got |-> reading]
Torn(reading)  == [whole |-> FALSE, got |-> reading]

DockerChecks == {"docker.runtime", "docker.disk", "docker.containers"}
NetChecks    == {"network.ladder", "network.interface", "network.resolver", "network.ping",
                 "network.dns", "network.https", "network.tcp", "network.sockets",
                 "network.traceroute"}
CheckName    == {"system.load", "system.memory", "system.thermal", "system.updates",
                 "system.uptime", "disk.usage", "disk.inodes", "services.failed",
                 "services.boot", "logsqueeze.candidates", "storage.stale", "storage.env",
                 "procs.top"} \union DockerChecks \union NetChecks

Ask(what)        == [ask |-> what, of |-> Nothing]
AskOf(what, who) == [ask |-> what, of |-> who]

(* A list with one of its entries lost. *)
Short(q) == {RemoveAt(q, i) : i \in DOMAIN q}

(* A program that prints rows: it says them all, or it is not there, cannot *)
(* be run, or fails having printed what it could.                          *)
Printed(how, rows) == [how |-> how, rows |-> rows]

PrintsOrNothing(rows) ==
  {Whole(Printed("ok", rows))}
    \union {Torn(Printed(how, <<>>)) : how \in {"absent", "failed", "nonzero"}}

PrintsWhatItCould(rows) ==
  PrintsOrNothing(rows)
    \union {Torn(Printed("nonzero", some)) : some \in {rows} \union Short(rows)}

-----------------------------------------------------------------------------
(* /proc, /sys, apt and df *)

Loadavg(w, fields) == [cpus |-> w.cpus, loadavg |-> fields]

(* An old kernel says nothing of what is available. *)
Meminfo(w) ==
  IF w.available = Nothing
    THEN [MemTotal |-> w.total, MemFree |-> w.free]
    ELSE [MemTotal |-> w.total, MemFree |-> w.free, MemAvailable |-> w.available]

Labelled(zones, label) ==
  [i \in DOMAIN zones |-> [label |-> label, name |-> zones[i].name, temp |-> zones[i].temp]]

AptRows(n) == [i \in 1..n |-> [suite |-> "security", pocket |-> "main"]]

Apt(how, stderr, n) == [how |-> how, stderr |-> stderr, rows |-> AptRows(n)]

HostReplies(ask, w) ==
  CASE ask = "loadavg" ->
         {Whole(Loadavg(w, <<w.load, w.load, w.load>>))} \union
         {Torn(Loadavg(w, f)) : f \in {Nothing, <<>>, <<NaN, NaN, NaN>>}}
    [] ask = "meminfo" ->
         {Whole(Meminfo(w)), Torn(Nothing), Torn(<<>>),
          Torn([Meminfo(w) EXCEPT !["MemTotal"] = 0])}
    [] ask = "zones" ->
         {Whole(Labelled(w.zones, "x")), Torn(Labelled(w.zones, "denied"))}
    [] ask = "notifier" ->
         {Whole(w.motd), Whole(Nothing)}   (* the file as it was left, not as things are *)
    [] ask = "apt" ->
         {Whole(Apt("ok", FALSE, w.security)), Torn(Apt("ok", TRUE, 0))}
           \union {Torn(Apt(how, FALSE, 0)) : how \in {"absent", "failed", "nonzero"}}
    [] ask = "uptime" -> {Whole(w.uptime), Torn(Nothing), Torn(NaN)}
    [] ask = "df" -> PrintsWhatItCould(w.mounts)

-----------------------------------------------------------------------------
(* systemd and docker.  systemctl says nothing of the owner of a unit that  *)
(* has none, and asked of a unit it no longer knows it answers root's.      *)

Unit(name, owner) == [id |-> name, owner |-> owner]

OwnerOf(row, w) ==
  LET now == {i \in DOMAIN w.units : w.units[i].id = row.id}
  IN  IF now = {} THEN "" ELSE w.units[CHOOSE i \in now : TRUE].owner

UnitRows(units) == [i \in DOMAIN units |-> [id |-> units[i].id, fields |-> 4]]

Shown(how, blocks) == [how |-> how, blocks |-> blocks]

(* The containers that are still there when they are inspected.             *)
Inspected(listed, w) ==
  LET here(r) == \E i \in DOMAIN w.containers : w.containers[i].id = r.id
      is(r) == w.containers[CHOOSE i \in DOMAIN w.containers : w.containers[i].id = r.id]
      kept == Kept(listed, {r \in Range(listed) : here(r)})
  IN  [i \in DOMAIN kept |-> [restarts |-> is(kept[i]).restarts,
                              started  |-> is(kept[i]).started]]

Listed(containers) ==
  [i \in DOMAIN containers |->
     [id |-> containers[i].id, state |-> containers[i].state,
      unhealthy |-> containers[i].unhealthy]]

UnitReplies(ask, w, seen) ==
  CASE ask = "units" -> PrintsOrNothing(UnitRows(w.units))
    [] ask = "owners" ->
         LET rows == ParseFailedUnits(seen[1].got.rows)
             says == [i \in DOMAIN rows |-> OwnerOf(rows[i], w)]
         IN  {Whole(Shown("ok", says)), Torn(Shown("failed", <<>>)),
              Torn(Shown("ok", Tail(says)))}
    [] ask = "blame" -> PrintsOrNothing(w.blame) \union
         {Torn(Printed("ok", [w.blame EXCEPT ![1].bad = TRUE]))}
    [] ask = "version" ->
         IF ~w.installed THEN {Whole("absent")}
         ELSE IF w.up THEN {Whole("ok"), Torn("failed")} ELSE {Whole("failed")}
    [] ask \in {"dockerdf", "ps"} ->
         IF ~w.up THEN {Whole(Printed("nonzero", <<>>))}
         ELSE PrintsOrNothing(IF ask = "ps" THEN Listed(w.containers) ELSE w.images)
    [] ask = "inspect" ->
         LET lines == IF w.up THEN Inspected(rowsFrom(seen[2].got.rows), w) ELSE <<>>
         IN  {Whole([how |-> "ok", lines |-> lines]),
              Torn([how |-> "failed", lines |-> <<>>])}
           \union {Torn([how |-> "nonzero", lines |-> some]) : some \in Short(lines)}

-----------------------------------------------------------------------------
(* The network.  A curl that had no exchange writes its timing block all the*)
(* same, with code 0 in it; one that was killed writes none.  What a probe  *)
(* of a dead target comes back with is the truth of it, however it ends.    *)

Ends(how, said) == [how |-> how, said |-> said]

NetReplies(ask, w, seen) ==
  CASE ask = "route" ->
         {Whole([routes |-> w.routes, link |-> w.link, ipv4 |-> w.ipv4]),
          Whole([routes |-> w.routes,
                 link |-> IF w.link = "unknown" THEN Nothing ELSE w.link, ipv4 |-> w.ipv4])}
    [] ask = "gateway" ->
         IF Network(seen[2].got) = Nothing THEN {Whole(Nothing)}
         ELSE {Whole(Ends("ok", w.loss)), Torn(Ends("failed", Nothing))}
    [] ask = "ping" ->
         {Whole(Ends(IF w.loss = 100 THEN "nonzero" ELSE "ok", w.loss)),
          Torn(Ends("timeout", Nothing)), Torn(Ends("absent", Nothing))}
    [] ask = "dns" ->
         {Whole(IF w.resolves THEN {"192.0.2.1"} ELSE Nothing), Torn(Nothing)}
    [] ask = "curl" ->
         IF ~w.curl THEN {Whole(Ends("absent", Nothing))}
         ELSE {Whole(Ends(IF w.code = 0 THEN "nonzero" ELSE "ok", w.code)),
               Torn(Ends("timeout", Nothing)), Torn(Ends("nonzero", Nothing))}
    [] ask = "look" -> {Whole(w.curl)}
    [] ask = "dial" ->
         {Whole([addresses |-> IF w.resolves THEN {"192.0.2.1"} ELSE Nothing,
                 dial |-> w.dial]),
          Torn([addresses |-> Nothing, dial |-> "other"])}
    [] ask = "resolvers" -> {Whole(w.nameservers), Torn(Nothing)}
    [] ask = "ss" ->
         {Whole(Ends("ok", w.listening))}
           \union {Torn(Ends(how, {})) : how \in {"absent", "failed", "nonzero"}}
    [] ask = "tools" -> {Whole(w.tools)}
    [] ask = "trace" ->
         {Whole([how |-> "ok", hops |-> w.hops, resume |-> w.arrives,
                 tooMany |-> FALSE, complained |-> FALSE]),
          Torn([how |-> "timeout", hops |-> Front(w.hops), resume |-> FALSE,
                tooMany |-> FALSE, complained |-> FALSE]),
          Torn([how |-> "nonzero", hops |-> <<>>, resume |-> FALSE,
                tooMany |-> FALSE, complained |-> TRUE])}

-----------------------------------------------------------------------------
(* Trees.  A walk may be refused a directory, or the description of a file, *)
(* that it would have gone into or looked at.                               *)

Refusing(entries) ==
  {[entries EXCEPT ![i] = IF @.kind = "dir" THEN [@ EXCEPT !.opens = FALSE]
                                            ELSE [@ EXCEPT !.info = Nothing]] :
     i \in {j \in DOMAIN entries :
              /\ entries[j] \in Range(visited(entries, TRUE))
              /\ IF entries[j].kind = "dir" THEN ~entries[j].pruned ELSE entries[j].matches}}

Table(how, rows) == [how |-> how, rows |-> rows]

(* A process is there, with the memory it holds and the ticks it has used,  *)
(* or is there and will not be read.                                        *)
Processes(w) ==
  [p \in w.running |->
     [how |-> IF p \in w.hidden THEN "denied" ELSE "ok",
      rss |-> w.rss[p], ticks |-> w.ticks[p]]]

TreeReplies(ask, w) ==
  CASE ask = "root" -> {Whole(w.root)} \union {Torn(r) : r \in {"denied", "failed"}}
    [] ask = "open" -> {Whole("opened"), Torn("denied"), Torn("failed")}
    [] ask = "tree" ->
         {Whole(w.entries)} \union {Torn(e) : e \in Refusing(w.entries)}
    [] ask = "listing" ->
         {Whole(w.entries), Torn(Nothing)} \union {Torn(e) : e \in Refusing(w.entries)}
    [] ask = "text" ->
         {Whole([how |-> w.text, lines |-> IF w.text = "ok" THEN w.lines ELSE <<>>]),
          Torn([how |-> "unread", lines |-> <<>>])}
    [] ask = "reopen" ->
         {Whole("opened")} \union {Torn(r) : r \in {"denied", "failed"}}
    [] ask \in {"ticks", "procs"} ->
         {[whole |-> ask = "ticks" \/ w.hidden = {}, got |-> Table("ok", Processes(w))]}
           \union {Torn(Table(how, <<>>)) : how \in {"absent", "denied", "failed"}}

-----------------------------------------------------------------------------
(* The worlds there can be for each check.  A tree is two deep, and what a   *)
(* walk is refused is in the reply, not in the tree.                         *)

ContainerFacts == [id : STRING, state : STRING, unhealthy : BOOLEAN, restarts : Nat,
                   started : Int \union {Nothing}]

(* What the notifier wrote when it last ran, last night as a rule: both      *)
(* counts, the second perhaps absent or past int64, perhaps behind the first *)
(* on one line.  No file, or an empty one, is Nothing.                       *)
MotdFacts == [regular : Nat \union {Nothing}, security : Nat \union {Nothing, NaN},
              behind : BOOLEAN]

FileFacts == [size : Nat, mtime : Int, regular : BOOLEAN]

EntryFacts ==
  [kind : {"dir"}, name : STRING \ {""}, inside : {""}, pruned : BOOLEAN, opens : {TRUE}]
    \union [kind : {"file"}, name : STRING, inside : STRING, matches : BOOLEAN,
            info : FileFacts]

NetFacts ==
  [routes : Seq([default : BOOLEAN, gateway : STRING]), link : STRING,
   ipv4 : STRING \union {Nothing}, loss : 0..100, resolves : BOOLEAN, curl : BOOLEAN,
   code : {0} \union 200..599, dial : DOMAIN classifyDial, nameservers : SUBSET STRING,
   listening : SUBSET [state : STRING, port : Nat],
   tools : SUBSET {"traceroute", "tracepath"}, arrives : BOOLEAN,
   hops : Seq([hosts : SUBSET STRING, flags : SUBSET STRING])]

Hosts(check) ==
  CASE check = "system.load"    -> [load : Nat, cpus : Nat \ {0}]
    [] check = "system.memory"  ->
         {w \in [total : Nat \ {0}, available : Nat \union {Nothing}, free : Nat] :
            w.free <= w.total /\ (w.available # Nothing => w.available <= w.total)}
    [] check = "system.thermal" -> [zones : Seq([name : STRING, temp : Int \union {Nothing}])]
    [] check = "system.updates" -> [security : Nat, motd : MotdFacts \union {Nothing}]
    [] check = "system.uptime"  -> [uptime : Int]
    [] check \in {"disk.usage", "disk.inodes"} ->
         [mounts : Seq([mount : STRING, capacity : Nat, pseudo : BOOLEAN,
                        total : Nat \ {0}, used : Nat])]
    [] check = "services.failed" -> [units : Seq([id : STRING, owner : STRING \union {Nothing}])]
    [] check = "services.boot" ->
         [blame : Seq([id : STRING, min : Nat, s : Nat, ms : Nat, bad : BOOLEAN])]
    [] check \in DockerChecks ->
         {w \in [installed : BOOLEAN, up : BOOLEAN, containers : Seq(ContainerFacts),
                 images : Seq([id : STRING])] :
            \A i, j \in DOMAIN w.containers :
              w.containers[i].id = w.containers[j].id => i = j}
    [] check \in NetChecks -> {w \in NetFacts : w.nameservers # Nothing}
    [] check \in {"logsqueeze.candidates", "storage.stale"} ->
         {w \in [root : {"dir", "notdir", "absent"}, entries : Seq(EntryFacts)] :
            w.root # "dir" => w.entries = <<>>}
    [] check = "storage.env" ->
         {w \in [root : {"file", "dir", "special", "absent"},
                 text : {"ok", "absent", "denied", "unread"}, lines : Seq(STRING)] :
            w.root = "absent" => w.text # "ok"}
    [] check = "procs.top" ->
         {w \in [running : SUBSET Nat, hidden : SUBSET Nat, rss : Seq(Nat), ticks : Seq(Nat)] :
            /\ w.hidden \subseteq w.running
            /\ w.running \subseteq DOMAIN w.rss \intersect DOMAIN w.ticks}   (* by pid *)

(* What does not change while a check runs: the programs that are installed, *)
(* and whether the .env file could be one.                                   *)
Alike(check, v, w) ==
  /\ check \in NetChecks => v.curl = w.curl /\ v.tools = w.tools
  /\ check = "network.https" => w.curl   (* it is not run without *)
  /\ check = "storage.env" => (v.root \in {"file", "absent"} <=> w.root \in {"file", "absent"})

(* A trace gets to its target when that is the last to answer, unflagged.    *)
ArrivesAt(w, target) ==
  w.hops # <<>> /\ Last(w.hops).flags = {} /\ target \in Last(w.hops).hosts

-----------------------------------------------------------------------------

HostAsks == {"loadavg", "meminfo", "zones", "notifier", "apt", "uptime", "df"}
UnitAsks == {"units", "owners", "blame", "version", "dockerdf", "ps", "inspect"}
TreeAsks == {"root", "open", "tree", "listing", "text", "reopen", "ticks", "procs"}

Replies(q, w, seen) ==
  CASE q.ask \in HostAsks -> HostReplies(q.ask, w)
    [] q.ask \in UnitAsks -> UnitReplies(q.ask, w, seen)
    [] q.ask \in TreeAsks -> TreeReplies(q.ask, w)
    [] OTHER              -> NetReplies(q.ask, w, seen)

=============================================================================
