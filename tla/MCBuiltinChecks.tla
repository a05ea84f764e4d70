--------------------------- MODULE MCBuiltinChecks ----------------------------
(***************************************************************************)
(* The worlds and the files BuiltinChecks is checked with: for every check *)
(* a world in which all is well, the worst of what it looks for, something *)
(* in between and, where it lists, two of them that differ.                *)
(***************************************************************************)
EXTENDS BuiltinChecks

MCDefaults ==
  "cpu.load_per_cpu" :> [warn |-> 100, crit |-> 200] @@
  "mem.used_pct"     :> [warn |-> 80, crit |-> 95] @@
  "thermal.temp_c"   :> [warn |-> 70, crit |-> 85] @@
  "updates.security" :> [warn |-> 1, crit |-> 5] @@
  "disk.used_pct"    :> [warn |-> 85, crit |-> 95] @@
  "disk.inode_pct"   :> [warn |-> 85, crit |-> 95] @@
  "services.failed"  :> [warn |-> 1, crit |-> 3]

MCRuleId == DOMAIN MCDefaults \union {"mem.used_pc"}

-----------------------------------------------------------------------------
(* Files. *)

File0(state) == [state |-> state, doc |-> <<>>]
Wrote(doc)   == [state |-> "read", doc |-> doc]
Rule0(id, settings) == Wrote(id :> Mapping(settings))

mem == "mem.used_pct"

ThresholdFiles ==
  {File0(s) : s \in FileState} \union
  { Rule0(mem, "warn" :> Number(50)),
    Rule0(mem, "crit" :> Number(70)),
    Rule0(mem, "warn" :> Number(90) @@ "crit" :> Number(92)),
    Rule0(mem, "warn" :> Number(NaN)),
    Rule0(mem, "warn" :> Neither @@ "other" :> Number(1)),
    Rule0("mem.used_pc", "warn" :> Number(50)),
    Wrote(mem :> Neither) }

(* In hundredths: 3.7 packets, half a second, and a bit less than none.     *)
ProbeFiles ==
  {File0(s) : s \in FileState} \union
  { Wrote("ping" :> Mapping("count" :> Number(100000) @@ "pingWait" :> Number(NaN))),
    Wrote("ping" :> Mapping("count" :> Number(370) @@ "interval" :> Number(37)
                            @@ "pingWait" :> Number(30000)
                            @@ "targets" :> List(<<"10.0.0.1", "">>))),
    Wrote("ping" :> Null @@ "dns" :> Text("github.com")),
    Wrote("ping" :> Mapping("targets" :> List(<<>>))),
    Wrote("http" :> Mapping("httpWait" :> Number(50) @@ "redirects" :> Text("none")
                            @@ "targets" :> List(<<"https://a", "https://b", "https://c">>))
          @@ "tcp" :> Mapping("targets" :> List(<<"github.com", "db.internal:5432">>))
          @@ "ladder" :> Mapping("dns" :> Text("") @@ "internet" :> Text("9.9.9.9"))),
    Wrote("http" :> Mapping("redirects" :> Number(-50))
          @@ "traceroute" :> Mapping("hops" :> Number(3090) @@ "queries" :> Number(-370))) }

Unwritten == [system |-> File0("absent"), user |-> File0("absent"), probes |-> File0("absent"),
              top |-> Nothing, target |-> Nothing]

Thresholded == {[Unwritten EXCEPT !.system = s, !.user = u] :
                  s \in ThresholdFiles, u \in ThresholdFiles}
Probed == {[Unwritten EXCEPT !.probes = f] : f \in ProbeFiles}
Ranked == {[Unwritten EXCEPT !.top = n] : n \in {Nothing, NaN, 0, 1, 2, 6}}
Traced == {[Unwritten EXCEPT !.target = t] : t \in {"", "10.0.0.1"}}

-----------------------------------------------------------------------------
(* Worlds. *)

LoadOf(n, cpus) == [load |-> n, cpus |-> cpus]
Memory(available, free) == [total |-> 1000, available |-> available, free |-> free]
Zone(name, temp) == [name |-> name, temp |-> temp]
Zones(q) == [zones |-> q]
Pending(n, motd) == [security |-> n, motd |-> motd]
Motd(regular, security, behind) ==
  [regular |-> regular, security |-> security, behind |-> behind]
Mount(name, capacity, pseudo) ==
  [mount |-> name, capacity |-> capacity, pseudo |-> pseudo, total |-> 100, used |-> capacity]
Mounts(q) == [mounts |-> q]
Units(q) == [units |-> q]
Slow(name, s) == [id |-> name, min |-> 0, s |-> s, ms |-> 0, bad |-> FALSE]
Container(name, state, unhealthy, restarts, started) ==
  [id |-> name, state |-> state, unhealthy |-> unhealthy, restarts |-> restarts,
   started |-> started]
Docker(installed, up, containers) ==
  [installed |-> installed, up |-> up, containers |-> containers, images |-> <<[id |-> "images"]>>]

DiskWorlds ==
  {{Mounts(<<Mount("/", 20, FALSE), Mount("/snap", 100, TRUE)>>),
    Mounts(<<Mount("/", 95, FALSE), Mount("/data", 85, FALSE)>>),
    Mounts(<<>>)}}

DockerWorlds ==
  LET a == Container("a", "running", FALSE, 9, 95)
      b == Container("b", "running", FALSE, 0, 10)
      old == Container("a", "running", FALSE, 9, 50)
  IN  {{Docker(TRUE, TRUE, <<a, b>>), Docker(TRUE, TRUE, <<b, old>>),
        Docker(TRUE, TRUE, <<a>>), Docker(TRUE, TRUE, <<Container("b", "dead", FALSE, 0, Nothing), old>>),
        Docker(TRUE, TRUE, <<Container("b", "running", TRUE, 4, Nothing)>>),
        Docker(TRUE, TRUE, <<>>), Docker(TRUE, FALSE, <<a>>)},
       {Docker(FALSE, FALSE, <<>>)}}

Route(gateway) == [default |-> TRUE, gateway |-> gateway]
Hop(hosts, flags) == [hosts |-> hosts, flags |-> flags]
Net0 == [routes |-> <<[default |-> FALSE, gateway |-> "x"], Route("10.0.0.1")>>, link |-> "up",
         ipv4 |-> "10.0.0.2", loss |-> 0, resolves |-> TRUE, curl |-> TRUE, code |-> 200,
         dial |-> "connected", nameservers |-> {"192.0.2.53"}, listening |-> {},
         tools |-> {"traceroute", "tracepath"}, arrives |-> TRUE,
         hops |-> <<Hop({}, {}), Hop({"8.8.8.8", "9.9.9.9", "10.0.0.1"}, {})>>]

LinkWorlds ==
  {{Net0, [Net0 EXCEPT !.routes = <<>>],
    [Net0 EXCEPT !.routes = <<[default |-> FALSE, gateway |-> "x"]>>],
    [Net0 EXCEPT !.link = "down", !.ipv4 = Nothing],
    [Net0 EXCEPT !.link = "unknown", !.ipv4 = Nothing],
    [Net0 EXCEPT !.nameservers = {}],
    [Net0 EXCEPT !.listening = {[state |-> "LISTEN", port |-> 22]}]}}

PathWorlds ==
  {{Net0, [Net0 EXCEPT !.loss = 100, !.resolves = FALSE, !.code = 0, !.dial = "silent"],
    [Net0 EXCEPT !.loss = 30, !.code = 503, !.dial = "refused"],
    [Net0 EXCEPT !.routes = <<>>, !.code = 0],
    [Net0 EXCEPT !.routes = <<>>, !.loss = 100, !.code = 0]}}

NoCurlWorlds ==
  {{[w EXCEPT !.curl = FALSE] : w \in {Net0, [Net0 EXCEPT !.loss = 100]}}}

TraceWorlds ==
  {{Net0, [Net0 EXCEPT !.arrives = FALSE, !.hops = <<Hop({"10.0.0.1"}, {}), Hop({}, {})>>],
    [Net0 EXCEPT !.arrives = FALSE, !.hops = <<Hop({}, {}), Hop({}, {})>>],
    [Net0 EXCEPT !.arrives = FALSE, !.hops = <<Hop({"8.8.8.8"}, {"!H"})>>]},
   {[Net0 EXCEPT !.tools = {}]}, {[Net0 EXCEPT !.tools = {"tracepath"}]}}

Info(size, mtime, regular) == [size |-> size, mtime |-> mtime, regular |-> regular]
Tree(root, entries) == [root |-> root, entries |-> entries]
Trees ==
  LET log(name, inside, size, mtime) == File(name, inside, TRUE, Info(size, mtime, TRUE))
      small == log("small", "", 1, 99)
      big == log("big", "d", 9, 50)
      shut == Dir("cache", "", TRUE, TRUE)
  IN  {{Tree("dir", <<small, Dir("d", "", FALSE, TRUE), big>>),
        Tree("dir", <<Dir("d", "", FALSE, TRUE), [big EXCEPT !.info.mtime = 99], small,
                      File("link", "", TRUE, Info(9, 1, FALSE)),
                      File("notes", "d", FALSE, Info(9, 1, TRUE))>>),
        Tree("absent", <<>>)},
       {Tree("notdir", <<>>)}}

(* A directory the walk of old files passes by; nothing under it counts.    *)
Pruned == {{Tree("dir", <<Dir("cache", "", TRUE, TRUE),
                          File("kept", "cache", TRUE, Info(9, 1, TRUE))>>)}}

Env(root, text, lines) == [root |-> root, text |-> text, lines |-> lines]

(* Processes by pid: what each holds and has used.  Ticks that go back are  *)
(* those of a pid that was used again.                                      *)
Running(p, hidden, rss, ticks) ==
  [running |-> p, hidden |-> hidden, rss |-> rss, ticks |-> ticks]

ProcessWorlds ==
  {{Running({1, 2}, {2}, <<5, 9>>, <<4, 0>>), Running({1, 2, 3}, {}, <<5, 9, 9>>, <<6, 1, 0>>),
    Running({2}, {}, <<0, 9>>, <<0, 0>>),
    Running(1..7, {}, <<0, 1, 2, 3, 3, 4, 9>>, <<7, 9, 1, 1, 1, 0, 0>>)},
   {Running({1}, {1}, <<5>>, <<4>>)}}

MCWorlds ==
  "system.load" :> {{LoadOf(n, 2) : n \in {0, 199, 200, 400}}, {LoadOf(200, 1)}} @@
  "system.memory" :> {{Memory(900, 10), Memory(200, 10), Memory(Nothing, 50), Memory(201, 1)}} @@
  "system.thermal" :> {{Zones(<<Zone("a", 40), Zone("b", 85), Zone("c", 85)>>),
                        Zones(<<Zone("a", 70), Zone("b", Nothing)>>)}, {Zones(<<>>)}} @@
  "system.updates" :>
    {{Pending(n, m) : n \in {0, 5}, m \in {Nothing, Motd(3, 1, FALSE), Motd(3, 5, FALSE)}},
     {Pending(1, m) : m \in {Motd(3, Nothing, FALSE), Motd(3, NaN, FALSE),
                             Motd(Nothing, 5, FALSE)}},
     {Pending(1, Motd(9, 1, TRUE))}} @@
  "system.uptime" :> {{[uptime |-> 5], [uptime |-> -1]}} @@
  "disk.usage" :> DiskWorlds @@ "disk.inodes" :> DiskWorlds @@
  "services.failed" :>
    {{Units(<<>>), Units(<<Unit("web", "www")>>), Units(<<Unit("db", ""), Unit("web", "www")>>),
      Units(<<Unit("db", ""), Unit("web", "www"), Unit("sweep", Nothing)>>)}} @@
  "services.boot" :> {{[blame |-> <<Slow("a", 9), Slow("b", 1), Slow("c", 8), Slow("d", 7)>>],
                       [blame |-> <<Slow("a", 9)>>]}} @@
  "docker.runtime" :> DockerWorlds @@ "docker.disk" :> DockerWorlds @@
  "docker.containers" :> DockerWorlds @@
  "network.ladder" :> PathWorlds \union NoCurlWorlds @@
  "network.interface" :> LinkWorlds @@ "network.resolver" :> LinkWorlds @@
  "network.sockets" :> LinkWorlds @@
  "network.ping" :> PathWorlds @@ "network.dns" :> PathWorlds @@
  "network.https" :> PathWorlds @@ "network.tcp" :> PathWorlds @@
  "network.traceroute" :> TraceWorlds @@
  "logsqueeze.candidates" :> Trees @@ "storage.stale" :> Trees \union Pruned @@
  "storage.env" :>
    {{Env("file", "ok", <<"A", "B">>), Env("file", "ok", <<"A", "bad", "">>),
      Env("file", "ok", <<"", "A", "", "B", "A">>),
      Env("absent", "absent", <<>>), Env("file", "unread", <<>>)}, {Env("special", "ok", <<>>)}} @@
  "procs.top" :> ProcessWorlds

MCStarts ==
  {[check |-> c, files |-> {Unwritten}] : c \in DOMAIN MCWorlds}
    \union {[check |-> "system.memory", files |-> Thresholded]}
    \union {[check |-> c, files |-> Probed] :
              c \in {"network.ping", "network.tcp", "network.traceroute"}}
    \union {[check |-> "procs.top", files |-> Ranked],
            [check |-> "network.traceroute", files |-> Traced]}

HttpsStarts == {[check |-> "network.https", files |-> {Unwritten}]}

=============================================================================
