-------------------------------- MODULE Probes ---------------------------------
(***************************************************************************)
(* probes.yml merged over the built-in probes (core/network/probes.go), and *)
(* what internal/resolve makes of it: what every network check is asked to  *)
(* probe, within bounds that keep it from being a burden on its own host.   *)
(*                                                                          *)
(* Sections and values are as in Thresholds: a mapping, a number (NaN among *)
(* them), or neither; besides these null, text and lists.  A number of the  *)
(* file is in hundredths, fractions and all; so is a knob that may have one,*)
(* while a whole knob counts seconds, packets or hops.                      *)
(***************************************************************************)
EXTENDS NetworkChecks

Null      == [kind |-> "null"]
Text(s)   == [kind |-> "text", of |-> s]
List(q)   == [kind |-> "list", of |-> q]
Absent    == [kind |-> "absent"]

At(section, key) == IF key \in DOMAIN section THEN section[key] ELSE Absent

(* What either kind of file may hold: values at its top, and settings in a   *)
(* mapping, one deep.                                                        *)
Scalar == [kind : {"number"}, n : Bound] \union [kind : {"neither", "null"}]
            \union [kind : {"text"}, of : STRING] \union [kind : {"list"}, of : Seq(STRING)]

IsDocument(doc) ==
  \A key \in DOMAIN doc :
    \/ doc[key] \in Scalar
    \/ doc[key].kind = "map" /\ \A s \in DOMAIN doc[key].of : doc[key].of[s] \in Scalar

(* What a numeric knob is when nobody sets it, and how far it can be set.    *)
Count(sec, default, low, high) ==
  [section |-> sec, whole |-> TRUE, default |-> default, low |-> low, high |-> high]
Seconds(sec, default, low, high) ==
  [section |-> sec, whole |-> FALSE, default |-> default, low |-> low, high |-> high]

Knob == [
  count     |-> Count("ping", 10, 1, 900),
  interval  |-> Seconds("ping", 20, 5, 500),
  pingWait  |-> Count("ping", 15, 1, 300),
  dnsWait   |-> Seconds("dns", 300, 10, 3000),
  httpWait  |-> Count("http", 15, 1, 120),
  redirects |-> Count("http", 5, 0, 20),
  tcpWait   |-> Seconds("tcp", 300, 10, 3000),
  hops      |-> Count("traceroute", 15, 1, 30),
  wait      |-> Count("traceroute", 1, 1, 10),
  queries   |-> Count("traceroute", 1, 1, 3)]

(* Where the target lists are, and what they hold when nobody sets them.     *)
Targets == [
  ping |-> <<"8.8.8.8", "1.1.1.1">>,
  dns  |-> <<"github.com", "archive.ubuntu.com">>,
  http |-> <<"https://github.com">>,
  tcp  |-> <<"github.com:443">>]

Ladder == [internet |-> "8.8.8.8", dns |-> "github.com", https |-> "https://github.com"]

Sections == {"ping", "dns", "http", "tcp", "traceroute", "ladder"}

Warning(section, key, kind) == [section |-> section, key |-> key, kind |-> kind]

(* A section that is absent or null is silent, one that is no mapping is not.*)
section(cfg, key) ==
  LET v == At(cfg, key) IN IF v.kind = "map" THEN v.of ELSE <<>>

sectionWarnings(cfg, key) ==
  IF At(cfg, key).kind \in {"map", "null", "absent"} THEN {}
  ELSE {Warning(key, "", "not_a_mapping")}

(* NaN is not below any bound, and lands on the high one.                    *)
clamp(n, knob) ==
  LET m == IF n # NaN /\ n < knob.high THEN n ELSE knob.high
  IN  IF m > knob.low THEN m ELSE knob.low

(* What intVal reads: the whole units of the number, towards zero.           *)
truncated(n) == IF n >= 0 THEN n \div 100 ELSE -((-n) \div 100)

asRead(n, knob) == IF knob.whole /\ n # NaN THEN truncated(n) ELSE n

(* intVal and floatVal: absent and null are silent, junk is not; a fraction  *)
(* that a whole knob has no room for goes without a word.                    *)
numberVal(v, knob) ==
  IF v.kind = "number" THEN clamp(asRead(v.n, knob), knob) ELSE knob.default

numberWarnings(v, sec, key) ==
  CASE v.kind = "number" ->
         LET read == asRead(v.n, Knob[key])
         IN  IF clamp(read, Knob[key]) = read THEN {} ELSE {Warning(sec, key, "clamped")}
    [] v.kind \in {"absent", "null"} -> {}
    [] OTHER -> {Warning(sec, key, "not_a_number")}

(* strs and tcpTargets: a list replaces the default wholesale, empty too;    *)
(* what is not a list, null among it, does not.  A blank item is dropped in  *)
(* silence; a tcp target without a port is dropped aloud.                    *)
notBlank(item) == item # ""

(* ParseHostPort: an item that says nothing of a port is no tcp target.      *)
hasPort(item) == item \in {"github.com:443", "db.internal:5432"}

keeps(sec, item) == IF sec = "tcp" THEN hasPort(item) ELSE notBlank(item)

listVal(v, sec) ==
  IF v.kind = "list" THEN Kept(v.of, {item \in Range(v.of) : keeps(sec, item)})
                     ELSE Targets[sec]

listWarnings(v, sec) ==
  CASE v.kind = "list" ->
         IF sec = "tcp" /\ \E i \in DOMAIN v.of : ~hasPort(v.of[i])
           THEN {Warning(sec, "targets", "bad_target")} ELSE {}
    [] v.kind = "absent" -> {}
    [] OTHER -> {Warning(sec, "targets", "not_a_list")}

(* str: anything that is not text with something in it is the default.       *)
str(v, default) == IF v.kind = "text" /\ v.of # "" THEN v.of ELSE default

ResolveProbes(cfg) ==
  LET knob(key) == At(section(cfg, Knob[key].section), key)
      list(sec) == At(section(cfg, sec), "targets")
  IN  [targets |-> [sec \in DOMAIN Targets |->
                      listVal(list(sec), sec)],
       knobs   |-> [key \in DOMAIN Knob |-> numberVal(knob(key), Knob[key])],
       ladder  |-> [key \in DOMAIN Ladder |->
                      str(At(section(cfg, "ladder"), key), Ladder[key])],
       warnings |->
         (UNION {sectionWarnings(cfg, sec) : sec \in Sections})
           \union (UNION {numberWarnings(knob(key), Knob[key].section, key) :
                            key \in DOMAIN Knob})
           \union (UNION {listWarnings(list(sec), sec) : sec \in DOMAIN Targets})]

(* LoadProbes and resolveProbes: a file that cannot be had is the defaults,  *)
(* and only internal/resolve, which reads the layers, says that it could not.*)
LoadProbes(file) == ResolveProbes(IF Contributes(file) THEN file.doc ELSE <<>>)

resolveProbes(file) ==
  [LoadProbes(file) EXCEPT
     !.warnings = @ \union IF file.state \in {"unreadable", "unparseable"}
                             THEN {Warning("file", "", file.state)} ELSE {}]

-----------------------------------------------------------------------------
(* Budgets, in hundredths of a second: what a check is given, from the       *)
(* timeouts of its probes.                                                   *)

slack == 500
LadderPingTimeout == 600
curlGrace == 200

budgetFor(n, perTarget) == n * perTarget + slack

Budget(check, p) ==
  CASE check = "network.ping"  -> budgetFor(Len(p.targets.ping), 100 * p.knobs.pingWait)
    [] check = "network.dns"   -> budgetFor(Len(p.targets.dns), p.knobs.dnsWait)
    [] check = "network.https" -> budgetFor(Len(p.targets.http), 100 * p.knobs.httpWait)
    [] check = "network.tcp"   -> budgetFor(Len(p.targets.tcp), p.knobs.tcpWait)
    [] check = "network.ladder" ->
         2 * LadderPingTimeout + p.knobs.dnsWait + 100 * p.knobs.httpWait + slack

(* The longest its probes can take, every one of them up to its own timeout. *)
Longest(check, p) ==
  CASE check = "network.ping"  -> Len(p.targets.ping) * 100 * p.knobs.pingWait
    [] check = "network.dns"   -> Len(p.targets.dns) * p.knobs.dnsWait
    [] check = "network.https" -> Len(p.targets.http) * (100 * p.knobs.httpWait + curlGrace)
    [] check = "network.tcp"   -> Len(p.targets.tcp) * p.knobs.tcpWait
    [] check = "network.ladder" ->
         2 * LadderPingTimeout + p.knobs.dnsWait + 100 * p.knobs.httpWait + curlGrace

=============================================================================
