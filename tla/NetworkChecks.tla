----------------------------- MODULE NetworkChecks -----------------------------
(***************************************************************************)
(* The network domain: netprobe, which turns what a program, a file or a   *)
(* socket gave into a reading and never fails, and the nine checks that    *)
(* judge readings.  Nothing here is graded by the policy.                  *)
(*                                                                         *)
(* A program that was run is [how, said]: what became of the process, and  *)
(* what the parser found in its output, Nothing when it found nothing.     *)
(***************************************************************************)
EXTENDS CheckAnswer

Ended == Ran \union {"timeout"}

-----------------------------------------------------------------------------
(* netprobe                                                                  *)

(* A timeout still carries what ping wrote, and a non-zero exit is not one   *)
(* of the conditions that lose it.  A summary is the loss in percent.        *)
Ping(ran) == IF ran.how \in {"absent", "failed"} THEN Nothing ELSE ran.said

(* Curl's timing block, or an error: said is the HTTP code, 0 for none.      *)
Curl(ran) ==
  IF ran.how \in {"absent", "failed", "timeout"} \/ ran.said = Nothing
    THEN [error |-> TRUE, code |-> 0] ELSE [error |-> FALSE, code |-> ran.said]

CurlOK(probe) == ~probe.error /\ probe.code \in 200..399

(* A lookup is Nothing or the addresses it gave; a dial is how it ended.     *)
DNS(addresses) == [ok |-> addresses # Nothing]

classifyDial == [connected   |-> "open",        refused |-> "refused",
                 silent      |-> "timeout",     late    |-> "timeout",
                 noroute     |-> "unreachable", other   |-> "error"]

Port(addresses, dial) ==
  IF addresses = Nothing \/ addresses = {} THEN "dns-error" ELSE classifyDial[dial]

(* The first default row decides, and a gateway that is no hex word ends     *)
(* the search.                                                               *)
DefaultRoute(rows) ==
  LET defaults == Kept(rows, {r \in Range(rows) : r.default})
  IN  IF defaults = <<>> THEN Nothing
      ELSE IF Head(defaults).gateway = Nothing THEN Nothing ELSE Head(defaults)

Operstate(link) == IF link = Nothing THEN "unknown" ELSE link

Network(net) ==
  LET route == DefaultRoute(net.routes)
  IN  IF route = Nothing THEN Nothing
      ELSE [gateway |-> route.gateway, ipv4 |-> net.ipv4,
            operstate |-> Operstate(net.link)]

(* An unreadable resolv.conf is one with nothing in it.                      *)
Resolver(file) == IF file = Nothing THEN {} ELSE file

(* Rows of ss that are no listener with a port are dropped.                  *)
Sockets(ran) ==
  IF ran.how \in {"absent", "failed", "timeout"} THEN Nothing
  ELSE {row \in ran.said : row.state = "LISTEN" /\ row.port # Nothing}

SelectTraceTool(tools) ==
  IF "traceroute" \in tools THEN "traceroute"
  ELSE IF "tracepath" \in tools THEN "tracepath" ELSE Nothing

(* A hop is who answered and what it was flagged with.  traceroute reached   *)
(* its target when the last hop is the target and carries no flag; tracepath *)
(* says it did, and may say so of a trace it gave up.                        *)
Responded(hop) == hop.hosts # {}

Reached(tool, ran, target) ==
  IF tool = "traceroute"
    THEN /\ ran.hops # <<>>
         /\ Last(ran.hops).flags = {} /\ target \in Last(ran.hops).hosts
    ELSE ran.resume /\ ~ran.tooMany

(* Killed at its wall clock a trace keeps its hops; any other failure of the *)
(* tool leaves none.                                                         *)
Trace(tool, ran, target) ==
  IF ran.how \in {"absent", "failed"}
    THEN [hops |-> <<>>, reached |-> FALSE, error |-> TRUE]
    ELSE [hops |-> ran.hops, reached |-> Reached(tool, ran, target),
          error |-> ran.how = "timeout" \/ (ran.hops = <<>> /\ ran.complained)]

StalledAt(trace) ==
  LET answered == {i \in DOMAIN trace.hops : Responded(trace.hops[i])}
  IN  IF trace.reached \/ answered = {} THEN Nothing ELSE Max(answered) + 1

-----------------------------------------------------------------------------
(* verdicts: one status for a run of targets, the worst thing that happened. *)

tally(statuses) ==
  LET some(S) == \E t \in DOMAIN statuses : statuses[t] \in S
  IN  IF some(Status \ {"ok", "warn"}) THEN "crit"
      ELSE IF some({"warn"}) THEN "warn" ELSE "ok"

(* What each kind of probe makes of one target.                              *)
PingStatus(loss) ==
  CASE loss = Nothing -> "crit"
    [] loss # Nothing /\ loss >= 100 -> "crit"
    [] OTHER -> IF loss > 0 THEN "warn" ELSE "ok"

DNSStatus(result) == IF result.ok THEN "ok" ELSE "crit"

HTTPSStatus(probe) ==
  IF probe.error THEN "crit" ELSE IF CurlOK(probe) THEN "ok" ELSE "warn"

portStatus(state) ==
  CASE state = "open" -> "ok" [] state = "refused" -> "warn" [] OTHER -> "crit"

(* One probe per target, in turn; no targets is a question nobody asked.     *)
ProbesRun(targets, statuses) ==
  IF targets = <<>> THEN Bare("skipped")
  ELSE Judged(tally(statuses), {Step(targets[i], statuses[i]) : i \in DOMAIN targets})

-----------------------------------------------------------------------------
(* network.ladder: link, gateway, internet, dns, https, whatever fails.      *)
(* A reading that was never taken (the run was cancelled) skips its rung.    *)

Rung == <<"link", "gateway", "internet", "dns", "https">>

linkRung(net) ==
  IF net = Nothing \/ net.operstate = "down" THEN "failed" ELSE "passed"

pingRung(loss) == IF loss = Nothing \/ loss >= 100 THEN "failed" ELSE "passed"

gatewayRung(net, loss) == IF net = Nothing THEN "skipped" ELSE pingRung(loss)

dnsRung(result) == IF result.ok THEN "passed" ELSE "failed"

httpsRung(probe) == IF probe.error \/ probe.code = 0 THEN "failed" ELSE "passed"

(* read: the readings of the rungs, as many as were taken.                   *)
rungs(read) ==
  [i \in 1..Len(Rung) |->
     IF i > Len(read) THEN "skipped"
     ELSE CASE i = 1 -> linkRung(read[1])
            [] i = 2 -> gatewayRung(read[1], read[2])
            [] i = 3 -> pingRung(read[3])
            [] i = 4 -> dnsRung(read[4])
            [] i = 5 -> httpsRung(read[5])]

FirstFailure(rung) ==
  LET failed == {i \in DOMAIN rung : rung[i] = "failed"}
  IN  IF failed = {} THEN Nothing ELSE Rung[Min(failed)]

(* noCurl, asked once, makes a failed https rung one that could not be asked.*)
rungStatus(rung, unaskable) ==
  CASE rung = "skipped" -> "skipped" [] rung = "passed" -> "ok"
    [] rung = "failed" -> IF unaskable THEN "unavailable" ELSE "crit"

LadderRun(noCurl, read) ==
  LET rung    == rungs(read)
      failure == FirstFailure(rung)
      ran     == Cardinality({i \in DOMAIN rung : rung[i] # "skipped"})
      status  == CASE failure = "https" /\ noCurl -> "warn"
                   [] failure # Nothing /\ ~(failure = "https" /\ noCurl) -> "crit"
                   [] OTHER -> IF ran < Len(Rung) THEN "warn" ELSE "ok"
  IN  Judged(status,
             {Step(Rung[i], rungStatus(rung[i], noCurl /\ Rung[i] = "https")) :
                i \in {j \in DOMAIN rung : j <= Len(read)}})

-----------------------------------------------------------------------------
(* The checks that read what the host already knows, and the trace.          *)

IfaceRun(net) ==
  CASE net = Nothing -> Judged("crit", {})
    [] net # Nothing /\ net.operstate = "down" -> Judged("crit", {})
    [] OTHER -> Judged(IF net.ipv4 = Nothing THEN "warn" ELSE "ok", {})

ResolverRun(nameservers) == Judged(IF nameservers = {} THEN "crit" ELSE "ok", {})

SocketsRun(ran) ==
  IF Sockets(ran) = Nothing THEN NotRun(ran.how) ELSE Judged("ok", {})

hopStatus(hop) == IF Responded(hop) THEN "ok" ELSE "warn"

TracerouteRun(target, tool, ran) ==
  LET trace == Trace(tool, ran, target)
      steps == {Step(i, hopStatus(trace.hops[i])) : i \in DOMAIN trace.hops}
                 \union (IF trace.error THEN {Unseen} ELSE {})
  IN  CASE target = "" -> Bare("skipped")
        [] target # "" /\ tool = Nothing -> Unavailable
        [] OTHER ->
             Judged(CASE trace.hops = <<>> -> "crit"
                      [] trace.hops # <<>> /\ trace.reached -> "ok"
                      [] OTHER -> IF StalledAt(trace) # Nothing THEN "warn" ELSE "crit",
                    steps)

=============================================================================
