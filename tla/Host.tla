-------------------------------- MODULE Host ---------------------------------
(***************************************************************************)
(* What one process asks its host on behalf of everything that runs in it: *)
(* may a Tier 2 action escalate (internal/privilege), does the container   *)
(* daemon answer, and where does the audit trail go (internal/resolve).    *)
(* The callers are the goroutines of a front door; each question is asked  *)
(* lazily, under a lock that is held until the answer is kept, and answered*)
(* from what was kept after that: for TTL, or for as long as the process.  *)
(* The host meanwhile changes.                                             *)
(***************************************************************************)
EXTENDS Integers

CONSTANTS
  Caller,      (* the goroutines                                           *)
  Nobody,      (* whoever holds a lock that is free, an answer not given   *)
  TTL,         (* MemoTTL                                                  *)
  Timeout,     (* ProbeTimeout                                             *)
  Budget,      (* what a check's context leaves for the daemon             *)
  Starts,      (* what is asked of which hosts: see MCHost                 *)
  MaxTime,     (* bounds: the clock, *)
  MaxAsks,     (* the questions a caller asks, *)
  MaxChanges   (* and the changes of the host                              *)

Kind     == {"check", "gate", "doctor", "runtime", "trail"}
Place    == {"log", "state"}
Sudo     == {"grants", "refuses", "hangs"}
Daemon   == {"uninstalled", "up", "down", "hangs"}

(* An answer that is kept, one that is told with how old it is, what is     *)
(* said of the daemon, and where the trail goes.                            *)
Kept     == [ok : BOOLEAN, at : Nat]
Told     == [ok : BOOLEAN, age : Int]
Runtime  == {"none", "available", "down", "silent"}
Trail    == [where : Place, reason : BOOLEAN, writer : BOOLEAN, done : BOOLEAN]

ASSUME HostAssumption ==
  /\ Nobody \notin Caller \cup Kept \cup Told \cup Runtime \cup Trail
  /\ {TTL, Timeout, Budget, MaxTime, MaxAsks, MaxChanges} \subseteq Nat
  /\ 0 < Timeout /\ Timeout < TTL

(* The gate is asked by the runner, after the envelope, and by nobody else. *)
ASSUME StartsAssumption ==
  \A start \in Starts :
    /\ start.asking \subseteq Kind \ {"gate"}
    /\ start.root \subseteq BOOLEAN /\ start.stateDir \subseteq BOOLEAN
    /\ start.sudo \subseteq Sudo /\ start.daemon \subseteq Daemon
    /\ start.writable \subseteq SUBSET Place

VARIABLES
  asking,    (* the kinds of questions that are asked in this process      *)
  root,      (* whether the process is root                                *)
  stateDir,  (* whether there is a state directory to fall back to         *)
  time,      (* the clock                                                  *)
  sudo,      (* what `sudo -n true` would do: "grants", "refuses" (or is not there), "hangs" *)
  daemon,    (* "uninstalled", or what the daemon does: "up", "down", "hangs" *)
  writable,  (* the places of Place a file can be opened in                *)
  changes,   (* how often the host has changed                             *)
  pc,        (* what each caller waits for or does                         *)
  asks,      (* how many questions it asked                                *)
  mu, memo,  (* Prober: who asks sudo and since when, and the last answer  *)
  found,     (* Resolved.runtime: whether Detect found docker              *)
  box, probed,  (* Resolved: who asks the daemon and since when, its answer *)
  once, trail,  (* Resolved: who opens the trail, and the path and reason  *)
  heard,     (* the last answer of each kind each caller was given         *)
  was,       (* for the properties: when sudo last granted, and did not    *)
  asked      (* for the properties: when sudo was asked last, and after how *)
             (* short a time ever; probes of the daemon, trails opened     *)

world    == <<asking, root, stateDir, sudo, daemon, writable, changes, was>>
gateVars == <<mu, memo>>
boxVars  == <<box, probed>>
auditVars == <<once, trail>>
hostVars == <<asking, root, stateDir, time, sudo, daemon, writable, changes, pc, asks, mu, memo, found,
              box, probed, once, trail, heard, was, asked>>

Free     == [by |-> Nobody]

(* A caller is given an answer, and goes on to what it does next.           *)
Hear(c, kind, answer, next) ==
  /\ heard' = [heard EXCEPT ![c][kind] = answer]
  /\ pc' = [pc EXCEPT ![c] = next]

-----------------------------------------------------------------------------
(* The privilege question.  `check` puts State into the envelope and hands  *)
(* CanTier2 to the runner, which asks it before anything else; `doctor`     *)
(* prints State.  All of them come through probe.                           *)

(* The memo stands for a tick longer than its TTL says. *)
FreshAtTTL   == memo # Nobody /\ time - memo.at <= TTL

Fresh == memo # Nobody /\ time - memo.at < TTL

Waits(c) == pc[c] \in {"check", "gate", "doctor"}

(* The runner's gate follows the envelope of a check.                       *)
Tell(c, kind, ok) ==
  Hear(c, kind, [ok |-> ok, age |-> time - was[ok]], IF kind = "check" THEN "gate" ELSE "idle")

Reuse(c) ==
  /\ Waits(c) /\ mu = Free /\ Fresh
  /\ Tell(c, pc[c], memo.ok)
  /\ UNCHANGED <<time, world, asks, gateVars, found, boxVars, auditVars, asked>>

(* Kept even when it is a refusal, and stamped with the time before it was  *)
(* asked for.                                                               *)
KeepGranted(ok) == memo' = IF ok THEN [ok |-> ok, at |-> mu.since] ELSE memo

Keep(ok) == memo' = [ok |-> ok, at |-> mu.since]

(* ask, as root *)
AskAsRoot(c) ==
  /\ Waits(c) /\ mu = Free /\ ~Fresh /\ root
  /\ memo' = [ok |-> TRUE, at |-> time]
  /\ Tell(c, pc[c], TRUE)
  /\ UNCHANGED <<time, world, asks, mu, found, boxVars, auditVars, asked>>

(* ask: the command is started, with p.mu held. *)
AskSudo(c) ==
  /\ Waits(c) /\ mu = Free /\ ~Fresh /\ ~root
  /\ mu' = [by |-> c, since |-> time, for |-> pc[c]]
  /\ pc' = [pc EXCEPT ![c] = "sudo"]
  /\ asked' = [asked EXCEPT !.sudo = time,
                            !.apart = IF @ < time - asked.sudo THEN @ ELSE time - asked.sudo]
  /\ UNCHANGED <<time, world, asks, memo, found, boxVars, auditVars, heard>>

(* It exits, zero or not, or there is no sudo.                              *)
SudoAnswers(c) ==
  /\ mu.by = c /\ sudo # "hangs"
  /\ Keep(sudo = "grants") /\ mu' = Free
  /\ Tell(c, mu.for, sudo = "grants")
  /\ UNCHANGED <<time, world, asks, found, boxVars, auditVars, asked>>

(* IsTimeout *)
SudoTimesOut(c) ==
  /\ mu.by = c /\ sudo = "hangs" /\ time - mu.since >= Timeout
  /\ Keep(FALSE) /\ mu' = Free
  /\ Tell(c, mu.for, FALSE)
  /\ UNCHANGED <<time, world, asks, found, boxVars, auditVars, asked>>

-----------------------------------------------------------------------------
(* The container daemon: asked once, with the context of whoever came first.*)

ReuseRuntime(c) ==
  /\ pc[c] = "runtime" /\ box = Free /\ probed # Nobody
  /\ Hear(c, "runtime", probed, "idle")
  /\ UNCHANGED <<time, world, asks, gateVars, found, boxVars, auditVars, asked>>

(* Probe of a Runtime that is None: nothing is run. *)
NothingToProbe(c) ==
  /\ pc[c] = "runtime" /\ box = Free /\ probed = Nobody /\ ~found
  /\ probed' = "none"
  /\ Hear(c, "runtime", "none", "idle")
  /\ UNCHANGED <<time, world, asks, gateVars, found, box, auditVars, asked>>

AskDaemon(c) ==
  /\ pc[c] = "runtime" /\ box = Free /\ probed = Nobody /\ found
  /\ box' = [by |-> c, since |-> time]
  /\ pc' = [pc EXCEPT ![c] = "docker"]
  /\ asked' = [asked EXCEPT !.daemon = @ + 1]
  /\ UNCHANGED <<time, world, asks, gateVars, found, probed, auditVars, heard>>

KeepRuntime(c, answer) ==
  /\ box' = Free /\ probed' = answer
  /\ Hear(c, "runtime", answer, "idle")
  /\ UNCHANGED <<time, world, asks, gateVars, found, auditVars, asked>>

DaemonAnswers(c) ==
  /\ pc[c] = "docker" /\ daemon # "hangs"
  /\ KeepRuntime(c, CASE daemon = "up"          -> "available"
                      [] daemon = "down"        -> "down"
                      [] daemon = "uninstalled" -> "none")

DaemonTimesOut(c) ==
  /\ pc[c] = "docker" /\ daemon = "hangs" /\ time - box.since >= Budget
  /\ KeepRuntime(c, "silent")

-----------------------------------------------------------------------------
(* The trail: auditPath tries the fleet-wide place by opening it, audit.New *)
(* opens what was chosen; both inside one Once.                             *)

OpenTrail(c) ==
  /\ pc[c] = "trail" /\ once = Nobody
  /\ once' = c
  /\ pc' = [pc EXCEPT ![c] = "opening"]
  /\ asked' = [asked EXCEPT !.trail = @ + 1]
  /\ UNCHANGED <<time, world, asks, gateVars, found, boxVars, trail, heard>>

AuditPath(c) ==
  /\ pc[c] = "opening"
  /\ trail' = [where  |-> IF "log" \in writable \/ ~stateDir THEN "log" ELSE "state",
               reason |-> "log" \notin writable,
               writer |-> FALSE, done |-> FALSE]
  /\ pc' = [pc EXCEPT ![c] = "chosen"]
  /\ UNCHANGED <<time, world, asks, gateVars, found, boxVars, once, heard, asked>>

NewWriter(c) ==
  /\ pc[c] = "chosen"
  /\ trail' = [trail EXCEPT !.writer = trail.where \in writable, !.done = TRUE]
  /\ Hear(c, "trail", trail', "idle")
  /\ UNCHANGED <<time, world, asks, gateVars, found, boxVars, once, asked>>

(* The Once lets those past who come while the first is at it. *)
SameTrailEarly(c) ==
  /\ pc[c] = "trail" /\ trail # Nobody
  /\ Hear(c, "trail", trail, "idle")
  /\ UNCHANGED <<time, world, asks, gateVars, found, boxVars, auditVars, asked>>

SameTrail(c) ==
  /\ pc[c] = "trail" /\ trail # Nobody /\ trail.done
  /\ Hear(c, "trail", trail, "idle")
  /\ UNCHANGED <<time, world, asks, gateVars, found, boxVars, auditVars, asked>>

-----------------------------------------------------------------------------
Init ==
  /\ \E start \in Starts :
       /\ asking = start.asking
       /\ root \in start.root /\ sudo \in start.sudo
       /\ daemon \in start.daemon
       /\ stateDir \in start.stateDir /\ writable \in start.writable
  /\ time = 0 /\ changes = 0
  /\ found = (daemon # "uninstalled")
  /\ pc = [c \in Caller |-> "idle"]
  /\ asks = [c \in Caller |-> 0]
  /\ mu = Free /\ memo = Nobody
  /\ box = Free /\ probed = Nobody
  /\ once = Nobody /\ trail = Nobody
  /\ heard = [c \in Caller |-> [k \in Kind |-> Nobody]]
  /\ was = [ok \in BOOLEAN |-> IF ok = (sudo = "grants") THEN 0 ELSE -TTL]
  /\ asked = [sudo |-> -TTL, apart |-> TTL, daemon |-> 0, trail |-> 0]

Ask(c, kind) ==
  /\ pc[c] = "idle" /\ asks[c] < MaxAsks
  /\ pc' = [pc EXCEPT ![c] = kind]
  /\ asks' = [asks EXCEPT ![c] = @ + 1]
  /\ UNCHANGED <<time, world, gateVars, found, boxVars, auditVars, heard, asked>>

(* Between the envelope and the gate the command only selects the checks;   *)
(* and a command is not left running beyond its deadline.                   *)
Tick ==
  /\ time < MaxTime
  /\ \A c \in Caller : pc[c] = "gate" => mu # Free
  /\ mu # Free => time - mu.since < Timeout
  /\ box # Free => time - box.since < Budget
  /\ time' = time + 1
  /\ was' = [was EXCEPT ![sudo = "grants"] = time + 1]
  /\ UNCHANGED <<asking, root, stateDir, sudo, daemon, writable, changes, pc, asks, gateVars, found, boxVars,
                 auditVars, heard, asked>>

(* Rights are granted or taken away, a credential cached or timed out, the  *)
(* directory wedged; the daemon starts, stops, is purged; a place is        *)
(* remounted.  What nobody asks for need not change.                        *)
Change ==
  /\ changes < MaxChanges
  /\ changes' = changes + 1
  /\ \/ /\ asking \intersect {"check", "doctor"} # {}
        /\ sudo' \in Sudo \ {sudo} /\ UNCHANGED <<daemon, writable>>
     \/ /\ "runtime" \in asking
        /\ daemon' \in Daemon \ {daemon} /\ UNCHANGED <<sudo, writable>>
     \/ /\ "trail" \in asking
        /\ writable' \in (SUBSET Place) \ {writable} /\ UNCHANGED <<sudo, daemon>>
  /\ was' = [was EXCEPT ![sudo' = "grants"] = time]
  /\ UNCHANGED <<asking, root, stateDir, time, pc, asks, gateVars, found, boxVars, auditVars,
                 heard, asked>>

Next ==
  \/ Tick \/ Change
  \/ \E c \in Caller :
       \/ \E kind \in asking : Ask(c, kind)
       \/ Reuse(c) \/ AskAsRoot(c) \/ AskSudo(c) \/ SudoAnswers(c) \/ SudoTimesOut(c)
       \/ ReuseRuntime(c) \/ NothingToProbe(c) \/ AskDaemon(c)
       \/ DaemonAnswers(c) \/ DaemonTimesOut(c)
       \/ OpenTrail(c) \/ AuditPath(c) \/ NewWriter(c) \/ SameTrail(c)

Spec == Init /\ [][Next]_hostVars

-----------------------------------------------------------------------------
(* What an operator is told of sudo was true at a moment less than the TTL  *)
(* before: whoever runs `sudo -v` in another terminal sees the difference   *)
(* within it, and a right that was taken away is not promised for longer.   *)
AnswersAreRecent ==
  \A c \in Caller, kind \in {"check", "gate", "doctor"} :
    heard[c][kind] # Nobody =>
      IF root THEN heard[c][kind].ok ELSE heard[c][kind].age < TTL

(* However many arrive together, sudo -- and with it the line in auth.log --*)
(* is asked once in a TTL and as root never, the daemon and the trail once. *)
OneQuestion ==
  /\ asked.apart >= TTL
  /\ root => asked.sudo < 0
  /\ asked.daemon <= 1 /\ asked.trail <= 1

(* A document is of one piece: the gate of a run answers what its envelope  *)
(* says, every check was told the same of the daemon, and everybody has the *)
(* same trail -- one that can be written unless it says otherwise -- with   *)
(* the reason for where it is.                                              *)
HostAgrees ==
  /\ \A c \in Caller :
       pc[c] \notin {"gate", "sudo"} /\ heard[c]["gate"] # Nobody
         => heard[c]["gate"].ok = heard[c]["check"].ok
  /\ \A c, d \in Caller, kind \in {"runtime", "trail"} :
       heard[c][kind] # Nobody /\ heard[d][kind] # Nobody
         => heard[c][kind] = heard[d][kind]
  /\ \A c \in Caller :
       heard[c]["trail"] # Nobody =>
         LET t == heard[c]["trail"]
         IN  t.done /\ (t.where = "state" => t.reason)
==============================================================================
