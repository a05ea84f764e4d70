----------------------------- MODULE AuditTrail ------------------------------
(***************************************************************************)
(* internal/audit/writer.go: the local trail.  Any number of processes,    *)
(* each with one Writer, append JSON lines to one file that logrotate may  *)
(* move aside between any two system calls (TrailFile).  A Do writes an    *)
(* intent line, runs its function, and writes the paired result line; an   *)
(* Event is one line.  Every append opens the file anew, under the         *)
(* Writer's lock.                                                          *)
(*                                                                         *)
(* No build wires a sink (resolve.go), so write's call of emit does        *)
(* nothing.                                                                *)
(***************************************************************************)
EXTENDS Integers, Sequences, FiniteSets

CONSTANTS
  Proc,          (* the processes that ever open the trail           *)
  Call,          (* the calls of Do or Event that are ever made      *)
  ProcOf,        (* the process each call is made in                 *)
  Nobody,        (* who holds a free lock                            *)
  MaxRotations,  (* bound: how often logrotate runs                  *)
  MaxFaults      (* bound: appends fail while fewer were reported    *)

ASSUME TrailAssumption ==
  /\ ProcOf \in [Call -> Proc]
  /\ Nobody \notin Call
  /\ MaxRotations \in Nat /\ MaxFaults \in Nat

VARIABLES
  disk,       (* the cells of each inode the path ever named         *)
  stage,      (* where each inode is in its life, see TrailFile      *)
  archive,    (* what compress copied out of a rotated inode         *)
  proc,       (* "off", "up", "refused" (New failed) or "dead"       *)
  seq,        (* each Writer's last sequence number                  *)
  lock,       (* the call that holds each Writer's mu, or Nobody     *)
  pc,         (* where each call is: "idle", "intent", "event" or    *)
              (* "result" (about to write that), "stamped",          *)
              (* "opened", "appended", "failed", "acting", "done"    *)
  line,       (* the record a call is writing or wrote last          *)
  fd,         (* the inode appendLine has open, None if none         *)
  outcome,    (* what fn did: "none", "ok", "error" or "panic"       *)
  reported    (* records whose append failed: OnError heard of them, *)
              (* or Event returned the error                         *)

theFile   == <<disk, stage, archive>>
callVars  == <<proc, seq, lock, pc, line, fd, outcome, reported>>
trailVars == <<theFile, callVars>>

NoLine == [none |-> TRUE]

Phase  == {"intent", "result", "event"}
Record == [proc : Proc, seq : Nat, call : Call, phase : Phase, ok : BOOLEAN]

INSTANCE TrailFile WITH Line <- Record

-----------------------------------------------------------------------------
TrailInit ==
  /\ FileInit
  /\ proc = [p \in Proc |-> "off"]
  /\ seq = [p \in Proc |-> 0]
  /\ lock = [p \in Proc |-> Nobody]
  /\ pc = [c \in Call |-> "idle"]
  /\ line = [c \in Call |-> NoLine]
  /\ fd = [c \in Call |-> None]
  /\ outcome = [c \in Call |-> "none"]
  /\ reported = {}

(* New opens or creates the trail, and refuses the caller if it cannot. *)
NewWriter(p) ==
  /\ proc[p] = "off"
  /\ \/ /\ \E i \in Inode : OpenPath(i)
        /\ proc' = [proc EXCEPT ![p] = "up"]
     \/ /\ proc' = [proc EXCEPT ![p] = "refused"]
        /\ UNCHANGED stage
  /\ UNCHANGED <<disk, archive, seq, lock, pc, line, fd, outcome, reported>>

Alive(c) == proc[ProcOf[c]] = "up"

(* Begin with the function ahead of its intent. *)
BeginActing(c) ==
  /\ Alive(c) /\ pc[c] = "idle"
  /\ \E first \in {"acting", "event"} : pc' = [pc EXCEPT ![c] = first]
  /\ UNCHANGED <<theFile, proc, seq, lock, line, fd, outcome, reported>>

(* Do and Event begin by drawing the call's id; what they write first. *)
Begin(c) ==
  /\ Alive(c) /\ pc[c] = "idle"
  /\ \E first \in {"intent", "event"} : pc' = [pc EXCEPT ![c] = first]
  /\ UNCHANGED <<theFile, proc, seq, lock, line, fd, outcome, reported>>

(* Stamp that counts without the lock. *)
StampUnlocked(c) ==
  LET p == ProcOf[c] IN
  /\ Alive(c) /\ pc[c] \in Phase
  /\ seq' = [seq EXCEPT ![p] = @ + 1]
  /\ line' = [line EXCEPT ![c] = [proc |-> p, seq |-> seq[p] + 1, call |-> c,
                                  phase |-> pc[c], ok |-> outcome[c] = "ok"]]
  /\ pc' = [pc EXCEPT ![c] = "stamped"]
  /\ UNCHANGED <<theFile, proc, lock, fd, outcome, reported>>

(* Stamp that takes a panic, which returned no error, for a success. *)
StampNoError(c) ==
  LET p == ProcOf[c] IN
  /\ Alive(c) /\ pc[c] \in Phase
  /\ lock[p] = Nobody
  /\ lock' = [lock EXCEPT ![p] = c]
  /\ seq' = [seq EXCEPT ![p] = @ + 1]
  /\ line' = [line EXCEPT ![c] = [proc |-> p, seq |-> seq[p] + 1, call |-> c,
                                  phase |-> pc[c], ok |-> outcome[c] # "error"]]
  /\ pc' = [pc EXCEPT ![c] = "stamped"]
  /\ UNCHANGED <<theFile, proc, fd, outcome, reported>>

(* write: take the lock, count, stamp.  The result's ok is whether fn       *)
(* returned without an error.                                               *)
Stamp(c) ==
  LET p == ProcOf[c] IN
  /\ Alive(c) /\ pc[c] \in Phase
  /\ lock[p] = Nobody
  /\ lock' = [lock EXCEPT ![p] = c]
  /\ seq' = [seq EXCEPT ![p] = @ + 1]
  /\ line' = [line EXCEPT ![c] = [proc |-> p, seq |-> seq[p] + 1, call |-> c,
                                  phase |-> pc[c], ok |-> outcome[c] = "ok"]]
  /\ pc' = [pc EXCEPT ![c] = "stamped"]
  /\ UNCHANGED <<theFile, proc, fd, outcome, reported>>

MayFail == Cardinality(reported) < MaxFaults

(* appendLine's open with the lock held for the counter only. *)
OpenUnlocked(c) ==
  /\ Alive(c) /\ pc[c] = "stamped"
  /\ \E i \in Inode : OpenPath(i) /\ fd' = [fd EXCEPT ![c] = i]
  /\ pc' = [pc EXCEPT ![c] = "opened"]
  /\ lock' = [lock EXCEPT ![ProcOf[c]] = Nobody]
  /\ UNCHANGED <<disk, archive, proc, seq, line, outcome, reported>>

(* appendLine's open with O_TRUNC for O_APPEND. *)
OpenTruncating(c) ==
  /\ Alive(c) /\ pc[c] = "stamped"
  /\ \E i \in Inode :
       /\ OpenPath(i)
       /\ fd' = [fd EXCEPT ![c] = i]
       /\ disk' = [disk EXCEPT ![i] = <<>>]
  /\ pc' = [pc EXCEPT ![c] = "opened"]
  /\ UNCHANGED <<archive, proc, seq, lock, line, outcome, reported>>

(* appendLine's open *)
OpenLine(c) ==
  /\ Alive(c) /\ pc[c] = "stamped"
  /\ \/ \E i \in Inode :
          /\ OpenPath(i)
          /\ fd' = [fd EXCEPT ![c] = i]
          /\ pc' = [pc EXCEPT ![c] = "opened"]
     \/ /\ MayFail
        /\ pc' = [pc EXCEPT ![c] = "failed"]
        /\ UNCHANGED <<stage, fd>>
  /\ UNCHANGED <<disk, archive, proc, seq, lock, line, outcome, reported>>

(* appendLine's write: whole, or short, or nothing at all.  A Close that    *)
(* fails reports a line that is there.                                      *)
WriteLine(c) ==
  /\ Alive(c) /\ pc[c] = "opened"
  /\ \/ /\ disk' = [disk EXCEPT ![fd[c]] = @ \o Whole(line[c])]
        /\ pc' = [pc EXCEPT ![c] = "appended"]
     \/ /\ MayFail
        /\ Write(fd[c], line[c]) \/ UNCHANGED disk
        /\ pc' = [pc EXCEPT ![c] = "failed"]
  /\ fd' = [fd EXCEPT ![c] = None]
  /\ UNCHANGED <<stage, archive, proc, seq, lock, line, outcome, reported>>

(* Unlock with a failed append returning before it. *)
UnlockOnSuccess(c) ==
  /\ Alive(c) /\ pc[c] \in {"appended", "failed"}
  /\ lock' = IF pc[c] = "failed" THEN lock ELSE [lock EXCEPT ![ProcOf[c]] = Nobody]
  /\ reported' = IF pc[c] = "failed" THEN reported \union {line[c]} ELSE reported
  /\ pc' = [pc EXCEPT ![c] = IF line[c].phase = "intent" THEN "acting" ELSE "done"]
  /\ UNCHANGED <<theFile, proc, seq, line, fd, outcome>>

(* The unlock, and what the caller does with write's error: report it, and  *)
(* in a Do carry on all the same.                                           *)
Unlock(c) ==
  /\ Alive(c) /\ pc[c] \in {"appended", "failed"}
  /\ lock' = [lock EXCEPT ![ProcOf[c]] = Nobody]
  /\ reported' = IF pc[c] = "failed" THEN reported \union {line[c]} ELSE reported
  /\ pc' = [pc EXCEPT ![c] = IF line[c].phase = "intent" THEN "acting" ELSE "done"]
  /\ proc' = IF line[c].phase = "result" /\ outcome[c] = "panic"
             THEN [proc EXCEPT ![ProcOf[c]] = "dead"]      \* panic(r) again
             ELSE proc
  /\ UNCHANGED <<theFile, seq, line, fd, outcome>>

(* fn ends; a panic is recovered for as long as the result line takes. *)
Act(c) ==
  /\ Alive(c) /\ pc[c] = "acting"
  /\ \E o \in {"ok", "error", "panic"} : outcome' = [outcome EXCEPT ![c] = o]
  /\ pc' = [pc EXCEPT ![c] = "result"]
  /\ UNCHANGED <<theFile, proc, seq, lock, line, fd, reported>>

(* The process is killed, or the host loses power, between any two steps. *)
Crash(p) ==
  /\ proc[p] = "up"
  /\ proc' = [proc EXCEPT ![p] = "dead"]
  /\ UNCHANGED <<theFile, seq, lock, pc, line, fd, outcome, reported>>

-----------------------------------------------------------------------------
Step(c) ==
  Begin(c) \/ Stamp(c) \/ OpenLine(c) \/ WriteLine(c) \/ Unlock(c) \/ Act(c)

TrailNext ==
  \/ \E p \in Proc : NewWriter(p) \/ Crash(p)
  \/ \E c \in Call : Step(c)
  \/ Logrotate /\ UNCHANGED callVars

TrailSpec == TrailInit /\ [][TrailNext]_trailVars

(* Goroutines run, system calls return, and fn comes back.  Nobody has to   *)
(* start a process or a call, or to rotate the log.                         *)
TrailFairness ==
  \A c \in Call :
    WF_trailVars(Stamp(c) \/ OpenLine(c) \/ WriteLine(c) \/ Unlock(c) \/ Act(c))

TrailFairSpec == TrailSpec /\ TrailFairness

-----------------------------------------------------------------------------
(* Properties *)

(* One append at a time per Writer: a call between its stamp and its unlock *)
(* holds the lock, and a number is not used twice.                          *)
Writing(c) == pc[c] \in {"stamped", "opened", "appended", "failed"}

OneAtATime ==
  \A c \in Call : Writing(c) =>
    /\ lock[ProcOf[c]] = c
    /\ line[c] # NoLine /\ line[c].seq = seq[ProcOf[c]]

(* Both lines of every call, as far as they were appended, are ordered as   *)
(* their numbers say: within a file by position, across a rotation by file. *)
Places == UNION {{<<i, k>> : k \in DOMAIN disk[i]} : i \in Inode}

SeqOrder ==
  \A a, b \in Places :
    LET r == disk[a[1]][a[2]].rec
        s == disk[b[1]][b[2]].rec
    IN  (r.proc = s.proc /\ r.seq < s.seq) =>
          a[1] < b[1] \/ (a[1] = b[1] /\ a[2] < b[2])

(* An action never runs ahead of its record: whatever crashed or failed, a  *)
(* function that was started had its intent line appended first, or the     *)
(* failure to append it was reported first.                                 *)
IntentFirst ==
  \A c \in Call :
    (pc[c] = "acting" \/ outcome[c] # "none") =>
      \E r \in reported \union {disk[a[1]][a[2]].rec : a \in Places} :
        r.call = c /\ r.phase = "intent" /\ (r \in reported \/ Appended(r))

(* A result line tells what happened: its ok is the function's, it is not   *)
(* written before the function ended, and it comes after the call's intent  *)
(* line.  A process that died of a panic left one that says so, or reported *)
(* that it could not.                                                       *)
ResultIsTrue ==
  /\ \A a \in Places :
       LET r == disk[a[1]][a[2]].rec
       IN  r.phase = "result" =>
             /\ outcome[r.call] # "none"
             /\ r.ok <=> outcome[r.call] = "ok"
             /\ \A b \in Places :
                  LET q == disk[b[1]][b[2]].rec
                  IN  q.call = r.call /\ q.phase = "intent" => q.seq < r.seq
  /\ \A c \in Call :
       (pc[c] = "done" /\ outcome[c] = "panic") =>
         /\ proc[ProcOf[c]] = "dead"
         /\ line[c].phase = "result" /\ ~line[c].ok
         /\ line[c] \in reported \/ Appended(line[c])

(* A call that has begun ends, whatever failed on the way, unless its       *)
(* process dies: no failed append leaves the lock held.                     *)
CallsEnd ==
  \A c \in Call : pc[c] # "idle" ~> pc[c] = "done" \/ ~Alive(c)

(* The writers stay within TrailFile: all they ever do to the file is to    *)
(* create it and to append a record not in it yet, whole or cut short.      *)
StaysWithinFile ==
  [][\/ Logrotate \/ OpenNew
     \/ \E c \in Call : line[c] # NoLine /\ New(line[c]) /\ AppendLine(line[c])]_theFile

(* writer.go says a process killed mid-action leaves the intent line behind,*)
(* so the trail says what was attempted: for every action that ran, unless  *)
(* its append was reported as failed, a reader of all the files finds the   *)
(* intent.                                                                  *)
AttemptIsOnRecord ==
  \A c \in Call :
    (pc[c] = "acting" \/ outcome[c] # "none") =>
      \E r \in reported \union OnRecord : r.call = c /\ r.phase = "intent"

=============================================================================
