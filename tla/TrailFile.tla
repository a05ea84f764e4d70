------------------------------ MODULE TrailFile ------------------------------
(***************************************************************************)
(* The audit log as a file: what the processes that append to it and the   *)
(* logrotate configuration that installer/install.sh writes (create and    *)
(* compress, no delaycompress) may do to it between them.                  *)
(*                                                                         *)
(* A line is two cells, its head and its tail with the newline, so that a  *)
(* short write can leave a head alone in the file.                         *)
(***************************************************************************)
EXTENDS Integers, Sequences, FiniteSets

CONSTANTS
  Line,          (* what is appended                                 *)
  MaxRotations   (* bound: how often logrotate runs                  *)

ASSUME FileAssumption == MaxRotations \in Nat

VARIABLES
  disk,       (* the cells of each inode the path ever named         *)
  stage,      (* where each inode is in its life, see below          *)
  archive     (* what compress copied out of a rotated inode         *)

fileVars  == <<disk, stage, archive>>

(* An inode is what the path names ("live"), was renamed to .1 ("rotated"), *)
(* was read by compress ("packed") and unlinked ("gone").  Inodes are       *)
(* numbered in the order they are created.                                  *)
Inode == 0 .. MaxRotations
None  == -1

Live == {i \in Inode : stage[i] = "live"}
Fresh == {i \in Inode : stage[i] = "absent"
                        /\ \A j \in Inode : j < i => stage[j] # "absent"}

Cell        == [rec : Line, part : {"head", "tail"}]
Fragment(r) == <<[rec |-> r, part |-> "head"]>>
Whole(r)    == Fragment(r) \o <<[rec |-> r, part |-> "tail"]>>

(* r was appended whole to inode i, though perhaps behind a fragment. *)
AppendedTo(i, r) ==
  \E k \in 1 .. Len(disk[i]) - 1 : SubSeq(disk[i], k, k + 1) = Whole(r)

Appended(r) == \E i \in Inode : AppendedTo(i, r)

(* The cells up to and including position k end a line that holds one whole *)
(* record and nothing else: it decodes.                                     *)
EndsRecord(s, k) ==
  /\ k > 1
  /\ s[k].part = "tail" /\ s[k - 1].part = "head" /\ s[k].rec = s[k - 1].rec
  /\ k > 2 => s[k - 2].part = "tail"

Readable(s) == {s[k].rec : k \in {j \in DOMAIN s : EndsRecord(s, j)}}

(* Everything a reader of the live file and the rotated ones can find. *)
OnRecord ==
  UNION {Readable(IF stage[i] = "gone" THEN archive[i] ELSE disk[i]) : i \in Inode}

-----------------------------------------------------------------------------
FileInit ==
  /\ disk = [i \in Inode |-> <<>>]
  /\ stage \in {[i \in Inode |-> IF i = 0 THEN s ELSE "absent"] : s \in {"live", "absent"}}
  /\ archive = [i \in Inode |-> <<>>]

(* os.OpenFile(Path, O_CREATE|O_APPEND): the live inode, or a new one. *)
OpenPath(i) ==
  IF Live # {} THEN i \in Live /\ UNCHANGED stage
               ELSE i \in Fresh /\ stage' = [stage EXCEPT ![i] = "live"]

(* What one write of r through an open handle leaves: all of it, or part.   *)
Write(i, r) == \E w \in {Whole(r), Fragment(r)} : disk' = [disk EXCEPT ![i] = @ \o w]

(* One rotation ends before the next begins. *)
Rename ==
  /\ \A i \in Inode : stage[i] \notin {"rotated", "packed"}
  /\ \E i \in Live : i < MaxRotations /\ stage' = [stage EXCEPT ![i] = "rotated"]
  /\ UNCHANGED <<disk, archive>>

(* logrotate makes the new file if no writer was quicker. *)
Create ==
  /\ Live = {} /\ \E i \in Inode : stage[i] = "rotated"
  /\ \E i \in Fresh : stage' = [stage EXCEPT ![i] = "live"]
  /\ UNCHANGED <<disk, archive>>

CompressRead(i) ==
  /\ stage[i] = "rotated" /\ Live # {}
  /\ archive' = [archive EXCEPT ![i] = disk[i]]
  /\ stage' = [stage EXCEPT ![i] = "packed"]
  /\ UNCHANGED disk

Unlink(i) ==
  /\ stage[i] = "packed"
  /\ stage' = [stage EXCEPT ![i] = "gone"]
  /\ UNCHANGED <<disk, archive>>

Logrotate == Rename \/ Create \/ \E i \in Inode : CompressRead(i) \/ Unlink(i)

(* A handle that was opened on the live file may still be written to after  *)
(* the file was renamed, and after it was unlinked.                         *)
AppendLine(r) ==
  /\ \E i \in Inode : stage[i] # "absent" /\ Write(i, r)
  /\ UNCHANGED <<stage, archive>>

OpenNew == Live = {} /\ (\E i \in Inode : OpenPath(i)) /\ UNCHANGED <<disk, archive>>

(* Each of Line is appended once at most. *)
New(r) == \A i \in Inode : \A k \in DOMAIN disk[i] : disk[i][k].rec # r

FileNext ==
  \/ Logrotate \/ OpenNew
  \/ \E r \in Line : New(r) /\ AppendLine(r)

FileSpec == FileInit /\ [][FileNext]_fileVars

=============================================================================
