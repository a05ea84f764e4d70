------------------------------ MODULE AuditTail ------------------------------
(***************************************************************************)
(* internal/audit/tail.go over the file of TrailFile: a viewer that calls  *)
(* Next on a timer, while processes append and logrotate moves the file    *)
(* aside.  Offsets count cells instead of bytes.  The writers are what     *)
(* TrailFile allows, which AuditTrail is checked to stay within.           *)
(***************************************************************************)
EXTENDS TrailFile

CONSTANT Limit   (* Follow's limit, of any sign *)

ASSUME LimitAssumption == Limit \in Int

VARIABLES
  off, info,   (* Tailer.off and Tailer.info, the inode off belongs to  *)
  handle,      (* the inode Next has open, None between two calls       *)
  shown        (* every record Next has returned so far, oldest first   *)

tailVars == <<off, info, handle, shown>>
allVars  == <<fileVars, tailVars>>

-----------------------------------------------------------------------------
(* ParseRecords: the lines of a window that ends with a newline, the last   *)
(* Limit of them (all for 0, all but the first -Limit for a negative one),  *)
(* and of those the ones that decode.                                       *)

LineEnds(s) == {k \in DOMAIN s : s[k].part = "tail"}

Within(s) ==
  LET before(k) == Cardinality({j \in LineEnds(s) : j < k})
      after(k)  == Cardinality({j \in LineEnds(s) : j > k})
  IN  {k \in LineEnds(s) :
         CASE Limit > 0 -> after(k) < Limit
           [] Limit < 0 -> -Limit >= Cardinality(LineEnds(s)) \/ before(k) >= -Limit
           [] OTHER     -> TRUE}

(* The i-th of a set of positions. *)
Nth(S, i) == CHOOSE k \in S : Cardinality({j \in S : j <= k}) = i

ParseRecords(s) ==
  LET ends == {k \in Within(s) : EndsRecord(s, k)}
  IN  [i \in 1 .. Cardinality(ends) |-> s[Nth(ends, i)].rec]

(* Complete as it would be if everything read counted. *)
CompleteOrNot(s) == Len(s)

(* bytes.LastIndexByte: how many cells up to the last newline *)
Complete(s) == IF LineEnds(s) = {} THEN 0
               ELSE CHOOSE k \in LineEnds(s) : \A j \in LineEnds(s) : j <= k

-----------------------------------------------------------------------------
TailInit ==
  /\ FileInit
  /\ off = 0 /\ info = None /\ handle = None /\ shown = <<>>

(* os.Open: an error while there is no live file, and nothing changes. *)
OpenTrail ==
  /\ handle = None
  /\ \E i \in Live : handle' = i
  /\ UNCHANGED <<fileVars, off, info, shown>>

(* An offset carried over to any file. *)
ResumeAnywhere == off

(* An offset given up whenever the size is not what it was. *)
ResumeUnlessGrown == IF info = handle /\ Len(disk[handle]) = off THEN off ELSE 0

(* Where to read on: from the start if the path names another file than the *)
(* offset belongs to, or the same one cut shorter.                          *)
Resume ==
  IF info = None \/ (info = handle /\ Len(disk[handle]) >= off) THEN off ELSE 0

(* Stat, Seek and ReadAll of the open file, which may have been renamed.    *)
ReadTrail ==
  /\ handle # None
  /\ LET data   == SubSeq(disk[handle], Resume + 1, Len(disk[handle]))
         window == SubSeq(data, 1, Complete(data))
     IN  /\ off' = Resume + Len(window)
         /\ shown' = shown \o ParseRecords(window)
  /\ info' = handle
  /\ handle' = None
  /\ UNCHANGED fileVars

TailNext ==
  \/ FileNext /\ UNCHANGED tailVars
  \/ OpenTrail \/ ReadTrail

TailSpec == TailInit /\ [][TailNext]_allVars

(* The viewer's timer keeps ticking. *)
TailFairSpec == TailSpec /\ WF_allVars(OpenTrail) /\ WF_allVars(ReadTrail)

-----------------------------------------------------------------------------
(* Properties *)

(* No record is shown twice, whatever was rotated, torn or re-read. *)
ShownOnce == \A i, j \in DOMAIN shown : shown[i] = shown[j] => i = j

(* The offset never passes a record it did not show: every record on a line *)
(* of its own before it was returned, oldest first, and it never stops in   *)
(* the middle of a line -- so a torn line is neither consumed early nor a   *)
(* reason to stall.  (With Limit 0; a limit drops the oldest by design.)    *)
NothingSkipped ==
  info # None =>
    LET read == SubSeq(disk[info], 1, off)
    IN  /\ off > 0 => read[off].part = "tail"
        /\ Limit = 0 => Readable(read) \subseteq {shown[i] : i \in DOMAIN shown}

(* Once the log is rotated for the last time, what is readable in the live  *)
(* file is shown in the end.                                                *)
EventuallyShown ==
  \A r \in Line :
    (stage[MaxRotations] = "live" /\ r \in Readable(disk[MaxRotations]))
      ~> \E i \in DOMAIN shown : shown[i] = r

=============================================================================
