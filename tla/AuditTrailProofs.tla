-------------------------- MODULE AuditTrailProofs ---------------------------
(***************************************************************************)
(* What the writers promise of the audit trail, for any number of          *)
(* processes and of calls in each, however often logrotate runs and        *)
(* however many appends fail.                                              *)
(***************************************************************************)
EXTENDS AuditTrail, SequenceTheorems, TLAPS

TrailTypeOK ==
  /\ disk \in [Inode -> Seq(Cell)]
  /\ stage \in [Inode -> {"absent", "live", "rotated", "packed", "gone"}]
  /\ archive \in [Inode -> Seq(Cell)]
  /\ proc \in [Proc -> {"off", "up", "refused", "dead"}]
  /\ seq \in [Proc -> Nat]
  /\ lock \in [Proc -> Call \union {Nobody}]
  /\ pc \in [Call -> Phase \union {"idle", "stamped", "opened", "appended",
                                   "failed", "acting", "done"}]
  /\ line \in [Call -> Record \union {NoLine}]
  /\ fd \in [Call -> Inode \union {None}]
  /\ outcome \in [Call -> {"none", "ok", "error", "panic"}]
  /\ reported \subseteq Record

(* Inodes are made in the order of their numbers, and nothing was made      *)
(* after the one the path names.  What holds a cell was made.               *)
MadeInOrder ==
  \A i, j \in Inode : i < j =>
    /\ stage[j] # "absent" => stage[i] # "absent"
    /\ stage[i] = "live" => stage[j] = "absent"

HoldsWhenMade == \A i \in Inode : disk[i] # <<>> => stage[i] # "absent"

(* The record in cell k of inode i. *)
RecAt(i, k) == disk[i][k].rec

(* Every record in the file is its call's own, and its number was drawn. *)
Drawn ==
  \A i \in Inode : \A k \in DOMAIN disk[i] :
    /\ RecAt(i, k).proc = ProcOf[RecAt(i, k).call]
    /\ RecAt(i, k).seq <= seq[RecAt(i, k).proc]

(* So is the record a call is writing; until it is written its number is    *)
(* above every one its process has in the file.                             *)
Own(c) ==
  line[c] # NoLine => line[c].proc = ProcOf[c] /\ line[c].call = c

Ahead(c) ==
  pc[c] \in {"stamped", "opened"} =>
    \A i \in Inode : \A k \in DOMAIN disk[i] :
      RecAt(i, k).proc = ProcOf[c] => RecAt(i, k).seq < seq[ProcOf[c]]

(* The handle is on a file that no earlier line of its process is beyond,   *)
(* whatever was rotated since it was opened.                                *)
Opened(c) ==
  pc[c] = "opened" =>
    /\ fd[c] \in Inode
    /\ stage[fd[c]] # "absent"
    /\ \A i \in Inode : \A k \in DOMAIN disk[i] :
         RecAt(i, k).proc = ProcOf[c] => i <= fd[c]

(* fn has an outcome from its end on, and the result line tells it. *)
Told(c) ==
  /\ pc[c] \in {"idle", "intent", "event", "acting"} => outcome[c] = "none"
  /\ pc[c] = "result" => outcome[c] # "none"
  /\ Writing(c) => IF line[c].phase = "result"
                   THEN outcome[c] # "none" /\ (line[c].ok <=> outcome[c] = "ok")
                   ELSE outcome[c] = "none"
  /\ pc[c] = "appended" => Appended(line[c])

CallInv(c) == Own(c) /\ Ahead(c) /\ Opened(c) /\ Told(c)

TrailInv ==
  /\ TrailTypeOK
  /\ MadeInOrder /\ HoldsWhenMade
  /\ Drawn
  /\ \A c \in Call : CallInv(c)
  /\ OneAtATime /\ SeqOrder /\ IntentFirst /\ ResultIsTrue

(***************************************************************************)
(* The file                                                                *)
(***************************************************************************)

(* A place is an inode and a cell of it. *)
LEMMA PlaceIs ==
  \A x : x \in Places <=> \E i \in Inode : \E k \in DOMAIN disk[i] : x = <<i, k>>
BY DEF Places

(* No cell is lost or changed. *)
CellsStay ==
  \A i \in Inode : \A k \in DOMAIN disk[i] :
    k \in DOMAIN disk'[i] /\ disk'[i][k] = disk[i][k]

(* What is new are cells of r at the end of inode i. *)
OnlyNew(i, r) ==
  \A j \in Inode : \A k \in DOMAIN disk'[j] :
    k \notin DOMAIN disk[j] => j = i /\ k > Len(disk[i]) /\ disk'[j][k].rec = r

(* Two neighbours, and two made neighbours. *)
LEMMA TwoCells ==
  ASSUME NEW S, NEW s \in Seq(S), NEW k \in 1 .. Len(s) - 1
  PROVE  SubSeq(s, k, k + 1) = <<s[k], s[k + 1]>>
<1>1. Len(s) \in Nat /\ k \in 1 .. Len(s) /\ k + 1 \in 1 .. Len(s) /\ k <= k + 1
  BY LenProperties
<1>2. s[k] \in S /\ s[k + 1] \in S
  BY <1>1, ElementOfSeq
<1>3. /\ SubSeq(s, k, k + 1) \in Seq(S)
      /\ Len(SubSeq(s, k, k + 1)) = 2
      /\ SubSeq(s, k, k + 1)[1] = s[k] /\ SubSeq(s, k, k + 1)[2] = s[k + 1]
  BY <1>1, SubSeqProperties
<1>4. ASSUME NEW a \in S, NEW b \in S, NEW t \in Seq(S), Len(t) = 2, t[1] = a, t[2] = b
      PROVE  t = <<a, b>>
  <2>1. <<a, b>> \in Seq(S) /\ Len(<<a, b>>) = 2 /\ <<a, b>>[1] = a /\ <<a, b>>[2] = b
    OBVIOUS
  <2>2. \A n \in 1 .. Len(t) : t[n] = <<a, b>>[n]
    BY <1>4, <2>1
  <2> QED BY <1>4, <2>1, <2>2, SeqEqual
<1> QED BY <1>2, <1>3, <1>4

(* The record of a line is its head and its tail, put together.             *)
LEMMA TwoAreOne ==
  ASSUME NEW S, NEW a \in S, NEW b \in S
  PROVE  <<a>> \o <<b>> = <<a, b>>
<1>1. <<a>> \in Seq(S) /\ <<b>> \in Seq(S) /\ Len(<<a>>) = 1 /\ Len(<<b>>) = 1
  OBVIOUS
<1>2. /\ <<a, b>> \in Seq(S) /\ Len(<<a, b>>) = 2
      /\ <<a, b>>[1] = a /\ <<a, b>>[2] = b
  OBVIOUS
<1>3. /\ <<a>> \o <<b>> \in Seq(S) /\ Len(<<a>> \o <<b>>) = 2
      /\ (<<a>> \o <<b>>)[1] = a /\ (<<a>> \o <<b>>)[2] = b
  BY <1>1, ConcatProperties
<1>4. \A n \in 1 .. 2 : (<<a>> \o <<b>>)[n] = <<a, b>>[n]
  BY <1>2, <1>3
<1> QED BY <1>2, <1>3, <1>4, SeqEqual

(* A write to an open handle adds the cells of its record at the end of one *)
(* inode, and a whole one is found there afterwards.                        *)
LEMMA WriteAppends ==
  ASSUME TrailTypeOK, NEW i \in Inode, NEW r \in Record,
         NEW w \in {Whole(r), Fragment(r)}, disk' = [disk EXCEPT ![i] = @ \o w]
  PROVE  /\ disk' \in [Inode -> Seq(Cell)]
         /\ CellsStay /\ OnlyNew(i, r)
         /\ \A j \in Inode : disk'[j] # <<>> => j = i \/ disk[j] # <<>>
         /\ w = Whole(r) => Appended(r)'
<1> DEFINE head == [rec |-> r, part |-> "head"]
           tail == [rec |-> r, part |-> "tail"]
<1>1. head \in Cell /\ tail \in Cell /\ head.rec = r /\ tail.rec = r
  BY DEF Cell
<1>2. Fragment(r) = <<head>> /\ Whole(r) = <<head, tail>>
  <2>1. Fragment(r) = <<head>> /\ Whole(r) = <<head>> \o <<tail>>
    BY DEF Fragment, Whole
  <2> HIDE DEF head, tail
  <2> QED BY <2>1, <1>1, TwoAreOne
<1> HIDE DEF head, tail
<1>3. /\ w \in Seq(Cell) /\ Len(w) \in {1, 2}
      /\ \A n \in 1 .. Len(w) : w[n].rec = r
  <2>1. CASE w = <<head>>
    BY <2>1, <1>1
  <2>2. CASE w = <<head, tail>>
    BY <2>2, <1>1
  <2> QED BY <2>1, <2>2, <1>2
<1>4. disk[i] \in Seq(Cell) /\ Len(disk[i]) \in Nat /\ DOMAIN disk[i] = 1 .. Len(disk[i])
  BY LenProperties DEF TrailTypeOK
<1>5. /\ disk[i] \o w \in Seq(Cell)
      /\ Len(disk[i] \o w) = Len(disk[i]) + Len(w)
      /\ \A n \in 1 .. Len(disk[i]) + Len(w) :
           (disk[i] \o w)[n] = IF n <= Len(disk[i]) THEN disk[i][n] ELSE w[n - Len(disk[i])]
  BY <1>3, <1>4, ConcatProperties
<1>6. disk'[i] = disk[i] \o w /\ \A j \in Inode : j # i => disk'[j] = disk[j]
  BY DEF TrailTypeOK
<1>7. disk' \in [Inode -> Seq(Cell)]
  BY <1>5 DEF TrailTypeOK
<1>8. DOMAIN disk'[i] = 1 .. Len(disk[i]) + Len(w)
  BY <1>5, <1>6, LenProperties
<1>9. CellsStay
  <2> SUFFICES ASSUME NEW j \in Inode, NEW k \in DOMAIN disk[j]
               PROVE  k \in DOMAIN disk'[j] /\ disk'[j][k] = disk[j][k]
    BY DEF CellsStay
  <2>1. CASE j = i
    BY <2>1, <1>3, <1>4, <1>5, <1>6, <1>8
  <2> QED BY <2>1, <1>6
<1>10. OnlyNew(i, r)
  <2> SUFFICES ASSUME NEW j \in Inode, NEW k \in DOMAIN disk'[j], k \notin DOMAIN disk[j]
               PROVE  j = i /\ k > Len(disk[i]) /\ disk'[j][k].rec = r
    BY DEF OnlyNew
  <2>1. j = i
    BY <1>6
  <2>2. k \in 1 .. Len(disk[i]) + Len(w) /\ k > Len(disk[i])
    BY <2>1, <1>3, <1>4, <1>8
  <2>3. disk'[i][k] = w[k - Len(disk[i])] /\ k - Len(disk[i]) \in 1 .. Len(w)
    BY <2>2, <1>3, <1>4, <1>5, <1>6
  <2> QED BY <2>1, <2>2, <2>3, <1>3
<1>11. ASSUME w = Whole(r)
       PROVE  Appended(r)'
  <2> DEFINE k == Len(disk[i]) + 1
  <2>1. Len(w) = 2 /\ w[1] = head /\ w[2] = tail
    BY <1>2, <1>11
  <2>2. Len(disk'[i]) = Len(disk[i]) + 2 /\ disk'[i] \in Seq(Cell)
    BY <2>1, <1>5, <1>6
  <2>3. k \in 1 .. Len(disk'[i]) - 1
    BY <2>2, <1>4
  <2>4. disk'[i][k] = head /\ disk'[i][k + 1] = tail
    BY <2>1, <1>4, <1>5, <1>6
  <2>5. SubSeq(disk'[i], k, k + 1) = <<disk'[i][k], disk'[i][k + 1]>>
    BY <2>2, <2>3, TwoCells
  <2>6. SubSeq(disk'[i], k, k + 1) = Whole(r)
    BY <2>4, <2>5, <1>2
  <2> QED BY <2>3, <2>6 DEF Appended, AppendedTo
<1> QED BY <1>6, <1>7, <1>9, <1>10, <1>11

(* What was appended whole stays so. *)
LEMMA AppendedStays ==
  ASSUME TrailTypeOK, TrailTypeOK', CellsStay, NEW r, Appended(r)
  PROVE  Appended(r)'
<1>1. PICK i \in Inode : \E k \in 1 .. Len(disk[i]) - 1 : SubSeq(disk[i], k, k + 1) = Whole(r)
  BY DEF Appended, AppendedTo
<1>2. PICK k \in 1 .. Len(disk[i]) - 1 : SubSeq(disk[i], k, k + 1) = Whole(r)
  BY <1>1
<1>3. /\ disk[i] \in Seq(Cell) /\ disk'[i] \in Seq(Cell)
      /\ Len(disk[i]) \in Nat /\ DOMAIN disk[i] = 1 .. Len(disk[i])
      /\ Len(disk'[i]) \in Nat /\ DOMAIN disk'[i] = 1 .. Len(disk'[i])
  BY LenProperties DEF TrailTypeOK
<1>4. /\ k \in DOMAIN disk[i] /\ k + 1 \in DOMAIN disk[i]
      /\ k \in DOMAIN disk'[i] /\ k + 1 \in DOMAIN disk'[i]
      /\ disk'[i][k] = disk[i][k] /\ disk'[i][k + 1] = disk[i][k + 1]
  BY <1>2, <1>3 DEF CellsStay
<1>5. SubSeq(disk[i], k, k + 1) = <<disk[i][k], disk[i][k + 1]>>
  BY <1>2, <1>3, TwoCells
<1>6. k \in 1 .. Len(disk'[i]) - 1
  BY <1>2, <1>3, <1>4
<1>7. SubSeq(disk'[i], k, k + 1) = Whole(r)
  <2>1. SubSeq(disk'[i], k, k + 1) = <<disk'[i][k], disk'[i][k + 1]>>
    BY <1>3, <1>6, TwoCells
  <2> QED BY <2>1, <1>2, <1>4, <1>5
<1>8. Whole(r)' = Whole(r)
  BY DEF Whole, Fragment
<1> QED BY <1>6, <1>7, <1>8 DEF Appended, AppendedTo

(* What was appended has a place. *)
LEMMA AppendedHasPlace ==
  ASSUME TrailTypeOK, NEW r, Appended(r)
  PROVE  \E i \in Inode : \E k \in DOMAIN disk[i] : RecAt(i, k) = r
<1>1. PICK i \in Inode : \E k \in 1 .. Len(disk[i]) - 1 : SubSeq(disk[i], k, k + 1) = Whole(r)
  BY DEF Appended, AppendedTo
<1>2. PICK k \in 1 .. Len(disk[i]) - 1 : SubSeq(disk[i], k, k + 1) = Whole(r)
  BY <1>1
<1>3. disk[i] \in Seq(Cell) /\ Len(disk[i]) \in Nat /\ DOMAIN disk[i] = 1 .. Len(disk[i])
  BY LenProperties DEF TrailTypeOK
<1>4. SubSeq(disk[i], k, k + 1)[1] = disk[i][k] /\ k \in DOMAIN disk[i]
  BY <1>2, <1>3
<1>5. Whole(r)[1].rec = r
  BY DEF Whole, Fragment
<1> QED BY <1>2, <1>4, <1>5 DEF RecAt

(***************************************************************************)
(* The inductive invariant, part by part                                   *)
(***************************************************************************)

(* A call without a line does not look like one that has a record.          *)
LEMMA NoLineIsNone == NoLine \notin Record
<1>1. \A r \in Record : "proc" \in DOMAIN r
  BY DEF Record
<1>2. DOMAIN NoLine = {"none"}
  BY DEF NoLine
<1> QED BY <1>1, <1>2

(* Every cell of the log holds a part of some record.                       *)
LEMMA CellsAreTyped ==
  ASSUME TrailTypeOK, NEW i \in Inode, NEW k \in DOMAIN disk[i]
  PROVE  RecAt(i, k) \in Record
<1>1. disk[i] \in Seq(Cell)
  BY DEF TrailTypeOK
<1>2. disk[i][k] \in Cell
  BY <1>1, ElementOfSeq
<1> QED BY <1>2 DEF Cell, RecAt

(* A call that writes has its record, and no other call of its process      *)
(* writes.                                                                  *)
LEMMA Alone ==
  ASSUME TrailInv, NEW c \in Call, Writing(c)
  PROVE  /\ line[c] \in Record
         /\ line[c].proc = ProcOf[c] /\ line[c].call = c
         /\ line[c].seq = seq[ProcOf[c]]
         /\ lock[ProcOf[c]] = c
         /\ \A d \in Call : Writing(d) /\ ProcOf[d] = ProcOf[c] => d = c
BY DEF TrailInv, TrailTypeOK, OneAtATime, CallInv, Own

(* The only step that writes to the file.                                   *)
LEMMA WriteLineAppends ==
  ASSUME TrailInv, NEW c \in Call, WriteLine(c)
  PROVE  \/ UNCHANGED disk
         \/ /\ disk' \in [Inode -> Seq(Cell)]
            /\ CellsStay /\ OnlyNew(fd[c], line[c])
            /\ \A j \in Inode : disk'[j] # <<>> => j = fd[c] \/ disk[j] # <<>>
<1>1. pc[c] = "opened" /\ Writing(c)
  BY DEF WriteLine, Writing
<1>2. line[c] \in Record /\ fd[c] \in Inode /\ TrailTypeOK
  BY <1>1, Alone DEF TrailInv, CallInv, Opened
<1>3. \/ UNCHANGED disk
      \/ \E w \in {Whole(line[c]), Fragment(line[c])} :
           disk' = [disk EXCEPT ![fd[c]] = @ \o w]
  BY DEF WriteLine, Write
<1> QED BY <1>2, <1>3, WriteAppends

(* A call that went on from its write has its whole line in the log         *)
(* (appendLine).                                                            *)
LEMMA WriteLineWhole ==
  ASSUME TrailInv, NEW c \in Call, WriteLine(c), pc'[c] = "appended"
  PROVE  Appended(line[c])'
<1>1. pc[c] = "opened" /\ Writing(c)
  BY DEF WriteLine, Writing
<1>2. line[c] \in Record /\ fd[c] \in Inode /\ TrailTypeOK
  BY <1>1, Alone DEF TrailInv, CallInv, Opened
<1>3. disk' = [disk EXCEPT ![fd[c]] = @ \o Whole(line[c])] /\ line' = line
  BY <1>1, <1>2 DEF WriteLine, TrailTypeOK
<1>4. \A r \in Record : disk' = [disk EXCEPT ![fd[c]] = @ \o Whole(r)] => Appended(r)'
  BY <1>2, WriteAppends
<1> DEFINE r == line[c]
<1>5. Appended(r)'
  BY <1>2, <1>3, <1>4
<1> QED BY <1>3, <1>5

(* Before any writer is made no call has begun and the log is as it was     *)
(* found.                                                                   *)
LEMMA InitInv == TrailInit => TrailInv
<1> SUFFICES ASSUME TrailInit PROVE TrailInv
  OBVIOUS
<1> USE TrailAssumption DEF TrailInit, FileInit
<1>1. 0 \in Inode /\ None \notin Inode
  BY DEF Inode, None
<1>2. /\ disk = [i \in Inode |-> <<>>]
      /\ \A i \in Inode : DOMAIN disk[i] = {}
  OBVIOUS
<1>3. TrailTypeOK
  BY DEF TrailTypeOK, Phase
<1>4. MadeInOrder /\ HoldsWhenMade
  BY <1>1 DEF MadeInOrder, HoldsWhenMade, Inode
<1>5. Drawn
  BY <1>2 DEF Drawn
<1>6. \A c \in Call : CallInv(c)
  BY DEF CallInv, Own, Ahead, Opened, Told, Writing
<1>7. Places = {}
  BY <1>2, PlaceIs
<1>8. OneAtATime /\ SeqOrder /\ IntentFirst /\ ResultIsTrue
  BY <1>7 DEF OneAtATime, SeqOrder, IntentFirst, ResultIsTrue, Writing
<1> QED BY <1>3, <1>4, <1>5, <1>6, <1>8 DEF TrailInv

(* A function with one value replaced keeps its type.                       *)
LEMMA ReplacedIsTyped ==
  ASSUME NEW S, NEW T, NEW f \in [S -> T], NEW i \in S, NEW v \in T
  PROVE  [f EXCEPT ![i] = v] \in [S -> T]
OBVIOUS

(* No step gives a variable of the writers or of the file a value outside   *)
(* its type.                                                                *)
LEMMA TypesStay ==
  ASSUME TrailInv, [TrailNext]_trailVars
  PROVE  TrailTypeOK'
<1> USE TrailAssumption DEF TrailInv, TrailTypeOK
<1>1. ASSUME NEW p \in Proc, NewWriter(p)
      PROVE  TrailTypeOK'
  BY <1>1 DEF NewWriter, OpenPath
<1>2. ASSUME NEW p \in Proc, Crash(p)
      PROVE  TrailTypeOK'
  BY <1>2 DEF Crash, theFile
<1>3. ASSUME NEW c \in Call, Begin(c)
      PROVE  TrailTypeOK'
  BY <1>3 DEF Begin, theFile, Phase
<1>4. ASSUME NEW c \in Call, Stamp(c)
      PROVE  TrailTypeOK'
  <2> DEFINE r == [proc |-> ProcOf[c], seq |-> seq[ProcOf[c]] + 1, call |-> c,
                   phase |-> pc[c], ok |-> outcome[c] = "ok"]
  <2>1. r \in Record
    BY <1>4 DEF Stamp, Record
  <2>2. line' = [line EXCEPT ![c] = r]
    BY <1>4 DEF Stamp
  <2> HIDE DEF r
  <2>3. line' \in [Call -> Record \union {NoLine}]
    BY <2>1, <2>2
  <2>4. seq' \in [Proc -> Nat] /\ lock' \in [Proc -> Call \union {Nobody}]
    BY <1>4 DEF Stamp
  <2>5. pc' \in [Call -> Phase \union {"idle", "stamped", "opened", "appended",
                                       "failed", "acting", "done"}]
    BY <1>4 DEF Stamp
  <2>6. UNCHANGED <<disk, stage, archive, proc, fd, outcome, reported>>
    BY <1>4 DEF Stamp, theFile
  <2> QED BY <2>3, <2>4, <2>5, <2>6
<1>5. ASSUME NEW c \in Call, OpenLine(c)
      PROVE  TrailTypeOK'
  <2>1. pc' = [pc EXCEPT ![c] = "opened"] \/ pc' = [pc EXCEPT ![c] = "failed"]
    BY <1>5 DEF OpenLine
  <2>2. fd' = fd \/ \E i \in Inode : fd' = [fd EXCEPT ![c] = i]
    BY <1>5 DEF OpenLine
  <2>3. stage' = stage \/ \E i \in Inode : stage' = [stage EXCEPT ![i] = "live"]
    BY <1>5 DEF OpenLine, OpenPath
  <2>4. UNCHANGED <<disk, archive, proc, seq, lock, line, outcome, reported>>
    BY <1>5 DEF OpenLine
  <2>5. pc' \in [Call -> Phase \union {"idle", "stamped", "opened", "appended",
                                       "failed", "acting", "done"}]
    BY <2>1
  <2>6. fd' \in [Call -> Inode \union {None}]
    BY <2>2
  <2>7. stage' \in [Inode -> {"absent", "live", "rotated", "packed", "gone"}]
    BY <2>3
  <2> QED BY <2>4, <2>5, <2>6, <2>7
<1>6. ASSUME NEW c \in Call, WriteLine(c)
      PROVE  TrailTypeOK'
  <2>1. disk' \in [Inode -> Seq(Cell)]
    BY <1>6, WriteLineAppends
  <2> QED BY <1>6, <2>1 DEF WriteLine
<1>7. ASSUME NEW c \in Call, Unlock(c)
      PROVE  TrailTypeOK'
  <2>1. line[c] \in Record
    BY <1>7, Alone DEF Unlock, Writing
  <2> QED BY <1>7, <2>1 DEF Unlock, theFile
<1>8. ASSUME NEW c \in Call, Act(c)
      PROVE  TrailTypeOK'
  BY <1>8 DEF Act, theFile, Phase
<1>9. CASE Logrotate /\ UNCHANGED callVars
  <2>1. UNCHANGED <<disk, proc, seq, lock, pc, line, fd, outcome, reported>>
    BY <1>9 DEF Logrotate, Rename, Create, CompressRead, Unlink, callVars
  <2>2. stage' \in [Inode -> {"absent", "live", "rotated", "packed", "gone"}]
    <3>1. PICK i \in Inode, s \in {"live", "rotated", "packed", "gone"} :
            stage' = [stage EXCEPT ![i] = s]
      BY <1>9 DEF Logrotate, Rename, Create, CompressRead, Unlink, Live, Fresh
    <3>2. \A j \in Inode : stage'[j] \in {"absent", "live", "rotated", "packed", "gone"}
      BY <3>1
    <3>3. stage' \in [Inode -> {stage'[j] : j \in Inode}]
      BY <3>1
    <3> QED BY <3>2, <3>3
  <2>3. archive' \in [Inode -> Seq(Cell)]
    <3>1. archive' = archive \/ \E i \in Inode : archive' = [archive EXCEPT ![i] = disk[i]]
      BY <1>9 DEF Logrotate, Rename, Create, CompressRead, Unlink
    <3>2. archive \in [Inode -> Seq(Cell)] /\ \A i \in Inode : disk[i] \in Seq(Cell)
      OBVIOUS
    <3>3. \A i \in Inode : [archive EXCEPT ![i] = disk[i]] \in [Inode -> Seq(Cell)]
      BY <3>2, ReplacedIsTyped
    <3> QED BY <3>1, <3>2, <3>3, Zenon
  <2> QED BY <2>1, <2>2, <2>3
<1>10. CASE UNCHANGED trailVars
  BY <1>10 DEF trailVars, theFile, callVars
<1> QED
  BY <1>1, <1>2, <1>3, <1>4, <1>5, <1>6, <1>7, <1>8, <1>9, <1>10 DEF TrailNext, Step

(* os.OpenFile leaves the path on the newest inode there is. *)
LEMMA OpensNewest ==
  ASSUME TrailInv, NEW i \in Inode, OpenPath(i)
  PROVE  /\ stage' \in [Inode -> {"absent", "live", "rotated", "packed", "gone"}]
         /\ \A j \in Inode : stage[j] # "absent" => stage'[j] # "absent" /\ j <= i
         /\ stage'[i] = "live"
         /\ \/ UNCHANGED stage
            \/ stage' = [stage EXCEPT ![i] = "live"] /\ i \in Fresh /\ Live = {}
<1> USE DEF TrailInv, TrailTypeOK
<1>1. CASE Live # {}
  <2>1. stage[i] = "live" /\ UNCHANGED stage
    BY <1>1 DEF OpenPath, Live
  <2>2. \A j \in Inode : i < j => stage[j] = "absent"
    BY <2>1 DEF MadeInOrder
  <2>3. \A j \in Inode : stage[j] # "absent" => j <= i
    BY <2>2 DEF Inode
  <2> QED BY <2>1, <2>3
<1>2. CASE Live = {}
  <2>1. /\ stage[i] = "absent" /\ i \in Fresh
        /\ stage' = [stage EXCEPT ![i] = "live"]
    BY <1>2 DEF OpenPath, Fresh
  <2>2. \A j \in Inode : stage[j] # "absent" => ~(i < j)
    BY <2>1 DEF MadeInOrder
  <2>3. \A j \in Inode : stage[j] # "absent" => j <= i
    BY <2>2 DEF Inode
  <2>4. \A j \in Inode : stage[j] # "absent" => stage'[j] # "absent"
    BY <2>1
  <2> QED BY <1>2, <2>1, <2>3, <2>4
<1> QED BY <1>1, <1>2

(* Making the next inode keeps the order they are made in. *)
LEMMA FreshInOrder ==
  ASSUME TrailInv, Live = {}, NEW i \in Fresh, stage' = [stage EXCEPT ![i] = "live"]
  PROVE  MadeInOrder'
<1> SUFFICES ASSUME NEW j \in Inode, NEW k \in Inode, j < k
             PROVE  /\ stage'[k] # "absent" => stage'[j] # "absent"
                    /\ stage'[j] = "live" => stage'[k] = "absent"
  BY DEF MadeInOrder
<1>1. /\ i \in Inode /\ stage[i] = "absent"
      /\ \A n \in Inode : (n < i => stage[n] # "absent") /\ stage[n] # "live"
  BY DEF Fresh, Live
<1>2. /\ stage[k] # "absent" => stage[j] # "absent"
      /\ stage[j] = "live" => stage[k] = "absent"
      /\ i < k => (stage[k] # "absent" => stage[i] # "absent")
      /\ j < i => (stage[j] = "live" => stage[i] = "absent")
  BY <1>1 DEF TrailInv, MadeInOrder
<1>3. \A n \in Inode : stage'[n] = IF n = i THEN "live" ELSE stage[n]
  BY <1>1 DEF TrailInv, TrailTypeOK
<1>4. i \in Int /\ j \in Int /\ k \in Int
  BY <1>1 DEF Inode
<1>5. CASE i = k
  BY <1>1, <1>2, <1>3, <1>4, <1>5
<1>6. CASE i = j
  BY <1>1, <1>2, <1>3, <1>4, <1>6
<1> QED
  BY <1>2, <1>3, <1>5, <1>6

(* Files are made in order, only one that was made holds lines, and none    *)
(* that was made is unmade.                                                 *)
LEMMA FileStays ==
  ASSUME TrailInv, [TrailNext]_trailVars
  PROVE  /\ MadeInOrder' /\ HoldsWhenMade'
         /\ \A i \in Inode : stage[i] # "absent" => stage'[i] # "absent"
<1> DEFINE Made == \A i \in Inode : stage[i] # "absent" => stage'[i] # "absent"
           Goal == MadeInOrder' /\ HoldsWhenMade' /\ Made
<1>1. ASSUME UNCHANGED disk, MadeInOrder', Made
      PROVE  Goal
  BY <1>1 DEF TrailInv, HoldsWhenMade
<1>2. ASSUME UNCHANGED <<disk, stage>>
      PROVE  Goal
  BY <1>2 DEF TrailInv, MadeInOrder, HoldsWhenMade
<1>3. ASSUME NEW i \in Inode, OpenPath(i), UNCHANGED disk
      PROVE  Goal
  <2>1. CASE UNCHANGED stage
    BY <2>1, <1>2, <1>3
  <2>2. CASE stage' = [stage EXCEPT ![i] = "live"] /\ i \in Fresh /\ Live = {}
    BY <2>2, <1>1, <1>3, FreshInOrder, OpensNewest
  <2> QED BY <2>1, <2>2, <1>3, OpensNewest
<1>4. ASSUME NEW p \in Proc, NewWriter(p)
      PROVE  Goal
  BY <1>2, <1>3, <1>4 DEF NewWriter
<1>5. ASSUME NEW c \in Call, OpenLine(c)
      PROVE  Goal
  BY <1>2, <1>3, <1>5 DEF OpenLine
<1>6. ASSUME NEW c \in Call, WriteLine(c)
      PROVE  Goal
  <2>1. stage[fd[c]] # "absent" /\ fd[c] \in Inode /\ UNCHANGED stage
    BY <1>6 DEF WriteLine, TrailInv, CallInv, Opened
  <2>2. UNCHANGED disk \/ \A j \in Inode : disk'[j] # <<>> => j = fd[c] \/ disk[j] # <<>>
    BY <1>6, WriteLineAppends
  <2> QED BY <2>1, <2>2 DEF TrailInv, MadeInOrder, HoldsWhenMade
<1>7. ASSUME Rename
      PROVE  Goal
  BY <1>7 DEF Rename, Live, TrailInv, TrailTypeOK, MadeInOrder, HoldsWhenMade
<1>8. ASSUME Create
      PROVE  Goal
  <2>1. PICK i \in Fresh : stage' = [stage EXCEPT ![i] = "live"]
    BY <1>8 DEF Create
  <2>2. UNCHANGED disk /\ MadeInOrder'
    BY <1>8, <2>1, FreshInOrder DEF Create
  <2>3. Made
    BY <2>1 DEF Fresh, TrailInv, TrailTypeOK
  <2> QED BY <1>1, <2>2, <2>3
<1>9. ASSUME NEW i \in Inode, CompressRead(i) \/ Unlink(i)
      PROVE  Goal
  <2>1. /\ stage[i] \in {"rotated", "packed"} /\ UNCHANGED disk
        /\ stage' = [stage EXCEPT ![i] = "packed"] \/ stage' = [stage EXCEPT ![i] = "gone"]
    BY <1>9 DEF CompressRead, Unlink
  <2>2. \A j \in Inode : /\ stage'[j] = "absent" <=> stage[j] = "absent"
                         /\ stage'[j] = "live" <=> stage[j] = "live"
    BY <2>1 DEF TrailInv, TrailTypeOK
  <2> QED BY <2>1, <2>2 DEF TrailInv, MadeInOrder, HoldsWhenMade
<1>10. ASSUME NEW c \in Call, Begin(c) \/ Stamp(c) \/ Unlock(c) \/ Act(c)
       PROVE  Goal
  BY <1>2, <1>10 DEF Begin, Stamp, Unlock, Act, theFile
<1>11. ASSUME NEW p \in Proc, Crash(p)
       PROVE  Goal
  BY <1>2, <1>11 DEF Crash, theFile
<1>12. CASE UNCHANGED trailVars
  BY <1>2, <1>12 DEF trailVars, theFile
<1> QED
  BY <1>4, <1>5, <1>6, <1>7, <1>8, <1>9, <1>10, <1>11, <1>12
  DEF TrailNext, Step, Logrotate

(* Steps that neither write to the file nor stamp. *)
LEMMA QuietSteps ==
  ASSUME TrailInv, [TrailNext]_trailVars,
         ~ \E c \in Call : Stamp(c) \/ WriteLine(c)
  PROVE  UNCHANGED <<disk, seq, line>>
BY DEF TrailNext, Step, trailVars, theFile, callVars, NewWriter, Crash, Begin,
       OpenLine, Unlock, Act, Logrotate, Rename, Create, CompressRead, Unlink

(* A Stamp draws its process's next number, and nobody else of it writes.   *)
LEMMA StampDraws ==
  ASSUME TrailInv, NEW c \in Call, Stamp(c)
  PROVE  /\ seq' = [seq EXCEPT ![ProcOf[c]] = seq[ProcOf[c]] + 1]
         /\ seq[ProcOf[c]] \in Nat /\ seq'[ProcOf[c]] = seq[ProcOf[c]] + 1
         /\ \A p \in Proc : seq[p] \in Nat /\ seq[p] <= seq'[p]
         /\ line'[c] \in Record
         /\ line'[c].proc = ProcOf[c] /\ line'[c].call = c
         /\ line'[c].seq = seq[ProcOf[c]] + 1
         /\ line'[c].phase = pc[c] /\ line'[c].ok = (outcome[c] = "ok")
         /\ \A d \in Call : d # c => line'[d] = line[d] /\ pc'[d] = pc[d]
         /\ pc'[c] = "stamped"
         /\ \A d \in Call : Writing(d) => ProcOf[d] # ProcOf[c]
<1>1. Nobody \notin Call /\ ProcOf[c] \in Proc
  BY TrailAssumption
<1>2. \A d \in Call : Writing(d) => ProcOf[d] # ProcOf[c]
  <2> SUFFICES ASSUME NEW d \in Call, Writing(d), ProcOf[d] = ProcOf[c]
               PROVE  FALSE
    OBVIOUS
  <2>1. lock[ProcOf[c]] = d
    BY Alone
  <2>2. lock[ProcOf[c]] = Nobody
    BY DEF Stamp
  <2> QED BY <1>1, <2>1, <2>2
<1>3. seq \in [Proc -> Nat] /\ line \in [Call -> Record \union {NoLine}]
  BY DEF TrailInv, TrailTypeOK
<1>4. seq' = [seq EXCEPT ![ProcOf[c]] = seq[ProcOf[c]] + 1]
  BY DEF Stamp
<1>5. /\ seq[ProcOf[c]] \in Nat /\ seq'[ProcOf[c]] = seq[ProcOf[c]] + 1
      /\ \A p \in Proc : seq[p] \in Nat /\ seq[p] <= seq'[p]
  BY <1>1, <1>3, <1>4
<1> DEFINE r == [proc |-> ProcOf[c], seq |-> seq[ProcOf[c]] + 1, call |-> c,
                 phase |-> pc[c], ok |-> outcome[c] = "ok"]
<1>6. /\ line'[c] = r
      /\ \A d \in Call : d # c => line'[d] = line[d]
  BY <1>3 DEF Stamp
<1>8. r \in Record
  BY <1>1, <1>5 DEF Stamp, Record
<1>9. /\ r.proc = ProcOf[c] /\ r.call = c /\ r.seq = seq[ProcOf[c]] + 1
      /\ r.phase = pc[c] /\ r.ok = (outcome[c] = "ok")
  OBVIOUS
<1>7. /\ pc'[c] = "stamped"
      /\ \A d \in Call : d # c => pc'[d] = pc[d]
  BY DEF Stamp, TrailInv, TrailTypeOK
<1> HIDE DEF r
<1> QED BY <1>2, <1>4, <1>5, <1>6, <1>7, <1>8, <1>9

(* A line in the hand of a call is that call's and carries its process. *)
LEMMA OwnStays ==
  ASSUME TrailInv, [TrailNext]_trailVars, NEW d \in Call
  PROVE  Own(d)'
<1>0. Own(d)
  BY DEF TrailInv, CallInv
<1>1. ASSUME NEW c \in Call, Stamp(c)
      PROVE  Own(d)'
  BY <1>0, <1>1, StampDraws DEF Own
<1>2. ASSUME NEW c \in Call, WriteLine(c)
      PROVE  Own(d)'
  BY <1>0, <1>2 DEF Own, WriteLine
<1> QED BY <1>0, <1>1, <1>2, QuietSteps DEF Own

(* Every number found in the log was drawn by its writer before: Event and  *)
(* Do stamp before they write.                                              *)
LEMMA DrawnStays ==
  ASSUME TrailInv, [TrailNext]_trailVars
  PROVE  Drawn'
<1>0. Drawn /\ TrailTypeOK
  BY DEF TrailInv
<1>1. ASSUME NEW c \in Call, Stamp(c)
      PROVE  Drawn'
  <2>1. \A i \in Inode : \A k \in DOMAIN disk[i] : RecAt(i, k) \in Record
    BY CellsAreTyped DEF TrailInv
  <2>2. UNCHANGED disk
    BY <1>1 DEF Stamp, theFile
  <2> SUFFICES ASSUME NEW i \in Inode, NEW k \in DOMAIN disk[i]
               PROVE  /\ RecAt(i, k).proc = ProcOf[RecAt(i, k).call]
                      /\ RecAt(i, k).seq <= seq'[RecAt(i, k).proc]
    BY <2>2 DEF Drawn, RecAt
  <2>3. /\ RecAt(i, k).proc \in Proc /\ RecAt(i, k).seq \in Nat
        /\ RecAt(i, k).proc = ProcOf[RecAt(i, k).call]
        /\ RecAt(i, k).seq <= seq[RecAt(i, k).proc]
    BY <1>0, <2>1 DEF Drawn, Record
  <2>4. seq[RecAt(i, k).proc] \in Nat /\ seq[RecAt(i, k).proc] <= seq'[RecAt(i, k).proc]
    BY <2>3, <1>1, StampDraws
  <2>5. seq'[RecAt(i, k).proc] \in Nat
    BY <2>3, TypesStay DEF TrailTypeOK
  <2> QED BY <2>3, <2>4, <2>5
<1>2. ASSUME NEW c \in Call, WriteLine(c)
      PROVE  Drawn'
  <2>1. UNCHANGED seq
    BY <1>2 DEF WriteLine
  <2>2. CASE UNCHANGED disk
    BY <1>0, <2>1, <2>2 DEF Drawn, RecAt
  <2>3. CASE CellsStay /\ OnlyNew(fd[c], line[c])
    <3> SUFFICES ASSUME NEW i \in Inode, NEW k \in DOMAIN disk'[i]
                 PROVE  /\ RecAt(i, k)'.proc = ProcOf[RecAt(i, k)'.call]
                        /\ RecAt(i, k)'.seq <= seq[RecAt(i, k)'.proc]
      BY <2>1 DEF Drawn
    <3>1. CASE k \in DOMAIN disk[i]
      <4>1. RecAt(i, k)' = RecAt(i, k)
        BY <2>3, <3>1 DEF CellsStay, RecAt
      <4> QED BY <1>0, <3>1, <4>1 DEF Drawn
    <3>2. CASE k \notin DOMAIN disk[i]
      <4>1. RecAt(i, k)' = line[c]
        BY <2>3, <3>2 DEF OnlyNew, RecAt
      <4>2. /\ line[c].proc = ProcOf[c] /\ line[c].call = c
            /\ line[c].seq = seq[ProcOf[c]] /\ line[c] \in Record
        BY <1>2, Alone DEF WriteLine, Writing
      <4> QED BY <4>1, <4>2 DEF Record
    <3> QED BY <3>1, <3>2
  <2> QED BY <1>2, <2>2, <2>3, WriteLineAppends
<1> QED BY <1>0, <1>1, <1>2, QuietSteps DEF Drawn, RecAt

(* Between the stamp and the end of the append a writer holds its lock, so  *)
(* nobody of the same process comes between.                                *)
LEMMA OneAtATimeStays ==
  ASSUME TrailInv, [TrailNext]_trailVars
  PROVE  OneAtATime'
<1>0. OneAtATime /\ TrailTypeOK
  BY DEF TrailInv
<1>1. ASSUME NEW c \in Call, Stamp(c)
      PROVE  OneAtATime'
  <2> SUFFICES ASSUME NEW d \in Call, Writing(d)'
               PROVE  /\ lock'[ProcOf[d]] = d
                      /\ line'[d] # NoLine /\ line'[d].seq = seq'[ProcOf[d]]
    BY DEF OneAtATime
  <2>1. lock' = [lock EXCEPT ![ProcOf[c]] = c] /\ ProcOf[c] \in Proc /\ ProcOf[d] \in Proc
    BY <1>1, TrailAssumption DEF Stamp
  <2>2. CASE d = c
    <3>1. line'[c].seq = seq'[ProcOf[c]]
      BY <1>1, StampDraws
    <3>2. line'[c] # NoLine
      BY <1>1, StampDraws, NoLineIsNone
    <3> QED BY <1>0, <2>1, <2>2, <3>1, <3>2 DEF TrailTypeOK
  <2>3. CASE d # c
    <3>1. Writing(d) /\ ProcOf[d] # ProcOf[c]
      BY <1>1, <2>3, StampDraws DEF Writing
    <3>2. seq'[ProcOf[d]] = seq[ProcOf[d]] /\ line'[d] = line[d] /\ lock'[ProcOf[d]] = lock[ProcOf[d]]
      BY <1>0, <1>1, <2>1, <2>3, <3>1, StampDraws DEF TrailTypeOK
    <3> QED BY <1>0, <3>1, <3>2 DEF OneAtATime
  <2> QED BY <2>2, <2>3
<1>2. ASSUME NEW c \in Call, Unlock(c)
      PROVE  OneAtATime'
  <2> SUFFICES ASSUME NEW d \in Call, Writing(d)'
               PROVE  /\ lock'[ProcOf[d]] = d
                      /\ line'[d] # NoLine /\ line'[d].seq = seq'[ProcOf[d]]
    BY DEF OneAtATime
  <2>1. /\ lock' = [lock EXCEPT ![ProcOf[c]] = Nobody] /\ UNCHANGED <<line, seq>>
        /\ Writing(c)
    BY <1>2 DEF Unlock, Writing
  <2>2. d # c /\ Writing(d)
    BY <1>0, <1>2 DEF Unlock, Writing, TrailTypeOK
  <2>3. ProcOf[d] # ProcOf[c]
    BY <2>1, <2>2, Alone
  <2> QED BY <1>0, <2>1, <2>2, <2>3, TrailAssumption DEF OneAtATime, TrailTypeOK
<1>3. ASSUME NEW c \in Call, Begin(c) \/ OpenLine(c) \/ WriteLine(c) \/ Act(c)
      PROVE  OneAtATime'
  <2>1. UNCHANGED <<lock, line, seq>>
    BY <1>3 DEF Begin, OpenLine, WriteLine, Act
  <2>2. \A d \in Call : Writing(d)' => Writing(d)
    BY <1>0, <1>3 DEF Begin, OpenLine, WriteLine, Act, Writing, TrailTypeOK
  <2> QED BY <1>0, <2>1, <2>2 DEF OneAtATime
<1>4. ASSUME UNCHANGED <<lock, line, seq, pc>>
      PROVE  OneAtATime'
  BY <1>0, <1>4 DEF OneAtATime, Writing
<1>5. ASSUME NEW p \in Proc, NewWriter(p) \/ Crash(p)
      PROVE  OneAtATime'
  BY <1>4, <1>5 DEF NewWriter, Crash
<1>6. ASSUME (Logrotate /\ UNCHANGED callVars) \/ UNCHANGED trailVars
      PROVE  OneAtATime'
  BY <1>4, <1>6 DEF callVars, trailVars
<1> QED BY <1>1, <1>2, <1>3, <1>5, <1>6 DEF TrailNext, Step

(* Nobody else moves a call. *)
LEMMA OthersStand ==
  ASSUME TrailInv, [TrailNext]_trailVars, NEW d \in Call, ~Step(d)
  PROVE  /\ pc'[d] = pc[d] /\ line'[d] = line[d]
         /\ fd'[d] = fd[d] /\ outcome'[d] = outcome[d]
<1>0. TrailTypeOK
  BY DEF TrailInv
<1>1. ASSUME NEW c \in Call, c # d, Step(c)
      PROVE  /\ pc'[d] = pc[d] /\ line'[d] = line[d]
             /\ fd'[d] = fd[d] /\ outcome'[d] = outcome[d]
  <2>1. CASE Begin(c) \/ Act(c) \/ Unlock(c)
    BY <1>0, <1>1, <2>1 DEF TrailTypeOK, Begin, Act, Unlock
  <2>2. CASE Stamp(c)
    BY <1>0, <1>1, <2>2, StampDraws DEF Stamp
  <2>3. CASE OpenLine(c)
    BY <1>0, <1>1, <2>3 DEF TrailTypeOK, OpenLine
  <2>4. CASE WriteLine(c)
    BY <1>0, <1>1, <2>4 DEF TrailTypeOK, WriteLine
  <2> QED BY <1>1, <2>1, <2>2, <2>3, <2>4 DEF Step
<1>2. \/ UNCHANGED <<pc, line, fd, outcome>>
      \/ \E c \in Call : c # d /\ Step(c)
  BY DEF TrailNext, NewWriter, Crash, Logrotate, callVars, trailVars
<1> QED BY <1>1, <1>2

(* A line that is about to be written has a greater number than every line  *)
(* its process has in the log.                                              *)
LEMMA AheadStays ==
  ASSUME TrailInv, [TrailNext]_trailVars, NEW d \in Call
  PROVE  Ahead(d)'
<1>0. Ahead(d) /\ Drawn /\ TrailTypeOK
  BY DEF TrailInv, CallInv
<1> SUFFICES ASSUME pc'[d] \in {"stamped", "opened"},
                    NEW i \in Inode, NEW k \in DOMAIN disk'[i],
                    RecAt(i, k)'.proc = ProcOf[d]
             PROVE  RecAt(i, k)'.seq < seq'[ProcOf[d]]
  BY DEF Ahead
<1>1. ASSUME Stamp(d)
      PROVE  RecAt(i, k)'.seq < seq'[ProcOf[d]]
  <2>1. UNCHANGED disk /\ seq'[ProcOf[d]] = seq[ProcOf[d]] + 1 /\ seq[ProcOf[d]] \in Nat
    BY <1>1, StampDraws DEF Stamp, theFile
  <2>2. RecAt(i, k)' = RecAt(i, k) /\ k \in DOMAIN disk[i]
    BY <2>1 DEF RecAt
  <2>3. RecAt(i, k).seq <= seq[ProcOf[d]] /\ RecAt(i, k).seq \in Nat
    BY <1>0, <2>2, CellsAreTyped DEF Drawn, Record
  <2> QED BY <2>1, <2>2, <2>3
<1>2. ASSUME ~Stamp(d)
      PROVE  pc[d] \in {"stamped", "opened"}
  <2>1. ASSUME Step(d)
        PROVE  pc[d] \in {"stamped", "opened"}
    BY <1>0, <1>2, <2>1
       DEF Step, Begin, OpenLine, WriteLine, Unlock, Act, TrailTypeOK
  <2> QED BY <2>1, OthersStand
<1>3. ASSUME ~Stamp(d), NEW c \in Call, Stamp(c)
      PROVE  RecAt(i, k)'.seq < seq'[ProcOf[d]]
  <2>1. ProcOf[d] # ProcOf[c]
    BY <1>2, <1>3, StampDraws DEF Writing
  <2>2. seq'[ProcOf[d]] = seq[ProcOf[d]]
    BY <1>0, <1>3, <2>1, StampDraws, TrailAssumption DEF TrailTypeOK
  <2>3. RecAt(i, k)' = RecAt(i, k) /\ k \in DOMAIN disk[i]
    BY <1>3 DEF Stamp, theFile, RecAt
  <2> QED BY <1>0, <1>2, <1>3, <2>2, <2>3 DEF Ahead
<1>4. ASSUME ~Stamp(d), NEW c \in Call, WriteLine(c)
      PROVE  RecAt(i, k)'.seq < seq'[ProcOf[d]]
  <2>1. c # d /\ Writing(c) /\ Writing(d) /\ UNCHANGED seq
    BY <1>0, <1>2, <1>4 DEF WriteLine, Writing, TrailTypeOK
  <2>2. ProcOf[c] # ProcOf[d] /\ line[c].proc = ProcOf[c]
    BY <2>1, Alone
  <2>3. UNCHANGED disk \/ (CellsStay /\ OnlyNew(fd[c], line[c]))
    BY <1>4, WriteLineAppends
  <2>4. k \in DOMAIN disk[i] /\ RecAt(i, k)' = RecAt(i, k)
    BY <2>2, <2>3 DEF CellsStay, OnlyNew, RecAt
  <2> QED BY <1>0, <1>2, <1>4, <2>1, <2>4 DEF Ahead
<1>5. ASSUME UNCHANGED <<disk, seq>>, ~Stamp(d)
      PROVE  RecAt(i, k)'.seq < seq'[ProcOf[d]]
  BY <1>0, <1>2, <1>5 DEF Ahead, RecAt
<1> QED BY <1>1, <1>3, <1>4, <1>5, QuietSteps

(* An open handle is that of a file that was made, and no line of its       *)
(* process is in a later one.                                               *)
LEMMA OpenedStays ==
  ASSUME TrailInv, [TrailNext]_trailVars, NEW d \in Call
  PROVE  Opened(d)'
<1>0. Opened(d) /\ HoldsWhenMade /\ TrailTypeOK
  BY DEF TrailInv, CallInv
<1>1. ASSUME OpenLine(d), pc'[d] = "opened"
      PROVE  Opened(d)'
  <2>1. PICK i \in Inode : OpenPath(i) /\ fd'[d] = i
    BY <1>0, <1>1 DEF OpenLine, TrailTypeOK
  <2>2. stage'[i] # "absent" /\ \A j \in Inode : stage[j] # "absent" => j <= i
    BY <2>1, OpensNewest
  <2>3. UNCHANGED disk
    BY <1>1 DEF OpenLine
  <2>4. \A j \in Inode : \A k \in DOMAIN disk[j] : disk[j] # <<>>
    BY <1>0, LenProperties, EmptySeq DEF TrailTypeOK
  <2> QED BY <1>0, <2>1, <2>2, <2>3, <2>4 DEF Opened, HoldsWhenMade, RecAt
<1>2. ASSUME ~OpenLine(d), pc'[d] = "opened"
      PROVE  pc[d] = "opened" /\ fd'[d] = fd[d] /\ ~Step(d)
  <2>1. ~Step(d)
    BY <1>0, <1>2 DEF Step, Begin, Stamp, WriteLine, Unlock, Act, TrailTypeOK
  <2> QED BY <1>2, <2>1, OthersStand
<1>3. ASSUME ~OpenLine(d), pc'[d] = "opened"
      PROVE  Opened(d)'
  <2>1. fd[d] \in Inode /\ stage'[fd[d]] # "absent" /\ Writing(d)
    BY <1>0, <1>2, <1>3, FileStays DEF Opened, Writing
  <2> SUFFICES ASSUME NEW i \in Inode, NEW k \in DOMAIN disk'[i],
                      RecAt(i, k)'.proc = ProcOf[d]
               PROVE  k \in DOMAIN disk[i] /\ RecAt(i, k)' = RecAt(i, k)
    BY <1>0, <1>2, <1>3, <2>1 DEF Opened
  <2>2. ASSUME NEW c \in Call, WriteLine(c)
        PROVE  k \in DOMAIN disk[i] /\ RecAt(i, k)' = RecAt(i, k)
    <3>1. c # d /\ Writing(c)
      BY <1>2, <1>3, <2>2 DEF WriteLine, Writing, Step
    <3>2. ProcOf[c] # ProcOf[d] /\ line[c].proc = ProcOf[c]
      BY <2>1, <3>1, Alone
    <3>3. UNCHANGED disk \/ (CellsStay /\ OnlyNew(fd[c], line[c]))
      BY <2>2, WriteLineAppends
    <3> QED BY <3>2, <3>3 DEF CellsStay, OnlyNew, RecAt
  <2>3. ASSUME UNCHANGED disk
        PROVE  k \in DOMAIN disk[i] /\ RecAt(i, k)' = RecAt(i, k)
    BY <2>3 DEF RecAt
  <2>4. ASSUME NEW c \in Call, Stamp(c)
        PROVE  UNCHANGED disk
    BY <2>4 DEF Stamp, theFile
  <2> QED BY <2>2, <2>3, <2>4, QuietSteps
<1> QED BY <1>1, <1>3 DEF Opened

(* Every cell there is after a step was there before, or is the line that   *)
(* somebody wrote just now, behind everything in its inode.                 *)
LEMMA WhatIsNew ==
  ASSUME TrailInv, [TrailNext]_trailVars, NEW i \in Inode, NEW k \in DOMAIN disk'[i]
  PROVE  \/ k \in DOMAIN disk[i] /\ RecAt(i, k)' = RecAt(i, k)
         \/ \E c \in Call : /\ WriteLine(c) /\ fd[c] = i
                            /\ k \notin DOMAIN disk[i] /\ k > Len(disk[i])
                            /\ RecAt(i, k)' = line[c]
<1>1. ASSUME UNCHANGED disk
      PROVE  k \in DOMAIN disk[i] /\ RecAt(i, k)' = RecAt(i, k)
  BY <1>1 DEF RecAt
<1>2. ASSUME NEW c \in Call, Stamp(c)
      PROVE  UNCHANGED disk
  BY <1>2 DEF Stamp, theFile
<1>3. ASSUME NEW c \in Call, WriteLine(c), CellsStay, OnlyNew(fd[c], line[c])
      PROVE  \/ k \in DOMAIN disk[i] /\ RecAt(i, k)' = RecAt(i, k)
             \/ /\ WriteLine(c) /\ fd[c] = i
                /\ k \notin DOMAIN disk[i] /\ k > Len(disk[i])
                /\ RecAt(i, k)' = line[c]
  BY <1>3 DEF CellsStay, OnlyNew, RecAt
<1> QED BY <1>1, <1>2, <1>3, WriteLineAppends, QuietSteps

(* No step takes away or changes a cell of the log.                         *)
LEMMA CellsAlwaysStay ==
  ASSUME TrailInv, [TrailNext]_trailVars
  PROVE  CellsStay
<1>1. UNCHANGED disk => CellsStay
  BY DEF CellsStay
<1>2. \A c \in Call : Stamp(c) => UNCHANGED disk
  BY DEF Stamp, theFile
<1> QED BY <1>1, <1>2, WriteLineAppends, QuietSteps

(* What a result line says is how fn ended, wherever the call is between the*)
(* end of fn and the end of the append.                                     *)
LEMMA ToldStays ==
  ASSUME TrailInv, [TrailNext]_trailVars, NEW d \in Call
  PROVE  Told(d)'
<1>0. Told(d) /\ TrailTypeOK
  BY DEF TrailInv, CallInv
<1>1. ASSUME Begin(d) \/ Act(d)
      PROVE  Told(d)'
  BY <1>0, <1>1 DEF Begin, Act, Told, Writing, TrailTypeOK
<1>2. ASSUME Stamp(d)
      PROVE  Told(d)'
  <2>1. /\ pc'[d] = "stamped" /\ line'[d].phase = pc[d]
        /\ line'[d].ok = (outcome[d] = "ok")
        /\ outcome'[d] = outcome[d] /\ pc[d] \in Phase
    BY <1>2, StampDraws DEF Stamp
  <2> QED BY <1>0, <2>1 DEF Told, Writing, Phase
<1>3. ASSUME OpenLine(d)
      PROVE  Told(d)'
  BY <1>0, <1>3 DEF OpenLine, Told, Writing, TrailTypeOK
<1>4. ASSUME WriteLine(d)
      PROVE  Told(d)'
  <2>1. pc'[d] \in {"appended", "failed"} /\ UNCHANGED <<line, outcome>> /\ Writing(d)
    BY <1>0, <1>4 DEF WriteLine, Writing, TrailTypeOK
  <2>2. pc'[d] = "appended" => Appended(line[d])'
    BY <1>4, WriteLineWhole
  <2> QED BY <1>0, <2>1, <2>2 DEF Told
<1>5. ASSUME Unlock(d)
      PROVE  Told(d)'
  <2>1. /\ pc'[d] = IF line[d].phase = "intent" THEN "acting" ELSE "done"
        /\ UNCHANGED <<line, outcome>> /\ Writing(d)
    BY <1>0, <1>5 DEF Unlock, Writing, TrailTypeOK
  <2> QED BY <1>0, <2>1 DEF Told, Writing
<1>6. ASSUME ~Step(d)
      PROVE  Told(d)'
  <2>1. pc'[d] = pc[d] /\ line'[d] = line[d] /\ outcome'[d] = outcome[d]
    BY <1>6, OthersStand
  <2>2. pc[d] = "appended" => Appended(line[d])'
    <3>1. \A r : Appended(r) => Appended(r)'
      BY <1>0, AppendedStays, TypesStay, CellsAlwaysStay
    <3> DEFINE r == line[d]
    <3>2. pc[d] = "appended" => Appended(r)
      BY <1>0 DEF Told
    <3> QED BY <2>1, <3>1, <3>2
  <2> QED BY <1>0, <2>1, <2>2 DEF Told, Writing
<1> QED BY <1>1, <1>2, <1>3, <1>4, <1>5, <1>6 DEF Step

(***************************************************************************)
(* The properties, in terms of cells rather than places                    *)
(***************************************************************************)

CellsInOrder ==
  \A i, j \in Inode : \A k \in DOMAIN disk[i] : \A m \in DOMAIN disk[j] :
    RecAt(i, k).proc = RecAt(j, m).proc /\ RecAt(i, k).seq < RecAt(j, m).seq =>
      i < j \/ (i = j /\ k < m)

ResultCells ==
  \A i \in Inode : \A k \in DOMAIN disk[i] : RecAt(i, k).phase = "result" =>
    /\ outcome[RecAt(i, k).call] # "none"
    /\ RecAt(i, k).ok <=> outcome[RecAt(i, k).call] = "ok"
    /\ \A j \in Inode : \A m \in DOMAIN disk[j] :
         RecAt(j, m).call = RecAt(i, k).call /\ RecAt(j, m).phase = "intent" =>
           RecAt(j, m).seq < RecAt(i, k).seq

IntentsKept ==
  \A c \in Call :
    (pc[c] = "acting" \/ outcome[c] # "none") =>
      \E r \in Record : r.call = c /\ r.phase = "intent" /\ (r \in reported \/ Appended(r))

PanicsTold ==
  \A c \in Call :
    (pc[c] = "done" /\ outcome[c] = "panic") =>
      /\ proc[ProcOf[c]] = "dead"
      /\ line[c].phase = "result" /\ ~line[c].ok
      /\ line[c] \in reported \/ Appended(line[c])

(* SeqOrder says of places what CellsInOrder says of files and cells.       *)
LEMMA SeqOrderIs == SeqOrder <=> CellsInOrder
<1>1. ASSUME SeqOrder, NEW i \in Inode, NEW j \in Inode,
             NEW k \in DOMAIN disk[i], NEW m \in DOMAIN disk[j]
      PROVE  RecAt(i, k).proc = RecAt(j, m).proc /\ RecAt(i, k).seq < RecAt(j, m).seq =>
               i < j \/ (i = j /\ k < m)
  <2>1. <<i, k>> \in Places /\ <<j, m>> \in Places
    BY PlaceIs
  <2> QED BY <1>1, <2>1 DEF SeqOrder, RecAt
<1>2. ASSUME CellsInOrder
      PROVE  SeqOrder
  <2> SUFFICES ASSUME NEW a \in Places, NEW b \in Places,
                      disk[a[1]][a[2]].rec.proc = disk[b[1]][b[2]].rec.proc,
                      disk[a[1]][a[2]].rec.seq < disk[b[1]][b[2]].rec.seq
               PROVE  a[1] < b[1] \/ (a[1] = b[1] /\ a[2] < b[2])
    BY DEF SeqOrder
  <2>1. a[1] \in Inode /\ a[2] \in DOMAIN disk[a[1]] /\ b[1] \in Inode /\ b[2] \in DOMAIN disk[b[1]]
    BY PlaceIs
  <2> QED BY <1>2, <2>1 DEF CellsInOrder, RecAt
<1> QED BY <1>1, <1>2 DEF CellsInOrder

(* ResultIsTrue says of places what ResultCells and PanicsTold say of cells.*)
LEMMA ResultIsTrueIs == ResultIsTrue <=> ResultCells /\ PanicsTold
<1>1. ASSUME ResultIsTrue
      PROVE  ResultCells /\ PanicsTold
  <2>1. ASSUME NEW i \in Inode, NEW k \in DOMAIN disk[i]
        PROVE  <<i, k>> \in Places /\ <<i, k>>[1] = i /\ <<i, k>>[2] = k
    BY PlaceIs
  <2>2. ResultCells
    <3> SUFFICES ASSUME NEW i \in Inode, NEW k \in DOMAIN disk[i], RecAt(i, k).phase = "result"
                 PROVE  /\ outcome[RecAt(i, k).call] # "none"
                        /\ RecAt(i, k).ok <=> outcome[RecAt(i, k).call] = "ok"
                        /\ \A j \in Inode : \A m \in DOMAIN disk[j] :
                             RecAt(j, m).call = RecAt(i, k).call /\ RecAt(j, m).phase = "intent" =>
                               RecAt(j, m).seq < RecAt(i, k).seq
      BY DEF ResultCells
    <3>1. <<i, k>> \in Places /\ <<i, k>>[1] = i /\ <<i, k>>[2] = k
      BY <2>1
    <3>2. /\ outcome[RecAt(i, k).call] # "none"
          /\ RecAt(i, k).ok <=> outcome[RecAt(i, k).call] = "ok"
          /\ \A b \in Places :
               disk[b[1]][b[2]].rec.call = RecAt(i, k).call
                 /\ disk[b[1]][b[2]].rec.phase = "intent" =>
                 disk[b[1]][b[2]].rec.seq < RecAt(i, k).seq
      BY <1>1, <3>1 DEF ResultIsTrue, RecAt
    <3>3. ASSUME NEW j \in Inode, NEW m \in DOMAIN disk[j],
                 RecAt(j, m).call = RecAt(i, k).call, RecAt(j, m).phase = "intent"
          PROVE  RecAt(j, m).seq < RecAt(i, k).seq
      BY <2>1, <3>2, <3>3 DEF RecAt
    <3> QED BY <3>2, <3>3
  <2>3. PanicsTold
    BY <1>1 DEF ResultIsTrue, PanicsTold
  <2> QED BY <2>2, <2>3
<1>2. ASSUME ResultCells, PanicsTold
      PROVE  ResultIsTrue
  <2>1. ASSUME NEW a \in Places
        PROVE  a[1] \in Inode /\ a[2] \in DOMAIN disk[a[1]]
    BY PlaceIs
  <2> QED BY <1>2, <2>1 DEF ResultIsTrue, ResultCells, PanicsTold, RecAt
<1> QED BY <1>1, <1>2

(* IntentFirst is about every record in the log or reported; IntentsKept    *)
(* says it one record at a time.                                            *)
LEMMA IntentFirstIs == TrailTypeOK => (IntentFirst <=> IntentsKept)
<1> SUFFICES ASSUME TrailTypeOK
             PROVE  IntentFirst <=> IntentsKept
  OBVIOUS
<1> DEFINE Recs == reported \union {disk[a[1]][a[2]].rec : a \in Places}
<1>1. Recs \subseteq Record
  <2>1. ASSUME NEW a \in Places
        PROVE  disk[a[1]][a[2]].rec \in Record
    <3>1. a[1] \in Inode /\ a[2] \in DOMAIN disk[a[1]]
      BY PlaceIs
    <3> QED BY <3>1, CellsAreTyped DEF RecAt
  <2> QED BY <2>1 DEF TrailTypeOK
<1>2. ASSUME NEW r, r \in reported \/ Appended(r)
      PROVE  r \in Recs
  <2>1. CASE Appended(r)
    <3>1. PICK i \in Inode : \E k \in DOMAIN disk[i] : RecAt(i, k) = r
      BY <2>1, AppendedHasPlace
    <3>2. PICK k \in DOMAIN disk[i] : RecAt(i, k) = r
      BY <3>1
    <3> DEFINE a == <<i, k>>
    <3>3. a \in Places /\ disk[a[1]][a[2]].rec = r
      BY <3>2, PlaceIs DEF RecAt
    <3> QED BY <3>3
  <2> QED BY <1>2, <2>1
<1>3. IntentFirst <=>
        \A c \in Call : (pc[c] = "acting" \/ outcome[c] # "none") =>
          \E r \in Recs : r.call = c /\ r.phase = "intent" /\ (r \in reported \/ Appended(r))
  BY DEF IntentFirst
<1> HIDE DEF Recs
<1> QED BY <1>1, <1>2, <1>3 DEF IntentsKept

(* No step puts a line behind one with a greater number of the same process.*)
LEMMA SeqOrderStays ==
  ASSUME TrailInv, [TrailNext]_trailVars
  PROVE  SeqOrder'
<1>0. CellsInOrder /\ Drawn /\ TrailTypeOK
  BY SeqOrderIs DEF TrailInv
<1>1. SeqOrder' <=> CellsInOrder'
  BY SeqOrderIs, PTL
<1> SUFFICES ASSUME NEW i \in Inode, NEW j \in Inode,
                    NEW k \in DOMAIN disk'[i], NEW m \in DOMAIN disk'[j],
                    RecAt(i, k)'.proc = RecAt(j, m)'.proc,
                    RecAt(i, k)'.seq < RecAt(j, m)'.seq
             PROVE  i < j \/ (i = j /\ k < m)
  BY <1>1 DEF CellsInOrder
<1> DEFINE Old(x, n) == n \in DOMAIN disk[x] /\ RecAt(x, n)' = RecAt(x, n)
           Written(x, n, c) == /\ WriteLine(c) /\ fd[c] = x
                            /\ n \notin DOMAIN disk[x] /\ n > Len(disk[x])
                            /\ RecAt(x, n)' = line[c]
<1>2. /\ Old(i, k) \/ \E c \in Call : Written(i, k, c)
      /\ Old(j, m) \/ \E c \in Call : Written(j, m, c)
  BY WhatIsNew
<1>3. CASE Old(i, k) /\ Old(j, m)
  BY <1>0, <1>3 DEF CellsInOrder
<1>4. ASSUME Old(i, k), NEW c \in Call, Written(j, m, c)
      PROVE  i < j \/ (i = j /\ k < m)
  <2>1. pc[c] = "opened" /\ Writing(c)
    BY <1>4 DEF WriteLine, Writing
  <2>2. RecAt(i, k).proc = ProcOf[c]
    BY <1>4, <2>1, Alone
  <2>3. i <= j
    BY <1>4, <2>1, <2>2 DEF TrailInv, CallInv, Opened
  <2>4. disk[i] \in Seq(Cell) /\ Len(disk[i]) \in Nat /\ DOMAIN disk[i] = 1 .. Len(disk[i])
    BY <1>0, LenProperties DEF TrailTypeOK
  <2>5. disk'[j] \in Seq(Cell) /\ Len(disk'[j]) \in Nat /\ DOMAIN disk'[j] = 1 .. Len(disk'[j])
    BY LenProperties, TypesStay DEF TrailTypeOK
  <2>6. i \in Int /\ j \in Int /\ k \in Int /\ m \in Int
    BY <1>4, <2>4, <2>5 DEF Inode
  <2>7. i = j => k < m
    BY <1>4, <2>4, <2>6
  <2> QED BY <2>3, <2>6, <2>7
<1>5. ASSUME NEW c \in Call, Written(i, k, c), Old(j, m)
      PROVE  FALSE
  <2>1. pc[c] = "opened" /\ Writing(c)
    BY <1>5 DEF WriteLine, Writing
  <2>2. RecAt(j, m).proc = ProcOf[c] /\ line[c].seq = seq[ProcOf[c]]
    BY <1>5, <2>1, Alone
  <2>3. RecAt(j, m).seq < seq[ProcOf[c]]
    BY <1>5, <2>1, <2>2 DEF TrailInv, CallInv, Ahead
  <2>4. RecAt(j, m).seq \in Nat /\ seq[ProcOf[c]] \in Nat
    BY <1>0, <1>5, <2>1, Alone, CellsAreTyped, TrailAssumption DEF TrailTypeOK, Record
  <2> QED BY <1>5, <2>2, <2>3, <2>4
<1>6. ASSUME NEW c \in Call, Written(i, k, c), NEW d \in Call, Written(j, m, d)
      PROVE  FALSE
  <2>1. Writing(c) /\ Writing(d)
    BY <1>6 DEF WriteLine, Writing
  <2>2. line[c].proc = ProcOf[c] /\ line[d].proc = ProcOf[d]
    BY <2>1, Alone
  <2>3. c = d
    BY <1>6, <2>1, <2>2, Alone
  <2>4. line[c].seq \in Nat
    BY <2>1, Alone DEF Record
  <2> QED BY <1>6, <2>3, <2>4
<1> QED BY <1>2, <1>3, <1>4, <1>5, <1>6

(* What was reported stays reported, and the dead stay dead. *)
LEMMA NoWayBack ==
  ASSUME TrailInv, [TrailNext]_trailVars
  PROVE  /\ reported \subseteq reported'
         /\ \A p \in Proc : proc[p] = "dead" => proc'[p] = "dead"
<1>0. TrailTypeOK
  BY DEF TrailInv
<1>1. ASSUME NEW p \in Proc, NewWriter(p) \/ Crash(p)
      PROVE  /\ reported \subseteq reported'
             /\ \A q \in Proc : proc[q] = "dead" => proc'[q] = "dead"
  BY <1>0, <1>1 DEF NewWriter, Crash, TrailTypeOK
<1>2. ASSUME NEW c \in Call, Unlock(c)
      PROVE  /\ reported \subseteq reported'
             /\ \A q \in Proc : proc[q] = "dead" => proc'[q] = "dead"
  BY <1>0, <1>2 DEF Unlock, TrailTypeOK
<1>3. ASSUME NEW c \in Call, Begin(c) \/ Stamp(c) \/ OpenLine(c) \/ WriteLine(c) \/ Act(c)
      PROVE  UNCHANGED <<proc, reported>>
  BY <1>3 DEF Begin, Stamp, OpenLine, WriteLine, Act
<1>4. (Logrotate /\ UNCHANGED callVars) \/ UNCHANGED trailVars => UNCHANGED <<proc, reported>>
  BY DEF callVars, trailVars
<1> QED BY <1>1, <1>2, <1>3, <1>4 DEF TrailNext, Step

(* No step puts a result into the log, or reports one, whose intent is      *)
(* neither there nor reported.                                              *)
LEMMA IntentFirstStays ==
  ASSUME TrailInv, [TrailNext]_trailVars
  PROVE  IntentFirst'
<1>0. TrailTypeOK /\ TrailTypeOK' /\ IntentsKept
  BY TypesStay, IntentFirstIs DEF TrailInv
<1>1. \A r : Appended(r) => Appended(r)'
  BY <1>0, AppendedStays, CellsAlwaysStay
<1>2. TrailTypeOK' => (IntentFirst' <=> IntentsKept')
  BY IntentFirstIs, PTL
<1> SUFFICES ASSUME NEW c \in Call, pc'[c] = "acting" \/ outcome'[c] # "none"
             PROVE  \E r \in Record : /\ r.call = c /\ r.phase = "intent"
                                      /\ r \in reported' \/ Appended(r)'
  BY <1>0, <1>2 DEF IntentsKept
<1>3. CASE pc[c] = "acting" \/ outcome[c] # "none"
  <2>1. PICK r \in Record : r.call = c /\ r.phase = "intent" /\ (r \in reported \/ Appended(r))
    BY <1>0, <1>3 DEF IntentsKept
  <2> QED BY <2>1, <1>1, NoWayBack
<1>4. CASE ~(pc[c] = "acting" \/ outcome[c] # "none")
  <2>1. Step(c)
    BY <1>4, OthersStand
  <2>2. Unlock(c) /\ line[c].phase = "intent"
    BY <1>0, <1>4, <2>1
       DEF Step, Begin, Stamp, OpenLine, WriteLine, Unlock, Act, TrailTypeOK, Phase
  <2>3. Writing(c) /\ pc[c] \in {"appended", "failed"}
    BY <2>2 DEF Unlock, Writing
  <2>4. line[c] \in Record /\ line[c].call = c
    BY <2>3, Alone
  <2>5. CASE pc[c] = "failed"
    BY <2>2, <2>4, <2>5 DEF Unlock
  <2>6. CASE pc[c] = "appended"
    <3>1. PICK r \in Record : r = line[c] /\ Appended(r)
      BY <2>4, <2>6 DEF TrailInv, CallInv, Told
    <3>2. Appended(r)'
      BY <3>1, <1>1
    <3> QED BY <2>2, <2>4, <3>1, <3>2
  <2> QED BY <2>3, <2>5, <2>6
<1> QED BY <1>3, <1>4

(* No step makes a result line in the log untrue: an outcome does not change*)
(* once it is there.                                                        *)
LEMMA ResultCellsStay ==
  ASSUME TrailInv, [TrailNext]_trailVars
  PROVE  ResultCells'
<1>0. ResultCells /\ Drawn /\ TrailTypeOK
  BY ResultIsTrueIs DEF TrailInv
<1>1. ASSUME NEW c \in Call, outcome[c] # "none"
      PROVE  outcome'[c] = outcome[c]
  <2>1. CASE Step(c)
    <3>1. ~Act(c)
      BY <1>1 DEF Act, TrailInv, CallInv, Told
    <3> QED BY <2>1, <3>1 DEF Step, Begin, Stamp, OpenLine, WriteLine, Unlock
  <2> QED BY <2>1, OthersStand
<1> DEFINE Old(x, n) == n \in DOMAIN disk[x] /\ RecAt(x, n)' = RecAt(x, n)
           Written(x, n, c) == /\ WriteLine(c) /\ fd[c] = x
                               /\ n \notin DOMAIN disk[x] /\ n > Len(disk[x])
                               /\ RecAt(x, n)' = line[c]
<1>2. ASSUME NEW i \in Inode, NEW k \in DOMAIN disk'[i]
      PROVE  Old(i, k) \/ \E c \in Call : Written(i, k, c)
  BY WhatIsNew
<1>3. ASSUME NEW i \in Inode, NEW k, NEW c \in Call, Written(i, k, c)
      PROVE  /\ line[c].call = c /\ line[c].proc = ProcOf[c] /\ pc[c] = "opened"
             /\ line[c].seq = seq[ProcOf[c]] /\ UNCHANGED outcome
             /\ IF line[c].phase = "result"
                THEN outcome[c] # "none" /\ (line[c].ok <=> outcome[c] = "ok")
                ELSE outcome[c] = "none"
  <2>1. pc[c] = "opened" /\ Writing(c) /\ UNCHANGED outcome
    BY <1>3 DEF WriteLine, Writing
  <2> QED BY <2>1, Alone DEF TrailInv, CallInv, Told
<1> SUFFICES ASSUME NEW i \in Inode, NEW k \in DOMAIN disk'[i],
                    RecAt(i, k)'.phase = "result"
             PROVE  /\ outcome'[RecAt(i, k)'.call] # "none"
                    /\ RecAt(i, k)'.ok <=> outcome'[RecAt(i, k)'.call] = "ok"
                    /\ \A j \in Inode : \A m \in DOMAIN disk'[j] :
                         RecAt(j, m)'.call = RecAt(i, k)'.call /\ RecAt(j, m)'.phase = "intent" =>
                           RecAt(j, m)'.seq < RecAt(i, k)'.seq
  BY DEF ResultCells
<1>4. CASE Old(i, k)
  <2>1. /\ outcome[RecAt(i, k).call] # "none"
        /\ RecAt(i, k).ok <=> outcome[RecAt(i, k).call] = "ok"
        /\ \A j \in Inode : \A m \in DOMAIN disk[j] :
             RecAt(j, m).call = RecAt(i, k).call /\ RecAt(j, m).phase = "intent" =>
               RecAt(j, m).seq < RecAt(i, k).seq
    BY <1>0, <1>4 DEF ResultCells
  <2>2. RecAt(i, k).call \in Call
    BY <1>0, <1>4, CellsAreTyped DEF Record
  <2>3. outcome'[RecAt(i, k).call] = outcome[RecAt(i, k).call]
    BY <1>1, <2>1, <2>2
  <2>4. ASSUME NEW j \in Inode, NEW m \in DOMAIN disk'[j],
               RecAt(j, m)'.call = RecAt(i, k).call, RecAt(j, m)'.phase = "intent"
        PROVE  Old(j, m)
    <3> SUFFICES ASSUME NEW c \in Call, Written(j, m, c)
                 PROVE  FALSE
      BY <1>2
    <3>1. line[c].call = c /\ line[c].phase = "intent" /\ outcome[c] = "none"
      BY <1>3, <2>4
    <3> QED BY <2>1, <2>4, <3>1
  <2> QED BY <1>4, <2>1, <2>3, <2>4
<1>5. ASSUME NEW c \in Call, Written(i, k, c)
      PROVE  /\ outcome'[RecAt(i, k)'.call] # "none"
             /\ RecAt(i, k)'.ok <=> outcome'[RecAt(i, k)'.call] = "ok"
             /\ \A j \in Inode : \A m \in DOMAIN disk'[j] :
                  RecAt(j, m)'.call = RecAt(i, k)'.call /\ RecAt(j, m)'.phase = "intent" =>
                    RecAt(j, m)'.seq < RecAt(i, k)'.seq
  <2>1. /\ RecAt(i, k)' = line[c] /\ line[c].phase = "result" /\ line[c].call = c
        /\ outcome'[c] # "none" /\ (line[c].ok <=> outcome'[c] = "ok")
        /\ line[c].seq = seq[ProcOf[c]] /\ pc[c] = "opened"
    BY <1>3, <1>5
  <2>2. ASSUME NEW j \in Inode, NEW m \in DOMAIN disk'[j],
               RecAt(j, m)'.call = c, RecAt(j, m)'.phase = "intent"
        PROVE  RecAt(j, m)'.seq < line[c].seq
    <3>1. CASE Old(j, m)
      <4>1. RecAt(j, m).proc = ProcOf[c]
        BY <1>0, <2>2, <3>1 DEF Drawn
      <4>2. Ahead(c)
        BY DEF TrailInv, CallInv
      <4> QED BY <2>1, <3>1, <4>1, <4>2 DEF Ahead
    <3>2. ASSUME NEW d \in Call, Written(j, m, d)
          PROVE  FALSE
      BY <1>3, <2>1, <2>2, <3>2
    <3> QED BY <1>2, <3>1, <3>2
  <2> QED BY <2>1, <2>2
<1> QED BY <1>2, <1>4, <1>5

(* A call whose fn panicked and that has ended keeps its failed result in   *)
(* the log or reported.                                                     *)
LEMMA PanicsToldStay ==
  ASSUME TrailInv, [TrailNext]_trailVars
  PROVE  PanicsTold'
<1>0. TrailTypeOK /\ TrailTypeOK' /\ PanicsTold
  BY TypesStay, ResultIsTrueIs DEF TrailInv
<1>1. \A r : Appended(r) => Appended(r)'
  BY <1>0, AppendedStays, CellsAlwaysStay
<1> SUFFICES ASSUME NEW c \in Call, pc'[c] = "done", outcome'[c] = "panic"
             PROVE  /\ proc'[ProcOf[c]] = "dead"
                    /\ line'[c].phase = "result" /\ ~line'[c].ok
                    /\ line'[c] \in reported' \/ Appended(line[c])'
  BY DEF PanicsTold
<1>2. CASE Step(c)
  <2>1. Unlock(c)
    BY <1>0, <1>2 DEF Step, Begin, Stamp, OpenLine, WriteLine, Act, TrailTypeOK
  <2>2. /\ UNCHANGED <<line, outcome>> /\ Writing(c)
        /\ pc[c] \in {"appended", "failed"}
        /\ outcome[c] = "panic"
    BY <2>1 DEF Unlock, Writing
  <2>3. line[c].phase = "result" /\ ~line[c].ok
    BY <2>2 DEF TrailInv, CallInv, Told
  <2>4. proc'[ProcOf[c]] = "dead"
    BY <1>0, <2>1, <2>2, <2>3, TrailAssumption DEF Unlock, TrailTypeOK
  <2>5. line[c] \in reported \/ Appended(line[c]) \/ line[c] \in reported'
    BY <2>1, <2>2 DEF Unlock, TrailInv, CallInv, Told
  <2>6. line[c] \in reported' \/ Appended(line[c])'
    <3> DEFINE r == line[c]
    <3>1. r \in reported' \/ Appended(r)
      BY <2>5, NoWayBack
    <3>2. \A q : Appended(q) => Appended(q)'
      BY <1>1
    <3> QED BY <2>2, <3>1, <3>2
  <2> QED BY <2>2, <2>3, <2>4, <2>6
<1>3. CASE ~Step(c)
  <2>1. pc[c] = "done" /\ line'[c] = line[c] /\ outcome[c] = "panic"
    BY <1>3, OthersStand
  <2>2. /\ proc[ProcOf[c]] = "dead"
        /\ line[c].phase = "result" /\ ~line[c].ok
        /\ line[c] \in reported \/ Appended(line[c])
    BY <1>0, <2>1 DEF PanicsTold
  <2>3. proc'[ProcOf[c]] = "dead"
    BY <2>2, NoWayBack, TrailAssumption
  <2>4. Appended(line[c]) => Appended(line[c])'
    <3> DEFINE r == line[c]
    <3>1. Appended(r) => Appended(r)'
      BY <1>1, <2>1
    <3> QED BY <2>1, <3>1
  <2> QED BY <2>1, <2>2, <2>3, <2>4, NoWayBack
<1> QED BY <1>2, <1>3

(***************************************************************************)
(* Theorems                                                                *)
(***************************************************************************)

(* Every step of the trail keeps the invariant.                             *)
LEMMA InvStays == TrailInv /\ [TrailNext]_trailVars => TrailInv'
<1> SUFFICES ASSUME TrailInv, [TrailNext]_trailVars
             PROVE  TrailInv'
  OBVIOUS
<1>1. ResultIsTrue' <=> ResultCells' /\ PanicsTold'
  BY ResultIsTrueIs, PTL
<1>2. ResultIsTrue'
  BY <1>1, ResultCellsStay, PanicsToldStay
<1>3. \A c \in Call : CallInv(c)'
  BY OwnStays, AheadStays, OpenedStays, ToldStays DEF CallInv
<1>4. TrailTypeOK' /\ MadeInOrder' /\ HoldsWhenMade' /\ Drawn'
  BY TypesStay, FileStays, DrawnStays
<1>5. OneAtATime' /\ SeqOrder' /\ IntentFirst'
  BY OneAtATimeStays, SeqOrderStays, IntentFirstStays
<1> QED BY <1>2, <1>3, <1>4, <1>5 DEF TrailInv

(* The invariant is one of every behaviour of the writers and of logrotate. *)
THEOREM TrailInvariant == TrailSpec => []TrailInv
<1> QED BY InitInv, InvStays, PTL DEF TrailSpec

(* Between the stamp and the unlock of writer.go's write its call has the   *)
(* Writer's lock and the Writer's last number, so no other call of that     *)
(* process is there too.                                                    *)
THEOREM AppendsExclude == TrailSpec => []OneAtATime
<1>1. TrailInv => OneAtATime
  BY DEF TrailInv
<1> QED BY <1>1, TrailInvariant, PTL

(* The lines of a process lie in the files in the order of their numbers,   *)
(* across any number of rotations, with handles open from before them.      *)
THEOREM LinesAreInOrder == TrailSpec => []SeqOrder
<1>1. TrailInv => SeqOrder
  BY DEF TrailInv
<1> QED BY <1>1, TrailInvariant, PTL

(* Do runs its function only once the intent line was appended, or OnError  *)
(* was told that it could not be.                                           *)
THEOREM IntentsComeFirst == TrailSpec => []IntentFirst
<1>1. TrailInv => IntentFirst
  BY DEF TrailInv
<1> QED BY <1>1, TrailInvariant, PTL

(* A result line that is in a file tells what the function did, after the   *)
(* intent, and a panic is on record when it kills the process.              *)
THEOREM ResultsAreTrue == TrailSpec => []ResultIsTrue
<1>1. TrailInv => ResultIsTrue
  BY DEF TrailInv
<1> QED BY <1>1, TrailInvariant, PTL

(* What a step of the writers does to the file. *)
FileStep ==
  \/ Logrotate \/ OpenNew
  \/ \E c \in Call : line[c] # NoLine /\ New(line[c]) /\ AppendLine(line[c])

(* Every step of the writers is a step of the file: an open, a rotation, or *)
(* the append of one record.                                                *)
LEMMA WriterMakesFileStep ==
  ASSUME TrailInv, [TrailNext]_trailVars
  PROVE  [FileStep]_theFile
<1>1. ASSUME NEW i \in Inode, OpenPath(i), UNCHANGED <<disk, archive>>
      PROVE  [FileStep]_theFile
  BY <1>1 DEF FileStep, OpenNew, OpenPath, theFile
<1>2. ASSUME NEW p \in Proc, NewWriter(p)
      PROVE  [FileStep]_theFile
  BY <1>1, <1>2 DEF NewWriter, theFile
<1>3. ASSUME NEW c \in Call, OpenLine(c)
      PROVE  [FileStep]_theFile
  BY <1>1, <1>3 DEF OpenLine, theFile
<1>4. ASSUME NEW c \in Call, WriteLine(c)
      PROVE  [FileStep]_theFile
  <2>1. pc[c] = "opened" /\ Writing(c) /\ UNCHANGED <<stage, archive>>
    BY <1>4 DEF WriteLine, Writing
  <2>2. /\ line[c] \in Record /\ line[c].proc = ProcOf[c]
        /\ line[c].seq = seq[ProcOf[c]] /\ seq[ProcOf[c]] \in Nat
    BY <2>1, Alone DEF Record
  <2>3. fd[c] \in Inode /\ stage[fd[c]] # "absent" /\ Ahead(c)
    BY <2>1 DEF TrailInv, CallInv, Opened
  <2>4. New(line[c])
    <3> SUFFICES ASSUME NEW i \in Inode, NEW k \in DOMAIN disk[i], RecAt(i, k) = line[c]
                 PROVE  FALSE
      BY DEF New, RecAt
    <3>1. line[c].seq < seq[ProcOf[c]]
      BY <2>1, <2>2, <2>3 DEF Ahead
    <3> QED BY <2>2, <3>1
  <2>5. Write(fd[c], line[c]) \/ UNCHANGED disk
    BY <1>4 DEF WriteLine, Write
  <2>6. CASE Write(fd[c], line[c])
    BY <2>1, <2>2, <2>3, <2>4, <2>6, NoLineIsNone DEF FileStep, AppendLine
  <2> QED BY <2>1, <2>5, <2>6 DEF theFile
<1>5. ASSUME NEW c \in Call, Begin(c) \/ Stamp(c) \/ Unlock(c) \/ Act(c)
      PROVE  UNCHANGED theFile
  BY <1>5 DEF Begin, Stamp, Unlock, Act
<1>6. ASSUME NEW p \in Proc, Crash(p)
      PROVE  UNCHANGED theFile
  BY <1>6 DEF Crash
<1>7. Logrotate => FileStep
  BY DEF FileStep
<1>8. UNCHANGED trailVars => UNCHANGED theFile
  BY DEF trailVars
<1> QED BY <1>2, <1>3, <1>4, <1>5, <1>6, <1>7, <1>8 DEF TrailNext, Step

(* All a Writer ever does to the file is to create it and to append to it a *)
(* record that is in none of the files yet.                                 *)
THEOREM WritersStayWithinFile == TrailSpec => StaysWithinFile
<1>1. TrailInv /\ [TrailNext]_trailVars => [FileStep]_theFile
  BY WriterMakesFileStep
<1>2. [][FileStep]_theFile => StaysWithinFile
  BY DEF FileStep, StaysWithinFile
<1> QED BY <1>1, <1>2, TrailInvariant, PTL DEF TrailSpec

(* So writer.go and logrotate together are an implementation of TrailFile,  *)
(* the file that the reader of tail.go is checked against.                  *)
THEOREM WritersImplementFile == TrailSpec => FileSpec
<1>1. TrailInit => FileInit
  BY DEF TrailInit
<1>2. TrailInv /\ [TrailNext]_trailVars => [FileNext]_fileVars
  <2> SUFFICES ASSUME TrailInv, [TrailNext]_trailVars
               PROVE  [FileNext]_fileVars
    OBVIOUS
  <2>1. \A c \in Call : line[c] # NoLine => line[c] \in Record
    BY DEF TrailInv, TrailTypeOK
  <2>2. [FileStep]_theFile
    BY WriterMakesFileStep
  <2> QED BY <2>1, <2>2 DEF FileStep, FileNext, theFile, fileVars
<1> QED BY <1>1, <1>2, TrailInvariant, PTL DEF TrailSpec, FileSpec

=============================================================================
