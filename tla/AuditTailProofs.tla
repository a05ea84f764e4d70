--------------------------- MODULE AuditTailProofs ---------------------------
(***************************************************************************)
(* What the reader promises of whatever may be appended to the log and     *)
(* however often logrotate moves it: nothing is shown twice, and nothing   *)
(* is passed over by the offset.                                           *)
(***************************************************************************)
EXTENDS AuditTail, FiniteSetTheorems, SequenceTheorems, TLAPS

TailTypeOK ==
  /\ disk \in [Inode -> Seq(Cell)]
  /\ stage \in [Inode -> {"absent", "live", "rotated", "packed", "gone"}]
  /\ off \in Nat
  /\ info \in Inode \union {None} /\ handle \in Inode \union {None}
  /\ shown \in Seq(Line)

(* Inodes are made in the order of their numbers, and nothing was made      *)
(* after the one the path names.                                            *)
MadeInOrder ==
  \A i, j \in Inode : i < j =>
    /\ stage[j] # "absent" => stage[i] # "absent"
    /\ stage[i] = "live" => stage[j] = "absent"

IsTail(i, k) == disk[i][k].part = "tail"

(* A record has the end of its line in one place only. *)
OneEnd ==
  \A i, j \in Inode : \A k \in DOMAIN disk[i], n \in DOMAIN disk[j] :
    IsTail(i, k) /\ IsTail(j, n) /\ disk[i][k].rec = disk[j][n].rec => i = j /\ k = n

(* The reader never goes back to an older file. *)
GoesForward ==
  /\ info # None => stage[info] # "absent"
  /\ handle # None => stage[handle] # "absent" /\ info <= handle

(* The offset is the end of a line of the file it belongs to. *)
AtLineEnd ==
  IF info = None THEN off = 0 /\ shown = <<>>
  ELSE off <= Len(disk[info]) /\ (off > 0 => IsTail(info, off))

(* What was shown ended at the offset or before it, or in an older file. *)
FromBehind ==
  \A m \in DOMAIN shown :
    \E i \in Inode : \E k \in DOMAIN disk[i] :
      /\ IsTail(i, k) /\ disk[i][k].rec = shown[m]
      /\ i < info \/ (i = info /\ k <= off)

TailInv ==
  /\ TailTypeOK /\ MadeInOrder /\ OneEnd
  /\ GoesForward /\ AtLineEnd /\ FromBehind
  /\ ShownOnce /\ NothingSkipped

(***************************************************************************)
(* What ParseRecords returns                                               *)
(***************************************************************************)

(* Counting those up to each member of a set of numbers puts them in order. *)
LEMMA CountingOrders ==
  ASSUME NEW S \in SUBSET Int, IsFiniteSet(S)
  PROVE  /\ \A c \in S : Cardinality({d \in S : d <= c}) \in 1 .. Cardinality(S)
         /\ \A b, c \in S : b < c =>
              Cardinality({d \in S : d <= b}) < Cardinality({d \in S : d <= c})
         /\ \A i \in 1 .. Cardinality(S) : \E c \in S : Cardinality({d \in S : d <= c}) = i
<1> DEFINE n == Cardinality(S)
           upTo(c) == {d \in S : d <= c}
<1>1. n \in Nat
  BY FS_CardinalityType
<1>2. ASSUME NEW c \in S
      PROVE  /\ IsFiniteSet(upTo(c)) /\ Cardinality(upTo(c)) \in Nat
             /\ Cardinality(upTo(c)) <= n /\ Cardinality(upTo(c)) # 0 /\ c \in upTo(c)
  <2>1. c \in upTo(c) /\ upTo(c) \in SUBSET S
    OBVIOUS
  <2> HIDE DEF upTo
  <2> QED BY <2>1, FS_Subset, FS_CardinalityType, FS_EmptySet
<1>3. ASSUME NEW b \in S, NEW c \in S, b < c
      PROVE  Cardinality(upTo(b)) < Cardinality(upTo(c))
  <2>0. b \in Int /\ c \in Int /\ \A d \in S : d \in Int
    OBVIOUS
  <2>1. upTo(b) \in SUBSET upTo(c) /\ c \notin upTo(b) /\ c \in upTo(c)
    <3>1. \A d \in S : d <= b => d <= c
      BY <1>3, <2>0
    <3>2. ~(c <= b) /\ c <= c
      BY <1>3, <2>0
    <3> QED BY <3>1, <3>2
  <2>2. IsFiniteSet(upTo(c)) /\ Cardinality(upTo(b)) \in Nat /\ Cardinality(upTo(c)) \in Nat
    BY <1>2
  <2> HIDE DEF upTo
  <2>3. Cardinality(upTo(b)) <= Cardinality(upTo(c))
    BY <2>1, <2>2, FS_Subset
  <2>4. Cardinality(upTo(b)) # Cardinality(upTo(c))
    BY <2>1, <2>2, FS_Subset
  <2> QED BY <2>2, <2>3, <2>4
<1>4. \A i \in 1 .. n : \E c \in S : Cardinality(upTo(c)) = i
  <2> DEFINE f == [c \in S |-> Cardinality(upTo(c))]
  <2> HIDE DEF upTo
  <2>1. f \in [S -> 1 .. n]
    BY <1>1, <1>2
  <2>2. \A b, c \in S : f[b] = f[c] => b = c
    <3>1. \A b, c \in S : b = c \/ b < c \/ c < b
      OBVIOUS
    <3>2. \A c \in S : f[c] \in Nat
      BY <1>2
    <3>3. \A b, c \in S : b < c => f[b] < f[c]
      BY <1>3
    <3> QED BY <3>1, <3>2, <3>3
  <2> HIDE DEF f
  <2>3. f \in Injection(S, 1 .. n)
    BY <2>1, <2>2 DEF Injection, IsInjective
  <2>4. IsFiniteSet(1 .. n) /\ Cardinality(1 .. n) = n
    BY <1>1, FS_Interval
  <2>5. f \in Surjection(S, 1 .. n)
    BY <2>3, <2>4, FS_Injection
  <2>6. \A i \in 1 .. n : \E c \in S : f[c] = i
    BY <2>5 DEF Surjection
  <2> QED BY <2>6 DEF f
<1>5. \A c \in S : Cardinality(upTo(c)) \in 1 .. n
  BY <1>1, <1>2
<1> QED BY <1>3, <1>4, <1>5

(* The i-th positions of a set are its members, each once. *)
LEMMA NthCounts ==
  ASSUME NEW S \in SUBSET Int, IsFiniteSet(S)
  PROVE  /\ \A i \in 1 .. Cardinality(S) : Nth(S, i) \in S
         /\ \A i, j \in 1 .. Cardinality(S) : Nth(S, i) = Nth(S, j) => i = j
         /\ \A k \in S : \E i \in 1 .. Cardinality(S) : Nth(S, i) = k
<1> DEFINE n == Cardinality(S)
           upTo(c) == Cardinality({d \in S : d <= c})
<1>1. /\ \A c \in S : upTo(c) \in 1 .. n
      /\ \A b, c \in S : b < c => upTo(b) < upTo(c)
      /\ \A i \in 1 .. n : \E c \in S : upTo(c) = i
  BY CountingOrders
<1>0. n \in Nat
  BY FS_CardinalityType
<1>2. \A i : Nth(S, i) = CHOOSE k \in S : upTo(k) = i
  BY DEF Nth
<1> HIDE DEF upTo, n
<1>3. \A i \in 1 .. n : Nth(S, i) \in S /\ upTo(Nth(S, i)) = i
  BY <1>1, <1>2
<1>4. ASSUME NEW k \in S
      PROVE  \E i \in 1 .. n : Nth(S, i) = k
  <2>1. upTo(k) \in 1 .. n
    BY <1>1
  <2>2. Nth(S, upTo(k)) \in S /\ upTo(Nth(S, upTo(k))) = upTo(k)
    BY <2>1, <1>3
  <2>3. Nth(S, upTo(k)) \in Int /\ k \in Int /\ upTo(k) \in Int
    <3>1. \A b \in S : b \in Int
      OBVIOUS
    <3>2. upTo(k) \in Int
      BY <1>0, <2>1
    <3> QED BY <2>2, <3>1, <3>2
  <2>4. ~(Nth(S, upTo(k)) < k) /\ ~(k < Nth(S, upTo(k)))
    BY <1>1, <2>2, <2>3
  <2>5. Nth(S, upTo(k)) = k
    BY <2>3, <2>4
  <2> QED BY <2>1, <2>5
<1>5. \A i, j \in 1 .. n : Nth(S, i) = Nth(S, j) => i = j
  BY <1>3
<1> QED BY <1>3, <1>4, <1>5 DEF n

(* Every record that is returned ends a line; two of them end two lines; and *)
(* without a limit no line that decodes is left out.                        *)
LEMMA ParsedAreLines ==
  ASSUME NEW s \in Seq(Cell)
  PROVE  /\ ParseRecords(s) \in Seq(Line)
         /\ \A m \in DOMAIN ParseRecords(s) : \E k \in DOMAIN s :
              s[k].part = "tail" /\ s[k].rec = ParseRecords(s)[m]
         /\ (\A k, n \in DOMAIN s :
               s[k].part = "tail" /\ s[n].part = "tail" /\ s[k].rec = s[n].rec => k = n)
            => \A m, n \in DOMAIN ParseRecords(s) :
                 ParseRecords(s)[m] = ParseRecords(s)[n] => m = n
         /\ Limit = 0 => \A k \in DOMAIN s : EndsRecord(s, k) =>
              \E m \in DOMAIN ParseRecords(s) : ParseRecords(s)[m] = s[k].rec
<1> DEFINE ends == {k \in Within(s) : EndsRecord(s, k)}
           n == Cardinality(ends)
           P == ParseRecords(s)
<1>1. Len(s) \in Nat /\ DOMAIN s = 1 .. Len(s) /\ \A k \in DOMAIN s : s[k] \in Cell
  BY LenProperties, ElementOfSeq
<1>2. \A k \in ends : k \in DOMAIN s /\ s[k].part = "tail" /\ EndsRecord(s, k)
  BY DEF Within, LineEnds
<1>3. Limit = 0 => \A k \in DOMAIN s : EndsRecord(s, k) => k \in ends
  BY DEF Within, LineEnds, EndsRecord
<1>4. P = [i \in 1 .. n |-> s[Nth(ends, i)].rec]
  BY DEF ParseRecords
<1> HIDE DEF ends, P
<1>5. ends \in SUBSET Int /\ IsFiniteSet(ends) /\ n \in Nat
  <2>1. ends \in SUBSET DOMAIN s /\ IsFiniteSet(1 .. Len(s))
    BY <1>1, <1>2, FS_Interval
  <2> QED BY <1>1, <2>1, FS_Subset, FS_CardinalityType
<1> HIDE DEF n
<1>6. /\ \A i \in 1 .. n : Nth(ends, i) \in ends
      /\ \A i, j \in 1 .. n : Nth(ends, i) = Nth(ends, j) => i = j
      /\ \A k \in ends : \E i \in 1 .. n : Nth(ends, i) = k
  BY <1>5, NthCounts DEF n
<1>7. DOMAIN P = 1 .. n /\ \A i \in 1 .. n : P[i] = s[Nth(ends, i)].rec
  BY <1>4
<1>8. P \in Seq(Line)
  <2>1. \A k \in DOMAIN s : s[k].rec \in Line
    BY <1>1 DEF Cell
  <2>2. P \in [1 .. n -> Line]
    BY <1>2, <1>4, <1>6, <2>1
  <2> QED BY <1>5, <2>2, SeqDef
<1>9. \A m \in DOMAIN P : \E k \in DOMAIN s : s[k].part = "tail" /\ s[k].rec = P[m]
  BY <1>2, <1>6, <1>7
<1>10. ASSUME \A k, j \in DOMAIN s :
                s[k].part = "tail" /\ s[j].part = "tail" /\ s[k].rec = s[j].rec => k = j,
              NEW m \in DOMAIN P, NEW j \in DOMAIN P, P[m] = P[j]
       PROVE  m = j
  BY <1>2, <1>6, <1>7, <1>10
<1>11. ASSUME Limit = 0, NEW k \in DOMAIN s, EndsRecord(s, k)
       PROVE  \E m \in DOMAIN P : P[m] = s[k].rec
  BY <1>3, <1>6, <1>7, <1>11
<1> QED BY <1>8, <1>9, <1>10, <1>11 DEF P

(* The last newline is one, if there is any. *)
LEMMA CompleteEndsALine ==
  ASSUME NEW s \in Seq(Cell)
  PROVE  /\ Complete(s) \in 0 .. Len(s)
         /\ Complete(s) > 0 => s[Complete(s)].part = "tail"
<1>1. Len(s) \in Nat /\ DOMAIN s = 1 .. Len(s)
  BY LenProperties
<1>2. CASE LineEnds(s) = {}
  BY <1>1, <1>2 DEF Complete
<1>3. CASE LineEnds(s) # {}
  <2> DEFINE S == LineEnds(s)
             n == Cardinality(S)
             upTo(c) == Cardinality({d \in S : d <= c})
  <2>1. S \in SUBSET (1 .. Len(s)) /\ \A k \in S : s[k].part = "tail"
    BY <1>1 DEF LineEnds
  <2>2. S # {} /\ Complete(s) = CHOOSE k \in S : \A j \in S : j <= k
    BY <1>3 DEF Complete
  <2> HIDE DEF S
  <2>3. S \in SUBSET Int /\ IsFiniteSet(S) /\ n \in Nat /\ n # 0
    <3>1. IsFiniteSet(1 .. Len(s)) /\ S \in SUBSET Int
      BY <1>1, <2>1, FS_Interval
    <3>2. IsFiniteSet(S)
      BY <2>1, <3>1, FS_Subset
    <3> QED BY <2>2, <3>1, <3>2, FS_CardinalityType, FS_EmptySet
  <2>4. /\ \A c \in S : upTo(c) \in 1 .. n
        /\ \A b, c \in S : b < c => upTo(b) < upTo(c)
        /\ \A i \in 1 .. n : \E c \in S : upTo(c) = i
    BY <2>3, CountingOrders
  <2> HIDE DEF upTo, n
  <2>5. PICK c \in S : upTo(c) = n
    BY <2>3, <2>4
  <2>6. ASSUME NEW j \in S
        PROVE  j <= c
    <3>1. j \in Int /\ c \in Int /\ upTo(j) \in 1 .. n /\ upTo(c) \in 1 .. n
      BY <2>3, <2>4
    <3>2. ~(c < j)
      BY <2>3, <2>4, <2>5, <3>1
    <3> QED BY <3>1, <3>2
  <2>7. Complete(s) \in S
    BY <2>2, <2>6
  <2>8. Complete(s) \in 1 .. Len(s) /\ s[Complete(s)].part = "tail"
    BY <2>1, <2>7
  <2> QED BY <1>1, <2>8
<1> QED BY <1>2, <1>3

(***************************************************************************)
(* The file under the reader                                               *)
(***************************************************************************)

(* A cell that was written stays where it is, and what it holds. *)
CellsStay ==
  \A i \in Inode : \A k \in DOMAIN disk[i] :
    k \in DOMAIN disk'[i] /\ disk'[i][k] = disk[i][k]

(* What is written of a record ends its line once at most. *)
LEMMA WrittenIsALine ==
  ASSUME NEW r \in Line, NEW w \in {Whole(r), Fragment(r)}
  PROVE  /\ w \in Seq(Cell)
         /\ \A k \in DOMAIN w : w[k].rec = r
         /\ \A k, n \in DOMAIN w : w[k].part = "tail" /\ w[n].part = "tail" => k = n
<1> DEFINE head == [rec |-> r, part |-> "head"]
           tail == [rec |-> r, part |-> "tail"]
<1>1. /\ head \in Cell /\ head.rec = r /\ head.part = "head"
      /\ tail \in Cell /\ tail.rec = r /\ tail.part = "tail"
  BY DEF Cell
<1>2. Fragment(r) = <<head>> /\ Whole(r) = <<head>> \o <<tail>>
  BY DEF Fragment, Whole
<1> HIDE DEF head, tail
<1>3. /\ <<head>> \in Seq(Cell) /\ Len(<<head>>) = 1 /\ <<head>>[1] = head
      /\ <<tail>> \in Seq(Cell) /\ Len(<<tail>>) = 1 /\ <<tail>>[1] = tail
  BY <1>1
<1>4. /\ <<head>> \o <<tail>> \in Seq(Cell) /\ Len(<<head>> \o <<tail>>) = 2
      /\ (<<head>> \o <<tail>>)[1] = head /\ (<<head>> \o <<tail>>)[2] = tail
  BY <1>3, ConcatProperties
<1>5. CASE w = <<head>>
  <2>1. DOMAIN w = {1} /\ w[1] = head
    BY <1>3, <1>5
  <2> QED BY <1>1, <1>3, <1>5, <2>1
<1>6. CASE w = <<head>> \o <<tail>>
  <2>1. DOMAIN w = {1, 2} /\ w[1] = head /\ w[2] = tail
    BY <1>4, <1>6, LenProperties
  <2> QED BY <1>1, <1>4, <1>6, <2>1
<1> QED BY <1>2, <1>5, <1>6

(* An append leaves what is there, and a record keeps to one place.         *)
LEMMA AppendKeepsCells ==
  ASSUME TailTypeOK, OneEnd, NEW i \in Inode, NEW r \in Line, New(r), Write(i, r)
  PROVE  disk' \in [Inode -> Seq(Cell)] /\ CellsStay /\ OneEnd'
<1>1. PICK w \in {Whole(r), Fragment(r)} : disk' = [disk EXCEPT ![i] = @ \o w]
  BY DEF Write
<1>2. /\ w \in Seq(Cell) /\ Len(w) \in Nat /\ DOMAIN w = 1 .. Len(w)
      /\ \A k \in DOMAIN w : w[k].rec = r
      /\ \A k, n \in DOMAIN w : w[k].part = "tail" /\ w[n].part = "tail" => k = n
  BY WrittenIsALine, LenProperties
<1>3. disk[i] \in Seq(Cell) /\ Len(disk[i]) \in Nat /\ DOMAIN disk[i] = 1 .. Len(disk[i])
  BY LenProperties DEF TailTypeOK
<1> DEFINE old == Len(disk[i])
<1>4. /\ disk[i] \o w \in Seq(Cell)
      /\ Len(disk[i] \o w) = old + Len(w)
      /\ \A n \in 1 .. old + Len(w) :
           (disk[i] \o w)[n] = IF n <= old THEN disk[i][n] ELSE w[n - old]
  BY <1>2, <1>3, ConcatProperties
<1>5. disk'[i] = disk[i] \o w /\ \A j \in Inode : j # i => disk'[j] = disk[j]
  BY <1>1 DEF TailTypeOK
<1>6. disk' \in [Inode -> Seq(Cell)]
  BY <1>1, <1>4 DEF TailTypeOK
<1>7. DOMAIN disk'[i] = 1 .. old + Len(w)
  BY <1>4, <1>5, LenProperties
<1> HIDE DEF old
<1>8. CellsStay
  <2> SUFFICES ASSUME NEW j \in Inode, NEW k \in DOMAIN disk[j]
               PROVE  k \in DOMAIN disk'[j] /\ disk'[j][k] = disk[j][k]
    BY DEF CellsStay
  <2>1. CASE j = i
    <3>1. k \in 1 .. old /\ old \in Nat
      BY <1>3, <2>1 DEF old
    <3>2. k \in 1 .. old + Len(w) /\ k <= old
      BY <1>2, <3>1
    <3> QED BY <1>4, <1>5, <1>7, <2>1, <3>2
  <2> QED BY <2>1, <1>5
<1>9. ASSUME NEW j \in Inode, NEW k \in DOMAIN disk'[j], k \notin DOMAIN disk[j]
      PROVE  j = i /\ k - old \in DOMAIN w /\ disk'[i][k] = w[k - old] /\ k \in Int
  <2>1. j = i
    BY <1>5, <1>9
  <2>2. k \in 1 .. old + Len(w) /\ k \notin 1 .. old /\ old \in Nat
    BY <1>3, <1>7, <1>9, <2>1 DEF old
  <2>3. k \in Int /\ ~(k <= old) /\ k - old \in 1 .. Len(w)
    BY <1>2, <2>2
  <2> QED BY <1>2, <1>4, <1>5, <2>1, <2>2, <2>3
<1>10. OneEnd'
  <2> SUFFICES ASSUME NEW a \in Inode, NEW b \in Inode,
                      NEW k \in DOMAIN disk'[a], NEW n \in DOMAIN disk'[b],
                      disk'[a][k].part = "tail", disk'[b][n].part = "tail",
                      disk'[a][k].rec = disk'[b][n].rec
               PROVE  a = b /\ k = n
    BY DEF OneEnd, IsTail
  <2>1. CASE k \in DOMAIN disk[a] /\ n \in DOMAIN disk[b]
    BY <1>8, <2>1 DEF OneEnd, IsTail, CellsStay
  <2>2. CASE k \notin DOMAIN disk[a] /\ n \notin DOMAIN disk[b]
    <3>1. /\ a = i /\ b = i /\ k \in Int /\ n \in Int
          /\ k - old \in DOMAIN w /\ disk'[a][k] = w[k - old]
          /\ n - old \in DOMAIN w /\ disk'[b][n] = w[n - old]
      BY <1>9, <2>2
    <3>2. k - old = n - old
      BY <1>2, <3>1
    <3> QED BY <1>3, <3>1, <3>2 DEF old
  <2>3. CASE k \in DOMAIN disk[a] /\ n \notin DOMAIN disk[b]
    <3>1. disk'[b][n].rec = r
      BY <1>2, <1>9, <2>3
    <3>2. disk[a][k].rec = r
      BY <1>8, <2>3, <3>1 DEF CellsStay
    <3> QED BY <2>3, <3>2 DEF New
  <2>4. CASE k \notin DOMAIN disk[a] /\ n \in DOMAIN disk[b]
    <3>1. disk'[a][k].rec = r
      BY <1>2, <1>9, <2>4
    <3>2. disk[b][n].rec = r
      BY <1>8, <2>4, <3>1 DEF CellsStay
    <3> QED BY <2>4, <3>2 DEF New
  <2> QED BY <2>1, <2>2, <2>3, <2>4
<1> QED BY <1>6, <1>8, <1>10

(* Making the next inode keeps the order they are made in. *)
LEMMA NextInOrder ==
  ASSUME TailTypeOK, MadeInOrder, Live = {}, NEW i \in Fresh,
         stage' = [stage EXCEPT ![i] = "live"]
  PROVE  MadeInOrder'
<1> SUFFICES ASSUME NEW j \in Inode, NEW k \in Inode, j < k
             PROVE  /\ stage'[k] # "absent" => stage'[j] # "absent"
                    /\ stage'[j] = "live" => stage'[k] = "absent"
  BY DEF MadeInOrder
<1>1. /\ i \in Inode /\ stage[i] = "absent"
      /\ \A n \in Inode : (n < i => stage[n] # "absent") /\ stage[n] # "live"
  BY DEF Fresh, Live
<1>2. /\ stage[k] # "absent" => stage[j] # "absent"
      /\ i < k => (stage[k] # "absent" => stage[i] # "absent")
  BY <1>1 DEF MadeInOrder
<1>3. \A n \in Inode : stage'[n] = IF n = i THEN "live" ELSE stage[n]
  BY <1>1 DEF TailTypeOK
<1>4. i \in Int /\ j \in Int /\ k \in Int
  BY <1>1 DEF Inode
<1>5. CASE i = k
  BY <1>1, <1>3, <1>4, <1>5
<1>6. CASE i = j
  BY <1>1, <1>2, <1>3, <1>4, <1>6
<1>7. CASE i # j /\ i # k
  BY <1>1, <1>2, <1>3, <1>7
<1> QED BY <1>5, <1>6, <1>7

(* What the writers and logrotate do to the file.                           *)
LEMMA FileStep ==
  ASSUME TailTypeOK, MadeInOrder, OneEnd, FileNext
  PROVE  /\ disk' \in [Inode -> Seq(Cell)]
         /\ stage' \in [Inode -> {"absent", "live", "rotated", "packed", "gone"}]
         /\ CellsStay /\ OneEnd' /\ MadeInOrder'
         /\ \A i \in Inode : stage[i] # "absent" => stage'[i] # "absent"
<1>1. ASSUME NEW r \in Line, New(r), AppendLine(r)
      PROVE  /\ disk' \in [Inode -> Seq(Cell)] /\ CellsStay /\ OneEnd'
             /\ UNCHANGED stage
  BY <1>1, AppendKeepsCells DEF AppendLine
<1>2. ASSUME UNCHANGED disk
      PROVE  disk' \in [Inode -> Seq(Cell)] /\ CellsStay /\ OneEnd'
  BY <1>2 DEF TailTypeOK, CellsStay, OneEnd, IsTail
<1>3. UNCHANGED stage => /\ MadeInOrder'
                         /\ stage' \in [Inode -> {"absent", "live", "rotated", "packed", "gone"}]
  BY DEF MadeInOrder, TailTypeOK
<1>4. ASSUME NEW i \in Inode, stage[i] # "absent", NEW s \in {"rotated", "packed", "gone"},
             stage' = [stage EXCEPT ![i] = s]
      PROVE  /\ stage' \in [Inode -> {"absent", "live", "rotated", "packed", "gone"}]
             /\ MadeInOrder'
             /\ \A j \in Inode : stage[j] # "absent" => stage'[j] # "absent"
  <2>1. \A j \in Inode : stage'[j] = IF j = i THEN s ELSE stage[j]
    BY <1>4 DEF TailTypeOK
  <2>2. MadeInOrder'
    <3> SUFFICES ASSUME NEW j \in Inode, NEW k \in Inode, j < k
                 PROVE  /\ stage'[k] # "absent" => stage'[j] # "absent"
                        /\ stage'[j] = "live" => stage'[k] = "absent"
      BY DEF MadeInOrder
    <3>1. /\ stage[k] # "absent" => stage[j] # "absent"
          /\ stage[j] = "live" => stage[k] = "absent"
      BY DEF MadeInOrder
    <3> QED BY <1>4, <2>1, <3>1
  <2> QED BY <1>4, <2>1, <2>2 DEF TailTypeOK
<1>5. CASE Rename
  <2>1. \E i \in Inode : stage[i] = "live" /\ stage' = [stage EXCEPT ![i] = "rotated"]
    BY <1>5 DEF Rename, Live
  <2> QED BY <1>2, <1>4, <1>5, <2>1 DEF Rename
<1>6. ASSUME NEW i \in Inode, CompressRead(i)
      PROVE  /\ stage[i] = "rotated" /\ stage' = [stage EXCEPT ![i] = "packed"]
             /\ UNCHANGED disk
  BY <1>6 DEF CompressRead
<1>7. ASSUME NEW i \in Inode, Unlink(i)
      PROVE  /\ stage[i] = "packed" /\ stage' = [stage EXCEPT ![i] = "gone"]
             /\ UNCHANGED disk
  BY <1>7 DEF Unlink
<1>8. ASSUME Create \/ OpenNew
      PROVE  /\ MadeInOrder' /\ UNCHANGED disk
             /\ stage' \in [Inode -> {"absent", "live", "rotated", "packed", "gone"}]
             /\ \A j \in Inode : stage[j] # "absent" => stage'[j] # "absent"
  <2>1. /\ Live = {} /\ UNCHANGED disk
        /\ \E i \in Fresh : stage' = [stage EXCEPT ![i] = "live"]
    BY <1>8 DEF Create, OpenNew, OpenPath
  <2>2. PICK i \in Fresh : stage' = [stage EXCEPT ![i] = "live"]
    BY <2>1
  <2>3. MadeInOrder'
    BY <2>1, <2>2, NextInOrder
  <2> QED BY <2>1, <2>2, <2>3 DEF TailTypeOK, Fresh
<1>9. CASE \E i \in Inode : CompressRead(i) \/ Unlink(i)
  <2>1. PICK i \in Inode : CompressRead(i) \/ Unlink(i)
    BY <1>9
  <2>2. CASE CompressRead(i)
    BY <1>2, <1>4, <1>6, <2>2
  <2>3. CASE Unlink(i)
    BY <1>2, <1>4, <1>7, <2>3
  <2> QED BY <2>1, <2>2, <2>3
<1>10. CASE \E r \in Line : New(r) /\ AppendLine(r)
  <2>1. PICK r \in Line : New(r) /\ AppendLine(r)
    BY <1>10
  <2> QED BY <1>1, <1>3, <2>1
<1>11. CASE Create \/ OpenNew
  BY <1>2, <1>8, <1>11
<1> QED BY <1>5, <1>9, <1>10, <1>11 DEF FileNext, Logrotate

(***************************************************************************)
(* The inductive invariant, step by step                                   *)
(***************************************************************************)

(* Each inode is a list of cells. *)
LEMMA CellsAreListed ==
  ASSUME TailTypeOK, NEW i \in Inode
  PROVE  /\ disk[i] \in Seq(Cell) /\ Len(disk[i]) \in Nat
         /\ DOMAIN disk[i] = 1 .. Len(disk[i])
BY LenProperties DEF TailTypeOK

(* What was read of a list of cells. *)
LEMMA FrontOf ==
  ASSUME NEW s \in Seq(Cell), NEW n \in 0 .. Len(s)
  PROVE  /\ SubSeq(s, 1, n) \in Seq(Cell)
         /\ Len(SubSeq(s, 1, n)) = n /\ DOMAIN SubSeq(s, 1, n) = 1 .. n
         /\ \A k \in 1 .. n : SubSeq(s, 1, n)[k] = s[k]
<1>1. Len(s) \in Nat /\ 1 \in 1 .. Len(s) + 1 /\ n \in 1 - 1 .. Len(s)
  BY LenProperties
<1>2. /\ SubSeq(s, 1, n) \in Seq(Cell)
      /\ Len(SubSeq(s, 1, n)) = n - 1 + 1
      /\ \A k \in 1 .. n - 1 + 1 : SubSeq(s, 1, n)[k] = s[1 + k - 1]
  BY <1>1, SubSeqProperties
<1>3. n - 1 + 1 = n /\ \A k \in 1 .. n : 1 + k - 1 = k
  BY <1>1
<1> QED BY <1>2, <1>3, LenProperties

(* A reader that has not read, of a log that nobody wrote to. *)
LEMMA InitInv == TailInit => TailInv
<1> SUFFICES ASSUME TailInit PROVE TailInv
  OBVIOUS
<1> USE DEF TailInit, FileInit
<1>1. \A i \in Inode : disk[i] = <<>> /\ DOMAIN disk[i] = {}
  OBVIOUS
<1>2. TailTypeOK
  BY DEF TailTypeOK, Inode, None
<1>3. MadeInOrder
  <2>1. \A i \in Inode : stage[i] # "absent" => i = 0
    OBVIOUS
  <2>2. \A i \in Inode : i \in Int /\ ~(i < 0)
    BY FileAssumption DEF Inode
  <2>3. \A i, j \in Inode : i < j => j # 0
    BY <2>2
  <2> QED BY <2>1, <2>3 DEF MadeInOrder
<1>4. OneEnd /\ GoesForward /\ AtLineEnd
  BY <1>1 DEF OneEnd, GoesForward, AtLineEnd
<1>5. DOMAIN shown = {}
  OBVIOUS
<1> QED BY <1>2, <1>3, <1>4, <1>5 DEF TailInv, FromBehind, ShownOnce, NothingSkipped

(* What others do to the file.                                              *)
LEMMA FileStepKeeps ==
  ASSUME TailInv, FileNext, UNCHANGED tailVars
  PROVE  TailInv'
<1>0. TailTypeOK /\ MadeInOrder /\ OneEnd
  BY DEF TailInv
<1>1. UNCHANGED <<off, info, handle, shown>> /\ None' = None /\ Inode' = Inode
  BY DEF tailVars
<1>2. /\ disk' \in [Inode -> Seq(Cell)]
      /\ stage' \in [Inode -> {"absent", "live", "rotated", "packed", "gone"}]
      /\ CellsStay /\ OneEnd' /\ MadeInOrder'
      /\ \A i \in Inode : stage[i] # "absent" => stage'[i] # "absent"
  BY <1>0, FileStep
<1>3. TailTypeOK'
  BY <1>0, <1>1, <1>2 DEF TailTypeOK
<1>4. GoesForward'
  BY <1>0, <1>1, <1>2 DEF TailInv, GoesForward, TailTypeOK
<1>5. ASSUME info # None
      PROVE  /\ off \in 0 .. Len(disk[info]) /\ off \in 0 .. Len(disk'[info])
             /\ \A k \in 1 .. off : disk'[info][k] = disk[info][k]
             /\ disk[info] \in Seq(Cell) /\ disk'[info] \in Seq(Cell)
  <2>1. /\ disk[info] \in Seq(Cell) /\ Len(disk[info]) \in Nat
        /\ DOMAIN disk[info] = 1 .. Len(disk[info])
        /\ disk'[info] \in Seq(Cell) /\ Len(disk'[info]) \in Nat
        /\ DOMAIN disk'[info] = 1 .. Len(disk'[info])
    BY <1>0, <1>2, <1>5, LenProperties DEF TailTypeOK
  <2>2. off \in Nat /\ off <= Len(disk[info]) /\ info \in Inode
    BY <1>0, <1>5 DEF TailInv, AtLineEnd, TailTypeOK
  <2>3. \A k \in 1 .. off : k \in DOMAIN disk'[info] /\ disk'[info][k] = disk[info][k]
    BY <1>2, <2>1, <2>2 DEF CellsStay
  <2>4. off <= Len(disk'[info])
    <3>1. CASE off = 0
      BY <2>1, <3>1
    <3>2. CASE off # 0
      <4>1. off \in 1 .. off
        BY <2>2, <3>2
      <4> QED BY <2>1, <2>2, <2>3, <4>1
    <3> QED BY <3>1, <3>2
  <2> QED BY <2>1, <2>2, <2>3, <2>4
<1>6. AtLineEnd'
  <2>1. CASE info = None
    BY <1>1, <2>1 DEF TailInv, AtLineEnd
  <2>2. CASE info # None
    <3>1. off \in Nat /\ off <= Len(disk'[info])
      BY <1>0, <1>5, <2>2 DEF TailTypeOK
    <3>2. ASSUME off > 0
          PROVE  disk'[info][off].part = "tail"
      <4>1. off \in 1 .. off /\ disk[info][off].part = "tail"
        BY <2>2, <3>1, <3>2 DEF TailInv, AtLineEnd, IsTail
      <4> QED BY <1>5, <2>2, <4>1
    <3> QED BY <1>1, <2>2, <3>1, <3>2 DEF AtLineEnd, IsTail
  <2> QED BY <2>1, <2>2
<1>7. FromBehind'
  <2> SUFFICES ASSUME NEW m \in DOMAIN shown
               PROVE  \E i \in Inode : \E k \in DOMAIN disk'[i] :
                        /\ disk'[i][k].part = "tail" /\ disk'[i][k].rec = shown[m]
                        /\ i < info \/ (i = info /\ k <= off)
    BY <1>1 DEF FromBehind, IsTail
  <2>0. PICK i \in Inode : \E k \in DOMAIN disk[i] :
          /\ disk[i][k].part = "tail" /\ disk[i][k].rec = shown[m]
          /\ i < info \/ (i = info /\ k <= off)
    BY DEF TailInv, FromBehind, IsTail
  <2>1. PICK k \in DOMAIN disk[i] :
          /\ disk[i][k].part = "tail" /\ disk[i][k].rec = shown[m]
          /\ i < info \/ (i = info /\ k <= off)
    BY <2>0
  <2>2. k \in DOMAIN disk'[i] /\ disk'[i][k] = disk[i][k]
    BY <1>2 DEF CellsStay
  <2> QED BY <2>1, <2>2
<1>8. ShownOnce'
  BY <1>1 DEF TailInv, ShownOnce
<1>9. NothingSkipped'
  <2>1. CASE info = None
    BY <1>1, <2>1 DEF NothingSkipped
  <2>2. CASE info # None
    <3>1. SubSeq(disk'[info], 1, off) = SubSeq(disk[info], 1, off)
      <4>1. /\ SubSeq(disk[info], 1, off) \in Seq(Cell)
            /\ Len(SubSeq(disk[info], 1, off)) = off
            /\ \A k \in 1 .. off : SubSeq(disk[info], 1, off)[k] = disk[info][k]
        BY <1>5, <2>2, FrontOf
      <4>2. /\ SubSeq(disk'[info], 1, off) \in Seq(Cell)
            /\ Len(SubSeq(disk'[info], 1, off)) = off
            /\ \A k \in 1 .. off : SubSeq(disk'[info], 1, off)[k] = disk'[info][k]
        BY <1>5, <2>2, FrontOf
      <4>3. \A k \in 1 .. off :
              SubSeq(disk'[info], 1, off)[k] = SubSeq(disk[info], 1, off)[k]
        BY <1>5, <2>2, <4>1, <4>2
      <4> QED BY <4>1, <4>2, <4>3, SeqEqual
    <3>2. /\ off > 0 => SubSeq(disk[info], 1, off)[off].part = "tail"
          /\ Limit = 0 => Readable(SubSeq(disk[info], 1, off))
                            \subseteq {shown[i] : i \in DOMAIN shown}
      BY <2>2 DEF TailInv, NothingSkipped
    <3>3. info' = info /\ off' = off /\ shown' = shown
      BY <1>1
    <3> QED BY <3>1, <3>2, <3>3 DEF NothingSkipped
  <2> QED BY <2>1, <2>2
<1> QED BY <1>2, <1>3, <1>4, <1>6, <1>7, <1>8, <1>9 DEF TailInv

(* The path names the newest file there is, so the reader opens no older    *)
(* one than it has read.                                                    *)
LEMMA OpenKeeps ==
  ASSUME TailInv, OpenTrail
  PROVE  TailInv'
<1>1. PICK i \in Inode : stage[i] = "live" /\ handle' = i
  BY DEF OpenTrail, Live
<1>2. UNCHANGED <<disk, stage, archive, off, info, shown>>
  BY DEF OpenTrail, fileVars
<1>3. info <= i
  <2>1. info \in Inode \union {None} /\ (info # None => stage[info] # "absent")
    BY DEF TailInv, TailTypeOK, GoesForward
  <2>2. CASE info = None
    BY <2>2 DEF None, Inode
  <2>3. CASE info # None
    <3>1. ~(i < info)
      BY <1>1, <2>1, <2>3 DEF TailInv, MadeInOrder
    <3> QED BY <2>1, <2>3, <3>1 DEF Inode
  <2> QED BY <2>2, <2>3
<1>4. TailTypeOK' /\ GoesForward'
  BY <1>1, <1>2, <1>3 DEF TailInv, TailTypeOK, GoesForward
<1>5. MadeInOrder' /\ OneEnd' /\ AtLineEnd'
  BY <1>2 DEF TailInv, MadeInOrder, OneEnd, AtLineEnd, IsTail
<1>6. FromBehind' /\ ShownOnce'
  BY <1>2 DEF TailInv, FromBehind, ShownOnce, IsTail
<1>7. NothingSkipped'
  BY <1>2 DEF TailInv, NothingSkipped
<1> QED BY <1>4, <1>5, <1>6, <1>7 DEF TailInv

(* Where the reader goes on, what is there, and what it takes of it: up to  *)
(* the last newline.                                                        *)
WindowOf(i) ==
  LET data == SubSeq(disk[i], Resume + 1, Len(disk[i]))
  IN  SubSeq(data, 1, Complete(data))

LEMMA ReadTakes ==
  ASSUME TailInv, ReadTrail
  PROVE  LET w == WindowOf(handle) IN
         /\ handle \in Inode /\ info' = handle /\ handle' = None
         /\ UNCHANGED <<disk, stage, archive>>
         /\ Resume \in Nat /\ w \in Seq(Cell) /\ Resume + Len(w) <= Len(disk[handle])
         /\ \A k \in 1 .. Len(w) : w[k] = disk[handle][Resume + k]
         /\ Len(w) > 0 => w[Len(w)].part = "tail"
         /\ off' = Resume + Len(w) /\ shown' = shown \o ParseRecords(w)
         /\ info = handle => Resume = off
         /\ info # handle => Resume = 0
<1> DEFINE d == disk[handle]
           data == SubSeq(d, Resume + 1, Len(d))
           w == SubSeq(data, 1, Complete(data))
<1>1. /\ handle # None /\ info' = handle /\ handle' = None
      /\ UNCHANGED <<disk, stage, archive>>
      /\ off' = Resume + Len(w) /\ shown' = shown \o ParseRecords(w)
  BY DEF ReadTrail, fileVars
<1>2. WindowOf(handle) = w
  BY DEF WindowOf
<1>3. /\ handle \in Inode /\ d \in Seq(Cell) /\ Len(d) \in Nat /\ DOMAIN d = 1 .. Len(d)
      /\ off \in Nat
  BY <1>1, CellsAreListed DEF TailInv, TailTypeOK
<1>4. /\ info = None => off = 0
      /\ info = handle => off <= Len(d) /\ Resume = off
      /\ info # handle => Resume = 0
  BY <1>1, <1>3 DEF TailInv, AtLineEnd, Resume
<1>5. Resume \in 0 .. Len(d)
  BY <1>3, <1>4
<1> HIDE DEF d
<1>6. /\ data \in Seq(Cell) /\ Len(data) = Len(d) - Resume
      /\ \A k \in 1 .. Len(d) - Resume : data[k] = d[Resume + k]
  <2>1. \A k \in Resume + 1 .. Len(d) : d[k] \in Cell
    <3>1. \A k \in Resume + 1 .. Len(d) : k \in 1 .. Len(d)
      BY <1>3, <1>5
    <3> QED BY <1>3, <3>1, ElementOfSeq
  <2>2. /\ data \in Seq(Cell)
        /\ Len(data) = IF Resume + 1 <= Len(d) THEN Len(d) - (Resume + 1) + 1 ELSE 0
        /\ \A k \in 1 .. Len(d) - (Resume + 1) + 1 : data[k] = d[(Resume + 1) + k - 1]
    BY <1>3, <1>5, <2>1, SubSeqProperties
  <2> HIDE DEF data
  <2>3. Len(data) = Len(d) - Resume
    <3>1. Resume \in Int /\ Len(d) \in Int /\ Resume <= Len(d)
      BY <1>3, <1>5
    <3>2. Len(data) = IF Resume + 1 <= Len(d) THEN Len(d) - (Resume + 1) + 1 ELSE 0
      BY <2>2
    <3> QED BY <3>1, <3>2
  <2>4. ASSUME NEW k \in 1 .. Len(d) - Resume
        PROVE  data[k] = d[Resume + k]
    <3>1. k \in 1 .. Len(d) - (Resume + 1) + 1 /\ (Resume + 1) + k - 1 = Resume + k
      BY <1>3, <1>5
    <3> QED BY <2>2, <3>1
  <2> QED BY <2>2, <2>3, <2>4
<1> HIDE DEF data
<1>7. /\ Complete(data) \in 0 .. Len(data)
      /\ Complete(data) > 0 => data[Complete(data)].part = "tail"
  BY <1>6, CompleteEndsALine
<1>8. /\ w \in Seq(Cell) /\ Len(w) = Complete(data)
      /\ \A k \in 1 .. Complete(data) : w[k] = data[k]
  BY <1>6, <1>7, FrontOf
<1> HIDE DEF w
<1>9. Len(w) \in Nat /\ Resume + Len(w) <= Len(d) /\ Len(w) <= Len(d) - Resume
  BY <1>3, <1>5, <1>6, <1>7, <1>8
<1>10. \A k \in 1 .. Len(w) : w[k] = d[Resume + k]
  <2>1. \A k \in 1 .. Len(w) : k \in 1 .. Len(d) - Resume
    BY <1>3, <1>5, <1>9
  <2> QED BY <1>6, <1>8, <2>1
<1>11. Len(w) > 0 => w[Len(w)].part = "tail"
  BY <1>7, <1>8, <1>9
<1> QED BY <1>1, <1>2, <1>3, <1>4, <1>5, <1>8, <1>9, <1>10, <1>11 DEF d, w

(* A read goes on where the last one stopped, or starts a newer file, and   *)
(* takes whole lines; so none is shown again and none is left behind.       *)
LEMMA ReadKeeps ==
  ASSUME TailInv, ReadTrail
  PROVE  TailInv'
<1> DEFINE w == WindowOf(handle)
           h == handle
           R == Resume
           P == ParseRecords(w)
<1>0. TailTypeOK /\ MadeInOrder /\ OneEnd
  BY DEF TailInv
<1>1. /\ h \in Inode /\ info' = h /\ handle' = None
      /\ UNCHANGED <<disk, stage, archive>>
      /\ R \in Nat /\ w \in Seq(Cell) /\ R + Len(w) <= Len(disk[h])
      /\ \A k \in 1 .. Len(w) : w[k] = disk[h][R + k]
      /\ Len(w) > 0 => w[Len(w)].part = "tail"
      /\ off' = R + Len(w) /\ shown' = shown \o P
      /\ info = h => R = off
      /\ info # h => R = 0
  BY ReadTakes
<1>2. /\ Len(w) \in Nat /\ DOMAIN w = 1 .. Len(w)
      /\ disk[h] \in Seq(Cell) /\ Len(disk[h]) \in Nat
      /\ DOMAIN disk[h] = 1 .. Len(disk[h])
  BY <1>0, <1>1, LenProperties, CellsAreListed
<1>3. h # None
  BY <1>1 DEF None, Inode
<1>4. /\ P \in Seq(Line)
      /\ \A m \in DOMAIN P : \E k \in DOMAIN w : w[k].part = "tail" /\ w[k].rec = P[m]
      /\ (\A k, n \in DOMAIN w :
            w[k].part = "tail" /\ w[n].part = "tail" /\ w[k].rec = w[n].rec => k = n)
         => \A m, n \in DOMAIN P : P[m] = P[n] => m = n
      /\ Limit = 0 => \A k \in DOMAIN w : EndsRecord(w, k) =>
           \E m \in DOMAIN P : P[m] = w[k].rec
  BY <1>1, ParsedAreLines
<1>5. stage[h] # "absent" /\ info <= h /\ info \in Int /\ h \in Int
  BY <1>0, <1>1, <1>3 DEF TailInv, GoesForward, TailTypeOK, Inode, None
<1> HIDE DEF w, h, R, P
<1>6. /\ shown \in Seq(Line) /\ Len(shown) \in Nat /\ DOMAIN shown = 1 .. Len(shown)
      /\ Len(P) \in Nat /\ DOMAIN P = 1 .. Len(P)
      /\ shown' \in Seq(Line) /\ DOMAIN shown' = 1 .. Len(shown) + Len(P)
      /\ \A m \in 1 .. Len(shown) + Len(P) :
           shown'[m] = IF m <= Len(shown) THEN shown[m] ELSE P[m - Len(shown)]
  BY <1>0, <1>1, <1>4, ConcatProperties, LenProperties DEF TailTypeOK
<1>7. \A k \in DOMAIN w : R + k \in DOMAIN disk[h] /\ w[k] = disk[h][R + k]
  BY <1>1, <1>2
(* What was shown already is behind where this read began. *)
<1>8. ASSUME NEW m \in 1 .. Len(shown)
      PROVE  \E i \in Inode : \E k \in DOMAIN disk[i] :
               /\ disk[i][k].part = "tail" /\ disk[i][k].rec = shown[m]
               /\ i < h \/ (i = h /\ k <= R)
  <2>1. PICK i \in Inode : \E k \in DOMAIN disk[i] :
          /\ disk[i][k].part = "tail" /\ disk[i][k].rec = shown[m]
          /\ i < info \/ (i = info /\ k <= off)
    BY <1>6 DEF TailInv, FromBehind, IsTail
  <2>2. PICK k \in DOMAIN disk[i] :
          /\ disk[i][k].part = "tail" /\ disk[i][k].rec = shown[m]
          /\ i < info \/ (i = info /\ k <= off)
    BY <2>1
  <2>3. i < h \/ (i = h /\ k <= R)
    <3>1. i \in Int
      BY DEF Inode
    <3>2. CASE i < info
      BY <1>5, <3>1, <3>2
    <3>3. CASE i = info /\ k <= off
      BY <1>1, <1>5, <3>3
    <3> QED BY <2>2, <3>2, <3>3
  <2> QED BY <2>2, <2>3
(* What is new is beyond it. *)
<1>9. ASSUME NEW m \in 1 .. Len(shown) + Len(P), ~(m <= Len(shown))
      PROVE  /\ m - Len(shown) \in DOMAIN P /\ shown'[m] = P[m - Len(shown)]
             /\ \E k \in DOMAIN w : /\ w[k].part = "tail" /\ w[k].rec = shown'[m]
                                     /\ R + k \in DOMAIN disk[h] /\ w[k] = disk[h][R + k]
  <2>1. m - Len(shown) \in DOMAIN P /\ shown'[m] = P[m - Len(shown)]
    BY <1>6, <1>9
  <2> QED BY <1>4, <1>7, <2>1
<1>10. TailTypeOK' /\ GoesForward' /\ MadeInOrder' /\ OneEnd'
  <2>1. TailTypeOK'
    BY <1>0, <1>1, <1>2, <1>6 DEF TailTypeOK
  <2>2. GoesForward'
    BY <1>1, <1>5 DEF GoesForward
  <2>3. MadeInOrder' /\ OneEnd'
    BY <1>0, <1>1 DEF MadeInOrder, OneEnd, IsTail
  <2> QED BY <2>1, <2>2, <2>3
<1>11. off' \in Nat /\ off' <= Len(disk[h])
       /\ (off' > 0 => disk[h][off'].part = "tail")
  <2>1. CASE Len(w) = 0
    <3>1. off' = R
      BY <1>1, <2>1
    <3>2. CASE info = h
      <4>1. off' = off /\ info # None
        BY <1>1, <1>3, <3>1, <3>2
      <4> QED BY <1>1, <3>1, <3>2, <4>1, <2>1 DEF TailInv, AtLineEnd, IsTail
    <3>3. CASE info # h
      BY <1>1, <1>2, <3>1, <3>3
    <3> QED BY <3>2, <3>3
  <2>2. CASE Len(w) # 0
    <3>1. Len(w) > 0 /\ Len(w) \in DOMAIN w
      BY <1>2, <2>2
    <3> QED BY <1>1, <1>2, <1>7, <3>1
  <2> QED BY <2>1, <2>2
<1>12. AtLineEnd'
  BY <1>1, <1>3, <1>11 DEF AtLineEnd, IsTail
<1>13. FromBehind'
  <2> SUFFICES ASSUME NEW m \in 1 .. Len(shown) + Len(P)
               PROVE  \E i \in Inode : \E k \in DOMAIN disk[i] :
                        /\ disk[i][k].part = "tail" /\ disk[i][k].rec = shown'[m]
                        /\ i < h \/ (i = h /\ k <= off')
    <3>1. DOMAIN shown' = 1 .. Len(shown) + Len(P) /\ info' = h /\ disk' = disk
      BY <1>1, <1>6
    <3> QED BY <3>1 DEF FromBehind, IsTail
  <2>1. CASE m <= Len(shown)
    <3>1. m \in 1 .. Len(shown) /\ shown'[m] = shown[m]
      BY <1>6, <2>1
    <3>2. PICK i \in Inode : \E k \in DOMAIN disk[i] :
               /\ disk[i][k].part = "tail" /\ disk[i][k].rec = shown[m]
               /\ i < h \/ (i = h /\ k <= R)
      BY <1>8, <3>1
    <3>3. PICK k \in DOMAIN disk[i] :
               /\ disk[i][k].part = "tail" /\ disk[i][k].rec = shown[m]
               /\ i < h \/ (i = h /\ k <= R)
      BY <3>2
    <3>4. i = h /\ k <= R => k <= off'
      BY <1>1, <1>2, <3>3
    <3> QED BY <3>1, <3>3, <3>4
  <2>2. CASE ~(m <= Len(shown))
    <3>1. PICK k \in DOMAIN w : /\ w[k].part = "tail" /\ w[k].rec = shown'[m]
                                /\ R + k \in DOMAIN disk[h] /\ w[k] = disk[h][R + k]
      BY <1>9, <2>2
    <3>2. R + k <= off'
      BY <1>1, <1>2
    <3> QED BY <1>1, <3>1, <3>2
  <2> QED BY <2>1, <2>2
<1>14. ShownOnce'
  <2>1. \A k, n \in DOMAIN w :
          w[k].part = "tail" /\ w[n].part = "tail" /\ w[k].rec = w[n].rec => k = n
    <3> SUFFICES ASSUME NEW k \in DOMAIN w, NEW n \in DOMAIN w,
                        w[k].part = "tail", w[n].part = "tail", w[k].rec = w[n].rec
                 PROVE  k = n
      OBVIOUS
    <3>1. R + k = R + n
      <4>1. /\ R + k \in DOMAIN disk[h] /\ R + n \in DOMAIN disk[h]
            /\ disk[h][R + k].part = "tail" /\ disk[h][R + n].part = "tail"
            /\ disk[h][R + k].rec = disk[h][R + n].rec
        BY <1>7
      <4>2. h \in Inode
        BY <1>1
      <4> QED BY <1>0, <4>1, <4>2 DEF OneEnd, IsTail
    <3> QED BY <1>1, <1>2, <3>1
  <2>2. ASSUME NEW m \in 1 .. Len(shown) + Len(P), NEW n \in 1 .. Len(shown) + Len(P),
               m <= Len(shown), ~(n <= Len(shown))
        PROVE  shown'[m] # shown'[n]
    <3>1. m \in 1 .. Len(shown) /\ shown'[m] = shown[m]
      BY <1>6, <2>2
    <3>2. PICK i \in Inode : \E k \in DOMAIN disk[i] :
               /\ disk[i][k].part = "tail" /\ disk[i][k].rec = shown[m]
               /\ i < h \/ (i = h /\ k <= R)
      BY <1>8, <3>1
    <3>3. PICK k \in DOMAIN disk[i] :
               /\ disk[i][k].part = "tail" /\ disk[i][k].rec = shown[m]
               /\ i < h \/ (i = h /\ k <= R)
      BY <3>2
    <3>4. PICK j \in DOMAIN w : /\ w[j].part = "tail" /\ w[j].rec = shown'[n]
                                /\ R + j \in DOMAIN disk[h] /\ w[j] = disk[h][R + j]
      BY <1>9, <2>2
    <3>5. j \in Nat /\ j > 0 /\ i \in Int
      BY <1>2, <3>4 DEF Inode
    <3>6. ASSUME shown'[m] = shown'[n]
          PROVE  i = h /\ k = R + j
      <4>1. /\ disk[h][R + j].part = "tail" /\ disk[i][k].part = "tail"
            /\ disk[i][k].rec = disk[h][R + j].rec
        BY <3>1, <3>3, <3>4, <3>6
      <4> QED BY <1>0, <1>1, <3>3, <3>4, <4>1 DEF OneEnd, IsTail
    <3>7. ~(i = h /\ k = R + j)
      BY <1>1, <1>5, <3>3, <3>5
    <3> QED BY <3>6, <3>7
  <2>3. ASSUME NEW m \in 1 .. Len(shown) + Len(P), NEW n \in 1 .. Len(shown) + Len(P),
               m <= Len(shown), n <= Len(shown), shown'[m] = shown'[n]
        PROVE  m = n
    <3>1. /\ m \in DOMAIN shown /\ n \in DOMAIN shown
          /\ shown'[m] = shown[m] /\ shown'[n] = shown[n]
      BY <1>6, <2>3
    <3> QED BY <2>3, <3>1 DEF TailInv, ShownOnce
  <2>4. ASSUME NEW m \in 1 .. Len(shown) + Len(P), NEW n \in 1 .. Len(shown) + Len(P),
               ~(m <= Len(shown)), ~(n <= Len(shown)), shown'[m] = shown'[n]
        PROVE  m = n
    <3>1. /\ m - Len(shown) \in DOMAIN P /\ shown'[m] = P[m - Len(shown)]
          /\ n - Len(shown) \in DOMAIN P /\ shown'[n] = P[n - Len(shown)]
      BY <1>9, <2>4
    <3>2. m - Len(shown) = n - Len(shown)
      BY <1>4, <2>1, <2>4, <3>1
    <3> QED BY <1>6, <3>2
  <2> SUFFICES ASSUME NEW m \in 1 .. Len(shown) + Len(P), NEW n \in 1 .. Len(shown) + Len(P),
                      shown'[m] = shown'[n]
               PROVE  m = n
    BY <1>6 DEF ShownOnce
  <2> QED BY <2>2, <2>3, <2>4
<1>15. NothingSkipped'
  <2> DEFINE read == SubSeq(disk[h], 1, off')
  <2>1. /\ read \in Seq(Cell) /\ Len(read) = off' /\ DOMAIN read = 1 .. off'
        /\ \A k \in 1 .. off' : read[k] = disk[h][k]
    <3>1. off' \in 0 .. Len(disk[h])
      BY <1>2, <1>11
    <3> QED BY <1>2, <3>1, FrontOf
  <2> HIDE DEF read
  <2>2. off' > 0 => read[off'].part = "tail"
    BY <1>11, <2>1
  <2>3. ASSUME Limit = 0, NEW k \in DOMAIN read, EndsRecord(read, k)
        PROVE  \E m \in DOMAIN shown' : shown'[m] = read[k].rec
    <3>1. k \in 1 .. R + Len(w) /\ k \in Int
      BY <1>1, <1>11, <2>1
    <3>2. CASE k <= R
      <4>1. info = h /\ R = off
        BY <1>1, <3>1, <3>2
      <4> DEFINE before == SubSeq(disk[info], 1, off)
      <4>2. /\ DOMAIN before = 1 .. off /\ off \in 0 .. Len(disk[h])
            /\ \A n \in 1 .. off : before[n] = disk[h][n]
        <5>1. off \in 0 .. Len(disk[h])
          BY <1>1, <1>2, <4>1
        <5> QED BY <1>2, <4>1, <5>1, FrontOf
      <4> HIDE DEF before
      <4>3. k \in DOMAIN before /\ \A n \in 1 .. k : before[n] = read[n]
        <5>1. \A n \in 1 .. k : n \in 1 .. off /\ n \in 1 .. off'
          BY <1>1, <1>2, <3>1, <3>2, <4>1
        <5>2. k \in 1 .. k
          BY <3>1
        <5> QED BY <2>1, <4>2, <5>1, <5>2
      <4>4. EndsRecord(before, k) /\ before[k].rec = read[k].rec
        <5>1. k > 1 => k - 1 \in 1 .. k /\ k \in 1 .. k
          BY <3>1
        <5>2. k > 2 => k - 2 \in 1 .. k
          BY <3>1
        <5> QED BY <2>3, <4>3, <5>1, <5>2 DEF EndsRecord
      <4>5. Readable(before) \subseteq {shown[i] : i \in DOMAIN shown}
        BY <1>3, <2>3, <4>1 DEF TailInv, NothingSkipped, before
      <4>6. before[k].rec \in Readable(before)
        BY <4>3, <4>4 DEF Readable
      <4>7. PICK m \in DOMAIN shown : shown[m] = read[k].rec
        BY <4>4, <4>5, <4>6
      <4> QED BY <1>6, <4>7
    <3>3. CASE ~(k <= R)
      <4> DEFINE j == k - R
      <4>1. j \in DOMAIN w /\ j \in Int /\ R + j = k
        <5>1. /\ k \in Int /\ R \in Int /\ Len(w) \in Nat
              /\ 1 <= k /\ k <= R + Len(w) /\ R < k
          BY <1>1, <1>2, <3>1, <3>3
        <5>2. j \in 1 .. Len(w) /\ R + j = k
          BY <5>1
        <5> QED BY <1>2, <5>2
      <4>2. \A n \in DOMAIN w : w[n] = read[R + n]
        <5>1. \A n \in DOMAIN w : R + n \in 1 .. off'
          BY <1>1, <1>2
        <5> QED BY <1>7, <2>1, <5>1
      <4>3. j > 1
        <5>1. CASE j = 1
          <6>1. /\ k = R + 1 /\ k > 1 /\ read[k - 1].part = "head" /\ k - 1 = R
            BY <1>1, <2>3, <4>1, <5>1 DEF EndsRecord
          <6>2. R > 0 /\ info = h /\ R = off
            BY <1>1, <6>1
          <6>3. R \in 1 .. off' /\ read[R] = disk[h][R]
            BY <1>1, <1>2, <1>11, <2>1, <6>2
          <6>4. disk[h][R].part = "tail"
            BY <1>3, <6>2 DEF TailInv, AtLineEnd, IsTail
          <6> QED BY <6>1, <6>3, <6>4
        <5> QED BY <1>2, <4>1, <5>1
      <4>4. EndsRecord(w, j) /\ w[j].rec = read[k].rec
        <5>1. j - 1 \in DOMAIN w /\ R + (j - 1) = k - 1 /\ w[j - 1] = read[k - 1]
          <6>1. j - 1 \in DOMAIN w /\ R + (j - 1) = k - 1
            <7>1. j \in 1 .. Len(w) /\ Len(w) \in Nat /\ R \in Nat /\ k = R + j
              BY <1>1, <1>2, <4>1
            <7> HIDE DEF j
            <7>2. j - 1 \in 1 .. Len(w) /\ R + (j - 1) = k - 1
              BY <4>3, <7>1
            <7> QED BY <1>2, <7>2
          <6> QED BY <4>2, <6>1
        <5>2. j > 2 => /\ j - 2 \in DOMAIN w /\ R + (j - 2) = k - 2
                       /\ w[j - 2] = read[k - 2] /\ k > 2
          <6>1. j > 2 => j - 2 \in DOMAIN w /\ R + (j - 2) = k - 2 /\ k > 2
            <7>1. j \in 1 .. Len(w) /\ Len(w) \in Nat /\ R \in Nat /\ k = R + j
              BY <1>1, <1>2, <4>1
            <7> HIDE DEF j
            <7>2. j > 2 => j - 2 \in 1 .. Len(w) /\ R + (j - 2) = k - 2 /\ k > 2
              BY <7>1
            <7> QED BY <1>2, <7>2
          <6> QED BY <4>2, <6>1
        <5>3. w[j] = read[k]
          BY <4>1, <4>2
        <5> QED BY <2>3, <4>3, <5>1, <5>2, <5>3 DEF EndsRecord
      <4>5. PICK m \in DOMAIN P : P[m] = read[k].rec
        BY <1>4, <2>3, <4>1, <4>4
      <4>6. /\ Len(shown) + m \in 1 .. Len(shown) + Len(P)
            /\ ~(Len(shown) + m <= Len(shown)) /\ (Len(shown) + m) - Len(shown) = m
        BY <1>6, <4>5
      <4>7. shown'[Len(shown) + m] = P[m] /\ Len(shown) + m \in DOMAIN shown'
        BY <1>6, <4>6
      <4> QED BY <4>5, <4>7
    <3> QED BY <3>2, <3>3
  <2>4. Limit = 0 => Readable(read) \subseteq {shown'[i] : i \in DOMAIN shown'}
    BY <2>3 DEF Readable
  <2> QED BY <1>1, <1>3, <2>2, <2>4 DEF NothingSkipped, read
<1> QED BY <1>10, <1>12, <1>13, <1>14, <1>15 DEF TailInv

(* The reader's invariant, for any lines, any rotations and any limit.      *)
THEOREM TailInvariant == TailSpec => []TailInv
<1>1. TailInit => TailInv
  BY InitInv
<1>2. TailInv /\ [TailNext]_allVars => TailInv'
  <2> SUFFICES ASSUME TailInv, [TailNext]_allVars PROVE TailInv'
    OBVIOUS
  <2>1. CASE FileNext /\ UNCHANGED tailVars
    BY <2>1, FileStepKeeps
  <2>2. CASE OpenTrail
    BY <2>2, OpenKeeps
  <2>3. CASE ReadTrail
    BY <2>3, ReadKeeps
  <2>4. CASE UNCHANGED allVars
    BY <2>4 DEF allVars, fileVars, tailVars, TailInv, TailTypeOK, MadeInOrder, OneEnd, IsTail,
                GoesForward, AtLineEnd, FromBehind, ShownOnce, NothingSkipped
  <2> QED BY <2>1, <2>2, <2>3, <2>4 DEF TailNext
<1> QED BY <1>1, <1>2, PTL DEF TailSpec

(* No record is shown twice, however often the log is rotated, however the  *)
(* lines are torn and whatever the limit (Tailer.Next).                     *)
THEOREM NoneIsShownTwice == TailSpec => []ShownOnce
<1>1. TailInv => ShownOnce
  BY DEF TailInv
<1> QED BY <1>1, TailInvariant, PTL

(* The offset is always the end of a line, and what is readable before it   *)
(* was shown (Tailer.Next, without a limit).                                *)
THEOREM NoneIsSkipped == TailSpec => []NothingSkipped
<1>1. TailInv => NothingSkipped
  BY DEF TailInv
<1> QED BY <1>1, TailInvariant, PTL

=============================================================================
