--------------------------- MODULE InstallerProofs ---------------------------
(***************************************************************************)
(* Updates that do not overlap leave a whole binary installed at every     *)
(* instant, for any number of updaters and however many writes a copy      *)
(* takes.                                                                  *)
(***************************************************************************)
EXTENDS Installer, SequenceTheorems, TLAPS

(* Where an updater has not touched the disk yet. *)
Before(u) == phase[u] \in {"idle", "refused", "begun", "downloaded", "verified"}

(* An updater that has not opened target.new has neither copied anything    *)
(* nor made its inode.                                                      *)
Untouched(u) ==
  /\ Before(u) => job[u] = "none"
  /\ (Before(u) \/ job[u] = "open") => at[u] = 0 /\ target # u /\ staging # u

(* What it copies was compared with the published digest. *)
Verified(u) ==
  phase[u] \in {"verified", "copying", "moving"} \/ job[u] # "none" => got[u] = Binary(u)

(* While it copies, target.new holds what it has copied and nothing else;   *)
(* from the end of the copy to the rename, the whole release.               *)
Staged(u) ==
  /\ job[u] = "copy" =>
       /\ staging \in Inode /\ fd[u] = staging
       /\ Len(disk[staging]) = at[u]
       /\ \A n \in 1 .. at[u] : disk[staging][n] = u
  /\ (job[u] = "copied" /\ phase[u] = "copying") \/ job[u] = "rename" =>
       staging \in Inode /\ disk[staging] = Binary(u)

UpdaterInv(u) == Untouched(u) /\ Verified(u) /\ Staged(u)

Inv ==
  /\ InstTypeOK
  /\ \A u, v \in Updater : Working(u) /\ Working(v) => u = v
  /\ staging # target
  /\ NeverHalfWritten
  /\ \A u \in Updater : UpdaterInv(u)

(***************************************************************************)
(* Files                                                                   *)
(***************************************************************************)

(* A whole binary is as long as it takes and of one release throughout. *)
LEMMA BinaryIsWhole ==
  ASSUME NEW r \in Inode
  PROVE  /\ Binary(r) \in Seq(Chunk)
         /\ Len(Binary(r)) = Chunks
         /\ \A n \in 1 .. Chunks : Binary(r)[n] = r
<1>1. Chunks \in Nat
  BY InstallerAssumption
<1> QED BY <1>1 DEF Binary, Chunk

(* A file of the full length with nothing but one release in it is that     *)
(* release's binary.                                                        *)
LEMMA FullCopyIsWhole ==
  ASSUME NEW r \in Inode, NEW s \in Seq(Chunk), Len(s) = Chunks,
         \A n \in 1 .. Chunks : s[n] = r
  PROVE  s = Binary(r)
<1>1. /\ Binary(r) \in Seq(Chunk) /\ Len(Binary(r)) = Chunks
      /\ \A n \in 1 .. Chunks : Binary(r)[n] = r
  BY BinaryIsWhole
<1> QED BY <1>1, SeqEqual

(* A write makes a file of a file, and one at its end adds to it.           *)
LEMMA WriteAtEnd ==
  ASSUME NEW s \in Seq(Chunk), NEW k \in Nat \ {0}, NEW c \in Chunk
  PROVE  /\ WriteAt(s, k, c) \in Seq(Chunk)
         /\ Len(s) = k - 1 =>
              /\ Len(WriteAt(s, k, c)) = k
              /\ WriteAt(s, k, c)[k] = c
              /\ \A n \in 1 .. k - 1 : WriteAt(s, k, c)[n] = s[n]
<1> DEFINE m == IF Len(s) > k THEN Len(s) ELSE k
<1> DEFINE e(n) == IF n = k THEN c ELSE IF n \in DOMAIN s THEN s[n] ELSE Junk
<1>1. Len(s) \in Nat /\ m \in Nat /\ DOMAIN s = 1 .. Len(s)
  BY LenProperties
<1>2. \A n \in 1 .. m : e(n) \in Chunk
  BY <1>1, ElementOfSeq DEF Chunk
<1>3. WriteAt(s, k, c) = [n \in 1 .. m |-> e(n)]
  BY DEF WriteAt
<1>4. WriteAt(s, k, c) \in Seq(Chunk) /\ Len(WriteAt(s, k, c)) = m
  <2> HIDE DEF m, e
  <2> QED BY <1>1, <1>2, <1>3
<1>5. Len(s) = k - 1 => m = k
  BY <1>1
<1>6. ASSUME Len(s) = k - 1, NEW n \in 1 .. k
      PROVE  WriteAt(s, k, c)[n] = IF n = k THEN c ELSE s[n]
  BY <1>1, <1>3, <1>5, <1>6
<1> QED BY <1>4, <1>5, <1>6

(* A copy of one release stays one as it grows.                             *)
LEMMA CopyGoesOn ==
  ASSUME NEW s \in Seq(Chunk), NEW k \in Nat \ {0}, NEW c \in Chunk,
         Len(s) = k - 1, \A n \in 1 .. k - 1 : s[n] = c
  PROVE  Len(WriteAt(s, k, c)) = k /\ \A n \in 1 .. k : WriteAt(s, k, c)[n] = c
<1>1. /\ Len(WriteAt(s, k, c)) = k /\ WriteAt(s, k, c)[k] = c
      /\ \A n \in 1 .. k - 1 : WriteAt(s, k, c)[n] = s[n]
  BY WriteAtEnd
<1> QED BY <1>1

(***************************************************************************)
(* Types                                                                   *)
(***************************************************************************)

(* Whatever answers the asset's URL is no longer than maxAsset. *)
LEMMA AnswerIsCapped ==
  ASSUME NEW u \in Updater, NEW a \in Answer(u)
  PROVE  a \in Seq(Chunk) /\ Len(a) <= Chunks
<1>1. Chunks \in Nat \ {0}
  BY InstallerAssumption
<1>2. /\ Binary(u) \in Seq(Chunk) /\ Len(Binary(u)) = Chunks
      /\ \A n \in 1 .. Chunks : Binary(u)[n] \in Chunk
  BY BinaryIsWhole DEF Inode, Chunk
<1>3. Binary(Junk) \in Seq(Chunk) /\ Len(Binary(Junk)) = Chunks
  BY <1>1 DEF Binary, Chunk
<1>4. /\ SubSeq(Binary(u), 1, Chunks - 1) \in Seq(Chunk)
      /\ Len(SubSeq(Binary(u), 1, Chunks - 1)) <= Chunks
  BY <1>1, <1>2, SubSeqProperties
<1> QED BY <1>1, <1>2, <1>3, <1>4 DEF Answer

(* The invariant holds before anyone updates. *)
LEMMA InitInv == InstInit => Inv
<1> SUFFICES ASSUME InstInit PROVE Inv
  OBVIOUS
<1> USE DEF InstInit
<1>1. Original \in Inode /\ None \notin Inode /\ Chunks \in Nat
  BY InstallerAssumption DEF Inode, None
<1>2. Binary(Original) \in Seq(Chunk) /\ <<>> \in Seq(Chunk) /\ Len(<<>>) = 0
  BY <1>1, BinaryIsWhole
<1>3. InstTypeOK
  BY <1>1, <1>2 DEF InstTypeOK, Phase, Job, Err
<1>4. disk[target] = Binary(Original)
  BY <1>1
<1>5. \A u \in Updater : u \in Inode /\ u # Original /\ u # None
  BY InstallerAssumption DEF Inode, None
<1>6. \A u \in Updater : UpdaterInv(u) /\ ~Working(u)
  BY <1>5 DEF UpdaterInv, Untouched, Before, Verified, Staged, Working, AtWork
<1> QED BY <1>1, <1>3, <1>4, <1>6 DEF Inv, NeverHalfWritten

(* No step gives a variable a value outside its type. *)
LEMMA NextTypes == InstTypeOK /\ [InstNext]_instVars => InstTypeOK'
<1> SUFFICES ASSUME InstTypeOK, [InstNext]_instVars PROVE InstTypeOK'
  OBVIOUS
<1> USE DEF InstTypeOK
<1>0. Chunks \in Nat \ {0} /\ Updater \subseteq Inode /\ Inode \subseteq Chunk
  BY InstallerAssumption DEF Inode, Chunk
<1>1. CASE UNCHANGED instVars
  BY <1>1 DEF instVars
<1>2. ASSUME NEW u \in Updater, RefuseUpdate(u) \/ Begin(u) PROVE InstTypeOK'
  BY <1>2 DEF RefuseUpdate, Begin, files, swapVars, trailVars, Phase
<1>3. ASSUME NEW u \in Updater, Download(u) PROVE InstTypeOK'
  <2>1. got' \in [Updater -> Seq(Chunk)] /\ \A v \in Updater : Len(got'[v]) <= Chunks
    <3>1. UNCHANGED got \/ \E content \in Answer(u) : got' = [got EXCEPT ![u] = content]
      BY <1>3 DEF Download
    <3>2. ASSUME NEW content \in Answer(u), got' = [got EXCEPT ![u] = content]
          PROVE  got' \in [Updater -> Seq(Chunk)] /\ \A v \in Updater : Len(got'[v]) <= Chunks
      <4>1. content \in Seq(Chunk) /\ Len(content) <= Chunks
        BY AnswerIsCapped
      <4> QED BY <3>2, <4>1
    <3> QED BY <3>1, <3>2
  <2> QED BY <1>3, <2>1 DEF Download, GiveUp, files, swapVars, trailVars, Phase, Err
<1>4. ASSUME NEW u \in Updater, Verify(u) \/ StartSwap(u) \/ StartRename(u) \/ Installed(u)
      PROVE  InstTypeOK'
  BY <1>4 DEF Verify, StartSwap, StartRename, Installed, GiveUp, files, swapVars, trailVars, Phase, Job, Err
<1>5. ASSUME NEW u \in Updater, OpenStaging(u) PROVE InstTypeOK'
  <2>1. <<>> \in Seq(Chunk)
    BY EmptySeq
  <2> QED BY <1>0, <1>5, <2>1 DEF OpenStaging, trailVars, Phase, Job
<1>6. ASSUME NEW u \in Updater, CopyChunk(u) PROVE InstTypeOK'
  <2>1. CASE at[u] < Len(got[u])
    <3>1. at[u] \in Nat /\ Len(got[u]) \in Nat /\ at[u] + 1 \in 0 .. Chunks
      BY <1>0, <2>1, LenProperties
    <3>2. at[u] + 1 \in 1 .. Len(got[u])
      BY <2>1, <3>1
    <3>3. got[u][at[u] + 1] \in Chunk
      BY <3>2, ElementOfSeq
    <3>4. fd[u] \in Inode =>
            WriteAt(disk[fd[u]], at[u] + 1, got[u][at[u] + 1]) \in Seq(Chunk)
      BY <3>1, <3>3, WriteAtEnd
    <3> HIDE DEF InstTypeOK
    <3>5. disk' \in [Inode -> Seq(Chunk)]
      BY <1>6, <2>1, <3>4 DEF CopyChunk, InstTypeOK
    <3>6. at' \in [Updater -> 0 .. Chunks]
      BY <1>6, <2>1, <3>1 DEF CopyChunk, InstTypeOK
    <3> QED BY <1>6, <2>1, <3>5, <3>6 DEF CopyChunk, InstTypeOK, trailVars
  <2>2. CASE ~(at[u] < Len(got[u]))
    BY <1>6, <2>2 DEF CopyChunk, Job, trailVars
  <2> QED BY <2>1, <2>2
<1>7. ASSUME NEW u \in Updater, Rename(u) \/ StepFails(u) \/ SwapFailed(u) PROVE InstTypeOK'
  BY <1>7 DEF Rename, StepFails, SwapFailed, GiveUp, files, swapVars, trailVars, Phase, Job, Err
<1>8. ASSUME NEW u \in Updater, TimeOut(u) PROVE InstTypeOK'
  <2>1. job' \in [Updater -> Job]
    BY <1>8 DEF TimeOut, Job
  <2> QED BY <1>8, <2>1 DEF TimeOut, GiveUp, files, trailVars, Phase, Err
<1>9. ASSUME NEW u \in Updater, End(u) PROVE InstTypeOK'
  BY <1>9 DEF End, files, swapVars, Phase
<1>10. ASSUME NEW u \in Updater, Crash(u) PROVE InstTypeOK'
  <2>1. job' \in [Updater -> Job]
    BY <1>10 DEF Crash, Job
  <2> QED BY <1>10, <2>1 DEF Crash, files, trailVars, Phase
<1> QED
  BY <1>1, <1>2, <1>3, <1>4, <1>5, <1>6, <1>7, <1>8, <1>9, <1>10
     DEF InstNext, UpdaterStep, SwapJob

(***************************************************************************)
(* Who does what                                                           *)
(***************************************************************************)

Acts(u) == RefuseUpdate(u) \/ Begin(u) \/ UpdaterStep(u) \/ SwapJob(u) \/ Crash(u)

Elsewhere(u) ==
  \A v \in Updater \ {u} :
    /\ phase'[v] = phase[v] /\ job'[v] = job[v] /\ got'[v] = got[v]
    /\ at'[v] = at[v] /\ fd'[v] = fd[v]

(* A step of one updater leaves alone what the others know. *)
LEMMA StepsAreLocal ==
  ASSUME InstTypeOK, NEW u \in Updater, Acts(u)
  PROVE  Elsewhere(u)
<1> USE DEF InstTypeOK, Elsewhere
<1>1. CASE RefuseUpdate(u) \/ Begin(u)
  BY <1>1 DEF RefuseUpdate, Begin, swapVars
<1>2. CASE Download(u) \/ Verify(u) \/ StartSwap(u) \/ StartRename(u)
  BY <1>2 DEF Download, Verify, StartSwap, StartRename, GiveUp, swapVars
<1>3. CASE Installed(u) \/ SwapFailed(u) \/ End(u)
  BY <1>3 DEF Installed, SwapFailed, End, GiveUp, swapVars
<1>4. CASE TimeOut(u)
  BY <1>4 DEF TimeOut, GiveUp
<1>5. CASE Crash(u)
  BY <1>5 DEF Crash
<1>6. CASE OpenStaging(u) \/ Rename(u) \/ StepFails(u)
  BY <1>6 DEF OpenStaging, Rename, StepFails
<1>7. CASE CopyChunk(u)
  BY <1>7 DEF CopyChunk
<1> QED
  BY <1>1, <1>2, <1>3, <1>4, <1>5, <1>6, <1>7 DEF Acts, UpdaterStep, SwapJob

(* The files beside the target, and the target, are touched by an updater   *)
(* at work only, and the only names they get are its own and the staged one.*)
LEMMA OnlyWorkersTouchFiles ==
  ASSUME NEW u \in Updater, Acts(u)
  PROVE  \/ UNCHANGED files
         \/ Working(u) /\ staging' \in {staging, u, None} /\ target' \in {target, staging}
<1>1. CASE OpenStaging(u) \/ CopyChunk(u) \/ Rename(u)
  BY <1>1 DEF OpenStaging, CopyChunk, Rename, Working
<1>2. CASE SwapFailed(u)
  BY <1>2 DEF SwapFailed, Working, AtWork
<1>3. CASE ~(OpenStaging(u) \/ CopyChunk(u) \/ Rename(u) \/ SwapFailed(u))
  BY <1>3 DEF Acts, UpdaterStep, SwapJob, RefuseUpdate, Begin, Download, Verify, StartSwap,
     StartRename, Installed, TimeOut, End, Crash, StepFails
<1> QED BY <1>1, <1>2, <1>3

(* Nobody goes to work but by Begin. *)
LEMMA OnlyBeginGoesToWork ==
  ASSUME InstTypeOK, NEW u \in Updater, Acts(u), ~Working(u), Working(u)'
  PROVE  Begin(u)
<1> USE DEF InstTypeOK, Working, AtWork
<1>1. ~RefuseUpdate(u) /\ ~Crash(u)
  BY DEF RefuseUpdate, Crash, swapVars
<1>2. ~UpdaterStep(u)
  BY DEF UpdaterStep, Download, Verify, StartSwap, StartRename, Installed, SwapFailed,
         TimeOut, End
<1>3. ~SwapJob(u)
  BY DEF SwapJob, OpenStaging, CopyChunk, Rename, StepFails
<1> QED BY <1>1, <1>2, <1>3 DEF Acts

(* Where updates do not overlap, at most one updater is at work. *)
LEMMA OneStaysAtWork ==
  ASSUME ~Overlap, Inv, NEW u \in Updater, Acts(u)
  PROVE  \A v, w \in Updater : Working(v)' /\ Working(w)' => v = w
<1>1. Elsewhere(u)
  BY StepsAreLocal DEF Inv
<1>2. ASSUME NEW v \in Updater \ {u}, Working(v)' PROVE Working(v)
  BY <1>1, <1>2 DEF Elsewhere, Working, AtWork
<1>3. ASSUME NEW v \in Updater \ {u}, Working(v), Working(u)' PROVE FALSE
  <2>1. ~Working(u)
    BY <1>3 DEF Inv
  <2>2. Begin(u)
    BY <1>3, <2>1, OnlyBeginGoesToWork DEF Inv
  <2> QED BY <1>3, <2>2 DEF Begin
<1>4. \A v, w \in Updater : Working(v) /\ Working(w) => v = w
  BY DEF Inv
<1> QED BY <1>2, <1>3, <1>4

(* What is known of the other updaters stays known. *)
LEMMA OthersKeepTheirs ==
  ASSUME Inv, NEW u \in Updater, Acts(u), NEW v \in Updater \ {u}
  PROVE  UpdaterInv(v)'
<1>1. UpdaterInv(v) /\ Elsewhere(u)
  BY StepsAreLocal DEF Inv
<1>2. v # None /\ v # u
  BY InstallerAssumption DEF None
<1>3. CASE UNCHANGED files
  BY <1>1, <1>3 DEF Elsewhere, files, UpdaterInv, Untouched, Before, Verified, Staged
<1>4. CASE Working(u) /\ staging' \in {staging, u, None} /\ target' \in {target, staging}
  <2>1. ~Working(v)
    BY <1>4 DEF Inv
  <2>2. job[v] \notin {"open", "copy", "rename"} /\ phase[v] # "copying"
    BY <2>1 DEF Working, AtWork
  <2> QED
    BY <1>1, <1>2, <1>4, <2>2
       DEF Elsewhere, UpdaterInv, Untouched, Before, Verified, Staged
<1> QED BY <1>3, <1>4, OnlyWorkersTouchFiles

(***************************************************************************)
(* What the updater that takes the step knows, and the target              *)
(***************************************************************************)

Kept(u) == UpdaterInv(u)' /\ staging' # target' /\ NeverHalfWritten'

(* Every step but those of the copy and the rename.  A direct swap that     *)
(* fails removes target.new, which nobody copies to any more.               *)
LEMMA OtherStepsKeep ==
  ASSUME Inv, NEW u \in Updater, Acts(u),
         ~(OpenStaging(u) \/ CopyChunk(u) \/ Rename(u))
  PROVE  Kept(u)
<1>1. UpdaterInv(u) /\ InstTypeOK
  BY DEF Inv
<1>2. u # None /\ target # None
  BY InstallerAssumption DEF Inv, InstTypeOK, Inode, None
<1>3. UNCHANGED <<disk, target>> /\ staging' \in {staging, None}
  BY DEF Acts, UpdaterStep, SwapJob, RefuseUpdate, Begin, Download, Verify, StartSwap, StartRename,
     Installed, SwapFailed, TimeOut, End, Crash, StepFails, files
<1>4. staging' # target' /\ NeverHalfWritten'
  BY <1>2, <1>3 DEF Inv, NeverHalfWritten
<1> USE DEF UpdaterInv, Untouched, Before, Verified, Staged, files
<1>5. UpdaterInv(u)'
  <2>1. CASE RefuseUpdate(u) \/ Begin(u)
    BY <1>1, <2>1 DEF RefuseUpdate, Begin, InstTypeOK, swapVars
  <2>2. CASE Download(u) \/ Verify(u)
    BY <1>1, <2>2 DEF Download, Verify, GiveUp, InstTypeOK, swapVars
  <2>3. CASE StartSwap(u) \/ StartRename(u) \/ Installed(u) \/ End(u)
    BY <1>1, <2>3 DEF StartSwap, StartRename, Installed, End, GiveUp, InstTypeOK, swapVars
  <2>4. CASE SwapFailed(u)
    BY <1>1, <1>2, <2>4 DEF SwapFailed, GiveUp, InstTypeOK, swapVars
  <2>5. CASE TimeOut(u) \/ Crash(u)
    BY <1>1, <2>5 DEF TimeOut, Crash, GiveUp, InstTypeOK, AtWork
  <2>6. CASE StepFails(u)
    BY <1>1, <2>6 DEF StepFails, InstTypeOK
  <2> QED
    BY <2>1, <2>2, <2>3, <2>4, <2>5, <2>6 DEF Acts, UpdaterStep, SwapJob
<1> QED BY <1>4, <1>5 DEF Kept

(* Opening target.new empties a file that is not the target's.              *)
LEMMA OpeningKeeps ==
  ASSUME Inv, NEW u \in Updater, OpenStaging(u)
  PROVE  Kept(u)
<1> DEFINE i == IF access[u] = "direct" /\ staging # None THEN staging ELSE u
<1>1. UpdaterInv(u) /\ InstTypeOK /\ u \in Inode
  BY DEF Inv, Inode
<1>2. i # target /\ i \in Inode
  BY <1>1 DEF Inv, OpenStaging, UpdaterInv, Untouched, InstTypeOK
<1>3. /\ staging' = i /\ target' = target /\ disk' = [disk EXCEPT ![i] = <<>>]
      /\ fd' = [fd EXCEPT ![u] = i] /\ job' = [job EXCEPT ![u] = "copy"]
      /\ UNCHANGED <<phase, got, at>> /\ job[u] = "open" /\ at[u] = 0
  BY <1>1 DEF OpenStaging, UpdaterInv, Untouched
<1> HIDE DEF i
<1>4. disk'[target'] = disk[target] /\ disk'[i] = <<>> /\ job'[u] = "copy" /\ fd'[u] = i
  BY <1>1, <1>2, <1>3 DEF InstTypeOK
<1>5. staging' # target' /\ NeverHalfWritten'
  BY <1>2, <1>3, <1>4 DEF Inv, NeverHalfWritten
<1>6. Untouched(u)' /\ Verified(u)'
  BY <1>1, <1>3, <1>4 DEF UpdaterInv, Untouched, Before, Verified
<1>7. Staged(u)'
  BY <1>2, <1>3, <1>4 DEF Staged
<1> QED BY <1>5, <1>6, <1>7 DEF Kept, UpdaterInv

(* The copy writes to target.new at its end, and ends when it is whole.     *)
LEMMA CopyingKeeps ==
  ASSUME Inv, NEW u \in Updater, CopyChunk(u)
  PROVE  Kept(u)
<1>1. UpdaterInv(u) /\ InstTypeOK /\ u \in Inode
  BY DEF Inv, Inode
<1>2. /\ job[u] = "copy" /\ staging \in Inode /\ fd[u] = staging
      /\ Len(disk[staging]) = at[u] /\ got[u] = Binary(u)
      /\ \A n \in 1 .. at[u] : disk[staging][n] = u
  BY <1>1 DEF CopyChunk, UpdaterInv, Verified, Staged
<1>3. /\ at[u] \in 0 .. Chunks /\ Chunks \in Nat /\ disk[staging] \in Seq(Chunk)
      /\ Len(got[u]) = Chunks /\ \A n \in 1 .. Chunks : got[u][n] = u
  BY <1>1, <1>2, BinaryIsWhole, InstallerAssumption DEF InstTypeOK
<1>4. ~Before(u) /\ staging # target
  BY <1>1, <1>2 DEF UpdaterInv, Untouched, Inv
<1>5. CASE at[u] < Len(got[u])
  <2> DEFINE k == at[u] + 1
             s == WriteAt(disk[staging], k, u)
  <2>1. k \in Nat \ {0} /\ k \in 1 .. Chunks /\ u \in Chunk
    BY <1>1, <1>3, <1>5 DEF Chunk
  <2>2. disk' = [disk EXCEPT ![staging] = s] /\ at' = [at EXCEPT ![u] = k]
    BY <1>2, <1>3, <1>5, <2>1 DEF CopyChunk
  <2>3. UNCHANGED <<target, staging, phase, got, fd, job>>
    BY <1>5 DEF CopyChunk
  <2>4. Len(s) = k /\ \A n \in 1 .. k : s[n] = u
    <3>1. /\ disk[staging] \in Seq(Chunk) /\ Len(disk[staging]) = k - 1
          /\ \A n \in 1 .. k - 1 : disk[staging][n] = u
      BY <1>2, <1>3
    <3> HIDE DEF k
    <3> QED BY <2>1, <3>1, CopyGoesOn
  <2> HIDE DEF k, s
  <2>5. disk'[staging] = s /\ disk'[target] = disk[target] /\ at'[u] = k
    BY <1>1, <1>2, <1>4, <2>2 DEF InstTypeOK
  <2>6. staging' # target' /\ NeverHalfWritten'
    BY <1>4, <2>3, <2>5 DEF Inv, NeverHalfWritten
  <2>7. Untouched(u)' /\ Verified(u)'
    BY <1>1, <1>2, <1>4, <2>3 DEF UpdaterInv, Untouched, Before, Verified
  <2>8. Staged(u)'
    BY <1>2, <2>3, <2>4, <2>5 DEF Staged
  <2> QED BY <2>6, <2>7, <2>8 DEF Kept, UpdaterInv
<1>6. CASE ~(at[u] < Len(got[u]))
  <2>1. at[u] = Chunks
    BY <1>3, <1>6
  <2>2. disk[staging] = Binary(u)
    BY <1>1, <1>2, <1>3, <2>1, FullCopyIsWhole
  <2>3. UNCHANGED <<disk, target, staging, phase, got, fd, at>> /\ job' = [job EXCEPT ![u] = "copied"]
    BY <1>6 DEF CopyChunk
  <2>4. job'[u] = "copied"
    BY <1>1, <2>3 DEF InstTypeOK
  <2>5. staging' # target' /\ NeverHalfWritten'
    BY <1>4, <2>3 DEF Inv, NeverHalfWritten
  <2>6. Untouched(u)' /\ Verified(u)' /\ Staged(u)'
    BY <1>1, <1>2, <1>4, <2>2, <2>3, <2>4
       DEF UpdaterInv, Untouched, Before, Verified, Staged
  <2> QED BY <2>5, <2>6 DEF Kept, UpdaterInv
<1> QED BY <1>5, <1>6

(* The rename puts a whole binary in the target's place.                    *)
LEMMA RenamingKeeps ==
  ASSUME Inv, NEW u \in Updater, Rename(u)
  PROVE  Kept(u)
<1>1. UpdaterInv(u) /\ InstTypeOK /\ u \in Inode
  BY DEF Inv, Inode
<1>2. /\ job[u] = "rename" /\ target' = staging /\ staging' = None
      /\ UNCHANGED <<disk, phase, got, fd, at>> /\ job' = [job EXCEPT ![u] = "renamed"]
  BY DEF Rename
<1>3. staging \in Inode /\ disk[staging] = Binary(u)
  BY <1>1, <1>2 DEF UpdaterInv, Staged
<1>4. staging # None
  BY <1>3, InstallerAssumption DEF Inode, None
<1>5. job'[u] = "renamed" /\ ~Before(u)
  BY <1>1, <1>2 DEF InstTypeOK, UpdaterInv, Untouched
<1>6. staging' # target' /\ NeverHalfWritten'
  BY <1>1, <1>2, <1>3, <1>4 DEF NeverHalfWritten
<1>7. UpdaterInv(u)'
  BY <1>1, <1>2, <1>5 DEF UpdaterInv, Untouched, Before, Verified, Staged
<1> QED BY <1>6, <1>7 DEF Kept

(***************************************************************************)
(* The theorems                                                            *)
(***************************************************************************)

(* Where updates do not overlap, every step keeps the invariant. *)
LEMMA NextInv == ~Overlap /\ Inv /\ [InstNext]_instVars => Inv'
<1> SUFFICES ASSUME ~Overlap, Inv, [InstNext]_instVars PROVE Inv'
  OBVIOUS
<1>1. InstTypeOK'
  BY NextTypes DEF Inv
<1>2. ASSUME NEW u \in Updater, Acts(u) PROVE Inv'
  <2>1. Kept(u)
    BY <1>2, OtherStepsKeep, OpeningKeeps, CopyingKeeps, RenamingKeeps
  <2>2. \A v \in Updater : UpdaterInv(v)'
    BY <1>2, <2>1, OthersKeepTheirs DEF Kept
  <2>3. \A v, w \in Updater : Working(v)' /\ Working(w)' => v = w
    BY <1>2, OneStaysAtWork
  <2> QED BY <1>1, <2>1, <2>2, <2>3 DEF Inv, Kept
<1>3. CASE UNCHANGED instVars
  BY <1>1, <1>3 DEF instVars, Inv, NeverHalfWritten, Working, AtWork, UpdaterInv, Untouched,
     Before, Verified, Staged
<1> QED BY <1>2, <1>3 DEF InstNext, Acts

(* Every variable of the installer always has its type, overlapping or not. *)
THEOREM InstTypesAlways == InstSpec => []InstTypeOK
<1>1. InstInit => InstTypeOK
  BY InitInv DEF Inv
<1> QED BY <1>1, NextTypes, PTL DEF InstSpec

(* As long as updates of one host do not overlap, whatever is downloaded,   *)
(* wherever an update is killed, cut off or fails, and whatever it leaves   *)
(* behind for the next, the installed file is always a whole binary.        *)
THEOREM AlwaysAWholeBinary == ~Overlap /\ InstSpec => []NeverHalfWritten
<1>1. InstInit => Inv
  BY InitInv
<1>2. ~Overlap /\ Inv /\ [InstNext]_instVars => Inv'
  BY NextInv
<1>3. Inv => NeverHalfWritten
  BY DEF Inv
<1>4. CASE ~Overlap
  BY <1>1, <1>2, <1>3, <1>4, PTL DEF InstSpec
<1> QED BY <1>4

(***************************************************************************)
(* The trail and the binary                                                *)
(***************************************************************************)

(* An update has failed only once it gave up, and its result line says how  *)
(* it came out.                                                             *)
Recorded(u) ==
  /\ err[u] # "ok" => phase[u] \in {"ending", "ended", "dead"}
  /\ result[u] # "none" => phase[u] = "ended" /\ result[u] = err[u]

(* What is installed was put there by a rename.  An update that reports an  *)
(* error, a deadline apart, has none under way; one that reports none has   *)
(* done it, and until its result line nobody undoes it.                     *)
Accounted(u) ==
  /\ err[u] = "error" => job[u] \in {"none", "failed"}
  /\ phase[u] \in {"ending", "ended"} /\ err[u] = "ok" => job[u] = "renamed"
  /\ disk[target] = Binary(u) => job[u] = "renamed" \/ phase[u] = "dead" \/ err[u] = "timeout"
  /\ phase[u] \in {"moving", "ending"} /\ err[u] = "ok" /\ job[u] = "renamed"
       => disk[target] = Binary(u)

TrailInv == \A u \in Updater : Recorded(u) /\ Accounted(u)

(* Binaries of different releases differ. *)
LEMMA BinariesDiffer ==
  ASSUME NEW u \in Inode, NEW v \in Inode, Binary(u) = Binary(v)
  PROVE  u = v
<1>1. 1 \in 1 .. Chunks
  BY InstallerAssumption
<1>2. Binary(u)[1] = u /\ Binary(v)[1] = v
  BY <1>1, BinaryIsWhole
<1> QED BY <1>2

(* What the target holds is changed by a rename only. *)
LEMMA OnlyARenameInstalls ==
  ASSUME Inv, NEW u \in Updater, Acts(u)
  PROVE  disk'[target'] = IF Rename(u) THEN Binary(u) ELSE disk[target]
<1>1. UpdaterInv(u) /\ InstTypeOK /\ u \in Inode /\ staging # target
  BY DEF Inv, Inode
<1>2. CASE Rename(u)
  BY <1>1, <1>2 DEF Rename, UpdaterInv, Staged
<1>3. CASE OpenStaging(u)
  <2>1. u # target
    BY <1>1, <1>3 DEF OpenStaging, UpdaterInv, Untouched
  <2>2. disk'[target'] = disk[target]
    BY <1>1, <1>3, <2>1 DEF OpenStaging, InstTypeOK
  <2> QED BY <1>3, <2>2 DEF OpenStaging, Rename
<1>4. CASE CopyChunk(u)
  <2>1. fd[u] = staging
    BY <1>1, <1>4 DEF CopyChunk, UpdaterInv, Staged
  <2>2. UNCHANGED target /\ \A i \in Inode \ {staging} : disk'[i] = disk[i]
    BY <1>1, <1>4, <2>1 DEF CopyChunk, InstTypeOK
  <2>3. disk'[target'] = disk[target]
    BY <1>1, <2>2 DEF InstTypeOK
  <2> QED BY <1>4, <2>3 DEF CopyChunk, Rename
<1>5. CASE ~(OpenStaging(u) \/ CopyChunk(u) \/ Rename(u))
  <2>1. UNCHANGED <<disk, target>>
    BY <1>5 DEF Acts, UpdaterStep, SwapJob, RefuseUpdate, Begin, Download, Verify, StartSwap,
       StartRename, Installed, SwapFailed, TimeOut, End, Crash, StepFails, files
  <2> QED BY <1>5, <2>1
<1> QED BY <1>2, <1>3, <1>4, <1>5

(* The trail of an update is written by its own steps, and only End adds to *)
(* what it says of the outcome.                                             *)
LEMMA RecordsGoOn ==
  ASSUME Inv, TrailInv, NEW u \in Updater, Acts(u)
  PROVE  /\ \A v \in Updater : Recorded(v)'
         /\ \A v \in Updater \ {u} : err'[v] = err[v] /\ result'[v] = result[v]
         /\ result'[u] # result[u] => phase[u] = "ending" /\ result'[u] = err[u]
<1>1. InstTypeOK /\ Recorded(u) /\ Elsewhere(u) /\ UpdaterInv(u)
  BY StepsAreLocal DEF Inv, TrailInv
<1>2. /\ Recorded(u)'
      /\ \A v \in Updater \ {u} : err'[v] = err[v] /\ result'[v] = result[v]
      /\ result'[u] # result[u] => phase[u] = "ending" /\ result'[u] = err[u]
  <2> USE DEF Recorded, InstTypeOK, trailVars
  <2>1. CASE RefuseUpdate(u) \/ Begin(u)
    BY <1>1, <2>1 DEF RefuseUpdate, Begin
  <2>2. CASE Download(u) \/ Verify(u) \/ StartSwap(u) \/ StartRename(u) \/ Installed(u)
    BY <1>1, <2>2 DEF Download, Verify, StartSwap, StartRename, Installed, GiveUp
  <2>3. CASE SwapFailed(u) \/ TimeOut(u) \/ Crash(u)
    BY <1>1, <2>3 DEF SwapFailed, TimeOut, Crash, GiveUp, AtWork
  <2>4. CASE End(u)
    BY <1>1, <2>4 DEF End
  <2>5. CASE SwapJob(u)
    BY <1>1, <2>5 DEF SwapJob, OpenStaging, CopyChunk, Rename, StepFails
  <2> QED BY <2>1, <2>2, <2>3, <2>4, <2>5 DEF Acts, UpdaterStep
<1>3. ASSUME NEW v \in Updater \ {u} PROVE Recorded(v)'
  BY <1>1, <1>2 DEF TrailInv, Recorded, Elsewhere
<1> QED BY <1>2, <1>3

(* A step that changes nothing of what is installed keeps the account.      *)
LEMMA OtherStepsKeepAccount ==
  ASSUME Inv, TrailInv, NEW u \in Updater, Acts(u), ~Rename(u), disk'[target'] = disk[target]
  PROVE  \A v \in Updater : Accounted(v)'
<1>1. /\ InstTypeOK /\ Elsewhere(u) /\ UpdaterInv(u) /\ Recorded(u)
      /\ \A v \in Updater : Accounted(v)
  BY StepsAreLocal DEF Inv, TrailInv
<1>2. \A v \in Updater \ {u} : err'[v] = err[v]
  BY RecordsGoOn
<1>3. ASSUME NEW v \in Updater \ {u} PROVE Accounted(v)'
  <2>1. Accounted(v)
    BY <1>1
  <2> QED BY <1>1, <1>2, <2>1 DEF Accounted, Elsewhere
<1>4. Accounted(u)
  BY <1>1
<1>5. Accounted(u)'
  <2> USE DEF Accounted, Recorded, InstTypeOK
  <2>1. CASE RefuseUpdate(u) \/ Begin(u)
    BY <1>1, <1>4, <2>1 DEF RefuseUpdate, Begin, swapVars
  <2>2. CASE Download(u) \/ Verify(u)
    BY <1>1, <1>4, <2>2 DEF Download, Verify, GiveUp, swapVars, UpdaterInv, Untouched, Before
  <2>3. CASE StartSwap(u)
    <3>1. job[u] = "none"
      BY <1>1, <2>3 DEF StartSwap, UpdaterInv, Untouched, Before
    <3> QED BY <1>1, <1>4, <2>3, <3>1 DEF StartSwap
  <2>4. CASE StartRename(u)
    BY <1>1, <1>4, <2>4 DEF StartRename
  <2>5. CASE Installed(u) \/ SwapFailed(u) \/ End(u)
    BY <1>1, <1>4, <2>5 DEF Installed, SwapFailed, End, GiveUp, swapVars
  <2>6. CASE TimeOut(u) \/ Crash(u)
    BY <1>1, <1>4, <2>6 DEF TimeOut, Crash, GiveUp, AtWork
  <2>7. CASE OpenStaging(u) \/ CopyChunk(u) \/ StepFails(u)
    BY <1>1, <1>4, <2>7 DEF OpenStaging, CopyChunk, StepFails
  <2> QED
    BY <2>1, <2>2, <2>3, <2>4, <2>5, <2>6, <2>7 DEF Acts, UpdaterStep, SwapJob
<1> QED BY <1>3, <1>5

(* A rename installs the release of the updater it is done for, and undoes  *)
(* nothing another at work has yet to report.                               *)
LEMMA RenamingKeepsAccount ==
  ASSUME Inv, TrailInv, NEW u \in Updater, Rename(u), disk'[target'] = Binary(u)
  PROVE  \A v \in Updater : Accounted(v)'
<1>1. /\ InstTypeOK /\ Elsewhere(u) /\ UpdaterInv(u) /\ Accounted(u)
      /\ UNCHANGED <<phase, err>>
      /\ job[u] = "rename" /\ job'[u] = "renamed"
  BY StepsAreLocal DEF Inv, TrailInv, Rename, InstTypeOK, Acts, SwapJob
<1>2. Accounted(u)'
  BY <1>1 DEF Accounted
<1>3. ASSUME NEW v \in Updater \ {u} PROVE Accounted(v)'
  <2>1. disk'[target'] # Binary(v)
    BY BinariesDiffer DEF Inode
  <2>2. Accounted(v)
    BY DEF TrailInv
  <2>3. Working(u) /\ ~Working(v)
    BY <1>1 DEF Working, Inv
  <2> QED BY <1>1, <2>1, <2>2, <2>3 DEF Accounted, Elsewhere, Working, AtWork
<1> QED BY <1>2, <1>3

(* A result line is written when it is true, and what is installed changes  *)
(* for an update whose result is open.                                      *)
LEMMA StepsAreAccounted ==
  ASSUME Inv, TrailInv, NEW u \in Updater, Acts(u), NEW w \in Updater
  PROVE  TrailStep(w)
<1>1. InstTypeOK /\ Recorded(w) /\ Accounted(w) /\ UpdaterInv(w)
  BY DEF Inv, TrailInv
<1>2. ASSUME result'[w] # result[w]
      PROVE  /\ result'[w] = "ok" => disk[target] = Binary(w)
             /\ result'[w] = "error" => disk[target] # Binary(w)
  <2>1. w = u
    BY <1>2, RecordsGoOn
  <2>2. phase[w] = "ending" /\ result'[w] = err[w]
    BY <1>2, <2>1, RecordsGoOn
  <2> QED BY <1>1, <2>2 DEF Accounted
<1>3. ASSUME disk'[target'] # disk[target], disk'[target'] = Binary(w)
      PROVE  phase[w] \notin {"idle", "refused"} /\ result[w] \in {"none", "timeout"}
  <2>1. Rename(u) /\ disk'[target'] = Binary(u)
    BY <1>3, OnlyARenameInstalls
  <2>2. w = u
    BY <1>3, <2>1, BinariesDiffer DEF Inode
  <2>3. job[w] = "rename"
    BY <2>1, <2>2 DEF Rename
  <2> QED
    BY <1>1, <2>3 DEF UpdaterInv, Untouched, Before, Recorded, Accounted, InstTypeOK, Err
<1> QED BY <1>2, <1>3 DEF TrailStep

(* As long as updates do not overlap, what the trail says of an update is   *)
(* so when the line is written -- ok over the release it names, an error    *)
(* over another -- and what is installed does not become an update's after  *)
(* its line said ok or an error.  Only a sudo that ran out of time may      *)
(* still be at it, and the line names that.                                 *)
THEOREM AlwaysAccounted == ~Overlap /\ InstSpec => TrailAccounts
<1>1. InstInit => Inv /\ TrailInv
  <2> SUFFICES ASSUME InstInit PROVE TrailInv
    BY InitInv
  <2>1. ASSUME NEW u \in Updater PROVE disk[target] # Binary(u)
    BY BinariesDiffer, InstallerAssumption DEF InstInit, Inode
  <2> QED BY <2>1 DEF InstInit, TrailInv, Recorded, Accounted
<1>2. ~Overlap /\ Inv /\ TrailInv /\ [InstNext]_instVars => Inv' /\ TrailInv'
  <2> SUFFICES ASSUME ~Overlap, Inv, TrailInv, [InstNext]_instVars PROVE TrailInv'
    BY NextInv
  <2>1. ASSUME NEW u \in Updater, Acts(u) PROVE TrailInv'
    <3>1. \A v \in Updater : Recorded(v)'
      BY <2>1, RecordsGoOn
    <3>2. disk'[target'] = IF Rename(u) THEN Binary(u) ELSE disk[target]
      BY <2>1, OnlyARenameInstalls
    <3>3. CASE Rename(u)
      <4>1. disk'[target'] = Binary(u)
        BY <3>2, <3>3
      <4>2. \A v \in Updater : Accounted(v)'
        BY <3>3, <4>1, RenamingKeepsAccount
      <4> QED BY <3>1, <4>2 DEF TrailInv
    <3>4. CASE ~Rename(u)
      <4>1. disk'[target'] = disk[target]
        BY <3>2, <3>4
      <4>2. \A v \in Updater : Accounted(v)'
        BY <2>1, <3>4, <4>1, OtherStepsKeepAccount
      <4> QED BY <3>1, <4>2 DEF TrailInv
    <3> QED BY <3>3, <3>4
  <2>2. CASE UNCHANGED instVars
    BY <2>2 DEF instVars, TrailInv, Recorded, Accounted
  <2> QED BY <2>1, <2>2 DEF InstNext, Acts
<1>3. Inv /\ TrailInv /\ [InstNext]_instVars => [\A u \in Updater : TrailStep(u)]_instVars
  BY StepsAreAccounted DEF InstNext, Acts
<1>4. CASE ~Overlap
  BY <1>1, <1>2, <1>3, <1>4, PTL DEF InstSpec, TrailAccounts
<1> QED BY <1>4

(***************************************************************************)
(* What is left beside the binary                                          *)
(***************************************************************************)

(* An updater that has not made its inode yet: nobody has it open and no    *)
(* name leads to it.                                                        *)
Unmade(u) ==
  /\ Before(u) => job[u] = "none"
  /\ access[u] = "direct" /\ job[u] = "open" => phase[u] = "copying"
  /\ Before(u) \/ job[u] = "open" =>
       staging # u /\ fd[u] = None /\ \A v \in Updater : fd[v] # u

(* Once it has renamed what it staged, or given up on it, that file is not  *)
(* target.new any more: a new file there is one that is made just then.     *)
Cleared(u) ==
  access[u] = "direct" /\ fd[u] # None /\ (phase[u] \in {"ending", "ended"} \/ job[u] = "renamed")
    => staging # fd[u]

(* Who has no way to write there does not begin.                            *)
Barred(u) == access[u] = "none" => phase[u] \in {"idle", "refused"}

LeftInv == InstTypeOK /\ \A u \in Updater : Barred(u) /\ Unmade(u) /\ Cleared(u)

(* Nobody who may not write there gets any further than that.              *)
LEMMA BarredStays ==
  ASSUME LeftInv, NEW u \in Updater, Acts(u)
  PROVE  \A v \in Updater : Barred(v)'
<1>0. InstTypeOK /\ Elsewhere(u) /\ Barred(u) /\ Unmade(u) /\ UNCHANGED access
  BY StepsAreLocal
     DEF LeftInv, Acts, UpdaterStep, SwapJob, RefuseUpdate, Begin, Download, Verify, StartSwap, StartRename,
         Installed, SwapFailed, TimeOut, End, Crash, OpenStaging, CopyChunk, Rename, StepFails
<1>1. Barred(u)'
  <2>1. CASE access[u] # "none"
    BY <1>0, <2>1 DEF Barred
  <2>2. CASE access[u] = "none"
    <3>1. phase[u] \in {"idle", "refused"} /\ job[u] = "none"
      BY <1>0, <2>2 DEF Barred, Unmade, Before
    <3>2. RefuseUpdate(u)
      BY <2>2, <3>1
         DEF Acts, UpdaterStep, SwapJob, Begin, Download, Verify, StartSwap, StartRename, Installed,
             SwapFailed, TimeOut, End, Crash, AtWork, OpenStaging, CopyChunk, Rename, StepFails
    <3> QED BY <1>0, <3>2 DEF RefuseUpdate, Barred, InstTypeOK
  <2> QED BY <2>1, <2>2
<1>2. ASSUME NEW v \in Updater \ {u} PROVE Barred(v)'
  <2>1. Barred(v)
    BY DEF LeftInv
  <2> QED BY <1>0, <2>1 DEF Barred, Elsewhere
<1> QED BY <1>1, <1>2

(* Where neither target.new nor an open file changes, what matters is where *)
(* the one updater goes: not back before its copy, and not to its end with a*)
(* file of its own there.                                                   *)
LEMMA StagingStays ==
  ASSUME LeftInv, NEW u \in Updater, Acts(u), UNCHANGED <<staging, fd, access>>,
         Before(u)' => job'[u] = "none" /\ Before(u),
         job'[u] = "open" => \/ phase'[u] = "copying" /\ (Before(u) \/ job[u] = "open")
                             \/ access[u] # "direct" /\ job[u] = "open",
         access[u] = "direct" /\ fd[u] # None
           /\ (phase'[u] \in {"ending", "ended"} \/ job'[u] = "renamed")
           => phase[u] \in {"ending", "ended"} \/ job[u] = "renamed"
  PROVE  \A v \in Updater : Unmade(v)' /\ Cleared(v)'
<1> SUFFICES ASSUME NEW v \in Updater PROVE Unmade(v)' /\ Cleared(v)'
  OBVIOUS
<1>0. Unmade(v) /\ Cleared(v) /\ InstTypeOK
  BY DEF LeftInv
<1>1. CASE v = u
  BY <1>0, <1>1 DEF Unmade, Cleared
<1>2. CASE v # u
  <2>1. phase'[v] = phase[v] /\ job'[v] = job[v]
    BY <1>0, <1>2, StepsAreLocal DEF Elsewhere
  <2> QED BY <1>0, <2>1 DEF Unmade, Cleared, Before
<1> QED BY <1>1, <1>2

(* Every step of every updater keeps target.new accounted for, whether or   *)
(* not updates overlap.                                                     *)
LEMMA LeftStays == LeftInv /\ [InstNext]_instVars => LeftInv'
<1> SUFFICES ASSUME LeftInv, [InstNext]_instVars PROVE LeftInv'
  OBVIOUS
<1>0. InstTypeOK /\ InstTypeOK'
  BY NextTypes DEF LeftInv
<1>1. CASE UNCHANGED instVars
  BY <1>0, <1>1 DEF instVars, LeftInv, Barred, Unmade, Cleared, Before
<1>2. ASSUME NEW u \in Updater, Acts(u) PROVE LeftInv'
  <2>0. Unmade(u) /\ Cleared(u) /\ Elsewhere(u)
    BY <1>0, <1>2, StepsAreLocal DEF LeftInv
  <2>9. \A v \in Updater : Barred(v)'
    BY <1>2, BarredStays
  <2> USE DEF InstTypeOK, Before
  <2>1. CASE RefuseUpdate(u) \/ Begin(u) \/ Download(u) \/ Verify(u) \/ End(u)
    <3>1. /\ UNCHANGED <<staging, fd, access, job>>
          /\ phase[u] \in {"idle", "begun", "downloaded", "ending"} /\ phase'[u] # "idle"
          /\ phase[u] = "ending" => phase'[u] = "ended"
          /\ phase[u] # "ending" => phase'[u] \in {"refused", "begun", "downloaded", "verified", "ending"}
      BY <1>0, <2>1 DEF RefuseUpdate, Begin, Download, Verify, End, GiveUp, files, swapVars
    <3>2. CASE phase[u] = "ending"
      BY <1>0, <1>2, <2>9, <2>0, <3>1, <3>2, StagingStays DEF Unmade, LeftInv
    <3>3. CASE phase[u] # "ending"
      <4>1. fd[u] = None /\ job[u] = "none"
        BY <2>0, <3>1, <3>3 DEF Unmade
      <4> QED BY <1>0, <1>2, <2>9, <2>0, <3>1, <3>3, <4>1, StagingStays DEF LeftInv
    <3> QED BY <3>2, <3>3
  <2>2. CASE StartSwap(u)
    <3>1. /\ UNCHANGED <<staging, fd, access>> /\ phase[u] = "verified"
          /\ phase'[u] = "copying" /\ job'[u] = "open"
      BY <1>0, <2>2 DEF StartSwap, files
    <3> QED BY <1>0, <1>2, <2>9, <3>1, StagingStays DEF LeftInv
  <2>3. CASE CopyChunk(u) \/ StepFails(u)
    <3>1. /\ UNCHANGED <<staging, fd, access, phase>> /\ job[u] \in {"open", "copy", "rename"}
          /\ job'[u] \in {"copy", "copied", "failed"}
      BY <1>0, <2>3 DEF CopyChunk, StepFails, files
    <3> QED BY <1>0, <1>2, <2>9, <2>0, <3>1, StagingStays DEF LeftInv, Unmade
  <2>4. CASE StartRename(u) \/ Installed(u)
    <3>1. /\ UNCHANGED <<staging, fd, access>>
          /\ \/ phase'[u] \in {"copying", "moving"} /\ job'[u] \in {"failed", "rename"}
             \/ phase'[u] = "ending" /\ job[u] = "renamed" /\ job'[u] = "renamed"
      BY <1>0, <2>4 DEF StartRename, Installed, files, swapVars
    <3> QED BY <1>0, <1>2, <2>9, <3>1, StagingStays DEF LeftInv
  <2>5. CASE TimeOut(u)
    <3>1. /\ UNCHANGED <<staging, fd, access>> /\ access[u] = "sudo"
          /\ phase'[u] = "ending" /\ job'[u] \in {job[u], "none"}
      BY <1>0, <2>5 DEF TimeOut, GiveUp, files
    <3> QED BY <1>0, <1>2, <2>9, <3>1, StagingStays DEF LeftInv
  <2>6. CASE Crash(u)
    <3>1. /\ UNCHANGED <<staging, fd, access>> /\ phase'[u] = "dead"
          /\ job'[u] = (IF access[u] = "direct" THEN "none" ELSE job[u])
      BY <1>0, <2>6 DEF Crash, files
    <3> QED BY <1>0, <1>2, <2>9, <3>1, StagingStays DEF LeftInv
  <2>7. CASE Rename(u) \/ SwapFailed(u)
    <3>1. /\ UNCHANGED <<fd, access>>
          /\ staging' = None \/ (staging' = staging /\ access[u] # "direct")
          /\ ~Before(u)' /\ ~Before(u) /\ job'[u] \in {"renamed", "failed"}
      BY <1>0, <2>0, <2>7 DEF Rename, SwapFailed, GiveUp, swapVars, Unmade
    <3>2. ASSUME NEW v \in Updater PROVE Unmade(v)' /\ Cleared(v)'
      <4>0. Unmade(v) /\ Cleared(v) /\ v # None
        BY InstallerAssumption DEF LeftInv, None
      <4>1. CASE v = u
        BY <3>1, <4>0, <4>1 DEF Unmade, Cleared
      <4>2. CASE v # u
        <5>1. phase'[v] = phase[v] /\ job'[v] = job[v]
          BY <2>0, <4>2 DEF Elsewhere
        <5> QED BY <3>1, <4>0, <5>1 DEF Unmade, Cleared
      <4> QED BY <4>1, <4>2
    <3> QED BY <1>0, <2>9, <3>2 DEF LeftInv
  <2>8. CASE OpenStaging(u)
    <3>1. PICK i : /\ i = staging \/ i = u
                   /\ staging' = i /\ fd' = [fd EXCEPT ![u] = i]
      BY <2>8 DEF OpenStaging
    <3>2. /\ job[u] = "open" /\ phase[u] # "ended" /\ job'[u] = "copy" /\ UNCHANGED <<access, phase>>
          /\ i # None
      BY <1>0, <2>8, <3>1, InstallerAssumption DEF OpenStaging, None
    <3>3. fd'[u] = i /\ \A w \in Updater : w # u => fd'[w] = fd[w]
      BY <1>0, <3>1
    <3>4. ASSUME NEW v \in Updater PROVE Unmade(v)' /\ Cleared(v)'
      <4>0. Unmade(v) /\ Cleared(v)
        BY DEF LeftInv
      <4>1. CASE v = u
        <5>1. access[u] = "direct" => phase'[u] = "copying"
          BY <2>0, <3>2 DEF Unmade
        <5>2. ~Before(u)'
          BY <2>0, <3>2 DEF Unmade
        <5> QED BY <3>2, <4>1, <5>1, <5>2 DEF Unmade, Cleared
      <4>2. CASE v # u
        <5>1. phase'[v] = phase[v] /\ job'[v] = job[v]
          BY <2>0, <4>2 DEF Elsewhere
        <5>2. Before(v) \/ job[v] = "open" => staging # v /\ i # v
          BY <3>1, <4>0, <4>2 DEF Unmade
        <5>3. Unmade(v)'
          BY <3>1, <3>2, <3>3, <4>0, <5>1, <5>2 DEF Unmade
        <5>4. fd[v] # u
          BY <2>0, <3>2 DEF Unmade
        <5>5. Cleared(v)'
          BY <3>1, <3>2, <3>3, <4>0, <4>2, <5>1, <5>4 DEF Cleared
        <5> QED BY <5>3, <5>5
      <4> QED BY <4>1, <4>2
    <3> QED BY <1>0, <2>9, <3>4 DEF LeftInv
  <2> QED
    BY <1>2, <2>1, <2>2, <2>3, <2>4, <2>5, <2>6, <2>7, <2>8 DEF Acts, UpdaterStep, SwapJob
<1> QED BY <1>1, <1>2 DEF InstNext, Acts

(* An update that went without sudo leaves nothing beside the binary when it*)
(* ends, failed or not -- and however many others run at the same time, for *)
(* a file that target.new named once is never named by it again after it was*)
(* renamed or removed (swapInPlace).                                        *)
THEOREM NothingIsLeft == InstSpec => []NothingLeft
<1>1. InstInit => LeftInv
  <2> SUFFICES ASSUME InstInit PROVE LeftInv
    OBVIOUS
  <2>1. InstTypeOK
    BY InitInv DEF Inv
  <2>2. ASSUME NEW u \in Updater PROVE Barred(u) /\ Unmade(u) /\ Cleared(u)
    BY InstallerAssumption DEF InstInit, Barred, Unmade, Cleared, Before, None
  <2> QED BY <2>1, <2>2 DEF LeftInv
<1>2. LeftInv => NothingLeft
  <2> SUFFICES ASSUME LeftInv, NEW u \in Updater,
                      phase[u] \in {"ending", "ended"}, staging # None, fd[u] = staging
               PROVE  access[u] = "sudo"
    BY DEF NothingLeft
  <2>1. Barred(u) /\ Cleared(u) /\ InstTypeOK
    BY DEF LeftInv
  <2>2. access[u] # "direct"
    BY <2>1 DEF Cleared
  <2>3. access[u] # "none"
    BY <2>1 DEF Barred
  <2> QED BY <2>1, <2>2, <2>3 DEF InstTypeOK
<1> QED BY <1>1, <1>2, LeftStays, PTL DEF InstSpec

=============================================================================
