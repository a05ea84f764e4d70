------------------------------ MODULE Installer ------------------------------
(***************************************************************************)
(* internal/updater/installer.go behind `fleetfix update --apply`: download*)
(* a release into a private directory, check its digest, copy it beside the*)
(* installed binary and rename it over that, directly or through two sudo  *)
(* commands -- as one audited action.  Each updater is one process, and    *)
(* installs a release of its own; what they share is the target and the    *)
(* staging name beside it, which is the target's with ".new" behind it.    *)
(***************************************************************************)
EXTENDS Integers, Sequences, FiniteSets, SequencesExt

CONSTANTS
  Updater,    (* the processes, and the release each of them installs    *)
  Original,   (* the binary that is installed to begin with              *)
  Junk,       (* bytes that are of no release: holes, a portal's page    *)
  Chunks,     (* how many writes it takes to copy a binary               *)
  Overlap     (* whether updates of one host overlap                     *)

ASSUME InstallerAssumption ==
  /\ Original \notin Updater /\ Junk \notin Updater \union {Original}
  /\ "none" \notin Updater \union {Original}
  /\ Chunks \in Nat \ {0}
  /\ Overlap \in BOOLEAN

VARIABLES
  disk,      (* what each inode holds, one entry per chunk               *)
  target,    (* the inode the installed path names                       *)
  staging,   (* the inode target.new names, or None                      *)
  access,    (* how an updater may write there: "direct", "sudo", "none" *)
  phase,     (* where each updater is                                    *)
  got,       (* what it downloaded into its private directory            *)
  job,       (* what the swap is doing: by itself, or a command of sudo's*)
  fd, at,    (* the inode the copy writes to and how far it has read     *)
  err,       (* what the action returns: no error yet, one, or a sudo    *)
             (* command that was cut off: "ok", "error", "timeout"       *)
  intent,    (* whether its intent line is in the trail                  *)
  result     (* what its result line says, "none" when there is no line  *)

instVars  == <<disk, target, staging, access, phase, got, job, fd, at, err, intent, result>>
files     == <<disk, target, staging>>
swapVars  == <<job, fd, at>>
trailVars == <<intent, result>>

None  == "none"
Inode == {Original} \union Updater    \* an updater creates one at most
Chunk == Inode \union {Junk}

Phase  == {"idle", "refused", "begun", "downloaded", "verified", "copying", "moving",
        "ending", "ended", "dead"}
Job == {"none", "open", "copy", "copied", "rename", "renamed", "failed"}
Err == {"ok", "error", "timeout"}

Binary(r) == [k \in 1 .. Chunks |-> r]

(* Answer without maxAsset. *)
AnswerUncapped(u) == {Binary(u), Append(Binary(u), Junk)}

(* What may answer the asset's URL and end without an error: the release,   *)
(* a transfer cut short, something else.                                    *)
Answer(u) == {Binary(u), Binary(Junk), SubSeq(Binary(u), 1, Chunks - 1)}

AtWork(u)  == phase[u] \in {"begun", "downloaded", "verified", "copying", "moving", "ending"}
Working(u) == AtWork(u) \/ job[u] \in {"open", "copy", "rename"}

-----------------------------------------------------------------------------
InstInit ==
  /\ disk = [i \in Inode |-> IF i = Original THEN Binary(Original) ELSE <<>>]
  /\ target = Original
  /\ staging = None
  /\ access \in [Updater -> {"direct", "sudo", "none"}]
  /\ phase = [u \in Updater |-> "idle"]
  /\ got = [u \in Updater |-> <<>>]
  /\ job = [u \in Updater |-> "none"]
  /\ fd = [u \in Updater |-> None]
  /\ at = [u \in Updater |-> 0]
  /\ err = [u \in Updater |-> "ok"]
  /\ intent = [u \in Updater |-> FALSE]
  /\ result = [u \in Updater |-> "none"]

(* updatecmd.apply: no way to write there, or no trail to write to. *)
RefuseUpdate(u) ==
  /\ phase[u] = "idle"
  /\ phase' = [phase EXCEPT ![u] = "refused"]
  /\ UNCHANGED <<files, access, got, swapVars, err, trailVars>>

(* Writer.Do: the intent line is written, or its append fails; the action   *)
(* begins either way, and no build installs the OnError that would hear of  *)
(* it.                                                                      *)
Begin(u) ==
  /\ phase[u] = "idle" /\ access[u] # "none"
  /\ Overlap \/ \A v \in Updater : ~Working(v)
  /\ phase' = [phase EXCEPT ![u] = "begun"]
  /\ \E written \in BOOLEAN : intent' = [intent EXCEPT ![u] = written]
  /\ UNCHANGED <<files, access, got, swapVars, err, result>>

(* The action returns the error e: its result line comes next. *)
GiveUp(u, e) ==
  /\ phase' = [phase EXCEPT ![u] = "ending"]
  /\ err' = [err EXCEPT ![u] = e]

(* stage and download; what was downloaded stays in the private directory.  *)
Download(u) ==
  /\ phase[u] = "begun"
  /\ \/ /\ \E content \in Answer(u) : got' = [got EXCEPT ![u] = content]
        /\ phase' = [phase EXCEPT ![u] = "downloaded"]
        /\ UNCHANGED err
     \/ GiveUp(u, "error") /\ UNCHANGED got
  /\ UNCHANGED <<files, access, swapVars, trailVars>>

(* Verify without the comparison. *)
VerifyNothing(u) ==
  /\ phase[u] = "downloaded"
  /\ \/ phase' = [phase EXCEPT ![u] = "verified"] /\ UNCHANGED err
     \/ GiveUp(u, "error")
  /\ UNCHANGED <<files, access, got, swapVars, trailVars>>

(* fetchText, ParseSHA256Line, sha256File: the digest the release published *)
(* is that of Binary(u); it may be unreachable or missing from the list.    *)
Verify(u) ==
  /\ phase[u] = "downloaded"
  /\ \/ /\ got[u] = Binary(u)
        /\ phase' = [phase EXCEPT ![u] = "verified"]
        /\ UNCHANGED err
     \/ GiveUp(u, "error")
  /\ UNCHANGED <<files, access, got, swapVars, trailVars>>

(* swap: open target.new, by oneself or through `sudo -n install`. *)
StartSwap(u) ==
  /\ phase[u] = "verified"
  /\ phase' = [phase EXCEPT ![u] = "copying"]
  /\ job' = [job EXCEPT ![u] = "open"]
  /\ UNCHANGED <<files, access, got, fd, at, err, trailVars>>

-----------------------------------------------------------------------------
(* The copy and the rename.  Through sudo these are steps of other processes*)
(* that end when they do, whatever has become of the updater.               *)

(* O_CREATE|O_TRUNC takes over the file that is there and empties it;       *)
(* install(1) unlinks it and makes its own.                                 *)
OpenStaging(u) ==
  LET i == IF access[u] = "direct" /\ staging # None THEN staging ELSE u IN
  /\ job[u] = "open" /\ phase[u] # "ended"     \* the download is still there
  /\ staging' = i
  /\ disk' = [disk EXCEPT ![i] = <<>>]
  /\ fd' = [fd EXCEPT ![u] = i]
  /\ job' = [job EXCEPT ![u] = "copy"]
  /\ UNCHANGED <<target, access, phase, got, at, err, trailVars>>

(* The chunk c written to file s at position k, over what is there or       *)
(* behind a hole.                                                           *)
WriteAt(s, k, c) ==
  [n \in 1 .. (IF Len(s) > k THEN Len(s) ELSE k) |->
     IF n = k THEN c ELSE IF n \in DOMAIN s THEN s[n] ELSE Junk]

CopyChunk(u) ==
  /\ job[u] = "copy"
  /\ IF at[u] < Len(got[u])
       THEN /\ disk' = [disk EXCEPT ![fd[u]] = WriteAt(@, at[u] + 1, got[u][at[u] + 1])]
            /\ at' = [at EXCEPT ![u] = @ + 1]
            /\ UNCHANGED job
       ELSE /\ job' = [job EXCEPT ![u] = "copied"]
            /\ UNCHANGED <<disk, at>>
  /\ UNCHANGED <<target, staging, access, phase, got, fd, err, trailVars>>

(* os.Rename, or mv -f, of whatever target.new names by now. *)
Rename(u) ==
  /\ job[u] = "rename" /\ staging # None
  /\ target' = staging
  /\ staging' = None
  /\ job' = [job EXCEPT ![u] = "renamed"]
  /\ UNCHANGED <<disk, access, phase, got, fd, at, err, trailVars>>

(* An open, a write or a rename fails, or sudo has no credential; a rename  *)
(* does when target.new is not there any more.                              *)
StepFails(u) ==
  /\ job[u] \in {"open", "copy", "rename"}
  /\ job' = [job EXCEPT ![u] = "failed"]
  /\ UNCHANGED <<files, access, phase, got, fd, at, err, trailVars>>

SwapJob(u) == OpenStaging(u) \/ CopyChunk(u) \/ Rename(u) \/ StepFails(u)

-----------------------------------------------------------------------------
(* The copy is complete: the rename comes next -- for copyExecutable after a*)
(* chmod by name, which fails when the name is gone.                        *)
StartRename(u) ==
  /\ phase[u] = "copying" /\ job[u] = "copied"
  /\ IF access[u] = "direct" /\ staging = None
       THEN job' = [job EXCEPT ![u] = "failed"] /\ UNCHANGED phase
       ELSE /\ job' = [job EXCEPT ![u] = "rename"]
            /\ phase' = [phase EXCEPT ![u] = "moving"]
  /\ UNCHANGED <<files, access, got, fd, at, err, trailVars>>

Installed(u) ==
  /\ phase[u] = "moving" /\ job[u] = "renamed"
  /\ phase' = [phase EXCEPT ![u] = "ending"]
  /\ UNCHANGED <<files, access, got, swapVars, err, trailVars>>

(* SwapFailed with what was staged left behind. *)
SwapFailedLeaving(u) ==
  /\ phase[u] \in {"copying", "moving"} /\ job[u] = "failed"
  /\ GiveUp(u, "error")
  /\ UNCHANGED <<files, access, got, swapVars, trailVars>>

(* SwapFailed with its error dropped on the way to Do. *)
SwapFailedUnsaid(u) ==
  /\ phase[u] \in {"copying", "moving"} /\ job[u] = "failed"
  /\ phase' = [phase EXCEPT ![u] = "ending"]
  /\ staging' = IF access[u] = "direct" THEN None ELSE staging
  /\ UNCHANGED <<disk, target, access, got, swapVars, err, trailVars>>

(* swapInPlace removes target.new when a step of it fails; sudoSwap leaves  *)
(* what there is.                                                           *)
SwapFailed(u) ==
  /\ phase[u] \in {"copying", "moving"} /\ job[u] = "failed"
  /\ GiveUp(u, "error")
  /\ staging' = IF access[u] = "direct" THEN None ELSE staging
  /\ UNCHANGED <<disk, target, access, got, swapVars, trailVars>>

(* swapTimeout: cmdrun.Run reports the deadline whatever the command did.   *)
(* The kill reaches the command, or only sudo in front of it.               *)
TimeOut(u) ==
  /\ phase[u] \in {"copying", "moving"} /\ access[u] = "sudo"
  /\ GiveUp(u, "timeout")
  /\ \E j \in {job[u], "none"} : job' = [job EXCEPT ![u] = j]
  /\ UNCHANGED <<files, access, got, fd, at, trailVars>>

(* The private directory is removed and the result line written, or lost to *)
(* an append that failed (finish drops its error too).                      *)
End(u) ==
  /\ phase[u] = "ending"
  /\ result' \in {result, [result EXCEPT ![u] = err[u]]}
  /\ phase' = [phase EXCEPT ![u] = "ended"]
  /\ UNCHANGED <<files, access, got, swapVars, err, intent>>

(* The updater is killed; its own copy ends with it, a sudo command does not*)
Crash(u) ==
  /\ AtWork(u)
  /\ phase' = [phase EXCEPT ![u] = "dead"]
  /\ job' = IF access[u] = "direct" THEN [job EXCEPT ![u] = "none"] ELSE job
  /\ UNCHANGED <<files, access, got, fd, at, err, trailVars>>

UpdaterStep(u) ==
  Download(u) \/ Verify(u) \/ StartSwap(u) \/ StartRename(u) \/ Installed(u)
  \/ SwapFailed(u) \/ TimeOut(u) \/ End(u)

InstNext ==
  \E u \in Updater :
    RefuseUpdate(u) \/ Begin(u) \/ UpdaterStep(u) \/ SwapJob(u) \/ Crash(u)

InstSpec == InstInit /\ [][InstNext]_instVars

-----------------------------------------------------------------------------
(* Properties *)

(* Every variable has its type. *)
InstTypeOK ==
  /\ disk \in [Inode -> Seq(Chunk)]
  /\ target \in Inode
  /\ staging \in Inode \union {None}
  /\ access \in [Updater -> {"direct", "sudo", "none"}]
  /\ phase \in [Updater -> Phase]
  /\ got \in [Updater -> Seq(Chunk)]
  /\ \A u \in Updater : Len(got[u]) <= Chunks       \* maxAsset
  /\ job \in [Updater -> Job]
  /\ fd \in [Updater -> Inode \union {None}]
  /\ at \in [Updater -> 0 .. Chunks]
  /\ err \in [Updater -> Err]
  /\ intent \in [Updater -> BOOLEAN]
  /\ result \in [Updater -> Err \union {"none"}]

(* installer.go says of the rename that a concurrent exec either gets the  *)
(* whole old file or the whole new one, and never a half-written one.  With *)
(* updates that do not overlap it is so, whatever was left by a failed,     *)
(* tampered or truncated download or by a copy that a crash cut off.        *)
NeverHalfWritten == \E r \in Inode : disk[target] = Binary(r)

(* What the trail says of u in a step: a result line that says ok is written*)
(* over u's release and one that reports an error over another; and what is *)
(* installed becomes u's release only while u's result is open, or its line *)
(* says that sudo ran out of time.                                          *)
TrailStep(u) ==
  /\ result'[u] # result[u] =>
       /\ result'[u] = "ok" => disk[target] = Binary(u)
       /\ result'[u] = "error" => disk[target] # Binary(u)
  /\ (disk'[target'] # disk[target] /\ disk'[target'] = Binary(u)) =>
       phase[u] \notin {"idle", "refused"} /\ result[u] \in {"none", "timeout"}

(* What the trail says of every update is so, also when sudo did the work,  *)
(* and stays so: only the mv of a sudo that was reported as timed out may   *)
(* still land.                                                              *)
TrailAccounts == [][\A u \in Updater : TrailStep(u)]_instVars

(* updatecmd.go refuses to install without a trail, because an unrecorded   *)
(* binary swap is how a fleet ends up with a version nobody can account for.*)
(* The writer opens, its append fails, and the swap goes on.                *)
SwapIsRecorded == \A u \in Updater : disk[target] = Binary(u) => intent[u]

(* An update that leaves by itself, without sudo, leaves nothing beside the *)
(* binary; what a crashed or timed-out one left does not stop the next.     *)
NothingLeft ==
  \A u \in Updater :
    (phase[u] \in {"ending", "ended"} /\ staging # None /\ fd[u] = staging)
      => access[u] = "sudo"

=============================================================================
