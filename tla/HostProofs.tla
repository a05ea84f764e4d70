------------------------------ MODULE HostProofs -------------------------------
(***************************************************************************)
(* What one process is told of its host, for any number of callers, any    *)
(* time to live and any timeout shorter than it, and however often the host*)
(* changes.  The three questions have a lock each and nothing else in      *)
(* common, so the invariant has three parts and each question keeps its    *)
(* own part and leaves the other two alone.                                *)
(***************************************************************************)
EXTENDS Host, TLAPS

PrivilegeKind == {"check", "gate", "doctor"}
Answer == {Nobody} \cup Told \cup Runtime \cup Trail
At     == Kind \cup {"idle", "sudo", "docker", "opening", "chosen"}

HostTypeOK ==
  /\ asking \subseteq Kind \ {"gate"}
  /\ root \in BOOLEAN /\ stateDir \in BOOLEAN
  /\ time \in Nat /\ sudo \in Sudo /\ daemon \in Daemon /\ writable \subseteq Place
  /\ pc \in [Caller -> At]
  /\ mu \in {Free} \cup [by : Caller, since : Nat, for : {"check", "doctor"}]
  /\ memo \in {Nobody} \cup Kept
  /\ box \in {Free} \cup [by : Caller, since : Nat]
  /\ probed \in {Nobody} \cup Runtime
  /\ once \in {Nobody} \cup Caller
  /\ trail \in {Nobody} \cup Trail
  /\ heard \in [Caller -> [Kind -> Answer]]
  /\ was \in [BOOLEAN -> Int]
  /\ asked \in [sudo : Int, apart : Int, daemon : Nat, trail : Nat]

(* Who holds the lock of the privilege question runs sudo, not as root, and *)
(* for no longer than the timeout.                                          *)
SudoIsLocked ==
  /\ \A c \in Caller : pc[c] = "sudo" <=> mu.by = c
  /\ mu # Free => ~root /\ mu.since <= time /\ time - mu.since <= Timeout

(* The answer that is kept was true when it was kept or later, and is older *)
(* than the time it carries says by nothing.                                *)
MemoWasTrue ==
  /\ was[sudo = "grants"] = time
  /\ memo # Nobody =>
       /\ memo.at <= time
       /\ IF root THEN memo.ok ELSE was[memo.ok] >= memo.at

(* What was kept last was asked last.                                       *)
AskedLast ==
  /\ asked.apart >= TTL
  /\ root => asked.sudo = -TTL
  /\ ~root /\ mu = Free =>
       IF memo = Nobody THEN asked.sudo = -TTL ELSE asked.sudo = memo.at
  /\ mu # Free => asked.sudo = mu.since

(* Between envelope and gate no time passes, so what was kept is the answer *)
(* that the envelope was given, and is still good.                          *)
GateFollows ==
  \A c \in Caller :
    IF pc[c] = "gate"
    THEN mu = Free /\ Fresh /\ memo.ok = heard[c]["check"].ok
    ELSE heard[c]["gate"] # Nobody => heard[c]["gate"].ok = heard[c]["check"].ok

PrivilegeInv ==
  SudoIsLocked /\ MemoWasTrue /\ AskedLast /\ GateFollows /\ AnswersAreRecent

(* The daemon is asked by the holder of the lock, before there is an answer,*)
(* and everybody is told that answer.                                       *)
DaemonInv ==
  /\ \A c \in Caller : pc[c] = "docker" <=> box.by = c
  /\ box # Free => probed = Nobody
  /\ box = Free /\ probed = Nobody => asked.daemon = 0
  /\ asked.daemon <= 1
  /\ \A c \in Caller : heard[c]["runtime"] \in {Nobody, probed}

(* One caller opens the trail; it is chosen, then opened, then told.        *)
OpenedInv ==
  /\ asked.trail = IF once = Nobody THEN 0 ELSE 1
  /\ once = Nobody => trail = Nobody
  /\ \A c \in Caller :
       /\ pc[c] = "opening" => once = c /\ trail = Nobody
       /\ pc[c] = "chosen"  => once = c /\ trail # Nobody /\ ~trail.done
       /\ heard[c]["trail"] # Nobody => heard[c]["trail"] = trail /\ trail.done
  /\ trail # Nobody /\ trail.where = "state" => trail.reason

HostInv == HostTypeOK /\ PrivilegeInv /\ DaemonInv /\ OpenedInv

-----------------------------------------------------------------------------
(* The steps of each question, and what the three have in common.           *)

PrivilegeStep(c) == Reuse(c) \/ AskAsRoot(c) \/ AskSudo(c) \/ SudoAnswers(c) \/ SudoTimesOut(c)
DaemonStep(c)    == \/ ReuseRuntime(c) \/ NothingToProbe(c) \/ AskDaemon(c)
                    \/ DaemonAnswers(c) \/ DaemonTimesOut(c)
TrailStep(c)     == OpenTrail(c) \/ AuditPath(c) \/ NewWriter(c) \/ SameTrail(c)

(* Nobody is no caller and no answer, and the lengths are numbers.          *)
LEMMA NobodyIsNothing ==
  /\ Nobody \notin Caller /\ Nobody \notin Kept /\ Nobody \notin Told
  /\ Nobody \notin Runtime /\ Nobody \notin Trail
  /\ TTL \in Nat /\ Timeout \in Nat /\ Budget \in Nat /\ MaxTime \in Nat
  /\ MaxAsks \in Nat /\ MaxChanges \in Nat
  /\ 0 < Timeout /\ Timeout < TTL
<1>1. TTL \in Nat /\ Timeout \in Nat /\ Budget \in Nat /\ MaxTime \in Nat
      /\ MaxAsks \in Nat /\ MaxChanges \in Nat
  BY HostAssumption
<1> QED BY <1>1, HostAssumption

(* Being told an answer moves one caller and changes one of its answers.    *)
LEMMA HearTells ==
  ASSUME HostTypeOK, NEW c \in Caller, NEW kind \in Kind, NEW answer \in Answer, NEW next \in At,
         Hear(c, kind, answer, next)
  PROVE  /\ pc' \in [Caller -> At] /\ heard' \in [Caller -> [Kind -> Answer]]
         /\ pc'[c] = next /\ heard'[c][kind] = answer
         /\ \A d \in Caller : d # c => pc'[d] = pc[d]
         /\ \A d \in Caller, k \in Kind : d # c \/ k # kind => heard'[d][k] = heard[d][k]
BY DEF HostTypeOK, Hear

(* A question of another kind leaves the privilege question as it is.       *)
LEMMA PrivilegeLeft ==
  ASSUME PrivilegeInv, UNCHANGED <<root, time, sudo, mu, memo, was>>,
         asked'.sudo = asked.sudo, asked'.apart = asked.apart,
         \A c \in Caller :
           /\ pc'[c] = "sudo" <=> pc[c] = "sudo"
           /\ pc'[c] = "gate" <=> pc[c] = "gate"
           /\ \A k \in PrivilegeKind : heard'[c][k] = heard[c][k]
  PROVE  PrivilegeInv'
<1> USE DEF PrivilegeInv
<1>1. SudoIsLocked'
  BY DEF SudoIsLocked
<1>2. MemoWasTrue'
  BY DEF MemoWasTrue
<1>3. AskedLast'
  BY DEF AskedLast
<1>4. GateFollows'
  BY DEF GateFollows, Fresh, PrivilegeKind
<1>5. AnswersAreRecent'
  BY DEF AnswersAreRecent, PrivilegeKind
<1> QED BY <1>1, <1>2, <1>3, <1>4, <1>5

(* A step that leaves the question to the daemon and what was heard of it   *)
(* keeps what is known of it.                                               *)
LEMMA DaemonLeft ==
  ASSUME DaemonInv, UNCHANGED <<box, probed>>, asked'.daemon = asked.daemon,
         \A c \in Caller :
           /\ pc'[c] = "docker" <=> pc[c] = "docker"
           /\ heard'[c]["runtime"] = heard[c]["runtime"]
  PROVE  DaemonInv'
BY DEF DaemonInv

(* A step that leaves the trail and what was heard of it keeps what is known*)
(* of it.                                                                   *)
LEMMA OpenedLeft ==
  ASSUME OpenedInv, UNCHANGED <<once, trail>>, asked'.trail = asked.trail,
         \A c \in Caller :
           /\ pc'[c] = "opening" <=> pc[c] = "opening"
           /\ pc'[c] = "chosen" <=> pc[c] = "chosen"
           /\ heard'[c]["trail"] = heard[c]["trail"]
  PROVE  OpenedInv'
BY DEF OpenedInv

-----------------------------------------------------------------------------
(* Before anybody asks, nothing is remembered and nothing was heard.        *)
LEMMA HostInitInv == Init => HostInv
<1> SUFFICES ASSUME Init PROVE HostInv
  OBVIOUS
<1>0. PICK start \in Starts :
        /\ asking = start.asking
        /\ root \in start.root /\ sudo \in start.sudo /\ daemon \in start.daemon
        /\ stateDir \in start.stateDir /\ writable \in start.writable
  BY DEF Init
<1>1. /\ asking \subseteq Kind \ {"gate"} /\ root \in BOOLEAN /\ stateDir \in BOOLEAN
      /\ sudo \in Sudo /\ daemon \in Daemon /\ writable \subseteq Place
  BY <1>0, StartsAssumption
<1>2. \A c \in Caller : pc[c] = "idle" /\ \A k \in Kind : heard[c][k] = Nobody
  BY DEF Init
<1>3. HostTypeOK
  <2>1. heard \in [Caller -> [Kind -> Answer]]
    BY DEF Init, Answer
  <2>2. pc \in [Caller -> At]
    BY DEF Init, At
  <2>3. was \in [BOOLEAN -> Int] /\ asked \in [sudo : Int, apart : Int, daemon : Nat, trail : Nat]
    BY NobodyIsNothing DEF Init
  <2> QED BY <1>1, <2>1, <2>2, <2>3 DEF HostTypeOK, Init
<1>4. PrivilegeInv
  <2>1. SudoIsLocked
    BY <1>2, NobodyIsNothing DEF Init, SudoIsLocked, Free
  <2>2. MemoWasTrue
    BY DEF Init, MemoWasTrue
  <2>3. AskedLast
    BY NobodyIsNothing DEF Init, AskedLast
  <2>4. GateFollows
    BY <1>2 DEF GateFollows, Kind
  <2>5. AnswersAreRecent
    BY <1>2 DEF AnswersAreRecent, Kind
  <2> QED BY <2>1, <2>2, <2>3, <2>4, <2>5 DEF PrivilegeInv
<1>5. DaemonInv
  BY <1>2, NobodyIsNothing DEF Init, DaemonInv, Free, Kind
<1>6. OpenedInv
  BY <1>2 DEF Init, OpenedInv, Kind
<1> QED BY <1>3, <1>4, <1>5, <1>6 DEF HostInv

-----------------------------------------------------------------------------
(* The privilege question. *)

(* Being told whether Tier 2 may escalate: the caller goes on to the gate   *)
(* or is done, nobody else moves and no other answer changes.               *)
LEMMA TellTells ==
  ASSUME HostTypeOK, NEW c \in Caller, NEW kind \in PrivilegeKind, NEW ok \in BOOLEAN,
         Tell(c, kind, ok)
  PROVE  /\ pc' \in [Caller -> At] /\ heard' \in [Caller -> [Kind -> Answer]]
         /\ pc'[c] = (IF kind = "check" THEN "gate" ELSE "idle")
         /\ heard'[c][kind].ok = ok /\ heard'[c][kind].age = time - was[ok]
         /\ heard'[c][kind] # Nobody
         /\ \A d \in Caller : d # c => pc'[d] = pc[d]
         /\ \A d \in Caller, k \in Kind : d # c \/ k # kind => heard'[d][k] = heard[d][k]
<1> DEFINE answer == [ok |-> ok, age |-> time - was[ok]]
           next   == IF kind = "check" THEN "gate" ELSE "idle"
<1>1. answer \in Told
  BY DEF HostTypeOK, Told
<1>2. answer \in Answer /\ answer # Nobody
  BY <1>1, NobodyIsNothing DEF Answer
<1>3. next \in At /\ kind \in Kind
  BY DEF At, Kind, PrivilegeKind
<1>4. Hear(c, kind, answer, next)
  BY DEF Tell
<1>5. answer.ok = ok /\ answer.age = time - was[ok]
  OBVIOUS
<1> HIDE DEF answer, next
<1>6. /\ pc' \in [Caller -> At] /\ heard' \in [Caller -> [Kind -> Answer]]
      /\ pc'[c] = next /\ heard'[c][kind] = answer
      /\ \A d \in Caller : d # c => pc'[d] = pc[d]
      /\ \A d \in Caller, k \in Kind : d # c \/ k # kind => heard'[d][k] = heard[d][k]
  BY <1>2, <1>3, <1>4, HearTells
<1> QED BY <1>2, <1>5, <1>6 DEF next

(* An answer that is kept, fresh and true since, is told: every part of the *)
(* invariant survives, whether it was kept before or just now.              *)
LEMMA TellKeeps ==
  ASSUME HostInv, NEW c \in Caller, NEW kind \in PrivilegeKind, NEW ok \in BOOLEAN,
         Tell(c, kind, ok), UNCHANGED <<root, time, sudo, was, asked>>,
         mu' = Free, memo' # Nobody, memo'.ok = ok, memo'.at \in Nat,
         memo'.at <= time, time - memo'.at < TTL,
         IF root THEN ok ELSE was[ok] >= memo'.at /\ asked.sudo = memo'.at,
         \A d \in Caller : d # c => pc[d] # "sudo" /\ (pc[d] = "gate" => memo' = memo),
         IF kind = "gate" THEN pc[c] = "gate" /\ memo' = memo ELSE pc[c] # "gate"
  PROVE  PrivilegeInv'
<1>0. HostTypeOK /\ MemoWasTrue /\ AskedLast /\ GateFollows /\ AnswersAreRecent /\ SudoIsLocked
  BY DEF HostInv, PrivilegeInv
<1>1. /\ pc'[c] = (IF kind = "check" THEN "gate" ELSE "idle")
      /\ heard'[c][kind].ok = ok /\ heard'[c][kind].age = time - was[ok]
      /\ \A d \in Caller : d # c => pc'[d] = pc[d]
      /\ \A d \in Caller, k \in Kind : d # c \/ k # kind => heard'[d][k] = heard[d][k]
  BY <1>0, TellTells
<1>2. SudoIsLocked'
  BY <1>1, NobodyIsNothing DEF SudoIsLocked, Free
<1>3. MemoWasTrue'
  BY <1>0 DEF MemoWasTrue
<1>4. AskedLast'
  BY <1>0 DEF AskedLast
<1>5. Fresh'
  BY DEF Fresh
<1>6. GateFollows'
  <2> SUFFICES ASSUME NEW d \in Caller
               PROVE  IF pc'[d] = "gate"
                      THEN mu' = Free /\ Fresh' /\ memo'.ok = heard'[d]["check"].ok
                      ELSE heard'[d]["gate"] # Nobody
                             => heard'[d]["gate"].ok = heard'[d]["check"].ok
    BY DEF GateFollows
  <2>1. CASE d # c
    BY <1>0, <1>1, <1>5, <2>1 DEF GateFollows, Kind
  <2>2. CASE d = c /\ kind = "check"
    BY <1>1, <1>5, <2>2
  <2>3. CASE d = c /\ kind = "gate"
    BY <1>0, <1>1, <2>3 DEF GateFollows, Kind
  <2>4. CASE d = c /\ kind = "doctor"
    BY <1>0, <1>1, <2>4 DEF GateFollows, Kind
  <2> QED BY <2>1, <2>2, <2>3, <2>4 DEF PrivilegeKind
<1>7. AnswersAreRecent'
  <2> SUFFICES ASSUME NEW d \in Caller, NEW k \in PrivilegeKind, heard'[d][k] # Nobody
               PROVE  IF root THEN heard'[d][k].ok ELSE heard'[d][k].age < TTL
    BY DEF AnswersAreRecent, PrivilegeKind
  <2>1. CASE d = c /\ k = kind
    <3>1. ~root => time - was[ok] < TTL
      BY <1>0, NobodyIsNothing DEF HostTypeOK
    <3> QED BY <1>1, <2>1, <3>1
  <2>2. CASE ~(d = c /\ k = kind)
    BY <1>0, <1>1, <2>2 DEF AnswersAreRecent, PrivilegeKind, Kind
  <2> QED BY <2>1, <2>2
<1> QED BY <1>2, <1>3, <1>4, <1>6, <1>7 DEF PrivilegeInv

(* An answer that is still good is told again.                              *)
LEMMA ReuseKeeps ==
  ASSUME HostInv, NEW c \in Caller, Reuse(c)
  PROVE  PrivilegeInv' /\ HostTypeOK'
<1>0. HostTypeOK /\ PrivilegeInv /\ SudoIsLocked /\ MemoWasTrue /\ AskedLast /\ GateFollows
  BY DEF HostInv, PrivilegeInv
<1>1. /\ pc[c] \in PrivilegeKind /\ mu = Free /\ Fresh /\ Tell(c, pc[c], memo.ok)
      /\ UNCHANGED <<time, world, asks, gateVars, found, boxVars, auditVars, asked>>
  BY DEF Reuse, Waits, PrivilegeKind
<1>2. memo # Nobody /\ memo.ok \in BOOLEAN /\ memo.at \in Nat /\ time - memo.at < TTL
  BY <1>0, <1>1 DEF HostTypeOK, Fresh, Kept
<1>3. memo.at <= time /\ IF root THEN memo.ok ELSE was[memo.ok] >= memo.at /\ asked.sudo = memo.at
  BY <1>0, <1>1, <1>2 DEF MemoWasTrue, AskedLast, HostTypeOK
<1>4. \A d \in Caller : d # c => pc[d] # "sudo"
  BY <1>0, <1>1, NobodyIsNothing DEF SudoIsLocked, Free
<1>5. PrivilegeInv'
  BY <1>1, <1>2, <1>3, <1>4, TellKeeps DEF world, gateVars
<1>6. pc' \in [Caller -> At] /\ heard' \in [Caller -> [Kind -> Answer]]
  BY <1>0, <1>1, <1>2, TellTells
<1> QED BY <1>0, <1>1, <1>5, <1>6 DEF HostTypeOK, world, gateVars, boxVars, auditVars

(* Root needs no sudo.                                                      *)
LEMMA AskAsRootKeeps ==
  ASSUME HostInv, NEW c \in Caller, AskAsRoot(c)
  PROVE  PrivilegeInv' /\ HostTypeOK'
<1>0. HostTypeOK /\ PrivilegeInv /\ SudoIsLocked /\ MemoWasTrue /\ AskedLast /\ GateFollows
  BY DEF HostInv, PrivilegeInv
<1>1. /\ pc[c] \in PrivilegeKind /\ mu = Free /\ ~Fresh /\ root /\ Tell(c, pc[c], TRUE)
      /\ memo' = [ok |-> TRUE, at |-> time]
      /\ UNCHANGED <<time, world, asks, mu, found, boxVars, auditVars, asked>>
  BY DEF AskAsRoot, Waits, PrivilegeKind
<1>2. memo' \in Kept /\ memo' # Nobody /\ memo'.ok = TRUE /\ memo'.at = time /\ time \in Nat
  <2>1. time \in Nat
    BY <1>0 DEF HostTypeOK
  <2>2. memo' \in Kept
    BY <1>1, <2>1 DEF Kept
  <2> QED BY <1>1, <2>1, <2>2, NobodyIsNothing
<1>3. time - memo'.at < TTL /\ memo'.at <= time
  BY <1>2, NobodyIsNothing
<1>4. \A d \in Caller : pc[d] # "sudo" /\ pc[d] # "gate"
  BY <1>0, <1>1, NobodyIsNothing DEF SudoIsLocked, GateFollows, Free
<1>5. PrivilegeInv'
  BY <1>1, <1>2, <1>3, <1>4, TellKeeps DEF world
<1>6. pc' \in [Caller -> At] /\ heard' \in [Caller -> [Kind -> Answer]]
  BY <1>0, <1>1, TellTells
<1> QED BY <1>0, <1>1, <1>2, <1>5, <1>6 DEF HostTypeOK, world, boxVars, auditVars

(* sudo is asked only when what is kept is too old, so no gate is waiting   *)
(* and the last time is a TTL away.                                         *)
LEMMA AskSudoKeeps ==
  ASSUME HostInv, NEW c \in Caller, AskSudo(c)
  PROVE  PrivilegeInv' /\ HostTypeOK' /\ pc[c] \in {"check", "doctor"}
<1>0. HostTypeOK /\ SudoIsLocked /\ MemoWasTrue /\ AskedLast /\ GateFollows /\ AnswersAreRecent
  BY DEF HostInv, PrivilegeInv
<1>1. /\ pc[c] \in PrivilegeKind /\ mu = Free /\ ~Fresh /\ ~root
      /\ mu' = [by |-> c, since |-> time, for |-> pc[c]]
      /\ pc' = [pc EXCEPT ![c] = "sudo"]
      /\ asked' = [asked EXCEPT !.sudo = time,
                                !.apart = IF @ < time - asked.sudo THEN @ ELSE time - asked.sudo]
      /\ UNCHANGED <<time, world, asks, memo, found, boxVars, auditVars, heard>>
  BY DEF AskSudo, Waits, PrivilegeKind
<1>2. \A d \in Caller : pc[d] # "sudo" /\ pc[d] # "gate"
  BY <1>0, <1>1, NobodyIsNothing DEF SudoIsLocked, GateFollows, Free
<1>3. pc[c] \in {"check", "doctor"}
  BY <1>1, <1>2 DEF PrivilegeKind
<1>4. /\ mu'.by = c /\ mu'.since = time /\ mu' # Free
      /\ mu' \in [by : Caller, since : Nat, for : {"check", "doctor"}]
  BY <1>0, <1>1, <1>3, NobodyIsNothing DEF HostTypeOK, Free
<1>5. /\ asked' \in [sudo : Int, apart : Int, daemon : Nat, trail : Nat]
      /\ asked'.sudo = time
      /\ asked'.apart = IF asked.apart < time - asked.sudo THEN asked.apart ELSE time - asked.sudo
  <2> DEFINE least == IF asked.apart < time - asked.sudo THEN asked.apart ELSE time - asked.sudo
  <2>1. asked' = [asked EXCEPT !.sudo = time, !.apart = least]
    BY <1>1
  <2>2. time \in Int /\ least \in Int
    BY <1>0 DEF HostTypeOK
  <2> HIDE DEF least
  <2>3. /\ asked' \in [sudo : Int, apart : Int, daemon : Nat, trail : Nat]
        /\ asked'.sudo = time /\ asked'.apart = least
    BY <1>0, <2>1, <2>2 DEF HostTypeOK
  <2> QED BY <2>3 DEF least
<1>6. /\ pc' \in [Caller -> At] /\ pc'[c] = "sudo"
      /\ \A d \in Caller : d # c => pc'[d] = pc[d]
  BY <1>0, <1>1 DEF HostTypeOK, At
<1>7. SudoIsLocked'
  BY <1>0, <1>1, <1>2, <1>4, <1>6, NobodyIsNothing DEF SudoIsLocked, world, HostTypeOK
<1>8. MemoWasTrue'
  BY <1>0, <1>1 DEF MemoWasTrue, world
<1>9. AskedLast'
  <2>1. time - asked.sudo >= TTL
    BY <1>0, <1>1, NobodyIsNothing DEF AskedLast, Fresh, HostTypeOK, Kept
  <2> QED BY <1>0, <1>1, <1>4, <1>5, <2>1 DEF AskedLast, world
<1>10. GateFollows'
  BY <1>0, <1>1, <1>2, <1>6 DEF GateFollows
<1>11. AnswersAreRecent'
  BY <1>0, <1>1 DEF AnswersAreRecent, world
<1>12. HostTypeOK'
  BY <1>0, <1>1, <1>4, <1>5, <1>6 DEF HostTypeOK, world, boxVars, auditVars
<1> QED BY <1>3, <1>7, <1>8, <1>9, <1>10, <1>11, <1>12 DEF PrivilegeInv

(* sudo comes back, or does not: what it said, or a refusal, is kept with   *)
(* the time of the question.                                                *)
LEMMA SudoReturnsKeeps ==
  ASSUME HostInv, NEW c \in Caller, SudoAnswers(c) \/ SudoTimesOut(c)
  PROVE  PrivilegeInv' /\ HostTypeOK'
<1>0. HostTypeOK /\ PrivilegeInv /\ SudoIsLocked /\ MemoWasTrue /\ AskedLast /\ GateFollows
  BY DEF HostInv, PrivilegeInv
<1> DEFINE ok == sudo = "grants"
<1>1. /\ mu.by = c /\ mu' = Free /\ memo' = [ok |-> ok, at |-> mu.since] /\ Tell(c, mu.for, ok)
      /\ UNCHANGED <<time, world, asks, found, boxVars, auditVars, asked>>
  <2>1. CASE SudoAnswers(c)
    BY <2>1 DEF SudoAnswers, Keep
  <2>2. CASE SudoTimesOut(c)
    <3>1. ok = FALSE
      BY <2>2 DEF SudoTimesOut
    <3> HIDE DEF ok
    <3> QED BY <2>2, <3>1 DEF SudoTimesOut, Keep
  <2> QED BY <2>1, <2>2
<1>2. ok \in BOOLEAN /\ was[ok] = time
  BY <1>0 DEF MemoWasTrue
<1> HIDE DEF ok
<1>3. /\ mu # Free /\ mu.since \in Nat /\ mu.for \in {"check", "doctor"} /\ ~root
      /\ mu.since <= time /\ time - mu.since <= Timeout /\ pc[c] = "sudo"
      /\ time \in Nat /\ asked.sudo = mu.since
  BY <1>0, <1>1, NobodyIsNothing DEF SudoIsLocked, HostTypeOK, Free, AskedLast
<1>4. memo' \in Kept /\ memo' # Nobody /\ memo'.ok = ok /\ memo'.at = mu.since
  BY <1>1, <1>2, <1>3, NobodyIsNothing DEF Kept
<1>5. time - memo'.at < TTL
  BY <1>3, <1>4, NobodyIsNothing
<1>6. \A d \in Caller : d # c => pc[d] # "sudo" /\ pc[d] # "gate"
  BY <1>0, <1>1, <1>3 DEF SudoIsLocked, GateFollows
<1>7. mu.for \in PrivilegeKind /\ mu.for # "gate" /\ pc[c] # "gate"
  BY <1>3 DEF PrivilegeKind
<1>8. PrivilegeInv'
  BY <1>1, <1>2, <1>3, <1>4, <1>5, <1>6, <1>7, TellKeeps DEF world
<1>9. pc' \in [Caller -> At] /\ heard' \in [Caller -> [Kind -> Answer]]
  BY <1>0, <1>1, <1>2, <1>7, TellTells
<1> QED BY <1>0, <1>1, <1>4, <1>8, <1>9 DEF HostTypeOK, world, boxVars, auditVars

(* The privilege question leaves the other two as they are.                 *)
LEMMA PrivilegeKeeps ==
  ASSUME HostInv, NEW c \in Caller, PrivilegeStep(c)
  PROVE  HostInv'
<1>0. HostTypeOK /\ SudoIsLocked /\ DaemonInv /\ OpenedInv
  BY DEF HostInv, PrivilegeInv
<1>1. PrivilegeInv' /\ HostTypeOK'
  BY ReuseKeeps, AskAsRootKeeps, AskSudoKeeps, SudoReturnsKeeps DEF PrivilegeStep
<1>2. UNCHANGED <<box, probed, once, trail>> /\ asked'.daemon = asked.daemon
      /\ asked'.trail = asked.trail
  BY <1>0 DEF PrivilegeStep, Reuse, AskAsRoot, AskSudo, SudoAnswers, SudoTimesOut, boxVars, auditVars,
              HostTypeOK
<1>3. pc[c] \in {"check", "gate", "doctor", "sudo"}
  BY <1>0 DEF PrivilegeStep, Reuse, AskAsRoot, AskSudo, SudoAnswers, SudoTimesOut, Waits,
              SudoIsLocked
<1> DEFINE OneMoves ==
             /\ pc'[c] \in {"sudo", "gate", "idle"}
             /\ \A d \in Caller : d # c => pc'[d] = pc[d]
             /\ \A d \in Caller : /\ heard'[d]["runtime"] = heard[d]["runtime"]
                                  /\ heard'[d]["trail"] = heard[d]["trail"]
<1>4. OneMoves
  <2>1. ASSUME NEW kind \in PrivilegeKind, NEW ok \in BOOLEAN, Tell(c, kind, ok)
        PROVE  OneMoves
    BY <1>0, <2>1, TellTells DEF PrivilegeKind, Kind
  <2>2. CASE Reuse(c)
    <3>1. pc[c] \in PrivilegeKind /\ memo.ok \in BOOLEAN /\ Tell(c, pc[c], memo.ok)
      BY <1>0, <2>2 DEF Reuse, Waits, PrivilegeKind, Fresh, HostTypeOK, Kept
    <3> QED BY <2>1, <3>1
  <2>3. CASE AskAsRoot(c)
    BY <2>1, <2>3 DEF AskAsRoot, Waits, PrivilegeKind
  <2>4. CASE AskSudo(c)
    BY <1>0, <2>4 DEF AskSudo, HostTypeOK
  <2>5. CASE SudoAnswers(c) \/ SudoTimesOut(c)
    <3>1. mu.by = c /\ \E ok \in BOOLEAN : Tell(c, mu.for, ok)
      BY <2>5 DEF SudoAnswers, SudoTimesOut
    <3>2. mu.for \in PrivilegeKind
      BY <1>0, <3>1, NobodyIsNothing DEF HostTypeOK, PrivilegeKind, Free
    <3> QED BY <2>1, <3>1, <3>2
  <2> QED BY <2>2, <2>3, <2>4, <2>5 DEF PrivilegeStep
<1>5. \A d \in Caller : /\ pc'[d] = "docker" <=> pc[d] = "docker"
                        /\ pc'[d] = "opening" <=> pc[d] = "opening"
                        /\ pc'[d] = "chosen" <=> pc[d] = "chosen"
  BY <1>3, <1>4
<1>6. DaemonInv' /\ OpenedInv'
  BY <1>0, <1>2, <1>4, <1>5, DaemonLeft, OpenedLeft
<1> QED BY <1>1, <1>6 DEF HostInv

-----------------------------------------------------------------------------
(* The container daemon. *)

(* Being told of the daemon or of the trail is the end of a question.       *)
LEMMA ToldAndDone ==
  ASSUME HostTypeOK, NEW c \in Caller, NEW kind \in {"runtime", "trail"}, NEW answer \in Answer,
         Hear(c, kind, answer, "idle")
  PROVE  /\ pc' \in [Caller -> At] /\ heard' \in [Caller -> [Kind -> Answer]]
         /\ pc'[c] = "idle" /\ heard'[c][kind] = answer
         /\ \A d \in Caller : d # c => pc'[d] = pc[d]
         /\ \A d \in Caller, k \in Kind : d # c \/ k # kind => heard'[d][k] = heard[d][k]
<1>1. kind \in Kind /\ "idle" \in At
  BY DEF Kind, At
<1> QED BY <1>1, HearTells

(* The first caller asks it and everybody is told what it answered then.    *)
LEMMA DaemonKeeps ==
  ASSUME HostInv, NEW c \in Caller, DaemonStep(c)
  PROVE  HostInv'
<1> USE DEF DaemonStep, ReuseRuntime, NothingToProbe, AskDaemon, DaemonAnswers, DaemonTimesOut,
            KeepRuntime
<1>0. HostTypeOK /\ PrivilegeInv /\ DaemonInv /\ OpenedInv
  BY DEF HostInv
<1>1. /\ pc[c] \in {"runtime", "docker"}
      /\ UNCHANGED <<time, world, asks, gateVars, found, auditVars>>
      /\ asked'.sudo = asked.sudo /\ asked'.apart = asked.apart /\ asked'.trail = asked.trail
      /\ asked' \in [sudo : Int, apart : Int, daemon : Nat, trail : Nat]
  BY <1>0 DEF HostTypeOK
<1>2. CASE AskDaemon(c)
  <2>1. /\ box = Free /\ probed = Nobody /\ box' = [by |-> c, since |-> time]
        /\ pc' = [pc EXCEPT ![c] = "docker"] /\ UNCHANGED <<probed, heard>>
        /\ asked'.daemon = asked.daemon + 1
    BY <1>0, <1>2 DEF HostTypeOK
  <2>2. /\ box' \in [by : Caller, since : Nat] /\ box' # Free /\ box'.by = c
        /\ pc' \in [Caller -> At] /\ pc'[c] = "docker"
        /\ \A d \in Caller : d # c => pc'[d] = pc[d]
    BY <1>0, <2>1, NobodyIsNothing DEF HostTypeOK, Free, At
  <2>3. DaemonInv'
    <3>1. \A d \in Caller : pc[d] # "docker"
      BY <1>0, <2>1, NobodyIsNothing DEF DaemonInv, Free
    <3>2. asked.daemon = 0
      BY <1>0, <2>1 DEF DaemonInv
    <3> QED BY <1>0, <2>1, <2>2, <3>1, <3>2 DEF DaemonInv
  <2>4. PrivilegeInv' /\ OpenedInv'
    BY <1>0, <1>1, <2>1, <2>2, PrivilegeLeft, OpenedLeft DEF world, gateVars, auditVars
  <2>5. HostTypeOK'
    BY <1>0, <1>1, <2>1, <2>2 DEF HostTypeOK, world, gateVars, auditVars
  <2> QED BY <2>3, <2>4, <2>5 DEF HostInv
<1>3. ASSUME NEW answer \in Runtime, Hear(c, "runtime", answer, "idle"), box' = Free,
             probed' = answer, box = Free => probed \in {Nobody, answer},
             box # Free => box.by = c, asked' = asked
      PROVE  HostInv'
  <2>1. answer # Nobody /\ answer \in Answer
    BY NobodyIsNothing DEF Answer
  <2>2. /\ pc' \in [Caller -> At] /\ heard' \in [Caller -> [Kind -> Answer]]
        /\ pc'[c] = "idle" /\ heard'[c]["runtime"] = answer
        /\ \A d \in Caller : d # c => pc'[d] = pc[d]
        /\ \A d \in Caller, k \in Kind : d # c \/ k # "runtime" => heard'[d][k] = heard[d][k]
    BY <1>0, <1>3, <2>1, ToldAndDone
  <2>3. DaemonInv'
    <3>1. \A d \in Caller : d # c => pc[d] # "docker"
      BY <1>0, <1>3, NobodyIsNothing DEF DaemonInv, Free
    <3>2. \A d \in Caller : pc'[d] # "docker" /\ box'.by # d
      BY <1>3, <2>2, <3>1, NobodyIsNothing DEF Free
    <3>3. \A d \in Caller : heard'[d]["runtime"] \in {Nobody, probed'}
      BY <1>0, <1>3, <2>2 DEF DaemonInv, Kind
    <3> QED BY <1>0, <1>3, <2>1, <3>2, <3>3 DEF DaemonInv
  <2>4. \A d \in Caller, k \in PrivilegeKind \cup {"trail"} : heard'[d][k] = heard[d][k]
    BY <2>2 DEF PrivilegeKind, Kind
  <2>5. \A d \in Caller, at \in {"sudo", "gate", "opening", "chosen"} : pc'[d] = at <=> pc[d] = at
    BY <1>1, <2>2
  <2>6. PrivilegeInv' /\ OpenedInv'
    BY <1>0, <1>1, <2>4, <2>5, PrivilegeLeft, OpenedLeft DEF world, gateVars, auditVars
  <2>7. HostTypeOK'
    BY <1>0, <1>1, <1>3, <2>2 DEF HostTypeOK, world, gateVars, auditVars
  <2> QED BY <2>3, <2>6, <2>7 DEF HostInv
<1>4. CASE ReuseRuntime(c)
  BY <1>0, <1>3, <1>4 DEF boxVars, HostTypeOK
<1>5. CASE NothingToProbe(c)
  BY <1>3, <1>5 DEF Runtime
<1>6. CASE DaemonAnswers(c) \/ DaemonTimesOut(c)
  <2>1. pc[c] = "docker" /\ box.by = c /\ box # Free
    BY <1>0, <1>6, NobodyIsNothing DEF DaemonInv, Free
  <2>2. \E answer \in Runtime : KeepRuntime(c, answer)
    BY <1>0, <1>6 DEF Runtime, HostTypeOK, Daemon
  <2> QED BY <1>3, <2>1, <2>2
<1> QED BY <1>2, <1>4, <1>5, <1>6

-----------------------------------------------------------------------------
(* The trail. *)

(* One caller chooses and opens it; it is told when that is done.           *)
LEMMA TrailKeeps ==
  ASSUME HostInv, NEW c \in Caller, TrailStep(c)
  PROVE  HostInv'
<1> USE DEF TrailStep, OpenTrail, AuditPath, NewWriter, SameTrail
<1>0. HostTypeOK /\ PrivilegeInv /\ DaemonInv /\ OpenedInv
  BY DEF HostInv
<1>1. /\ pc[c] \in {"trail", "opening", "chosen"}
      /\ UNCHANGED <<time, world, asks, gateVars, found, boxVars>>
      /\ asked'.sudo = asked.sudo /\ asked'.apart = asked.apart /\ asked'.daemon = asked.daemon
      /\ asked' \in [sudo : Int, apart : Int, daemon : Nat, trail : Nat]
  BY <1>0 DEF HostTypeOK
<1>2. /\ pc' \in [Caller -> At] /\ heard' \in [Caller -> [Kind -> Answer]]
      /\ pc'[c] \in {"idle", "opening", "chosen"}
      /\ \A d \in Caller : d # c => pc'[d] = pc[d] /\ heard'[d] = heard[d]
      /\ \A k \in Kind : k # "trail" => heard'[c][k] = heard[c][k]
      /\ once' \in {Nobody} \cup Caller /\ trail' \in {Nobody} \cup Trail
      /\ OpenedInv'
  <2>1. CASE OpenTrail(c)
    <3>1. \A d \in Caller : pc[d] # "opening" /\ pc[d] # "chosen"
      BY <1>0, <2>1, NobodyIsNothing DEF OpenedInv
    <3>2. pc' \in [Caller -> At] /\ pc'[c] = "opening" /\ \A d \in Caller : d # c => pc'[d] = pc[d]
      BY <1>0, <2>1 DEF HostTypeOK, At
    <3>3. trail = Nobody /\ asked'.trail = 1 /\ once' = c /\ UNCHANGED <<trail, heard>>
      BY <1>0, <2>1 DEF OpenedInv, HostTypeOK
    <3>4. OpenedInv'
      BY <1>0, <3>1, <3>2, <3>3, NobodyIsNothing DEF OpenedInv
    <3> QED BY <1>0, <3>2, <3>3, <3>4 DEF HostTypeOK
  <2>2. CASE AuditPath(c)
    <3>1. once = c /\ trail = Nobody /\ asked.trail = 1 /\ UNCHANGED <<once, heard, asked>>
      BY <1>0, <2>2, NobodyIsNothing DEF OpenedInv, auditVars
    <3>2. pc' \in [Caller -> At] /\ pc'[c] = "chosen" /\ \A d \in Caller : d # c => pc'[d] = pc[d]
      BY <1>0, <2>2 DEF HostTypeOK, At
    <3>3. /\ trail' \in Trail /\ ~trail'.done
          /\ trail'.where = "state" => trail'.reason
      <4>1. trail' = [where  |-> IF "log" \in writable \/ ~stateDir THEN "log" ELSE "state",
                      reason |-> "log" \notin writable, writer |-> FALSE, done |-> FALSE]
        BY <2>2
      <4> QED BY <4>1 DEF Trail, Place
    <3>4. trail' # Nobody
      BY <3>3, NobodyIsNothing
    <3>5. \A d \in Caller : heard[d]["trail"] = Nobody /\ pc'[d] # "opening"
                            /\ (pc'[d] = "chosen" => d = c)
      BY <1>0, <3>1, <3>2 DEF OpenedInv
    <3>6. OpenedInv'
      BY <1>0, <3>1, <3>3, <3>4, <3>5 DEF OpenedInv
    <3> QED BY <1>0, <3>1, <3>2, <3>3, <3>6 DEF HostTypeOK
  <2>3. CASE NewWriter(c)
    <3>1. once = c /\ trail \in Trail /\ ~trail.done /\ asked.trail = 1 /\ UNCHANGED <<once, asked>>
      BY <1>0, <2>3, NobodyIsNothing DEF OpenedInv, HostTypeOK
    <3>2. /\ trail' \in Trail /\ trail'.done
          /\ trail'.where = trail.where /\ trail'.reason = trail.reason
      <4>1. ASSUME NEW w \in BOOLEAN, NEW t \in BOOLEAN,
                   trail' = [trail EXCEPT !.writer = w, !.done = t]
            PROVE  trail' \in Trail /\ trail'.done = t
                   /\ trail'.where = trail.where /\ trail'.reason = trail.reason
        BY <3>1, <4>1 DEF Trail
      <4>2. trail' = [trail EXCEPT !.writer = trail.where \in writable, !.done = TRUE]
        BY <2>3
      <4>3. (trail.where \in writable) \in BOOLEAN
        OBVIOUS
      <4> QED BY <4>1, <4>2, <4>3
    <3>3. trail' \in Answer /\ trail' # Nobody /\ trail # Nobody
      BY <3>1, <3>2, NobodyIsNothing DEF Answer
    <3>4. /\ pc' \in [Caller -> At] /\ heard' \in [Caller -> [Kind -> Answer]]
          /\ pc'[c] = "idle" /\ heard'[c]["trail"] = trail'
          /\ \A d \in Caller : d # c => pc'[d] = pc[d]
          /\ \A d \in Caller, k \in Kind : d # c \/ k # "trail" => heard'[d][k] = heard[d][k]
      BY <1>0, <2>3, <3>3, ToldAndDone
    <3>5. \A d \in Caller : d # c => /\ heard[d]["trail"] = Nobody
                                     /\ pc[d] # "opening" /\ pc[d] # "chosen"
      BY <1>0, <3>1 DEF OpenedInv
    <3>6. \A d \in Caller : /\ pc'[d] # "opening" /\ pc'[d] # "chosen"
                            /\ heard'[d]["trail"] # Nobody => d = c
      BY <3>4, <3>5 DEF Kind
    <3>7. OpenedInv'
      BY <1>0, <3>1, <3>2, <3>3, <3>4, <3>6 DEF OpenedInv
    <3>8. \A d \in Caller : d # c => heard'[d] = heard[d]
      BY <1>0, <2>3 DEF HostTypeOK, Hear
    <3> QED BY <1>0, <3>1, <3>2, <3>4, <3>7, <3>8 DEF HostTypeOK
  <2>4. CASE SameTrail(c)
    <3>1. trail \in Answer /\ trail # Nobody /\ trail.done /\ UNCHANGED <<once, trail, asked>>
      BY <1>0, <2>4 DEF HostTypeOK, Answer, auditVars
    <3>2. /\ pc' \in [Caller -> At] /\ heard' \in [Caller -> [Kind -> Answer]]
          /\ pc'[c] = "idle" /\ heard'[c]["trail"] = trail
          /\ \A d \in Caller : d # c => pc'[d] = pc[d]
          /\ \A d \in Caller, k \in Kind : d # c \/ k # "trail" => heard'[d][k] = heard[d][k]
      BY <1>0, <2>4, <3>1, ToldAndDone
    <3>3. OpenedInv'
      BY <1>0, <3>1, <3>2 DEF OpenedInv, Kind
    <3>4. \A d \in Caller : d # c => heard'[d] = heard[d]
      BY <1>0, <2>4 DEF HostTypeOK, Hear
    <3> QED BY <1>0, <3>1, <3>2, <3>3, <3>4 DEF HostTypeOK
  <2> QED BY <2>1, <2>2, <2>3, <2>4
<1>3. \A d \in Caller, k \in PrivilegeKind \cup {"runtime"} : heard'[d][k] = heard[d][k]
  BY <1>2 DEF PrivilegeKind, Kind
<1>4. \A d \in Caller, at \in {"sudo", "gate", "docker"} : pc'[d] = at <=> pc[d] = at
  BY <1>1, <1>2
<1>5. PrivilegeInv' /\ DaemonInv'
  BY <1>0, <1>1, <1>3, <1>4, PrivilegeLeft, DaemonLeft DEF world, gateVars, boxVars
<1>6. HostTypeOK'
  BY <1>0, <1>1, <1>2 DEF HostTypeOK, world, gateVars, boxVars
<1> QED BY <1>2, <1>5, <1>6 DEF HostInv

-----------------------------------------------------------------------------
(* The callers, the clock and the host. *)

(* A caller that asks waits outside every lock.                             *)
LEMMA AskKeeps ==
  ASSUME HostInv, NEW c \in Caller, NEW kind \in asking, Ask(c, kind)
  PROVE  HostInv'
<1>0. HostTypeOK /\ PrivilegeInv /\ DaemonInv /\ OpenedInv
  BY DEF HostInv
<1>1. /\ pc[c] = "idle" /\ pc' = [pc EXCEPT ![c] = kind]
      /\ kind \in {"check", "doctor", "runtime", "trail"}
      /\ UNCHANGED <<time, world, gateVars, found, boxVars, auditVars, heard, asked>>
  BY <1>0 DEF Ask, HostTypeOK, Kind
<1>2. /\ pc' \in [Caller -> At] /\ pc'[c] = kind
      /\ \A d \in Caller : d # c => pc'[d] = pc[d]
  BY <1>0, <1>1 DEF HostTypeOK, At, Kind
<1>3. \A d \in Caller, at \in {"sudo", "gate", "docker", "opening", "chosen"} :
        pc'[d] = at <=> pc[d] = at
  BY <1>1, <1>2
<1>4. PrivilegeInv' /\ DaemonInv' /\ OpenedInv'
  BY <1>0, <1>1, <1>3, PrivilegeLeft, DaemonLeft, OpenedLeft DEF world, gateVars, boxVars, auditVars
<1>5. HostTypeOK'
  BY <1>0, <1>1, <1>2 DEF HostTypeOK, world, gateVars, boxVars, auditVars
<1> QED BY <1>4, <1>5 DEF HostInv

(* Time passes while sudo is within its timeout and nobody is at the gate.  *)
LEMMA TickKeeps == HostInv /\ Tick => HostInv'
<1> SUFFICES ASSUME HostInv, Tick PROVE HostInv'
  OBVIOUS
<1>0. HostTypeOK /\ SudoIsLocked /\ MemoWasTrue /\ AskedLast /\ GateFollows /\ AnswersAreRecent
      /\ DaemonInv /\ OpenedInv
  BY DEF HostInv, PrivilegeInv
<1>1. /\ \A c \in Caller : pc[c] # "gate"
      /\ mu # Free => time - mu.since < Timeout
      /\ time' = time + 1 /\ time \in Nat
      /\ UNCHANGED <<asking, root, stateDir, sudo, daemon, writable, pc, gateVars, boxVars,
                     auditVars, heard, asked>>
  BY <1>0 DEF Tick, GateFollows, HostTypeOK
<1>2. /\ was' \in [BOOLEAN -> Int] /\ was'[sudo = "grants"] = time'
      /\ \A ok \in BOOLEAN : was'[ok] >= was[ok]
  <2>1. was' = [was EXCEPT ![sudo = "grants"] = time + 1]
    BY DEF Tick
  <2>2. (sudo = "grants") \in BOOLEAN
    OBVIOUS
  <2>3. ASSUME NEW g \in BOOLEAN, was' = [was EXCEPT ![g] = time + 1], was[g] = time
        PROVE  /\ was' \in [BOOLEAN -> Int] /\ was'[g] = time + 1
               /\ \A ok \in BOOLEAN : was'[ok] >= was[ok]
    BY <1>0, <1>1, <2>3 DEF HostTypeOK
  <2>4. was[sudo = "grants"] = time
    BY <1>0 DEF MemoWasTrue
  <2> QED BY <1>1, <2>1, <2>2, <2>3, <2>4
<1>3. SudoIsLocked'
  BY <1>0, <1>1, NobodyIsNothing DEF SudoIsLocked, HostTypeOK, gateVars
<1>4. MemoWasTrue'
  <2>1. ASSUME memo # Nobody, ~root
        PROVE  was'[memo.ok] >= memo.at
    BY <1>0, <1>1, <1>2, <2>1 DEF MemoWasTrue, HostTypeOK, Kept
  <2>2. memo # Nobody => memo.at <= time'
    BY <1>0, <1>1 DEF MemoWasTrue, HostTypeOK, Kept
  <2> QED BY <1>0, <1>1, <1>2, <2>1, <2>2 DEF MemoWasTrue, gateVars
<1>5. AskedLast'
  BY <1>0, <1>1 DEF AskedLast, gateVars
<1>6. GateFollows'
  BY <1>0, <1>1 DEF GateFollows
<1>7. AnswersAreRecent'
  BY <1>0, <1>1 DEF AnswersAreRecent
<1>8. DaemonInv' /\ OpenedInv'
  BY <1>0, <1>1, DaemonLeft, OpenedLeft DEF boxVars, auditVars
<1>9. HostTypeOK'
  BY <1>0, <1>1, <1>2 DEF HostTypeOK, gateVars, boxVars, auditVars
<1> QED BY <1>3, <1>4, <1>5, <1>6, <1>7, <1>8, <1>9 DEF HostInv, PrivilegeInv

(* The host changes, and what was true a moment ago is still remembered.    *)
LEMMA ChangeKeeps == HostInv /\ Change => HostInv'
<1> SUFFICES ASSUME HostInv, Change PROVE HostInv'
  OBVIOUS
<1>0. HostTypeOK /\ SudoIsLocked /\ MemoWasTrue /\ AskedLast /\ GateFollows /\ AnswersAreRecent
      /\ DaemonInv /\ OpenedInv
  BY DEF HostInv, PrivilegeInv
<1>1. /\ sudo' \in Sudo /\ daemon' \in Daemon /\ writable' \subseteq Place
      /\ UNCHANGED <<asking, root, stateDir, time, pc, gateVars, boxVars, auditVars, heard, asked>>
      /\ was' = [was EXCEPT ![sudo' = "grants"] = time]
  BY <1>0 DEF Change, HostTypeOK
<1>2. /\ was' \in [BOOLEAN -> Int] /\ was'[sudo' = "grants"] = time'
      /\ \A ok \in BOOLEAN : was'[ok] = was[ok] \/ was'[ok] = time
  <2>1. (sudo' = "grants") \in BOOLEAN
    OBVIOUS
  <2>2. ASSUME NEW g \in BOOLEAN, was' = [was EXCEPT ![g] = time]
        PROVE  /\ was' \in [BOOLEAN -> Int] /\ was'[g] = time
               /\ \A ok \in BOOLEAN : was'[ok] = was[ok] \/ was'[ok] = time
    BY <1>0, <2>2 DEF HostTypeOK
  <2> QED BY <1>1, <2>1, <2>2
<1>3. SudoIsLocked'
  BY <1>0, <1>1 DEF SudoIsLocked, gateVars
<1>4. MemoWasTrue'
  <2>1. ASSUME memo # Nobody, ~root
        PROVE  was'[memo.ok] >= memo.at
    BY <1>0, <1>1, <1>2, <2>1 DEF MemoWasTrue, HostTypeOK, Kept
  <2> QED BY <1>0, <1>1, <1>2, <2>1 DEF MemoWasTrue, gateVars
<1>5. AskedLast' /\ GateFollows' /\ AnswersAreRecent'
  BY <1>0, <1>1 DEF AskedLast, GateFollows, AnswersAreRecent, Fresh, gateVars
<1>6. DaemonInv' /\ OpenedInv'
  BY <1>0, <1>1, DaemonLeft, OpenedLeft DEF boxVars, auditVars
<1>7. HostTypeOK'
  BY <1>0, <1>1, <1>2 DEF HostTypeOK, gateVars, boxVars, auditVars
<1> QED BY <1>3, <1>4, <1>5, <1>6, <1>7 DEF HostInv, PrivilegeInv

(* The invariant is inductive.                                              *)
LEMMA HostInvStays == HostInv /\ [Next]_hostVars => HostInv'
<1> SUFFICES ASSUME HostInv, [Next]_hostVars PROVE HostInv'
  OBVIOUS
<1>1. CASE UNCHANGED hostVars
  BY <1>1 DEF hostVars, HostInv, HostTypeOK, PrivilegeInv, SudoIsLocked, MemoWasTrue, AskedLast,
              GateFollows, Fresh, AnswersAreRecent, DaemonInv, OpenedInv
<1>2. ASSUME NEW c \in Caller,
             (\E kind \in asking : Ask(c, kind)) \/ PrivilegeStep(c) \/ DaemonStep(c) \/ TrailStep(c)
      PROVE  HostInv'
  BY <1>2, AskKeeps, PrivilegeKeeps, DaemonKeeps, TrailKeeps
<1> QED BY <1>1, <1>2, TickKeeps, ChangeKeeps DEF Next, PrivilegeStep, DaemonStep, TrailStep

(* The invariant holds of every process on every host: the locks have one   *)
(* holder, what is kept was true since, the gate follows its envelope       *)
(* (Prober.probe, Resolved.Runtime, Resolved.Audit).                        *)
THEOREM HostInvariant == Spec => []HostInv
<1> QED BY HostInitInv, HostInvStays, PTL DEF Spec

(* Whatever TTL and timeout, and however often rights come and go, an answer*)
(* about sudo was true at a moment less than the TTL before it was given,   *)
(* although a refusal after a timeout is kept and the stamp is older than   *)
(* the answer (Prober.probe).                                               *)
THEOREM AnswersAlwaysRecent == Spec => []AnswersAreRecent
<1>1. HostInv => AnswersAreRecent
  BY DEF HostInv, PrivilegeInv
<1> QED BY <1>1, HostInvariant, PTL

(* However many callers arrive together, sudo is asked once in a TTL and by *)
(* root never, the daemon once and the trail opened once (Prober.probe,     *)
(* Resolved.Runtime, auditOnce.Do).                                         *)
THEOREM EachAskedOnce == Spec => []OneQuestion
<1>1. HostInv => OneQuestion
  <2> SUFFICES ASSUME HostInv PROVE OneQuestion
    OBVIOUS
  <2>1. asked.apart >= TTL /\ (root => asked.sudo < 0)
    BY NobodyIsNothing DEF HostInv, PrivilegeInv, AskedLast
  <2>2. asked.daemon <= 1
    BY DEF HostInv, DaemonInv
  <2>3. asked.trail <= 1
    BY DEF HostInv, OpenedInv
  <2> QED BY <2>1, <2>2, <2>3 DEF OneQuestion
<1> QED BY <1>1, HostInvariant, PTL

(* A document is of one piece for any number of callers: gate and envelope  *)
(* agree, and all are told the same of the daemon and of the trail          *)
(* (CanTier2 and State of one Prober, Resolved.Runtime, Resolved.Audit).    *)
THEOREM DocumentsAgree == Spec => []HostAgrees
<1>1. HostInv => HostAgrees
  <2> SUFFICES ASSUME HostInv PROVE HostAgrees
    OBVIOUS
  <2>0. HostTypeOK /\ GateFollows /\ DaemonInv /\ OpenedInv
    BY DEF HostInv, PrivilegeInv
  <2>1. \A c \in Caller :
          pc[c] \notin {"gate", "sudo"} /\ heard[c]["gate"] # Nobody
            => heard[c]["gate"].ok = heard[c]["check"].ok
    BY <2>0 DEF GateFollows
  <2>2. \A c, d \in Caller, kind \in {"runtime", "trail"} :
          heard[c][kind] # Nobody /\ heard[d][kind] # Nobody => heard[c][kind] = heard[d][kind]
    BY <2>0 DEF DaemonInv, OpenedInv
  <2>3. \A c \in Caller :
          heard[c]["trail"] # Nobody =>
            heard[c]["trail"].done
            /\ (heard[c]["trail"].where = "state" => heard[c]["trail"].reason)
    BY <2>0 DEF OpenedInv
  <2> QED BY <2>1, <2>2, <2>3 DEF HostAgrees
<1> QED BY <1>1, HostInvariant, PTL

=============================================================================
