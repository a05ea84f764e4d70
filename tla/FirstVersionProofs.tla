------------------------- MODULE FirstVersionProofs --------------------------
(***************************************************************************)
(* The two modelled parts of the first version, which share nothing.       *)
(*                                                                         *)
(* The network pane implements LatestAnswer step by step, for any number   *)
(* of buttons pressed, of targets and of rungs, whatever the threads of    *)
(* earlier buttons do and when: the safety half of ShowsTheLatest.  That   *)
(* there will be an outcome rests on fairness and is left to TLC.          *)
(*                                                                         *)
(* squeeze_log loses no line of the log it was given, however long the     *)
(* log, however many squeezes follow one another and whatever rotates, is  *)
(* appended, fails or dies between any two calls.                          *)
(***************************************************************************)
EXTENDS NetworkView, LogSqueeze, SequenceTheorems, TLAPS

(* The network pane. *)

PaneTypeOK ==
  /\ probeSeq \in 0 .. MaxAsks
  /\ verdict \in [of : Nat, settled : BOOLEAN]
  /\ rawLines \in Seq([of : Nat, n : Nat])
  /\ kind \in [Request -> {"none", "probe", "set", "ladder", "refused"}]
  /\ at \in [Request -> {"none", "pending", "probing", "answer", "check", "stepping",
                         "line", "summary", "gone"}]
  /\ step \in [Request -> Nat]

(* A request that was not made yet has no thread. *)
NotYet == \A r \in Request : r > probeSeq => at[r] = "none" /\ step[r] = 0

(* The pane shows as much of the latest request as its thread has handed    *)
(* over: it is one line behind while a line is on its way, it has them all  *)
(* when the summary is, and the thread is gone once there is an outcome.    *)
LatestShown ==
  probeSeq # 0 =>
    LET r == probeSeq IN
    /\ verdict.settled <=> at[r] \in {"none", "gone"}
    /\ at[r] = "pending" => step[r] = 0 /\ rawLines = <<>>
    /\ at[r] \in {"probing", "answer"} => kind[r] = "probe" /\ rawLines = <<>>
    /\ at[r] \in {"check", "stepping", "summary"} => step[r] = Len(rawLines)
    /\ at[r] = "line" => step[r] = Len(rawLines) + 1 /\ step[r] <= Steps(kind[r])
    /\ at[r] = "stepping" => step[r] < Steps(kind[r])
    /\ at[r] = "summary" => step[r] = Steps(kind[r])

PaneInv == PaneTypeOK /\ NotYet /\ LatestShown /\ verdict.of = probeSeq

(* Every kind of request has a number of steps.                             *)
LEMMA StepsAreCounted == \A k : Steps(k) \in Nat
BY NetworkViewAssumption DEF Steps

(* The requests are numbered from one.                                      *)
LEMMA RequestsAreNumbers == \A r : r \in Request <=> r \in Nat /\ 1 <= r /\ r <= MaxAsks
BY NetworkViewAssumption DEF Request

(* Before the first button nothing is shown, which is the latest there is.  *)
LEMMA PaneStarts == PaneInit => PaneInv
<1> SUFFICES ASSUME PaneInit PROVE PaneInv
  OBVIOUS
<1> USE NetworkViewAssumption DEF PaneInit
<1>1. rawLines \in Seq([of : Nat, n : Nat])
  OBVIOUS
<1>2. PaneTypeOK
  BY <1>1 DEF PaneTypeOK
<1>3. NotYet /\ LatestShown /\ verdict.of = probeSeq
  BY DEF NotYet, LatestShown
<1> QED BY <1>2, <1>3 DEF PaneInv

(* A button makes the next request, which nobody works for yet.             *)
LEMMA ButtonKeeps ==
  ASSUME PaneInv, NEW k \in {"probe", "set", "ladder"}, Start(k) \/ Refuse
  PROVE  PaneInv'
<1> DEFINE r == probeSeq + 1
<1>0. PaneTypeOK /\ NotYet
  BY DEF PaneInv
<1>1. /\ probeSeq \in Nat /\ probeSeq < MaxAsks /\ probeSeq' = r
      /\ r \in Request /\ r # 0 /\ r > probeSeq /\ r \in 0 .. MaxAsks
      /\ rawLines' = <<>> /\ rawLines' \in Seq([of : Nat, n : Nat])
      /\ UNCHANGED step
  <2>1. probeSeq \in Nat /\ MaxAsks \in Nat
    BY <1>0, NetworkViewAssumption DEF PaneTypeOK
  <2>2. probeSeq < MaxAsks /\ probeSeq' = r /\ rawLines' = <<>> /\ UNCHANGED step
    BY DEF Start, Refuse, Show
  <2>3. <<>> \in Seq([of : Nat, n : Nat])
    OBVIOUS
  <2>4. r \in Request /\ r # 0 /\ r > probeSeq /\ r \in 0 .. MaxAsks
    BY <2>1, <2>2 DEF Request
  <2> QED BY <2>1, <2>2, <2>3, <2>4
<1>2. at[r] = "none" /\ step[r] = 0
  BY <1>0, <1>1 DEF NotYet
<1> HIDE DEF r
<1>3. CASE Start(k)
  <2>1. /\ verdict' = [of |-> r, settled |-> FALSE]
        /\ kind' = [kind EXCEPT ![r] = k]
        /\ at' = [at EXCEPT ![r] = "pending"]
    BY <1>1, <1>3 DEF Start, Show
  <2>2. PaneTypeOK'
    BY <1>0, <1>1, <2>1, RequestsAreNumbers DEF PaneTypeOK
  <2>3. NotYet'
    <3>1. \A q \in Request : q > r => q > probeSeq /\ q # r
      BY <1>1, RequestsAreNumbers DEF r
    <3> QED BY <1>0, <1>1, <2>1, <3>1 DEF NotYet, PaneTypeOK
  <2>4. at'[r] = "pending" /\ step'[r] = 0
    BY <1>0, <1>1, <1>2, <2>1 DEF PaneTypeOK
  <2>5. LatestShown'
    BY <1>1, <2>1, <2>4 DEF LatestShown
  <2> QED BY <1>1, <2>1, <2>2, <2>3, <2>5 DEF PaneInv
<1>4. CASE Refuse
  <2>1. /\ verdict' = [of |-> r, settled |-> TRUE]
        /\ kind' = [kind EXCEPT ![r] = "refused"]
        /\ UNCHANGED at
    BY <1>1, <1>4 DEF Refuse, Show
  <2>2. PaneTypeOK'
    BY <1>0, <1>1, <2>1, RequestsAreNumbers DEF PaneTypeOK
  <2>3. NotYet'
    <3>1. \A q \in Request : q > r => q > probeSeq
      BY <1>1, RequestsAreNumbers DEF r
    <3> QED BY <1>0, <1>1, <2>1, <3>1 DEF NotYet
  <2>4. LatestShown'
    BY <1>1, <1>2, <2>1 DEF LatestShown
  <2> QED BY <1>1, <2>1, <2>2, <2>3, <2>4 DEF PaneInv
<1> QED BY <1>3, <1>4

(* What a thread of an earlier request does leaves the pane as it is.       *)
LEMMA EarlierKeeps ==
  ASSUME PaneInv, NEW r \in Request, r # probeSeq, at[r] # "none",
         UNCHANGED <<probeSeq, verdict, rawLines, kind>>,
         \E to \in {"pending", "probing", "answer", "check", "stepping", "line", "summary", "gone"} :
           at' = [at EXCEPT ![r] = to],
         UNCHANGED step \/ step' = [step EXCEPT ![r] = step[r] + 1]
  PROVE  PaneInv'
<1>0. PaneTypeOK /\ NotYet /\ LatestShown
  BY DEF PaneInv
<1>1. PaneTypeOK'
  <2>1. at' \in [Request -> {"none", "pending", "probing", "answer", "check", "stepping",
                             "line", "summary", "gone"}]
    BY <1>0 DEF PaneTypeOK
  <2>2. step' \in [Request -> Nat]
    <3>1. step \in [Request -> Nat]
      BY <1>0 DEF PaneTypeOK
    <3>2. step[r] + 1 \in Nat
      BY <3>1
    <3> QED BY <3>1, <3>2
  <2> QED BY <1>0, <2>1, <2>2 DEF PaneTypeOK
<1>2. \A q \in Request : q # r => at'[q] = at[q] /\ step'[q] = step[q]
  BY <1>0 DEF PaneTypeOK
<1>3. NotYet'
  BY <1>0, <1>2 DEF NotYet
<1>4. LatestShown'
  <2>1. probeSeq # 0 => probeSeq \in Request
    BY <1>0, NetworkViewAssumption DEF PaneTypeOK, Request
  <2> QED BY <1>0, <1>2, <2>1 DEF LatestShown
<1> QED BY <1>1, <1>3, <1>4 DEF PaneInv

(* A step of a worker thread keeps the invariant, and one of a superseded   *)
(* thread leaves the pane alone.                                            *)
LEMMA ThreadKeeps ==
  ASSUME PaneInv, NEW r \in Request, Thread(r) \/ Cancel(r) \/ Apply(r)
  PROVE  PaneInv' /\ (r # probeSeq => UNCHANGED <<probeSeq, verdict, rawLines, kind>>)
<1> USE DEF Thread, Apply, Run, Compute, Check, Step, Finish, Cancel, Move,
            ApplyProbe, AppendBody, ApplySummary
<1>0. PaneTypeOK /\ NotYet /\ LatestShown /\ verdict.of = probeSeq
  BY DEF PaneInv
<1>1. CASE r # probeSeq
  <2>1. UNCHANGED <<probeSeq, verdict, rawLines, kind>> /\ at[r] # "none"
    BY <1>1
  <2>2. \E to \in {"pending", "probing", "answer", "check", "stepping", "line", "summary", "gone"} :
          at' = [at EXCEPT ![r] = to]
    BY <1>1
  <2>3. UNCHANGED step \/ step' = [step EXCEPT ![r] = step[r] + 1]
    OBVIOUS
  <2> QED BY <1>1, <2>1, <2>2, <2>3, EarlierKeeps
<1>2. CASE r = probeSeq
  <2> DEFINE Latest1 ==
               /\ verdict.settled <=> at[r] \in {"none", "gone"}
               /\ at[r] = "pending" => step[r] = 0 /\ rawLines = <<>>
               /\ at[r] \in {"probing", "answer"} => kind[r] = "probe" /\ rawLines = <<>>
               /\ at[r] \in {"check", "stepping", "summary"} => step[r] = Len(rawLines)
               /\ at[r] = "line" => step[r] = Len(rawLines) + 1 /\ step[r] <= Steps(kind[r])
               /\ at[r] = "stepping" => step[r] < Steps(kind[r])
               /\ at[r] = "summary" => step[r] = Steps(kind[r])
  <2>1. /\ r # 0 /\ r \in Nat /\ Steps(kind[r]) \in Nat /\ step[r] \in Nat
        /\ Len(rawLines) \in Nat /\ UNCHANGED <<probeSeq, kind>>
    BY <1>0, <1>2, RequestsAreNumbers, StepsAreCounted, LenProperties DEF PaneTypeOK
  <2>2. Latest1
    BY <1>0, <1>2, <2>1 DEF LatestShown
  <2>3. at' \in [Request -> {"none", "pending", "probing", "answer", "check", "stepping",
                             "line", "summary", "gone"}]
    BY <1>0 DEF PaneTypeOK
  <2>4. step' \in [Request -> Nat]
    BY <1>0 DEF PaneTypeOK
  <2>5. rawLines' \in Seq([of : Nat, n : Nat])
    <3>1. [of |-> r, n |-> step[r]] \in [of : Nat, n : Nat]
      BY <2>1
    <3>2. Append(rawLines, [of |-> r, n |-> step[r]]) \in Seq([of : Nat, n : Nat])
      BY <1>0, <3>1, AppendProperties DEF PaneTypeOK
    <3>3. <<>> \in Seq([of : Nat, n : Nat])
      OBVIOUS
    <3> QED BY <1>0, <3>2, <3>3 DEF PaneTypeOK
  <2>6. verdict' \in [of : Nat, settled : BOOLEAN] /\ verdict'.of = probeSeq
    <3>1. verdict' = verdict \/ verdict' = [of |-> r, settled |-> TRUE]
      BY <1>2
    <3>2. [of |-> r, settled |-> TRUE] \in [of : Nat, settled : BOOLEAN]
      BY <2>1
    <3>3. [of |-> r, settled |-> TRUE].of = r
      OBVIOUS
    <3> QED BY <1>0, <1>2, <3>1, <3>2, <3>3 DEF PaneTypeOK
  <2>7. PaneTypeOK'
    BY <1>0, <2>1, <2>3, <2>4, <2>5, <2>6 DEF PaneTypeOK
  <2>8. NotYet'
    <3>1. \A q \in Request : q > probeSeq => q # r
      BY <1>2, <2>1, RequestsAreNumbers
    <3>2. \A q \in Request : q # r => at'[q] = at[q] /\ step'[q] = step[q]
      BY <1>0 DEF PaneTypeOK
    <3> QED BY <1>0, <2>1, <3>1, <3>2 DEF NotYet
  <2>9. Latest1'
    <3>1. CASE Run(r)
      BY <1>0, <2>1, <2>2, <3>1 DEF PaneTypeOK
    <3>2. CASE Compute(r)
      BY <1>0, <2>1, <2>2, <3>2 DEF PaneTypeOK
    <3>3. CASE Check(r)
      <4>1. /\ at[r] = "check" /\ step[r] < Steps(kind[r])
            /\ at' = [at EXCEPT ![r] = "stepping"]
            /\ UNCHANGED <<verdict, rawLines, step>>
        BY <1>2, <3>3 DEF Check, Move
      <4>2. at'[r] = "stepping"
        BY <1>0, <4>1 DEF PaneTypeOK
      <4> QED BY <2>1, <2>2, <4>1, <4>2
    <3>4. CASE Step(r)
      BY <1>0, <2>1, <2>2, <3>4 DEF PaneTypeOK
    <3>5. CASE Finish(r)
      BY <1>0, <2>1, <2>2, <3>5 DEF PaneTypeOK
    <3>6. CASE Cancel(r)
      <4>1. PICK later \in Request : later > r /\ at[later] # "none"
        BY <3>6
      <4> QED BY <1>0, <1>2, <4>1 DEF NotYet
    <3>7. CASE ApplyProbe(r)
      BY <1>0, <1>2, <2>1, <2>2, <3>7 DEF PaneTypeOK
    <3>8. CASE AppendBody(r)
      <4>1. /\ rawLines' = Append(rawLines, [of |-> r, n |-> step[r]])
            /\ at'[r] = "check" /\ UNCHANGED <<step, verdict>>
        BY <1>0, <1>2, <3>8 DEF PaneTypeOK
      <4>2. Len(rawLines') = Len(rawLines) + 1
        BY <1>0, <2>1, <4>1, AppendProperties DEF PaneTypeOK
      <4> QED BY <2>1, <2>2, <3>8, <4>1, <4>2
    <3>9. CASE ApplySummary(r)
      BY <1>0, <1>2, <2>1, <2>2, <3>9 DEF PaneTypeOK
    <3> QED BY <3>1, <3>2, <3>3, <3>4, <3>5, <3>6, <3>7, <3>8, <3>9
  <2>10. LatestShown'
    BY <1>2, <2>1, <2>9 DEF LatestShown
  <2> QED BY <1>2, <2>1, <2>6, <2>7, <2>8, <2>10 DEF PaneInv
<1> QED BY <1>1, <1>2

(* Every step of the pane and of its threads keeps the invariant.           *)
LEMMA PaneStays == PaneInv /\ [PaneNext]_paneVars => PaneInv'
<1> SUFFICES ASSUME PaneInv, [PaneNext]_paneVars PROVE PaneInv'
  OBVIOUS
<1>1. CASE UNCHANGED paneVars
  BY <1>1 DEF paneVars, PaneInv, PaneTypeOK, NotYet, LatestShown
<1> QED BY <1>1, ButtonKeeps, ThreadKeeps DEF PaneNext

(* How many lines the latest request has ahead of its outcome, and what the *)
(* pane shows.                                                              *)
ToCome == IF probeSeq = 0 THEN 0 ELSE Steps(kind[probeSeq])
Pane   == [of |-> verdict.of, body |-> rawLines, settled |-> verdict.settled]

(* Settling the pane keeps whose it is and what it says.                    *)
LEMMA RecordSettles ==
  ASSUME NEW S, NEW T, NEW U, NEW p \in [of : S, body : T, settled : U], NEW d \in U
  PROVE  [p EXCEPT !.settled = d] = [of |-> p.of, body |-> p.body, settled |-> d]
OBVIOUS

(* A line more keeps whose it is and whether it is settled.                 *)
LEMMA RecordGrows ==
  ASSUME NEW S, NEW T, NEW U, NEW p \in [of : S, body : T, settled : U], NEW b \in T
  PROVE  [p EXCEPT !.body = b] = [of |-> p.of, body |-> b, settled |-> p.settled]
OBVIOUS

(* The pane that settles keeps what it shows and whose it is.               *)
LEMMA PaneSettles ==
  ASSUME PaneTypeOK
  PROVE  [Pane EXCEPT !.settled = TRUE] = [of |-> Pane.of, body |-> Pane.body, settled |-> TRUE]
<1>1. Pane \in [of : Nat, body : Seq([of : Nat, n : Nat]), settled : BOOLEAN]
  BY DEF Pane, PaneTypeOK
<1>2. ASSUME NEW p \in [of : Nat, body : Seq([of : Nat, n : Nat]), settled : BOOLEAN],
             NEW d \in BOOLEAN
      PROVE  [p EXCEPT !.settled = d] = [of |-> p.of, body |-> p.body, settled |-> d]
  BY <1>2, RecordSettles
<1>3. ASSUME NEW d \in BOOLEAN
      PROVE  [Pane EXCEPT !.settled = d] = [of |-> Pane.of, body |-> Pane.body, settled |-> d]
  BY <1>1, <1>2, <1>3
<1> QED BY <1>3, Zenon

(* A line more leaves whose it is and whether it is settled.                *)
LEMMA PaneGrows ==
  ASSUME PaneTypeOK, NEW b \in Seq([of : Nat, n : Nat])
  PROVE  [Pane EXCEPT !.body = b] = [of |-> Pane.of, body |-> b, settled |-> Pane.settled]
<1>1. Pane \in [of : Nat, body : Seq([of : Nat, n : Nat]), settled : BOOLEAN]
  BY DEF Pane, PaneTypeOK
<1>2. \A p \in [of : Nat, body : Seq([of : Nat, n : Nat]), settled : BOOLEAN] :
        [p EXCEPT !.body = b] = [of |-> p.of, body |-> b, settled |-> p.settled]
  BY RecordGrows
<1> QED BY <1>1, <1>2, Zenon

(* The empty pane is where LatestAnswer begins.                             *)
LEMMA InitRefines == PaneInit => Latest!Init
BY DEF PaneInit, Latest!Init

(* A button is an Ask. *)
LEMMA ButtonAsks ==
  ASSUME PaneInv, NEW k \in {"probe", "set", "ladder"}, Start(k) \/ Refuse
  PROVE  Latest!Ask
<1>1. probeSeq' = probeSeq + 1 /\ rawLines' = <<>>
  BY DEF Start, Refuse, Show
<1>2. \E now \in BOOLEAN : verdict' = [of |-> probeSeq', settled |-> now]
  BY DEF Start, Refuse, Show
<1>3. PICK now \in BOOLEAN : verdict' = [of |-> probeSeq', settled |-> now]
  BY <1>2
<1>4. Pane' = [of |-> probeSeq', body |-> <<>>, settled |-> now]
  BY <1>1, <1>3 DEF Pane
<1>5. ToCome' \in Nat
  BY StepsAreCounted DEF ToCome
<1> QED BY <1>1, <1>4, <1>5 DEF Latest!Ask, Pane, ToCome

(* A thread's call that the counter lets through adds a line or the outcome, *)
(* and everything else a thread does is not seen.                            *)
LEMMA ThreadRefines ==
  ASSUME PaneInv, NEW r \in Request, Thread(r) \/ Cancel(r) \/ Apply(r)
  PROVE  Latest!Line \/ Latest!Settle \/ UNCHANGED <<probeSeq, ToCome, Pane>>
<1> USE DEF Move
<1>0. /\ PaneTypeOK /\ LatestShown /\ verdict.of = probeSeq
      /\ UNCHANGED <<probeSeq, kind>> /\ UNCHANGED ToCome
  BY DEF PaneInv, ToCome, Thread, Apply, Run, Compute, Check, Step, Finish, Cancel,
         ApplyProbe, AppendBody, ApplySummary
<1>1. CASE r # probeSeq
  BY <1>0, <1>1, ThreadKeeps DEF Pane
<1>2. CASE r = probeSeq
  <2>1. /\ ToCome = Steps(kind[r]) /\ ToCome \in Nat /\ r \in Nat /\ r # 0
        /\ step[r] \in Nat /\ Len(rawLines) \in Nat
    BY <1>0, <1>2, RequestsAreNumbers, StepsAreCounted, LenProperties DEF PaneTypeOK, ToCome
  <2>2. /\ Pane.of = probeSeq /\ Pane.body = rawLines /\ Pane.settled = verdict.settled
    BY <1>0 DEF Pane
  <2>3. CASE AppendBody(r)
    <3>1. /\ at[r] = "line" /\ ~verdict.settled
          /\ step[r] = Len(rawLines) + 1 /\ Len(rawLines) < ToCome
      BY <1>0, <1>2, <2>1, <2>3 DEF AppendBody, LatestShown
    <3>2. /\ rawLines' = Append(rawLines, [of |-> r, n |-> Len(rawLines) + 1])
          /\ UNCHANGED verdict
      BY <1>2, <2>3, <3>1 DEF AppendBody
    <3>3. Pane' = [Pane EXCEPT !.body = Append(@, [of |-> probeSeq, n |-> Len(Pane.body) + 1])]
      <4>1. Pane.of = r /\ Pane.body = rawLines /\ r = probeSeq
        BY <1>2, <2>2
      <4> DEFINE more == Append(rawLines, [of |-> r, n |-> Len(rawLines) + 1])
      <4>2. more \in Seq([of : Nat, n : Nat])
        BY <1>0, <2>1 DEF PaneTypeOK
      <4>3. Append(Pane.body, [of |-> probeSeq, n |-> Len(Pane.body) + 1]) = more
        BY <4>1
      <4>4. Pane' = [of |-> verdict.of, body |-> more, settled |-> verdict.settled]
        BY <3>2 DEF Pane
      <4>5. Pane.of = verdict.of /\ Pane.settled = verdict.settled
        BY DEF Pane
      <4> HIDE DEF more
      <4>6. [Pane EXCEPT !.body = more]
              = [of |-> Pane.of, body |-> more, settled |-> Pane.settled]
        BY <1>0, <4>2, PaneGrows
      <4>7. [Pane EXCEPT !.body = Append(@, [of |-> probeSeq, n |-> Len(Pane.body) + 1])]
              = [Pane EXCEPT !.body = more]
        BY <4>3
      <4> QED BY <4>4, <4>5, <4>6, <4>7
    <3> QED BY <1>0, <2>2, <3>1, <3>3 DEF Latest!Line, Pane, ToCome
  <2>4. CASE ApplyProbe(r)
    <3>1. /\ at[r] = "answer" /\ ~verdict.settled /\ rawLines = <<>> /\ ToCome = 0
      BY <1>0, <1>2, <2>1, <2>4 DEF ApplyProbe, LatestShown, Steps
    <3>2. Pane' = [Pane EXCEPT !.settled = TRUE]
      <4>1. verdict' = [of |-> r, settled |-> TRUE] /\ rawLines' = rawLines
        BY <1>2, <2>4, <3>1 DEF ApplyProbe
      <4>2. Pane' = [of |-> probeSeq, body |-> rawLines, settled |-> TRUE]
        BY <1>2, <4>1 DEF Pane
      <4> QED BY <1>0, <2>2, <4>2, PaneSettles
    <3>3. Len(rawLines) = ToCome
      BY <3>1
    <3> QED BY <1>0, <3>1, <3>2, <3>3 DEF Latest!Settle, Pane, ToCome
  <2>5. CASE ApplySummary(r)
    <3>1. at[r] = "summary" /\ ~verdict.settled /\ Len(rawLines) = ToCome
      BY <1>0, <1>2, <2>1, <2>5 DEF ApplySummary, LatestShown
    <3>2. Pane' = [Pane EXCEPT !.settled = TRUE]
      <4>1. verdict' = [of |-> r, settled |-> TRUE] /\ rawLines' = rawLines
        BY <1>2, <2>5, <3>1 DEF ApplySummary
      <4>2. Pane' = [of |-> probeSeq, body |-> rawLines, settled |-> TRUE]
        BY <1>2, <4>1 DEF Pane
      <4> QED BY <1>0, <2>2, <4>2, PaneSettles
    <3> QED BY <1>0, <3>1, <3>2 DEF Latest!Settle, Pane, ToCome
  <2>6. CASE Thread(r) \/ Cancel(r)
    BY <1>0, <2>6 DEF Thread, Run, Compute, Check, Step, Finish, Cancel, Pane
  <2> QED BY <2>3, <2>4, <2>5, <2>6 DEF Apply
<1> QED BY <1>1, <1>2

(* Every behaviour of the screen is one that LatestAnswer allows: the pane  *)
(* shows the latest request and no other, its lines in order with none left *)
(* out, and an outcome only below all of them (_apply_probe, _append_body   *)
(* and _apply_summary of network.py).                                       *)
THEOREM PaneShowsTheLatest ==
  PaneInit /\ [][PaneNext]_paneVars => Latest!Init /\ [][Latest!Next]_(Latest!vars)
<1>1. PaneInv /\ [PaneNext]_paneVars => [Latest!Next]_(Latest!vars)
  <2> SUFFICES ASSUME PaneInv, [PaneNext]_paneVars
               PROVE  [Latest!Next]_(Latest!vars)
    OBVIOUS
  <2>1. CASE UNCHANGED paneVars
    BY <2>1 DEF paneVars, Latest!vars
  <2>2. ASSUME NEW k \in {"probe", "set", "ladder"}, Start(k) \/ Refuse
        PROVE  Latest!Next
    BY <2>2, ButtonAsks DEF Latest!Next
  <2>3. ASSUME NEW r \in Request, Thread(r) \/ Cancel(r) \/ Apply(r)
        PROVE  [Latest!Next]_(Latest!vars)
    BY <2>3, ThreadRefines DEF Latest!Next, Latest!vars, ToCome, Pane
  <2> QED BY <2>1, <2>2, <2>3 DEF PaneNext
<1> QED BY <1>1, PaneStarts, PaneStays, InitRefines, PTL

-----------------------------------------------------------------------------
(* The squeeze. *)

Name == {"path", "rotated", "final", "partial"}

SqueezeTypeOK ==
  /\ file \in [Name -> Seq(Nat) \union {NoFile}]
  /\ whole \subseteq {"final", "partial"}
  /\ fd \in {"none", "path", "rotated", "gone"}
  /\ written \in Nat
  /\ pc \in {"idle", "look", "lsof", "open", "copy", "replace", "unlink", "size", "failing"}
  /\ src \in {"none", "path", "rotated"}
  /\ pos \in Nat
  /\ record \in {"none", "intent", "ok", "failed"}
  /\ input \subseteq Nat

(* A descriptor leads to a file, and a gzip file that was closed is there. *)
FilesAreThere ==
  /\ fd \in {"path", "rotated"} => file[fd] # NoFile
  /\ src # "none" => pc = "copy" /\ file[src] # NoFile
  /\ \A n \in whole : file[n] # NoFile

(* While it copies, what it reads from has every line of the input, and the *)
(* partial archive has the first pos of what is read.                       *)
CopySoFar ==
  pc = "copy" =>
    /\ src # "none"
    /\ file["partial"] # NoFile /\ Len(file["partial"]) = pos
    /\ pos <= Len(file[src])
    /\ \A n \in 1 .. pos : file["partial"][n] = file[src][n]
    /\ input \subseteq Range(file[src])

(* From there on the input is in the archive that is about to get its name, *)
(* and from the rename on in the one that has it.                           *)
ArchiveHasIt ==
  /\ pc = "replace" => "partial" \in whole /\ input \subseteq Lines("partial")
  /\ pc \in {"unlink", "size"} => input \subseteq Archived

(* A squeeze in its action has not reported yet. *)
NotYetOk == pc # "idle" => record = "intent"

SqueezeInv ==
  SqueezeTypeOK /\ FilesAreThere /\ CopySoFar /\ ArchiveHasIt /\ NotYetOk /\ InputSurvives

(* Before the squeeze the log is whole and nothing was said of it.          *)
LEMMA SqueezeStarts == SqueezeInit => SqueezeInv
<1> SUFFICES ASSUME SqueezeInit PROVE SqueezeInv
  OBVIOUS
<1> USE LogSqueezeAssumption DEF SqueezeInit
<1>1. <<1>> # NoFile
  <2>1. <<1>> \in Seq(Nat)
    OBVIOUS
  <2> QED BY <2>1
<1>2. SqueezeTypeOK
  <2>1. <<1>> \in Seq(Nat)
    OBVIOUS
  <2>2. file \in [Name -> Seq(Nat) \union {NoFile}]
    BY <2>1 DEF Name
  <2> QED BY <2>2 DEF SqueezeTypeOK
<1>3. FilesAreThere /\ CopySoFar /\ ArchiveHasIt /\ NotYetOk /\ InputSurvives
  BY DEF FilesAreThere, CopySoFar, ArchiveHasIt, NotYetOk, InputSurvives
<1> QED BY <1>2, <1>3 DEF SqueezeInv

(* An empty file is a file. *)
LEMMA EmptyFile == <<>> \in Seq(Nat) /\ <<>> # NoFile /\ Len(<<>>) = 0 /\ Range(<<>>) = {}
<1>1. <<>> \in Seq(Nat) /\ Len(<<>>) = 0 /\ DOMAIN <<>> = 1 .. 0
  OBVIOUS
<1>2. DOMAIN <<>> = {}
  BY <1>1
<1> QED BY <1>1, <1>2, LogSqueezeAssumption DEF Range

(* A file with one more line has all the lines it had, and it is a file.    *)
LEMMA AppendKeeps ==
  ASSUME NEW s \in Seq(Nat), NEW n \in Nat
  PROVE  /\ Append(s, n) \in Seq(Nat) /\ Append(s, n) # NoFile
         /\ Len(Append(s, n)) = Len(s) + 1 /\ Len(s) \in Nat
         /\ \A k \in 1 .. Len(s) : Append(s, n)[k] = s[k]
         /\ Append(s, n)[Len(s) + 1] = n
         /\ Range(s) \subseteq Range(Append(s, n))
<1>1. /\ Append(s, n) \in Seq(Nat) /\ Len(Append(s, n)) = Len(s) + 1 /\ Len(s) \in Nat
      /\ \A k \in 1 .. Len(s) : Append(s, n)[k] = s[k]
      /\ Append(s, n)[Len(s) + 1] = n
  BY AppendProperties, LenProperties
<1>2. DOMAIN s = 1 .. Len(s) /\ DOMAIN Append(s, n) = 1 .. Len(s) + 1
  BY <1>1, LenProperties
<1>3. Range(s) \subseteq Range(Append(s, n))
  <2> SUFFICES ASSUME NEW k \in 1 .. Len(s)
               PROVE  s[k] \in Range(Append(s, n))
    BY <1>2 DEF Range
  <2>1. k \in 1 .. Len(s) + 1 /\ Append(s, n)[k] = s[k]
    BY <1>1
  <2> QED BY <1>2, <2>1 DEF Range
<1> QED BY <1>1, <1>3, LogSqueezeAssumption

(* The processes beside it: no file that anyone reads from or writes to     *)
(* goes away, and no line of the log, the rotated file or the archive does. *)
LEMMA OutsideKeeps ==
  ASSUME SqueezeInv, OpenLog \/ AppendLog \/ CloseLog \/ Rotate
  PROVE  SqueezeInv'
<1> USE LogSqueezeAssumption
<1>0. /\ SqueezeTypeOK /\ FilesAreThere /\ CopySoFar /\ ArchiveHasIt /\ NotYetOk /\ InputSurvives
      /\ UNCHANGED <<whole, pc, pos, record, input>>
  BY DEF SqueezeInv, OpenLog, AppendLog, CloseLog, Rotate, callVars
<1>1. CASE OpenLog
  <2>1. /\ file' = [n \in Name |-> IF n = "path" /\ file[n] = NoFile THEN <<>> ELSE file[n]]
        /\ fd' = "path" /\ UNCHANGED <<src, written>>
    BY <1>0, <1>1 DEF OpenLog, SqueezeTypeOK, Name, callVars
  <2>2. SqueezeTypeOK' /\ FilesAreThere'
    BY <1>0, <2>1, EmptyFile DEF SqueezeTypeOK, FilesAreThere, Name
  <2>3. \A n \in Name : Lines(n)' = Lines(n) /\ (file[n] # NoFile => file'[n] = file[n])
    BY <2>1, EmptyFile DEF Lines
  <2>4. CopySoFar'
    BY <1>0, <2>1, <2>3 DEF CopySoFar, FilesAreThere, Name, SqueezeTypeOK
  <2>5. ArchiveHasIt' /\ NotYetOk' /\ InputSurvives'
    BY <1>0, <2>3 DEF ArchiveHasIt, NotYetOk, InputSurvives, Kept, Archived, Name
  <2> QED BY <2>2, <2>4, <2>5 DEF SqueezeInv
<1>2. CASE AppendLog
  <2>1. CASE fd = "gone"
    <3>1. UNCHANGED <<file, fd, src>> /\ written' = written + 1
      BY <1>2, <2>1 DEF AppendLog, callVars
    <3> QED
      BY <1>0, <3>1
      DEF SqueezeInv, SqueezeTypeOK, FilesAreThere, CopySoFar, ArchiveHasIt, NotYetOk,
          InputSurvives, Kept, Archived, Lines
  <2>2. CASE fd # "gone"
    <3>1. /\ fd \in {"path", "rotated"} /\ fd \in Name /\ file[fd] \in Seq(Nat)
          /\ written + 1 \in Nat /\ written' = written + 1
          /\ file' = [file EXCEPT ![fd] = Append(file[fd], written + 1)]
          /\ UNCHANGED <<fd, src>>
      BY <1>0, <1>2, <2>2 DEF AppendLog, SqueezeTypeOK, FilesAreThere, callVars, Name
    <3>2. /\ Append(file[fd], written + 1) \in Seq(Nat)
          /\ Append(file[fd], written + 1) # NoFile
          /\ Len(Append(file[fd], written + 1)) = Len(file[fd]) + 1 /\ Len(file[fd]) \in Nat
          /\ \A k \in 1 .. Len(file[fd]) : Append(file[fd], written + 1)[k] = file[fd][k]
          /\ Range(file[fd]) \subseteq Range(Append(file[fd], written + 1))
      BY <3>1, AppendKeeps
    <3>3. /\ file' \in [Name -> Seq(Nat) \union {NoFile}]
          /\ file'[fd] = Append(file[fd], written + 1)
          /\ \A n \in Name : n # fd => file'[n] = file[n]
      BY <1>0, <3>1, <3>2 DEF SqueezeTypeOK
    <3>4. SqueezeTypeOK' /\ FilesAreThere'
      BY <1>0, <3>1, <3>2, <3>3 DEF SqueezeTypeOK, FilesAreThere, Name
    <3>5. /\ \A n \in Name : Lines(n) \subseteq Lines(n)'
          /\ Lines("final")' = Lines("final") /\ Lines("partial")' = Lines("partial")
      BY <3>1, <3>2, <3>3 DEF Lines, Name
    <3>6. CopySoFar'
      <4> SUFFICES ASSUME pc = "copy"
                   PROVE  /\ src # "none"
                          /\ file'["partial"] # NoFile /\ Len(file'["partial"]) = pos
                          /\ pos <= Len(file'[src])
                          /\ \A n \in 1 .. pos : file'["partial"][n] = file'[src][n]
                          /\ input \subseteq Range(file'[src])
        BY <1>0, <3>1 DEF CopySoFar
      <4>1. /\ src \in Name /\ src # "none" /\ file["partial"] # NoFile /\ Len(file["partial"]) = pos
            /\ pos <= Len(file[src]) /\ pos \in Nat
            /\ \A n \in 1 .. pos : file["partial"][n] = file[src][n]
            /\ input \subseteq Range(file[src])
        BY <1>0 DEF CopySoFar, SqueezeTypeOK, Name
      <4>2. file'["partial"] = file["partial"]
        BY <3>1, <3>3 DEF Name
      <4>3. CASE src = fd
        <5>1. /\ Len(file'[src]) = Len(file[src]) + 1 /\ Len(file[src]) \in Nat
              /\ \A n \in 1 .. Len(file[src]) : file'[src][n] = file[src][n]
              /\ Range(file[src]) \subseteq Range(file'[src])
          BY <3>2, <3>3, <4>3
        <5>2. \A n \in 1 .. pos : n \in 1 .. Len(file[src])
          BY <4>1, <5>1
        <5>3. pos <= Len(file'[src])
          BY <4>1, <5>1
        <5>4. \A n \in 1 .. pos : file'["partial"][n] = file'[src][n]
          BY <4>1, <4>2, <5>1, <5>2
        <5>5. input \subseteq Range(file'[src])
          BY <4>1, <5>1
        <5> QED BY <4>1, <4>2, <5>3, <5>4, <5>5
      <4>4. CASE src # fd
        BY <1>0, <3>3, <4>1, <4>2, <4>4 DEF CopySoFar
      <4> QED BY <4>3, <4>4
    <3>7. ArchiveHasIt' /\ NotYetOk' /\ InputSurvives'
      BY <1>0, <3>5 DEF ArchiveHasIt, NotYetOk, InputSurvives, Kept, Archived, Name
    <3> QED BY <3>4, <3>6, <3>7 DEF SqueezeInv
  <2> QED BY <2>1, <2>2
<1>3. CASE CloseLog
  BY <1>0, <1>3
  DEF CloseLog, callVars, SqueezeInv, SqueezeTypeOK, FilesAreThere, CopySoFar, ArchiveHasIt,
      NotYetOk, InputSurvives, Kept, Archived, Lines
<1>4. CASE Rotate
  <2>1. /\ file["path"] # NoFile /\ file["rotated"] = NoFile
        /\ file' = [file EXCEPT !["rotated"] = file["path"], !["path"] = NoFile]
        /\ fd' = Follow(fd) /\ src' = Follow(src) /\ UNCHANGED written
    BY <1>4 DEF Rotate
  <2>2. /\ file'["rotated"] = file["path"] /\ file'["path"] = NoFile
        /\ file'["final"] = file["final"] /\ file'["partial"] = file["partial"]
    BY <1>0, <2>1 DEF SqueezeTypeOK, Name
  <2>3. SqueezeTypeOK'
    BY <1>0, <2>1 DEF SqueezeTypeOK, Name, Follow
  <2>4. FilesAreThere'
    BY <1>0, <2>1, <2>2 DEF SqueezeTypeOK, FilesAreThere, Follow
  <2>5. src # "none" => file'[src'] = file[src] /\ src' # "none"
    BY <1>0, <2>1, <2>2 DEF SqueezeTypeOK, FilesAreThere, Follow
  <2>6. CopySoFar'
    BY <1>0, <2>2, <2>5 DEF CopySoFar
  <2>7. Kept' = Kept /\ Archived' = Archived /\ Lines("partial")' = Lines("partial")
    BY <1>0, <2>1, <2>2 DEF Kept, Archived, Lines
  <2> QED BY <1>0, <2>3, <2>4, <2>6, <2>7 DEF SqueezeInv, ArchiveHasIt, NotYetOk, InputSurvives
<1> QED BY <1>1, <1>2, <1>3, <1>4

(* The steps of squeeze_log that touch no file. *)
LEMMA WordsOnly ==
  ASSUME SqueezeInv, UNCHANGED <<file, whole, fd, written, input>>,
         SqueezeTypeOK',
         \/ /\ pc' = "idle" /\ src' = "none"
            /\ record' = "ok" => record = "ok" \/ pc = "size"
         \/ /\ pc' \in {"look", "lsof", "open", "failing"} /\ pc # "idle"
            /\ src' = "none" \/ (src' = src /\ pc # "copy")
            /\ UNCHANGED record
  PROVE  SqueezeInv'
<1>0. FilesAreThere /\ CopySoFar /\ ArchiveHasIt /\ NotYetOk /\ InputSurvives
  BY DEF SqueezeInv
<1>1. Kept' = Kept /\ Archived' = Archived
  BY DEF Kept, Archived, Lines
<1>2. FilesAreThere' /\ CopySoFar' /\ ArchiveHasIt' /\ NotYetOk'
  BY <1>0 DEF FilesAreThere, CopySoFar, ArchiveHasIt, NotYetOk
<1>3. InputSurvives'
  BY <1>0, <1>1 DEF InputSurvives, ArchiveHasIt, NotYetOk
<1> QED BY <1>2, <1>3 DEF SqueezeInv

(* A step that only looks, reports or ends leaves the lines where they were.*)
LEMMA WordsKeep ==
  ASSUME SqueezeInv, Look \/ IsOpenForWrite \/ Succeed \/ Fail \/ Kill
  PROVE  SqueezeInv'
<1>0. SqueezeTypeOK /\ NotYetOk
  BY DEF SqueezeInv
<1>1. CASE Look
  BY <1>0, <1>1, WordsOnly DEF Look, Report, logVars, SqueezeTypeOK, NotYetOk
<1>2. CASE IsOpenForWrite
  BY <1>0, <1>2, WordsOnly DEF IsOpenForWrite, Report, logVars, SqueezeTypeOK, NotYetOk
<1>3. CASE Succeed
  BY <1>0, <1>3, WordsOnly DEF Succeed, Report, logVars, SqueezeTypeOK, NotYetOk
<1>4. CASE Fail
  BY <1>0, <1>4, WordsOnly DEF Fail, logVars, SqueezeTypeOK, NotYetOk
<1>5. CASE Kill
  BY <1>0, <1>5, WordsOnly DEF Kill, logVars, SqueezeTypeOK, NotYetOk
<1> QED BY <1>1, <1>2, <1>3, <1>4, <1>5

(* A new squeeze has no input yet, and what it opens is in the log. *)
LEMMA BeginAndOpenKeep ==
  ASSUME SqueezeInv, Begin \/ Open
  PROVE  SqueezeInv'
<1>0. SqueezeTypeOK /\ FilesAreThere /\ CopySoFar /\ ArchiveHasIt /\ NotYetOk /\ InputSurvives
  BY DEF SqueezeInv
<1>1. CASE Begin
  <2>1. /\ pc = "idle" /\ pc' \in {"idle", "look"} /\ record' \in {"intent", "none"} /\ input' = {}
        /\ (pc' = "look" => record' = "intent")
        /\ pos' = 0 /\ UNCHANGED <<file, fd, written, whole, src>>
    BY <1>0, <1>1 DEF Begin, logVars
  <2>2. SqueezeTypeOK' /\ FilesAreThere'
    BY <1>0, <2>1 DEF SqueezeTypeOK, FilesAreThere
  <2> QED
    BY <1>0, <2>1, <2>2 DEF SqueezeInv, CopySoFar, ArchiveHasIt, NotYetOk, InputSurvives
<1>2. CASE Open
  <2>1. /\ pc = "open" /\ file["path"] # NoFile
        /\ pc' = "copy" /\ src' = "path" /\ pos' = 0
        /\ input' = Range(file["path"])
        /\ file' = [file EXCEPT !["partial"] = <<>>]
        /\ whole' = whole \ {"partial"}
        /\ UNCHANGED <<fd, written, record>>
    BY <1>2 DEF Open, logVars
  <2>2. file["path"] \in Seq(Nat)
    BY <1>0, <2>1 DEF SqueezeTypeOK, Name
  <2>3. /\ file'["partial"] = <<>>
        /\ file'["path"] = file["path"] /\ file'["rotated"] = file["rotated"]
        /\ file'["final"] = file["final"]
    BY <1>0, <2>1 DEF SqueezeTypeOK, Name
  <2>4. Range(file["path"]) \subseteq Nat
    BY <2>2, RangeOfSeq
  <2>5. SqueezeTypeOK'
    BY <1>0, <2>1, <2>4, EmptyFile DEF SqueezeTypeOK
  <2>6. FilesAreThere'
    BY <1>0, <2>1, <2>3 DEF SqueezeTypeOK, FilesAreThere
  <2>7. CopySoFar'
    BY <2>1, <2>2, <2>3, EmptyFile, LenProperties DEF CopySoFar
  <2>8. ArchiveHasIt' /\ NotYetOk' /\ InputSurvives'
    BY <1>0, <2>1, <2>3 DEF ArchiveHasIt, NotYetOk, InputSurvives, Kept, Lines
  <2> QED BY <2>5, <2>6, <2>7, <2>8 DEF SqueezeInv
<1> QED BY <1>1, <1>2

(* The copy gets one line further, or finds the end and is complete. *)
LEMMA CopyKeeps ==
  ASSUME SqueezeInv, Copy
  PROVE  SqueezeInv'
<1>0. /\ SqueezeTypeOK /\ FilesAreThere /\ CopySoFar /\ ArchiveHasIt /\ NotYetOk /\ InputSurvives
      /\ pc = "copy" /\ UNCHANGED <<fd, written, record, input>>
  BY DEF SqueezeInv, Copy, logVars
<1>1. /\ src \in {"path", "rotated"}
      /\ file[src] \in Seq(Nat) /\ file["partial"] \in Seq(Nat)
      /\ file["partial"] # NoFile /\ Len(file["partial"]) = pos
      /\ Len(file[src]) \in Nat /\ pos \in Nat /\ pos <= Len(file[src])
      /\ \A n \in 1 .. pos : file["partial"][n] = file[src][n]
      /\ input \subseteq Range(file[src])
  BY <1>0, LenProperties DEF CopySoFar, FilesAreThere, SqueezeTypeOK, Name
<1>2. CASE pos < Len(file[src])
  <2>1. /\ pos' = pos + 1 /\ pos + 1 \in 1 .. Len(file[src])
        /\ file' = [file EXCEPT !["partial"] = Append(file["partial"], file[src][pos + 1])]
        /\ UNCHANGED <<whole, pc, src>>
    BY <1>1, <1>2 DEF Copy
  <2>2. file[src][pos + 1] \in Nat
    BY <1>1, <2>1, ElementOfSeq
  <2> DEFINE s == Append(file["partial"], file[src][pos + 1])
  <2>3. /\ s \in Seq(Nat) /\ s # NoFile /\ Len(s) = pos + 1
        /\ \A k \in 1 .. pos : s[k] = file[src][k]
        /\ s[pos + 1] = file[src][pos + 1]
    BY <1>1, <2>2, AppendKeeps
  <2>4. file' = [file EXCEPT !["partial"] = s]
    BY <2>1
  <2> HIDE DEF s
  <2>5. /\ file' \in [Name -> Seq(Nat) \union {NoFile}]
        /\ file'["partial"] = s
        /\ \A n \in Name : n # "partial" => file'[n] = file[n]
    BY <1>0, <2>3, <2>4 DEF SqueezeTypeOK, Name
  <2>6. file'[src] = file[src] /\ file'["final"] = file["final"]
        /\ file'["path"] = file["path"] /\ file'["rotated"] = file["rotated"]
    BY <1>1, <2>5 DEF Name
  <2>7. SqueezeTypeOK'
    BY <1>0, <1>1, <2>1, <2>5 DEF SqueezeTypeOK
  <2>8. FilesAreThere'
    BY <1>0, <2>1, <2>3, <2>5, <2>6 DEF FilesAreThere, SqueezeTypeOK
  <2>9. CopySoFar'
    <3>1. \A n \in 1 .. pos + 1 : n \in 1 .. pos \/ n = pos + 1
      BY <1>1
    <3>2. pos + 1 <= Len(file[src])
      BY <1>1, <2>1
    <3>3. \A n \in 1 .. pos + 1 : s[n] = file[src][n]
      BY <2>3, <3>1
    <3>4. /\ src' = src /\ file'[src] = file[src] /\ file'["partial"] = s
          /\ s # NoFile /\ Len(s) = pos + 1 /\ pos' = pos + 1 /\ input' = input
      BY <1>0, <2>1, <2>3, <2>5, <2>6
    <3> QED BY <1>1, <3>2, <3>3, <3>4 DEF CopySoFar
  <2>10. ArchiveHasIt' /\ NotYetOk' /\ InputSurvives'
    BY <1>0, <2>1, <2>6 DEF ArchiveHasIt, NotYetOk, InputSurvives, Kept, Archived, Lines
  <2> QED BY <2>7, <2>8, <2>9, <2>10 DEF SqueezeInv
<1>3. CASE ~(pos < Len(file[src]))
  <2>1. /\ pc' = "replace" /\ src' = "none"
        /\ whole' = whole \union {"partial"}
        /\ UNCHANGED <<file, pos>>
    BY <1>3 DEF Copy
  <2>2. pos = Len(file[src])
    BY <1>1, <1>3
  <2>3. file["partial"] = file[src]
    BY <1>1, <2>2, SeqEqual
  <2>4. SqueezeTypeOK' /\ FilesAreThere' /\ CopySoFar' /\ NotYetOk'
    BY <1>0, <1>1, <2>1 DEF SqueezeTypeOK, FilesAreThere, CopySoFar, NotYetOk
  <2>5. ArchiveHasIt'
    BY <1>0, <1>1, <2>1, <2>3 DEF ArchiveHasIt, Lines
  <2>6. InputSurvives'
    BY <1>0, <2>1 DEF InputSurvives, NotYetOk, Kept, Archived, Lines
  <2> QED BY <2>4, <2>5, <2>6 DEF SqueezeInv
<1> QED BY <1>2, <1>3

(* The log's name goes only when the archive has its lines under its own.   *)
LEMMA ReplaceAndUnlinkKeep ==
  ASSUME SqueezeInv, Replace \/ Unlink \/ CleanUp
  PROVE  SqueezeInv'
<1>0. SqueezeTypeOK /\ FilesAreThere /\ CopySoFar /\ ArchiveHasIt /\ NotYetOk /\ InputSurvives
  BY DEF SqueezeInv
<1>1. CASE Replace
  <2>1. /\ pc = "replace" /\ pc' = "unlink"
        /\ file' = [file EXCEPT !["final"] = file["partial"], !["partial"] = NoFile]
        /\ whole' = {"final"}
        /\ UNCHANGED <<fd, written, src, pos, record, input>>
    BY <1>0, <1>1 DEF Replace, logVars, ArchiveHasIt
  <2>2. file["partial"] # NoFile
    BY <1>0, <2>1 DEF ArchiveHasIt, FilesAreThere
  <2>3. /\ file'["final"] = file["partial"]
        /\ file'["path"] = file["path"] /\ file'["rotated"] = file["rotated"]
    BY <1>0, <2>1 DEF SqueezeTypeOK, Name
  <2>4. SqueezeTypeOK'
    BY <1>0, <2>1 DEF SqueezeTypeOK, Name
  <2>5. FilesAreThere'
    BY <1>0, <2>1, <2>2, <2>3 DEF SqueezeTypeOK, FilesAreThere
  <2>6. input' \subseteq Archived'
    BY <1>0, <2>1, <2>3 DEF ArchiveHasIt, Archived, Lines
  <2> QED
    BY <1>0, <2>1, <2>4, <2>5, <2>6
    DEF SqueezeInv, CopySoFar, ArchiveHasIt, NotYetOk, InputSurvives, Kept
<1>2. CASE Unlink
  <2>1. /\ pc = "unlink" /\ pc' = "size"
        /\ file' = [file EXCEPT !["path"] = NoFile]
        /\ fd' = IF fd = "path" THEN "gone" ELSE fd
        /\ UNCHANGED <<written, whole, src, pos, record, input>>
    BY <1>2 DEF Unlink
  <2>2. file'["final"] = file["final"] /\ file'["rotated"] = file["rotated"]
        /\ file'["partial"] = file["partial"]
    BY <1>0, <2>1 DEF SqueezeTypeOK, Name
  <2>3. SqueezeTypeOK'
    BY <1>0, <2>1 DEF SqueezeTypeOK, Name
  <2>4. FilesAreThere'
    BY <1>0, <2>1, <2>2 DEF SqueezeTypeOK, FilesAreThere
  <2>5. input' \subseteq Archived'
    BY <1>0, <2>1, <2>2 DEF ArchiveHasIt, Archived, Lines
  <2> QED
    BY <1>0, <2>1, <2>3, <2>4, <2>5
    DEF SqueezeInv, CopySoFar, ArchiveHasIt, NotYetOk, InputSurvives, Kept
<1>3. CASE CleanUp
  <2>1. /\ pc = "failing" /\ pc' = "idle" /\ src' = "none"
        /\ record' \in {"failed", record}
        /\ file' = [file EXCEPT !["partial"] = NoFile] \/ UNCHANGED file
        /\ whole' \subseteq whole /\ ("final" \in whole => "final" \in whole')
        /\ file' = file \/ "partial" \notin whole'
        /\ UNCHANGED <<fd, written, pos, input>>
    BY <1>3 DEF CleanUp, Report, logVars
  <2>2. /\ file'["path"] = file["path"] /\ file'["rotated"] = file["rotated"]
        /\ file'["final"] = file["final"]
    BY <1>0, <2>1 DEF SqueezeTypeOK, Name
  <2>3. SqueezeTypeOK'
    BY <1>0, <2>1 DEF SqueezeTypeOK, Name
  <2>4. FilesAreThere'
    BY <1>0, <2>1, <2>2 DEF SqueezeTypeOK, FilesAreThere
  <2>5. Archived' = Archived /\ Kept' = Kept
    BY <2>1, <2>2 DEF Kept, Archived, Lines
  <2> QED
    BY <1>0, <2>1, <2>3, <2>4, <2>5
    DEF SqueezeInv, CopySoFar, ArchiveHasIt, NotYetOk, InputSurvives
<1> QED BY <1>1, <1>2, <1>3

(* Every step of the squeeze, of the writer and of logrotate keeps the      *)
(* invariant.                                                               *)
LEMMA SqueezeStays == SqueezeInv /\ [SqueezeNext]_squeezeVars => SqueezeInv'
<1> SUFFICES ASSUME SqueezeInv, [SqueezeNext]_squeezeVars
             PROVE  SqueezeInv'
  OBVIOUS
<1>1. CASE UNCHANGED squeezeVars
  BY <1>1
  DEF squeezeVars, logVars, callVars, SqueezeInv, SqueezeTypeOK, FilesAreThere, CopySoFar,
      ArchiveHasIt, NotYetOk, InputSurvives, Kept, Archived, Lines
<1> QED
  BY <1>1, OutsideKeeps, WordsKeep, BeginAndOpenKeep, CopyKeeps, ReplaceAndUnlinkKeep
  DEF SqueezeNext

(* Every line the log held when squeeze_log opened it is in the log, in the *)
(* rotated file or in an archive that unpacks, at every instant until the   *)
(* next squeeze, and in the archive when the trail calls the squeeze ok.    *)
THEOREM SqueezeLosesNothing ==
  SqueezeInit /\ [][SqueezeNext]_squeezeVars => []InputSurvives
<1>1. SqueezeInv => InputSurvives
  BY DEF SqueezeInv
<1> QED BY <1>1, SqueezeStarts, SqueezeStays, PTL

=============================================================================
