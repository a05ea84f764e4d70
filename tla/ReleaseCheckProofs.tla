-------------------------- MODULE ReleaseCheckProofs --------------------------
(***************************************************************************)
(* What the release check promises, for any number of processes, any       *)
(* releases and assets, any TTL and any settings of the clock: nobody is   *)
(* answered from an entry that outlived its TTL, and what a host is told   *)
(* and installs follows the order of the versions.                         *)
(***************************************************************************)
EXTENDS ReleaseCheck, WellFoundedInduction, TLAPS

(***************************************************************************)
(* The inductive invariant.                                                *)
(***************************************************************************)

Entries == [state : {"entry"}, at : Int, stamped : Int, body : published]

Answers ==
  [what : {"unanswered", "no asset", "current", "offer", "refused", "installed"},
   code : {0, 3}]

(* Every spelling of a version that is on a host or in a tag. *)
Spelling ==
  UNION {start.installed \union ({Releases[r].tag : r \in start.published} \ {Nothing, Blank}) :
           start \in Starts}

RelTypes ==
  /\ \E start \in Starts : published = start.published
  /\ latest \in published
  /\ installed \in Spelling
  /\ time \in Nat /\ wall \in Int /\ back \in Nat
  /\ cache \in Entries \union {Torn, Nothing}
  /\ pc \in [Process -> PC]
  /\ running \in [Process -> Spelling \union {Nothing}]
  /\ stamp \in [Process -> Entries \union {Nothing}]
  /\ payload \in [Process -> published \union {Page, Nothing}]
  /\ answer \in [Process -> Answers \union {Nothing}]
  /\ used \in [Process -> [kept : Int, back : Nat] \union {Nothing}]
  /\ passed \in [Process -> SUBSET Process]

(* By the clock of the host an entry is no younger than it is, but for what *)
(* the clock was set back by.                                               *)
Aged(entry) == (time - entry.stamped) - (wall - entry.at) <= back

CacheAged ==
  /\ cache \notin {Torn, Nothing} => Aged(cache)
  /\ \A p \in Process : stamp[p] # Nothing => Aged(stamp[p])

(* What a process knows where it is. *)
Release(p) == ParseRelease(payload[p])

Knows(p) ==
  /\ pc[p] = "idle" => payload[p] = Nothing /\ answer[p] = Nothing
  /\ pc[p] = "reply" => payload[p] \in published \union {Page}
  /\ pc[p] \in {"writing", "decided", "offered"} => payload[p] \in published
  /\ pc[p] = "writing" => stamp[p] \in Entries
  /\ pc[p] \notin {"idle", "done"} => running[p] \in Spelling /\ answer[p] = Nothing
  /\ pc[p] = "offered" =>
       /\ kind[p] = "apply" /\ Release(p) # Nothing
       /\ IsNewer(Release(p).version, running[p])
  /\ used[p] # Nothing =>
       /\ used[p].kept < TTL(p) + used[p].back
       /\ payload[p] \in published \union {Nothing}

(* What the answers say of the release they are about. *)
Told(p) ==
  answer[p] # Nothing =>
    \/ answer[p].what \in {"unanswered", "refused"}
    \/ answer[p].what = "current" /\ payload[p] = Nothing
    \/ /\ payload[p] \in published /\ running[p] \in Spelling
       /\ \/ answer[p].what = "no asset" /\ Release(p) = Nothing
          \/ /\ answer[p].what = "current" /\ Release(p) # Nothing
             /\ ~IsNewer(Release(p).version, running[p])
          \/ /\ answer[p].what \in {"offer", "installed"} /\ Release(p) # Nothing
             /\ IsNewer(Release(p).version, running[p])

RelInv ==
  /\ RelTypes /\ CacheAged
  /\ \A p \in Process : Knows(p) /\ Told(p)

(* The code's comparison orders the spellings in play as PEP 440 does. *)
ComparisonIsRight ==
  \A v, w \in Spelling : IsNewer(v, w) <=> Succeeds(v, w)

(* An update that installed has left the host with an older release only    *)
(* where another, under way while it installed, has installed after it.     *)
Installed(p) == answer[p] # Nothing /\ answer[p].what = "installed" /\ payload[p] # Nothing

NoneOlder ==
  \A p \in Process :
    Installed(p) /\ IsNewer(Release(p).version, installed) => Overtaken(p)

(* So whoever is under way and was not when an update installed began no    *)
(* further back than that, and is offered nothing that is.                  *)
BegunNoOlder ==
  \A p, q \in Process :
    (/\ Installed(p) /\ UnderWay(q) /\ p \notin passed[q]
     /\ IsNewer(Release(p).version, running[q])) => Overtaken(p)

(* A release that can be installed has the version its tag names. *)
LEMMA ReleaseHasItsTag ==
  ASSUME NEW name, ParseRelease(name) # Nothing
  PROVE  /\ ParseRelease(name).version = Releases[name].tag
         /\ Releases[name].tag \notin {Nothing, Blank}
  BY DEF ParseRelease

(* The pattern has something to say of every spelling in play. *)
LEMMA SpellingsHaveGroups == Spelling \subseteq DOMAIN Groups
  BY SpelledAssumption DEF Spelling

(* The tag of a published release is one of the spellings in play. *)
LEMMA TagsAreSpelled ==
  ASSUME RelTypes, NEW name \in published, ParseRelease(name) # Nothing
  PROVE  ParseRelease(name).version \in Spelling
<1>1. PICK start \in Starts : published = start.published
  BY DEF RelTypes
<1>2. Releases[name].tag \in {Releases[r].tag : r \in start.published} \ {Nothing, Blank}
  BY <1>1, ReleaseHasItsTag
<1> QED BY <1>2, ReleaseHasItsTag DEF Spelling

(* Before anybody runs, nothing is asked, cached or answered. *)
LEMMA RelInitInv == Init => RelInv /\ NoneOlder /\ BegunNoOlder
<1> SUFFICES ASSUME Init PROVE RelInv /\ NoneOlder /\ BegunNoOlder
  OBVIOUS
<1>1. PICK start \in Starts : published = start.published /\ installed \in start.installed
  BY DEF Init
<1>2. installed \in Spelling
  BY <1>1 DEF Spelling
<1>3. RelTypes
  BY <1>1, <1>2 DEF Init, RelTypes, PC
<1>4. CacheAged /\ NoneOlder /\ BegunNoOlder
  BY DEF Init, CacheAged, NoneOlder, BegunNoOlder, Installed
<1>5. \A p \in Process : Knows(p) /\ Told(p)
  BY DEF Init, Knows, Told
<1> QED BY <1>3, <1>4, <1>5 DEF RelInv

(* What a step of one process leaves to the others. *)
Elsewhere(p) ==
  /\ kind' = kind /\ published' = published
  /\ \A q \in Process \ {p} :
       /\ pc'[q] = pc[q] /\ running'[q] = running[q] /\ stamp'[q] = stamp[q]
       /\ payload'[q] = payload[q] /\ answer'[q] = answer[q] /\ used'[q] = used[q]

Step(p) ==
  \/ \E asset \in BOOLEAN : Start(p, asset)
  \/ ReadCache(p) \/ Respond(p) \/ NoReply(p) \/ Decode(p) \/ WriteCache(p)
  \/ Decide(p) \/ Refuse(p) \/ Install(p) \/ Die(p)

(* A process changes nothing of another's. *)
LEMMA StepsAreOwn ==
  ASSUME RelTypes, NEW p \in Process, Step(p)
  PROVE  Elsewhere(p)
<1> USE DEF Elsewhere, RelTypes, outside, Move, Say, Use
<1>1. ASSUME NEW asset \in BOOLEAN, Start(p, asset) PROVE Elsewhere(p)
  BY <1>1 DEF Start
<1>2. CASE ReadCache(p)
  BY <1>2 DEF ReadCache, UseCache
<1>3. CASE Respond(p)
  BY <1>3 DEF Respond
<1>4. CASE NoReply(p)
  BY <1>4 DEF NoReply
<1>5. CASE Decode(p)
  BY <1>5 DEF Decode
<1>6. CASE WriteCache(p)
  BY <1>6 DEF WriteCache
<1>7. CASE Decide(p)
  BY <1>7 DEF Decide
<1>8. CASE Refuse(p) \/ Install(p)
  BY <1>8 DEF Refuse, Install
<1>9. CASE Die(p)
  BY <1>9 DEF Die
<1> QED BY <1>1, <1>2, <1>3, <1>4, <1>5, <1>6, <1>7, <1>8, <1>9 DEF Step

(* No step gives a variable a value outside its type, and none but Install  *)
(* changes what is installed.                                               *)
LEMMA RelTypesStay == RelInv /\ [Next]_relVars => RelTypes'
<1> SUFFICES ASSUME RelInv, [Next]_relVars PROVE RelTypes'
  OBVIOUS
<1>0. RelTypes
  BY DEF RelInv
<1> USE <1>0 DEF RelTypes
<1>1. CASE UNCHANGED relVars
  BY <1>1 DEF relVars, Entries
<1>2. CASE Publish
  BY <1>2 DEF Publish, Entries
<1>3. CASE Tick
  BY <1>3 DEF Tick, Entries
<1>4. CASE SetClock
  <2>1. PICK j \in Jumps : wall' = wall + j /\ back' = IF j < 0 THEN back - j ELSE back
    BY <1>4 DEF SetClock
  <2>2. j \in Int
    BY <2>1, ReleaseAssumption
  <2>3. wall' \in Int /\ back' \in Nat
    BY <2>1, <2>2
  <2> QED BY <1>4, <2>3 DEF SetClock, Entries
<1>5. ASSUME NEW p \in Process, Step(p) PROVE RelTypes'
  <2>0. ASSUME NEW what \in {"unanswered", "no asset", "current", "offer", "refused",
                             "installed"},
               NEW exit \in {0, 3}, Say(p, what, exit)
        PROVE  answer' \in [Process -> Answers \union {Nothing}]
    <3>1. [what |-> what, code |-> exit] \in Answers
      BY DEF Answers
    <3> QED BY <2>0, <3>1 DEF Say
  <2> USE DEF outside, Move, Use, PC
  <2>1. ASSUME published' = published PROVE Entries' = Entries
    BY <2>1 DEF Entries
  <2>2. ASSUME NEW asset \in BOOLEAN, Start(p, asset) PROVE RelTypes'
    <3>1. running' \in [Process -> Spelling \union {Nothing}]
      BY <2>2 DEF Start
    <3>2. answer' \in [Process -> Answers \union {Nothing}]
      BY <2>0, <2>2 DEF Start
    <3>3. pc' \in [Process -> PC]
      BY <2>2 DEF Start, Say
    <3> QED BY <2>1, <2>2, <3>1, <3>2, <3>3 DEF Start, Say
  <2>3. CASE ReadCache(p)
    <3>1. CASE fresh(p) /\ UseCache(p) /\ UNCHANGED asked
      <4>1. cache \in Entries
        BY <3>1 DEF fresh
      <4>2. /\ cache.body \in published
            /\ [kept |-> time - cache.stamped, back |-> back] \in [kept : Int, back : Nat]
        <5>1. cache.body \in published /\ cache.stamped \in Int
          BY <4>1 DEF Entries
        <5>2. time - cache.stamped \in Int /\ back \in Nat
          BY <5>1
        <5> HIDE DEF RelTypes
        <5> QED BY <5>1, <5>2
      <4> QED BY <2>1, <2>3, <3>1, <4>2 DEF ReadCache, UseCache
    <3>2. CASE ~(fresh(p) /\ UseCache(p) /\ UNCHANGED asked)
      BY <2>1, <2>3, <3>2 DEF ReadCache
    <3> QED BY <3>1, <3>2
  <2>4. CASE Respond(p)
    <3>1. payload' \in [Process -> published \union {Page, Nothing}]
      BY <2>4 DEF Respond
    <3>2. used' \in [Process -> [kept : Int, back : Nat] \union {Nothing}]
      BY <2>4 DEF Respond
    <3>3. pc' \in [Process -> PC]
      BY <2>4 DEF Respond
    <3> QED BY <2>1, <2>4, <3>1, <3>2, <3>3 DEF Respond
  <2>5. CASE NoReply(p)
    BY <2>0, <2>1, <2>5 DEF NoReply, Say
  <2>6. CASE Decode(p)
    <3>1. payload[p] # Page => Entry(payload[p]) \in Entries
      <4>1. pc[p] = "reply" /\ Knows(p)
        BY <2>6 DEF Decode, RelInv
      <4>2. payload[p] # Page => payload[p] \in published
        BY <4>1 DEF Knows
      <4>3. ASSUME NEW body \in published PROVE Entry(body) \in Entries
        BY DEF Entry, Entries
      <4> QED BY <4>2, <4>3
    <3>2. cache' \in Entries \union {Torn, Nothing}
      BY <2>6, <3>1 DEF Decode
    <3>3. stamp' \in [Process -> Entries \union {Nothing}]
      BY <2>6, <3>1 DEF Decode
    <3>4. answer' \in [Process -> Answers \union {Nothing}]
      BY <2>0, <2>6 DEF Decode
    <3>5. pc' \in [Process -> PC]
      BY <2>6 DEF Decode, Say
    <3> QED BY <2>1, <2>6, <3>2, <3>3, <3>4, <3>5 DEF Decode, Say
  <2>7. CASE WriteCache(p)
    BY <2>1, <2>7 DEF WriteCache
  <2>8. CASE Decide(p)
    <3>1. answer' \in [Process -> Answers \union {Nothing}]
      BY <2>0, <2>8 DEF Decide
    <3>2. pc' \in [Process -> PC]
      <4>1. pc' = [pc EXCEPT ![p] = "done"] \/ pc' = [pc EXCEPT ![p] = "offered"]
        BY <2>8 DEF Decide, Say
      <4> QED BY <4>1
    <3> QED BY <2>1, <2>8, <3>1, <3>2 DEF Decide, Say
  <2>9. CASE Refuse(p)
    BY <2>0, <2>1, <2>9 DEF Refuse, Say
  <2>10. CASE Install(p)
    <3>1. ParseRelease(payload[p]).version \in Spelling
      BY <2>10, TagsAreSpelled DEF Install, RelInv, Knows, Release
    <3> QED BY <2>0, <2>1, <2>10, <3>1 DEF Install, Say
  <2>11. CASE Die(p)
    BY <2>1, <2>11 DEF Die
  <2> QED BY <1>5, <2>2, <2>3, <2>4, <2>5, <2>6, <2>7, <2>8, <2>9, <2>10, <2>11 DEF Step
<1> QED BY <1>1, <1>2, <1>3, <1>4, <1>5 DEF Next, Step

(* The clock may be set back or forward: an entry is never younger by the   *)
(* host's clock than it is by more than the clock was set back (cacheFile). *)
LEMMA AgesStay == RelInv /\ [Next]_relVars => CacheAged'
<1> SUFFICES ASSUME RelInv, [Next]_relVars PROVE CacheAged'
  OBVIOUS
<1>0. /\ time \in Nat /\ wall \in Int /\ back \in Nat
      /\ cache \in Entries \union {Torn, Nothing}
      /\ stamp \in [Process -> Entries \union {Nothing}]
  BY DEF RelInv, RelTypes
<1>1. ASSUME NEW e \in Entries PROVE e.at \in Int /\ e.stamped \in Int
  BY DEF Entries
<1>2. CASE /\ cache' = cache /\ stamp' = stamp
           /\ \A e \in Entries : Aged(e) => (time' - e.stamped) - (wall' - e.at) <= back'
  BY <1>0, <1>2 DEF RelInv, CacheAged, Aged
<1>3. CASE Publish \/ UNCHANGED relVars
  BY <1>2, <1>3 DEF Publish, relVars, Aged
<1>4. CASE Tick
  <2>1. ASSUME NEW e \in Entries, Aged(e)
        PROVE  (time' - e.stamped) - (wall' - e.at) <= back'
    <3>1. time' = time + 1 /\ wall' = wall + 1 /\ back' = back
      BY <1>4 DEF Tick
    <3> QED BY <1>0, <1>1, <2>1, <3>1 DEF Aged
  <2> QED BY <1>2, <1>4, <2>1 DEF Tick
<1>5. CASE SetClock
  <2>1. PICK j \in Jumps : wall' = wall + j /\ back' = IF j < 0 THEN back - j ELSE back
    BY <1>5 DEF SetClock
  <2>2. j \in Int /\ time' = time
    BY <1>5, <2>1, ReleaseAssumption DEF SetClock
  <2>3. ASSUME NEW e \in Entries, Aged(e)
        PROVE  (time' - e.stamped) - (wall' - e.at) <= back'
    BY <1>0, <1>1, <2>1, <2>2, <2>3 DEF Aged
  <2> QED BY <1>2, <1>5, <2>3 DEF SetClock
<1>6. ASSUME NEW p \in Process, Step(p) PROVE CacheAged'
  <2>1. UNCHANGED <<time, wall, back>>
    BY <1>6 DEF Step, Start, ReadCache, Respond, NoReply, Decode, WriteCache, Decide, Refuse,
                Install, Die, outside
  <2>2. ASSUME NEW e PROVE Aged(e)' <=> (time - e'.stamped) - (wall - e'.at) <= back
    BY <2>1 DEF Aged
  <2>3. CASE UNCHANGED <<cache, stamp>>
    BY <2>1, <2>3 DEF RelInv, CacheAged, Aged
  <2>4. CASE Decode(p) /\ ~UNCHANGED <<cache, stamp>>
    <3>1. cache' = Torn /\ stamp' = [stamp EXCEPT ![p] = Entry(payload[p])]
      BY <2>4 DEF Decode
    <3>2. (time - Entry(payload[p]).stamped) - (wall - Entry(payload[p]).at) <= back
      BY <1>0 DEF Entry
    <3>3. ASSUME NEW q \in Process, stamp'[q] # Nothing PROVE Aged(stamp[q])'
      <4>1. CASE q = p
        BY <1>0, <2>1, <3>1, <3>2, <4>1 DEF Aged
      <4>2. CASE q # p
        BY <1>0, <2>1, <3>1, <3>3, <4>2 DEF Aged, RelInv, CacheAged
      <4> QED BY <4>1, <4>2
    <3> QED BY <3>1, <3>3 DEF CacheAged, Torn
  <2>5. CASE WriteCache(p)
    <3>1. /\ cache' \in {stamp[p], Torn}
          /\ stamp' = [stamp EXCEPT ![p] = Nothing]
      BY <2>5 DEF WriteCache
    <3> QED BY <1>0, <2>1, <3>1 DEF CacheAged, Aged, RelInv, Torn
  <2>6. CASE Die(p)
    BY <1>0, <2>1, <2>6 DEF Die, RelInv, CacheAged, Aged
  <2>7. Step(p) => UNCHANGED <<cache, stamp>> \/ Decode(p) \/ WriteCache(p) \/ Die(p)
    BY DEF Step, Start, ReadCache, Respond, NoReply, Decide, Refuse, Install
  <2> QED BY <1>6, <2>3, <2>4, <2>5, <2>6, <2>7
<1> QED BY <1>3, <1>4, <1>5, <1>6 DEF Next, Step

(* A process that steps knows what it should where it comes to be, and what *)
(* it answers is so (Checker.Check, Run).                                   *)
LEMMA StepsKnow ==
  ASSUME RelInv, RelTypes', NEW p \in Process, Step(p)
  PROVE  Knows(p)' /\ Told(p)'
<1>0. /\ RelTypes /\ Knows(p) /\ Told(p) /\ kind' = kind /\ published' = published
      /\ TTL(p)' = TTL(p)
  BY StepsAreOwn DEF RelInv, Elsewhere, TTL
<1>1. Entries' = Entries
  BY <1>0 DEF Entries
<1>2. ASSUME payload'[p] = payload[p] PROVE Release(p)' = Release(p)
  BY <1>2 DEF Release
<1> USE <1>0, <1>1, <1>2 DEF RelTypes, Move, Use
<1>3. ASSUME NEW what, NEW exit, Say(p, what, exit)
      PROVE  /\ pc'[p] = "done"
             /\ answer'[p].what = what
  BY <1>3 DEF Say
<1>4. ASSUME NEW asset \in BOOLEAN, Start(p, asset) PROVE Knows(p)' /\ Told(p)'
  <2>1. /\ pc[p] = "idle" /\ payload' = payload /\ used' = used
        /\ running'[p] \in Spelling
    BY <1>4 DEF Start
  <2>2. payload[p] = Nothing /\ answer[p] = Nothing
    BY <2>1 DEF Knows
  <2>3. CASE pc'[p] = "reading" /\ answer' = answer
    BY <2>1, <2>2, <2>3 DEF Knows, Told
  <2>4. CASE Say(p, "current", 0)
    BY <1>3, <2>1, <2>2, <2>4 DEF Knows, Told
  <2> QED BY <1>4, <2>3, <2>4 DEF Start
<1>5. CASE ReadCache(p)
  <2>1. pc[p] = "reading" /\ answer' = answer /\ running' = running /\ stamp' = stamp
    BY <1>5 DEF ReadCache
  <2>2. CASE fresh(p) /\ UseCache(p)
    <3>1. cache \in Entries /\ wall - cache.at < TTL(p)
      BY <2>2 DEF fresh
    <3>2. Aged(cache)
      BY <2>2 DEF fresh, RelInv, CacheAged
    <3>3. cache.at \in Int /\ cache.stamped \in Int /\ cache.body \in published
      BY <3>1 DEF Entries
    <3>4. TTL(p) \in Int
      BY ReleaseAssumption DEF TTL
    <3>5. time - cache.stamped < TTL(p) + back
      <4>1. time \in Int /\ wall \in Int /\ back \in Int
        OBVIOUS
      <4> HIDE DEF RelTypes
      <4> QED BY <3>1, <3>2, <3>3, <3>4, <4>1 DEF Aged
    <3>6. /\ pc'[p] = "decided" /\ payload'[p] = cache.body
          /\ used'[p] = [kept |-> time - cache.stamped, back |-> back]
      BY <2>2 DEF UseCache
    <3>7. used'[p].kept < TTL(p) + used'[p].back
      BY <3>5, <3>6
    <3> QED BY <2>1, <3>3, <3>6, <3>7 DEF Knows, Told
  <2>3. CASE ~fresh(p) /\ pc'[p] = "fetching" /\ payload' = payload /\ used' = used
    BY <2>1, <2>3 DEF Knows, Told
  <2> QED BY <1>5, <2>2, <2>3 DEF ReadCache
<1>6. CASE Respond(p)
  <2>1. /\ pc[p] = "fetching" /\ pc'[p] = "reply"
        /\ payload'[p] \in published \union {Page} /\ used'[p] = Nothing
        /\ running' = running /\ answer' = answer
    BY <1>6 DEF Respond
  <2> QED BY <2>1 DEF Knows, Told
<1>7. CASE NoReply(p)
  BY <1>3, <1>7 DEF NoReply, Knows, Told, Say
<1>8. CASE Decode(p)
  <2>1. /\ pc[p] = "reply" /\ payload' = payload /\ used' = used /\ running' = running
        /\ payload[p] \in published \union {Page}
    BY <1>8 DEF Decode, Knows
  <2>2. CASE Say(p, "unanswered", 3)
    BY <1>3, <2>1, <2>2 DEF Knows, Told
  <2>3. CASE /\ payload[p] # Page /\ stamp' = [stamp EXCEPT ![p] = Entry(payload[p])]
             /\ pc'[p] = "writing" /\ answer' = answer
    <3>1. stamp'[p] \in Entries
      BY <2>1, <2>3 DEF Entry, Entries
    <3> QED BY <2>1, <2>3, <3>1 DEF Knows, Told
  <2>4. CASE payload[p] # Page /\ pc'[p] = "decided" /\ answer' = answer
    BY <2>1, <2>4 DEF Knows, Told
  <2> QED BY <1>8, <2>2, <2>3, <2>4 DEF Decode
<1>9. CASE WriteCache(p)
  BY <1>9 DEF WriteCache, Knows, Told
<1>10. CASE Decide(p)
  BY <1>3, <1>10 DEF Decide, Knows, Told, Say, Release
<1>11. CASE Refuse(p)
  BY <1>3, <1>11 DEF Refuse, Knows, Told, Say
<1>12. CASE Install(p)
  BY <1>3, <1>12 DEF Install, Knows, Told, Say
<1>13. CASE Die(p)
  BY <1>13 DEF Die, UnderWay, Knows, Told
<1> QED BY <1>4, <1>5, <1>6, <1>7, <1>8, <1>9, <1>10, <1>11, <1>12, <1>13 DEF Step

(* A step of one process leaves what the others know and were told. *)
LEMMA OthersStillKnow ==
  ASSUME RelInv, NEW p \in Process, Elsewhere(p), NEW q \in Process \ {p}
  PROVE  Knows(q)' /\ Told(q)'
<1>1. Knows(q) /\ Told(q)
  BY DEF RelInv
<1>2. Entries' = Entries /\ TTL(q)' = TTL(q) /\ Release(q)' = Release(q)
  BY DEF Elsewhere, Entries, TTL, Release
<1> QED BY <1>1, <1>2 DEF Elsewhere, Knows, Told

(* Every step keeps the invariant. *)
LEMMA RelNextInv == RelInv /\ [Next]_relVars => RelInv'
<1> SUFFICES ASSUME RelInv, [Next]_relVars PROVE RelInv'
  OBVIOUS
<1>1. RelTypes' /\ CacheAged'
  BY RelTypesStay, AgesStay
<1>2. ASSUME NEW p \in Process, Step(p), NEW q \in Process PROVE Knows(q)' /\ Told(q)'
  <2>1. CASE q = p
    BY <1>1, <1>2, <2>1, StepsKnow
  <2>2. CASE q # p
    BY <1>2, <2>2, StepsAreOwn, OthersStillKnow DEF RelInv
  <2> QED BY <2>1, <2>2
<1>3. ASSUME Publish \/ Tick \/ SetClock \/ UNCHANGED relVars, NEW q \in Process
      PROVE  Knows(q)' /\ Told(q)'
  <2>1. UNCHANGED <<kind, published, pc, running, stamp, payload, answer, used>>
    BY <1>3 DEF Publish, Tick, SetClock, relVars
  <2>2. Entries' = Entries /\ TTL(q)' = TTL(q) /\ Release(q)' = Release(q)
    BY <2>1 DEF Entries, TTL, Release
  <2> QED BY <2>1, <2>2 DEF RelInv, Knows, Told
<1> QED BY <1>1, <1>2, <1>3 DEF RelInv, Next, Step

(* The invariant holds in every state of every run. *)
THEOREM ReleaseInvariant == Spec => []RelInv
<1> QED BY RelInitInv, RelNextInv, PTL DEF Spec

(* Nobody is answered from a cache written longer ago than its TTL and what *)
(* the clock was set back by, nor from one that was not wholly written,     *)
(* however the clock is set and whoever dies over the file (Checker.fresh). *)
THEOREM AnswersAlwaysFresh == Spec => []AnswersAreFresh
<1>1. RelInv => AnswersAreFresh
  <2> SUFFICES ASSUME RelInv, NEW p \in Process, used[p] # Nothing, payload[p] # Nothing
               PROVE  used[p].kept < TTL(p) + used[p].back /\ payload[p] \in published
    BY DEF AnswersAreFresh
  <2> QED BY DEF RelInv, Knows
<1> QED BY <1>1, ReleaseInvariant, PTL

(***************************************************************************)
(* The order of the versions                                               *)
(***************************************************************************)

(* A bounded set of numbers that is not empty has a greatest one. *)
LEMMA GreatestExists ==
  ASSUME NEW n \in Nat, NEW S \in SUBSET (0 .. n), S # {}
  PROVE  Max(S) \in S /\ \A y \in S : Max(S) >= y
<1> DEFINE R == OpToRel(<, Nat)
           T == {n - s : s \in S}
<1>1. T \subseteq Nat /\ T # {}
  OBVIOUS
<1>2. IsWellFoundedOn(R, Nat)
  BY NatLessThanWellFounded
<1>3. \E x \in T : \A y \in T : ~ (<<y, x>> \in R)
  <2> HIDE DEF R, T
  <2> QED BY <1>1, <1>2, WFMin
<1>4. PICK x \in T : \A y \in T : ~ (y < x)
  BY <1>1, <1>3 DEF OpToRel
<1>5. PICK m \in S : x = n - m
  BY <1>4
<1>6. \A y \in S : m >= y
  <2> TAKE y \in S
  <2>1. n - y \in T /\ ~(n - y < n - m)
    BY <1>4, <1>5
  <2>2. n \in Int /\ y \in Int /\ m \in Int
    BY <1>5
  <2> QED BY <2>1, <2>2
<1>7. \E z \in S : \A y \in S : z >= y
  BY <1>5, <1>6
<1> QED BY <1>7 DEF Max

(* A set of numbers that is not empty has a least one. *)
LEMMA SmallestExists ==
  ASSUME NEW T \in SUBSET Nat, T # {}
  PROVE  \E x \in T : \A y \in T : x <= y
<1> DEFINE R == OpToRel(<, Nat)
<1>1. IsWellFoundedOn(R, Nat)
  BY NatLessThanWellFounded
<1>2. \E x \in T : \A y \in T : ~ (<<y, x>> \in R)
  <2> HIDE DEF R
  <2> QED BY <1>1, WFMin
<1>3. PICK x \in T : \A y \in T : ~ (y < x)
  BY <1>2 DEF OpToRel
<1> QED BY <1>3

(* c compares the elements of S as a sort key does: either way around it    *)
(* says the same, and what is no greater than something no greater is none. *)
Ranks(c, S) ==
  /\ \A x, y \in S : c[x][y] \in {-1, 0, 1} /\ c[x][y] = -c[y][x]
  /\ \A x, y, z \in S : c[x][y] <= 0 /\ c[y][z] <= 0 => c[x][z] <= 0

(* Where two lists first differ, and that they nowhere do. *)
DifferAt(c, a, b, i) ==
  /\ i \in DOMAIN a \intersect DOMAIN b /\ c[a[i]][b[i]] # 0
  /\ \A j \in 1 .. i - 1 : c[a[j]][b[j]] = 0

Agree(c, a, b) == \A i \in DOMAIN a \intersect DOMAIN b : c[a[i]][b[i]] = 0

(* cmpSlice with its comparison in a function. *)
Slices(c, a, b) ==
  LET differ == {i \in DOMAIN a \intersect DOMAIN b : c[a[i]][b[i]] # 0}
  IN  IF differ = {} THEN cmpInt(Len(a), Len(b))
      ELSE c[a[Min(differ)]][b[Min(differ)]]

(* What follows of three that are ranked. *)
LEMMA RankedThree ==
  ASSUME NEW S, NEW c, Ranks(c, S), NEW x \in S, NEW y \in S, NEW z \in S
  PROVE  /\ c[x][y] \in {-1, 0, 1} /\ c[y][z] \in {-1, 0, 1} /\ c[x][z] \in {-1, 0, 1}
         /\ c[x][y] <= 0 /\ c[y][z] <= 0 => c[x][z] <= 0
         /\ c[x][y] = 0 => c[x][z] = c[y][z]
         /\ c[y][z] = 0 => c[x][z] = c[x][y]
         /\ c[x][y] < 0 /\ c[y][z] < 0 => c[x][z] < 0
<1>1. /\ c[x][y] \in {-1, 0, 1} /\ c[y][z] \in {-1, 0, 1} /\ c[x][z] \in {-1, 0, 1}
      /\ c[y][x] = -c[x][y] /\ c[z][y] = -c[y][z] /\ c[z][x] = -c[x][z]
  BY DEF Ranks
<1>2. /\ c[x][y] <= 0 /\ c[y][z] <= 0 => c[x][z] <= 0
      /\ c[y][x] <= 0 /\ c[x][z] <= 0 => c[y][z] <= 0
      /\ c[z][y] <= 0 /\ c[y][x] <= 0 => c[z][x] <= 0
      /\ c[z][x] <= 0 /\ c[x][y] <= 0 => c[z][y] <= 0
      /\ c[y][z] <= 0 /\ c[z][x] <= 0 => c[y][x] <= 0
      /\ c[x][z] <= 0 /\ c[z][y] <= 0 => c[x][y] <= 0
  BY DEF Ranks
<1> DEFINE xy == c[x][y]  yz == c[y][z]  xz == c[x][z]
           yx == c[y][x]  zy == c[z][y]  zx == c[z][x]
<1> HIDE DEF xy, yz, xz, yx, zy, zx
<1>3. /\ xy \in {-1, 0, 1} /\ yz \in {-1, 0, 1} /\ xz \in {-1, 0, 1}
      /\ yx = -xy /\ zy = -yz /\ zx = -xz
  BY <1>1 DEF xy, yz, xz, yx, zy, zx
<1>4. /\ xy <= 0 /\ yz <= 0 => xz <= 0
      /\ yx <= 0 /\ xz <= 0 => yz <= 0
      /\ zy <= 0 /\ yx <= 0 => zx <= 0
      /\ zx <= 0 /\ xy <= 0 => zy <= 0
      /\ yz <= 0 /\ zx <= 0 => yx <= 0
      /\ xz <= 0 /\ zy <= 0 => xy <= 0
  BY <1>2 DEF xy, yz, xz, yx, zy, zx
<1>5. /\ xy = 0 => xz = yz
      /\ yz = 0 => xz = xy
      /\ xy < 0 /\ yz < 0 => xz < 0
  BY <1>3, <1>4
<1> QED BY <1>1, <1>2, <1>5 DEF xy, yz, xz

(* Whole numbers are ranked by cmpInt. *)
LEMMA NumbersAreRanked == Ranks([x \in Int |-> [y \in Int |-> cmpInt(x, y)]], Int)
<1> DEFINE c == [x \in Int |-> [y \in Int |-> cmpInt(x, y)]]
<1>1. \A x, y \in Int : c[x][y] = cmpInt(x, y)
  OBVIOUS
<1> HIDE DEF c
<1>2. \A x, y \in Int : c[x][y] \in {-1, 0, 1} /\ c[x][y] = -c[y][x]
  BY <1>1 DEF cmpInt
<1>3. \A x, y, z \in Int : c[x][y] <= 0 /\ c[y][z] <= 0 => c[x][z] <= 0
  BY <1>1 DEF cmpInt
<1> QED BY <1>2, <1>3 DEF Ranks, c

(* Two lists agree as far as both go, or there is a first place where they *)
(* do not (cmpSlice).                                                      *)
LEMMA SlicesSay ==
  ASSUME NEW S, NEW c, NEW a \in Seq(S), NEW b \in Seq(S)
  PROVE  \/ Agree(c, a, b) /\ Slices(c, a, b) = cmpInt(Len(a), Len(b))
         \/ \E i \in Nat \ {0} : DifferAt(c, a, b, i) /\ Slices(c, a, b) = c[a[i]][b[i]]
<1> DEFINE differ == {i \in DOMAIN a \intersect DOMAIN b : c[a[i]][b[i]] # 0}
<1>1. /\ Len(a) \in Nat /\ DOMAIN a = 1 .. Len(a)
      /\ Len(b) \in Nat /\ DOMAIN b = 1 .. Len(b)
  OBVIOUS
<1>2. CASE differ = {}
  <2>1. Agree(c, a, b)
    BY <1>2 DEF Agree
  <2> QED BY <1>2, <2>1 DEF Slices
<1>3. CASE differ # {}
  <2>1. differ \in SUBSET Nat
    BY <1>1
  <2> HIDE DEF differ
  <2>2. PICK i \in differ : \A j \in differ : i <= j
    BY <1>3, <2>1, SmallestExists
  <2> DEFINE m == Min(differ)
  <2>3. m \in differ /\ \A j \in differ : m <= j
    BY <2>2 DEF Min
  <2>4. m \in Nat \ {0} /\ m \in DOMAIN a \intersect DOMAIN b /\ c[a[m]][b[m]] # 0
    <3> HIDE DEF m
    <3>1. m \in DOMAIN a \intersect DOMAIN b /\ c[a[m]][b[m]] # 0
      BY <2>3 DEF differ
    <3> QED BY <1>1, <3>1
  <2>5. \A j \in 1 .. m - 1 : j \in DOMAIN a \intersect DOMAIN b /\ j \notin differ
    <3> HIDE DEF m
    <3>1. \A j \in differ : m <= j
      BY <2>3
    <3> QED BY <1>1, <2>1, <2>4, <3>1
  <2>6. \A j \in 1 .. m - 1 : c[a[j]][b[j]] = 0
    BY <2>5 DEF differ
  <2>7. Slices(c, a, b) = c[a[m]][b[m]]
    BY <1>3 DEF Slices, differ
  <2> HIDE DEF m
  <2> QED BY <2>4, <2>6, <2>7 DEF DifferAt
<1> QED BY <1>2, <1>3

(* Lists of what is ranked are ranked, element by element and by length. *)
LEMMA ListsAreRanked ==
  ASSUME NEW S, NEW c, Ranks(c, S)
  PROVE  Ranks([a \in Seq(S) |-> [b \in Seq(S) |-> Slices(c, a, b)]], Seq(S))
<1> DEFINE C == [a \in Seq(S) |-> [b \in Seq(S) |-> Slices(c, a, b)]]
<1>1. \A a, b \in Seq(S) : C[a][b] = Slices(c, a, b)
  OBVIOUS
<1> HIDE DEF C
<1>2. \A a \in Seq(S) : /\ Len(a) \in Nat /\ DOMAIN a = 1 .. Len(a)
                        /\ \A i \in 1 .. Len(a) : a[i] \in S
  OBVIOUS
<1>3. \A a, b \in Seq(S) :
        \/ Agree(c, a, b) /\ C[a][b] = cmpInt(Len(a), Len(b))
        \/ \E i \in Nat \ {0} : DifferAt(c, a, b, i) /\ C[a][b] = c[a[i]][b[i]]
  <2> TAKE a, b \in Seq(S)
  <2>1. C[a][b] = Slices(c, a, b)
    BY <1>1
  <2> QED BY <2>1, SlicesSay
<1>4. ASSUME NEW a \in Seq(S), NEW b \in Seq(S)
      PROVE  C[a][b] \in {-1, 0, 1} /\ C[a][b] = -C[b][a]
  <2>1. \A i \in DOMAIN a \intersect DOMAIN b :
          /\ c[a[i]][b[i]] \in {-1, 0, 1} /\ c[b[i]][a[i]] \in {-1, 0, 1}
          /\ c[a[i]][b[i]] = -c[b[i]][a[i]]
    BY <1>2 DEF Ranks
  <2>2. CASE Agree(c, a, b)
    <3>1. Agree(c, b, a)
      BY <2>1, <2>2 DEF Agree
    <3>2. ~ \E i \in Nat \ {0} : DifferAt(c, a, b, i) \/ DifferAt(c, b, a, i)
      BY <2>2, <3>1 DEF Agree, DifferAt
    <3>3. C[a][b] = cmpInt(Len(a), Len(b)) /\ C[b][a] = cmpInt(Len(b), Len(a))
      BY <1>3, <3>2
    <3> QED BY <1>2, <3>3 DEF cmpInt
  <2>3. CASE ~Agree(c, a, b)
    <3>1. ~Agree(c, b, a)
      BY <2>1, <2>3 DEF Agree
    <3>2. PICK i \in Nat \ {0} : DifferAt(c, a, b, i) /\ C[a][b] = c[a[i]][b[i]]
      BY <1>3, <2>3
    <3>3. PICK k \in Nat \ {0} : DifferAt(c, b, a, k) /\ C[b][a] = c[b[k]][a[k]]
      BY <1>3, <3>1
    <3>4. c[b[i]][a[i]] # 0 /\ c[a[k]][b[k]] # 0
      BY <2>1, <3>2, <3>3 DEF DifferAt
    <3>5. ~(i < k) /\ ~(k < i)
      BY <3>2, <3>3, <3>4 DEF DifferAt
    <3>6. i = k
      BY <3>5
    <3> QED BY <2>1, <3>2, <3>3, <3>6 DEF DifferAt
  <2> QED BY <2>2, <2>3
<1>5. ASSUME NEW a \in Seq(S), NEW b \in Seq(S), NEW d \in Seq(S),
             C[a][b] <= 0, C[b][d] <= 0
      PROVE  C[a][d] <= 0
  <2>1. ASSUME NEW i \in Nat, i \in DOMAIN a, i \in DOMAIN b, i \in DOMAIN d
        PROVE  /\ c[a[i]][b[i]] \in {-1, 0, 1} /\ c[b[i]][d[i]] \in {-1, 0, 1}
               /\ c[a[i]][b[i]] <= 0 /\ c[b[i]][d[i]] <= 0 => c[a[i]][d[i]] <= 0
               /\ c[a[i]][b[i]] = 0 => c[a[i]][d[i]] = c[b[i]][d[i]]
               /\ c[b[i]][d[i]] = 0 => c[a[i]][d[i]] = c[a[i]][b[i]]
               /\ c[a[i]][b[i]] < 0 /\ c[b[i]][d[i]] < 0 => c[a[i]][d[i]] < 0
    <3>1. a[i] \in S /\ b[i] \in S /\ d[i] \in S
      BY <1>2, <2>1
    <3> QED BY <3>1, RankedThree
  <2>10. \A m, n \in Nat : cmpInt(m, n) <= 0 => m <= n
    BY DEF cmpInt
  <2>2. \/ Agree(c, a, b) /\ Len(a) <= Len(b)
        \/ \E i \in Nat \ {0} : DifferAt(c, a, b, i) /\ c[a[i]][b[i]] <= 0
    <3>1. \/ Agree(c, a, b) /\ C[a][b] = cmpInt(Len(a), Len(b))
          \/ \E i \in Nat \ {0} : DifferAt(c, a, b, i) /\ C[a][b] = c[a[i]][b[i]]
      BY <1>3
    <3>2. CASE Agree(c, a, b) /\ C[a][b] = cmpInt(Len(a), Len(b))
      BY <1>2, <1>5, <2>10, <3>2
    <3>3. ASSUME NEW i \in Nat \ {0}, DifferAt(c, a, b, i), C[a][b] = c[a[i]][b[i]]
          PROVE  DifferAt(c, a, b, i) /\ c[a[i]][b[i]] <= 0
      BY <1>5, <3>3
    <3> QED BY <3>1, <3>2, <3>3
  <2>3. \/ Agree(c, b, d) /\ Len(b) <= Len(d)
        \/ \E i \in Nat \ {0} : DifferAt(c, b, d, i) /\ c[b[i]][d[i]] <= 0
    <3>1. \/ Agree(c, b, d) /\ C[b][d] = cmpInt(Len(b), Len(d))
          \/ \E i \in Nat \ {0} : DifferAt(c, b, d, i) /\ C[b][d] = c[b[i]][d[i]]
      BY <1>3
    <3>2. CASE Agree(c, b, d) /\ C[b][d] = cmpInt(Len(b), Len(d))
      BY <1>2, <1>5, <2>10, <3>2
    <3>3. ASSUME NEW i \in Nat \ {0}, DifferAt(c, b, d, i), C[b][d] = c[b[i]][d[i]]
          PROVE  DifferAt(c, b, d, i) /\ c[b[i]][d[i]] <= 0
      BY <1>5, <3>3
    <3> QED BY <3>1, <3>2, <3>3
  (* To be less somewhere before any difference is to be less. *)
  <2>4. ASSUME NEW i \in Nat \ {0}, DifferAt(c, a, d, i), c[a[i]][d[i]] <= 0
        PROVE  C[a][d] <= 0
    <3>1. ~Agree(c, a, d)
      BY <2>4 DEF Agree, DifferAt
    <3>2. PICK k \in Nat \ {0} : DifferAt(c, a, d, k) /\ C[a][d] = c[a[k]][d[k]]
      BY <1>3, <3>1
    <3>3. ~(i < k) /\ ~(k < i)
      BY <2>4, <3>2 DEF DifferAt
    <3> QED BY <2>4, <3>2, <3>3
  <2>5. ASSUME Agree(c, a, d), Len(a) <= Len(d)
        PROVE  C[a][d] <= 0
    <3>1. ~ \E i \in Nat \ {0} : DifferAt(c, a, d, i)
      BY <2>5 DEF Agree, DifferAt
    <3>2. C[a][d] = cmpInt(Len(a), Len(d))
      BY <1>3, <3>1
    <3> QED BY <1>2, <2>5, <3>2 DEF cmpInt
  <2>6. CASE Agree(c, a, b) /\ Len(a) <= Len(b) /\ Agree(c, b, d) /\ Len(b) <= Len(d)
    <3>1. \A i \in DOMAIN a : i \in Nat /\ i \in DOMAIN b /\ i \in DOMAIN d
      BY <1>2, <2>6
    <3>2. \A i \in DOMAIN a : c[a[i]][b[i]] = 0 /\ c[b[i]][d[i]] = 0
      BY <2>6, <3>1 DEF Agree
    <3>3. Agree(c, a, d)
      BY <2>1, <3>1, <3>2 DEF Agree
    <3>4. Len(a) <= Len(d)
      BY <1>2, <2>6
    <3> QED BY <2>5, <3>3, <3>4
  <2>7. ASSUME NEW i \in Nat \ {0}, DifferAt(c, a, b, i), c[a[i]][b[i]] <= 0,
               Agree(c, b, d), Len(b) <= Len(d)
        PROVE  C[a][d] <= 0
    <3>1. \A j \in 1 .. i : j \in Nat /\ j \in DOMAIN a /\ j \in DOMAIN b /\ j \in DOMAIN d
      BY <1>2, <2>7 DEF DifferAt
    <3>2. \A j \in 1 .. i : c[b[j]][d[j]] = 0
      BY <2>7, <3>1 DEF Agree
    <3>3. \A j \in 1 .. i : c[a[j]][d[j]] = c[a[j]][b[j]]
      BY <2>1, <3>1, <3>2
    <3>4. i \in 1 .. i /\ \A j \in 1 .. i - 1 : j \in 1 .. i
      OBVIOUS
    <3>5. DifferAt(c, a, d, i) /\ c[a[i]][d[i]] <= 0
      BY <2>7, <3>1, <3>3, <3>4 DEF DifferAt
    <3> QED BY <2>4, <3>5
  <2>8. ASSUME Agree(c, a, b), Len(a) <= Len(b),
               NEW i \in Nat \ {0}, DifferAt(c, b, d, i), c[b[i]][d[i]] <= 0
        PROVE  C[a][d] <= 0
    <3>1. CASE i <= Len(a)
      <4>1. \A j \in 1 .. i : j \in Nat /\ j \in DOMAIN a /\ j \in DOMAIN b /\ j \in DOMAIN d
        BY <1>2, <2>8, <3>1 DEF DifferAt
      <4>2. \A j \in 1 .. i : c[a[j]][b[j]] = 0
        BY <2>8, <4>1 DEF Agree
      <4>3. \A j \in 1 .. i : c[a[j]][d[j]] = c[b[j]][d[j]]
        BY <2>1, <4>1, <4>2
      <4>4. i \in 1 .. i /\ \A j \in 1 .. i - 1 : j \in 1 .. i
        OBVIOUS
      <4>5. DifferAt(c, a, d, i) /\ c[a[i]][d[i]] <= 0
        BY <2>8, <4>1, <4>3, <4>4 DEF DifferAt
      <4> QED BY <2>4, <4>5
    <3>2. CASE Len(a) < i
      <4>1. i <= Len(d)
        BY <1>2, <2>8 DEF DifferAt
      <4>2. \A j \in DOMAIN a : /\ j \in Nat /\ j \in DOMAIN b /\ j \in DOMAIN d
                                /\ j \in 1 .. i - 1
        BY <1>2, <2>8, <3>2, <4>1
      <4>3. \A j \in DOMAIN a : c[a[j]][b[j]] = 0 /\ c[b[j]][d[j]] = 0
        BY <2>8, <4>2 DEF Agree, DifferAt
      <4>4. Agree(c, a, d)
        BY <2>1, <4>2, <4>3 DEF Agree
      <4>5. Len(a) <= Len(d)
        BY <1>2, <3>2, <4>1
      <4> QED BY <2>5, <4>4, <4>5
    <3> QED BY <1>2, <3>1, <3>2
  <2>9. ASSUME NEW i \in Nat \ {0}, DifferAt(c, a, b, i), c[a[i]][b[i]] <= 0,
               NEW k \in Nat \ {0}, DifferAt(c, b, d, k), c[b[k]][d[k]] <= 0
        PROVE  C[a][d] <= 0
    <3>1. PICK m \in Nat \ {0} : m <= i /\ m <= k /\ (m = i \/ m = k)
      <4>1. i <= k \/ k <= i
        OBVIOUS
      <4> QED BY <4>1
    <3>2. \A j \in 1 .. m : j \in Nat /\ j \in DOMAIN a /\ j \in DOMAIN b /\ j \in DOMAIN d
      BY <1>2, <2>9, <3>1 DEF DifferAt
    <3>3. \A j \in 1 .. m - 1 : c[a[j]][b[j]] = 0 /\ c[b[j]][d[j]] = 0
      BY <2>9, <3>1 DEF DifferAt
    <3>4. \A j \in 1 .. m - 1 : c[a[j]][d[j]] = 0
      <4>1. \A j \in 1 .. m - 1 : j \in 1 .. m
        BY <3>1
      <4> QED BY <2>1, <3>2, <3>3, <4>1
    <3>5. m \in 1 .. m
      BY <3>1
    <3>6. /\ c[a[m]][b[m]] <= 0 /\ c[b[m]][d[m]] <= 0
          /\ c[a[m]][b[m]] # 0 \/ c[b[m]][d[m]] # 0
      <4>1. m < k => c[b[m]][d[m]] = 0
        BY <2>9, <3>1 DEF DifferAt
      <4>2. m < i => c[a[m]][b[m]] = 0
        BY <2>9, <3>1 DEF DifferAt
      <4>3. m = i => c[a[m]][b[m]] <= 0 /\ c[a[m]][b[m]] # 0
        BY <2>9 DEF DifferAt
      <4>4. m = k => c[b[m]][d[m]] <= 0 /\ c[b[m]][d[m]] # 0
        BY <2>9 DEF DifferAt
      <4>5. (m < i \/ m = i) /\ (m < k \/ m = k)
        BY <3>1
      <4> QED BY <3>1, <4>1, <4>2, <4>3, <4>4, <4>5
    <3>7. c[a[m]][d[m]] < 0
      <4>1. /\ c[a[m]][b[m]] \in {-1, 0, 1} /\ c[b[m]][d[m]] \in {-1, 0, 1}
            /\ c[a[m]][b[m]] = 0 => c[a[m]][d[m]] = c[b[m]][d[m]]
            /\ c[b[m]][d[m]] = 0 => c[a[m]][d[m]] = c[a[m]][b[m]]
            /\ c[a[m]][b[m]] < 0 /\ c[b[m]][d[m]] < 0 => c[a[m]][d[m]] < 0
        BY <2>1, <3>2, <3>5
      <4> QED BY <3>6, <4>1
    <3>8. c[a[m]][d[m]] # 0 /\ c[a[m]][d[m]] <= 0
      <4>1. c[a[m]][d[m]] \in {-1, 0, 1}
        BY <1>2, <3>2, <3>5 DEF Ranks
      <4> QED BY <3>7, <4>1
    <3>9. DifferAt(c, a, d, m)
      BY <3>2, <3>4, <3>5, <3>8 DEF DifferAt
    <3> QED BY <2>4, <3>8, <3>9
  <2> QED BY <2>2, <2>3, <2>6, <2>7, <2>8, <2>9
<1> QED BY <1>4, <1>5 DEF Ranks, C

(* The comparisons that compare440 is made of, in functions. *)
Numbers440 == [x \in Int |-> [y \in Int |-> cmpInt(x, y)]]
Lists440   == [a \in Seq(Int) |-> [b \in Seq(Int) |-> Slices(Numbers440, a, b)]]
Locals440  == [a \in Seq(Seq(Int)) |-> [b \in Seq(Seq(Int)) |-> Slices(Lists440, a, b)]]

LEMMA NumbersAre ==
  /\ Ranks(Numbers440, Int)
  /\ \A x, y \in Int : Numbers440[x][y] = cmpInt(x, y)
  BY NumbersAreRanked DEF Numbers440

(* cmpIntSlice is that of lists of numbers. *)
LEMMA ListsAre ==
  /\ Ranks(Lists440, Seq(Int))
  /\ \A a, b \in Seq(Int) : Lists440[a][b] = cmpIntSlice(a, b)
<1>1. Ranks(Lists440, Seq(Int))
  BY NumbersAre, ListsAreRanked DEF Lists440
<1>2. ASSUME NEW a \in Seq(Int), NEW b \in Seq(Int)
      PROVE  Slices(Numbers440, a, b) = cmpIntSlice(a, b)
  <2> DEFINE both == DOMAIN a \intersect DOMAIN b
             differ == {i \in both : cmpInt(a[i], b[i]) # 0}
  <2>1. \A i \in both : a[i] \in Int /\ b[i] \in Int
    OBVIOUS
  <2>2. \A i \in both : Numbers440[a[i]][b[i]] = cmpInt(a[i], b[i])
    BY <2>1, NumbersAre
  <2>3. {i \in both : Numbers440[a[i]][b[i]] # 0} = differ
    BY <2>2
  <2>4. differ # {} => Min(differ) \in both
    <3>1. differ \in SUBSET Nat
      OBVIOUS
    <3>2. differ \subseteq both
      OBVIOUS
    <3> HIDE DEF differ
    <3>3. differ # {} => \E i \in differ : \A j \in differ : i <= j
      BY <3>1, SmallestExists
    <3> QED BY <3>2, <3>3 DEF Min
  <2>5. cmpIntSlice(a, b) = IF differ = {} THEN cmpInt(Len(a), Len(b))
                            ELSE cmpInt(a[Min(differ)], b[Min(differ)])
    BY DEF cmpIntSlice, cmpSlice
  <2>6. Slices(Numbers440, a, b) = IF differ = {} THEN cmpInt(Len(a), Len(b))
                                   ELSE Numbers440[a[Min(differ)]][b[Min(differ)]]
    BY <2>3 DEF Slices
  <2> DEFINE m == Min(differ)
  <2> HIDE DEF both, differ, m
  <2>7. m \in both => Numbers440[a[m]][b[m]] = cmpInt(a[m], b[m])
    BY <2>2
  <2> QED BY <2>4, <2>5, <2>6, <2>7 DEF m
<1> QED BY <1>1, <1>2 DEF Lists440

(* And so are the local segments compared. *)
LEMMA LocalsAre ==
  /\ Ranks(Locals440, Seq(Seq(Int)))
  /\ \A a, b \in Seq(Seq(Int)) : Locals440[a][b] = cmpSlice(a, b, cmpIntSlice)
<1>1. Ranks(Locals440, Seq(Seq(Int)))
  BY ListsAre, ListsAreRanked DEF Locals440
<1>2. ASSUME NEW a \in Seq(Seq(Int)), NEW b \in Seq(Seq(Int))
      PROVE  Slices(Lists440, a, b) = cmpSlice(a, b, cmpIntSlice)
  <2> DEFINE both == DOMAIN a \intersect DOMAIN b
             differ == {i \in both : cmpIntSlice(a[i], b[i]) # 0}
  <2>1. \A i \in both : a[i] \in Seq(Int) /\ b[i] \in Seq(Int)
    OBVIOUS
  <2>2. \A i \in both : Lists440[a[i]][b[i]] = cmpIntSlice(a[i], b[i])
    BY <2>1, ListsAre
  <2>3. {i \in both : Lists440[a[i]][b[i]] # 0} = differ
    BY <2>2
  <2>4. differ # {} => Min(differ) \in both
    <3>1. differ \in SUBSET Nat
      OBVIOUS
    <3>2. differ \subseteq both
      OBVIOUS
    <3> HIDE DEF differ
    <3>3. differ # {} => \E i \in differ : \A j \in differ : i <= j
      BY <3>1, SmallestExists
    <3> QED BY <3>2, <3>3 DEF Min
  <2>5. cmpSlice(a, b, cmpIntSlice) = IF differ = {} THEN cmpInt(Len(a), Len(b))
                                      ELSE cmpIntSlice(a[Min(differ)], b[Min(differ)])
    BY DEF cmpSlice
  <2>6. Slices(Lists440, a, b) = IF differ = {} THEN cmpInt(Len(a), Len(b))
                                 ELSE Lists440[a[Min(differ)]][b[Min(differ)]]
    BY <2>3 DEF Slices
  <2> DEFINE m == Min(differ)
  <2> HIDE DEF both, differ, m
  <2>7. m \in both => Lists440[a[m]][b[m]] = cmpIntSlice(a[m], b[m])
    BY <2>2
  <2> QED BY <2>4, <2>5, <2>6, <2>7 DEF m
<1> QED BY <1>1, <1>2 DEF Locals440

(* What parsePEP440 makes of a spelling, version440. *)
Version == [epoch : Int, release : Seq(Int), suffix : Seq(Int), local : Seq(Seq(Int))]

(* The zeros at its end taken off, a release still is numbers. *)
LEMMA StrippedIsNumbers ==
  ASSUME NEW release \in Seq(Int)
  PROVE  stripTrailingZeros(release) \in Seq(Int)
<1> DEFINE ends == {0} \union {i \in DOMAIN release : release[i] # 0}
           last == Max(ends)
<1>1. Len(release) \in Nat /\ DOMAIN release = 1 .. Len(release)
  OBVIOUS
<1>2. ends \in SUBSET (0 .. Len(release)) /\ ends # {}
  BY <1>1
<1> HIDE DEF ends
<1>3. last \in ends
  BY <1>1, <1>2, GreatestExists
<1> HIDE DEF last
<1>4. last \in Nat /\ last <= Len(release)
  BY <1>1, <1>2, <1>3
<1>5. SubSeq(release, 1, last) \in Seq(Int)
  BY <1>1, <1>4
<1> QED BY <1>5 DEF stripTrailingZeros, last, ends

(* A spelling that parses is a version, whatever the pattern found in it: no *)
(* number of it is one that overflowed (parsePEP440).                       *)
LEMMA ParsedIsAVersion ==
  ASSUME NEW spelling \in DOMAIN Groups, parsePEP440(spelling) # Invalid
  PROVE  parsePEP440(spelling) \in Version
<1> DEFINE v == Groups[spelling]
           pre  == IF v.pre # <<>> THEN <<preRank(v.pre[1]), number(v.pre)>>
                   ELSE <<IF v.post = <<>> /\ v.dev # <<>> THEN preRankDevOnly
                          ELSE preRankStable, 0>>
           post == IF v.post = <<>> THEN <<0, 0>> ELSE <<1, number(v.post)>>
           dev  == IF v.dev = <<>> THEN <<1, 0>> ELSE <<0, number(v.dev)>>
           epoch == IF v.epoch = <<>> THEN 0 ELSE v.epoch[1]
           local == [i \in DOMAIN v.local |-> localSegment(v.local[i])]
<1>1. v # Invalid /\ inRange(v)
  BY DEF parsePEP440
<1>2. /\ v.epoch \in Seq(Digits) /\ v.release \in Seq(Digits)
      /\ \A s \in {v.pre, v.post, v.dev} : Len(s) = 2 => s[2] \in Digits
      /\ v.pre # <<>> => v.pre[1] \in {"a", "alpha", "b", "beta", "rc", "c", "pre", "preview"}
      /\ v.local \in Seq({Huge} \union [n : Nat] \union [word : Nat])
  BY <1>1, GroupsAssumption
<1>3. parsePEP440(spelling) =
        [epoch |-> epoch, release |-> stripTrailingZeros(v.release),
         suffix |-> pre \o post \o dev, local |-> local]
  BY <1>1 DEF parsePEP440
<1> HIDE DEF v
<1>4. epoch \in Int
  <2>1. CASE v.epoch # <<>>
    <3>1. 1 \in DOMAIN v.epoch /\ v.epoch[1] \in Digits
      BY <1>2, <2>1
    <3>2. v.epoch[1] # Huge
      BY <1>1, <3>1 DEF inRange
    <3> QED BY <2>1, <3>1, <3>2 DEF Digits
  <2> QED BY <2>1
<1>5. stripTrailingZeros(v.release) \in Seq(Int)
  <2>1. \A i \in DOMAIN v.release : v.release[i] \in Int
    <3> TAKE i \in DOMAIN v.release
    <3>1. v.release[i] \in Digits
      BY <1>2
    <3>2. v.release[i] # Huge
      BY <1>1 DEF inRange
    <3> QED BY <3>1, <3>2 DEF Digits
  <2>2. v.release \in Seq(Int)
    BY <1>2, <2>1
  <2> QED BY <2>2, StrippedIsNumbers
<1>6. \A s \in {v.pre, v.post, v.dev} : s # <<>> => number(s) \in Int
  <2> TAKE s \in {v.pre, v.post, v.dev}
  <2>1. s # <<>> => number(s) # Huge
    BY <1>1 DEF inRange
  <2>2. Len(s) = 2 => s[2] \in Digits
    BY <1>2
  <2> QED BY <2>1, <2>2 DEF number, Digits
<1>7. pre \o post \o dev \in Seq(Int)
  <2>1. v.pre # <<>> => preRank(v.pre[1]) \in Int
    BY <1>2 DEF preRank
  <2>2. pre \in Seq(Int)
    BY <1>6, <2>1 DEF preRankDevOnly, preRankStable
  <2>3. post \in Seq(Int) /\ dev \in Seq(Int)
    BY <1>6
  <2> HIDE DEF pre, post, dev
  <2> QED BY <2>2, <2>3
<1>8. local \in Seq(Seq(Int))
  <2>1. ASSUME NEW s \in {Huge} \union [n : Nat] \union [word : Nat]
        PROVE  localSegment(s) \in Seq(Int)
    BY <2>1 DEF localSegment, localStringRank
  <2>2. \A i \in DOMAIN v.local : localSegment(v.local[i]) \in Seq(Int)
    BY <1>2, <2>1
  <2>3. Len(v.local) \in Nat /\ DOMAIN v.local = 1 .. Len(v.local)
    BY <1>2
  <2> QED BY <2>2, <2>3
<1> HIDE DEF epoch, pre, post, dev, local
<1> QED BY <1>3, <1>4, <1>5, <1>7, <1>8 DEF Version

(* What a comparison answers. *)
Sign == {-1, 0, 1}

(* compare440 is the first of its four comparisons that tells the two apart. *)
LEMMA FirstOfFour ==
  ASSUME NEW p \in Sign, NEW q \in Sign, NEW r \in Sign, NEW s \in Sign
  PROVE  cmpIntSlice(<<p, q, r, s>>, <<0, 0, 0, 0>>) =
           IF p # 0 THEN p ELSE IF q # 0 THEN q ELSE IF r # 0 THEN r ELSE s
<1> DEFINE a == <<p, q, r, s>>
           z == <<0, 0, 0, 0>>
<1>0. p \in {-1, 0, 1} /\ q \in {-1, 0, 1} /\ r \in {-1, 0, 1} /\ s \in {-1, 0, 1}
  BY DEF Sign
<1>1. /\ a \in Seq(Int) /\ Len(a) = 4 /\ DOMAIN a = 1 .. 4
      /\ a[1] = p /\ a[2] = q /\ a[3] = r /\ a[4] = s
  BY <1>0
<1>2. /\ z \in Seq(Int) /\ Len(z) = 4 /\ DOMAIN z = 1 .. 4
      /\ z[1] = 0 /\ z[2] = 0 /\ z[3] = 0 /\ z[4] = 0
  OBVIOUS
<1> HIDE DEF a, z
<1>3. \A i \in 1 .. 4 : a[i] \in {-1, 0, 1} /\ z[i] = 0
  <2> TAKE i \in 1 .. 4
  <2>1. i = 1 \/ i = 2 \/ i = 3 \/ i = 4
    OBVIOUS
  <2> QED BY <1>0, <1>1, <1>2, <2>1
<1>4. \A i \in 1 .. 4 : Numbers440[a[i]][z[i]] = a[i]
  <2>1. \A x \in {-1, 0, 1} : cmpInt(x, 0) = x
    BY DEF cmpInt
  <2>2. {-1, 0, 1} \subseteq Int /\ 0 \in Int
    OBVIOUS
  <2> QED BY <1>3, <2>1, <2>2, NumbersAre
<1>5. cmpIntSlice(a, z) = Slices(Numbers440, a, z)
  <2>1. cmpIntSlice(a, z) = Lists440[a][z]
    BY <1>1, <1>2, ListsAre
  <2> QED BY <1>1, <1>2, <2>1 DEF Lists440
<1>6. CASE Agree(Numbers440, a, z) /\ Slices(Numbers440, a, z) = cmpInt(Len(a), Len(z))
  <2>1. \A i \in 1 .. 4 : a[i] = 0
    BY <1>1, <1>2, <1>4, <1>6 DEF Agree
  <2>2. cmpInt(4, 4) = 0
    BY DEF cmpInt
  <2>3. p = 0 /\ q = 0 /\ r = 0 /\ s = 0
    BY <1>1, <2>1
  <2> QED BY <1>1, <1>2, <1>5, <1>6, <2>2, <2>3 DEF a, z
<1>7. ASSUME NEW i \in Nat \ {0}, DifferAt(Numbers440, a, z, i),
             Slices(Numbers440, a, z) = Numbers440[a[i]][z[i]]
      PROVE  cmpIntSlice(a, z) =
               IF p # 0 THEN p ELSE IF q # 0 THEN q ELSE IF r # 0 THEN r ELSE s
  <2>1. i \in 1 .. 4 /\ a[i] # 0 /\ \A j \in 1 .. i - 1 : a[j] = 0
    <3>1. i \in 1 .. 4
      BY <1>1, <1>7 DEF DifferAt
    <3>2. \A j \in 1 .. i - 1 : j \in 1 .. 4
      BY <3>1
    <3> QED BY <1>4, <1>7, <3>1, <3>2 DEF DifferAt
  <2>2. cmpIntSlice(a, z) = a[i]
    BY <1>4, <1>5, <1>7, <2>1
  <2>3. i = 1 \/ i = 2 \/ i = 3 \/ i = 4
    BY <2>1
  <2>4. /\ i > 1 => a[1] = 0
        /\ i > 2 => a[2] = 0
        /\ i > 3 => a[3] = 0
    BY <2>1
  <2> QED BY <1>1, <2>1, <2>2, <2>3, <2>4
<1> QED BY <1>1, <1>2, <1>5, <1>6, <1>7, SlicesSay DEF a, z

(* compare440 is a rank on the versions: antisymmetric and transitive. *)
LEMMA VersionsAreRanked ==
  ASSUME NEW a \in Version, NEW b \in Version, NEW d \in Version
  PROVE  /\ compare440(a, b) \in {-1, 0, 1} /\ compare440(b, a) = -compare440(a, b)
         /\ compare440(a, b) <= 0 /\ compare440(b, d) <= 0 => compare440(a, d) <= 0
<1> DEFINE of(x, y) == IF cmpInt(x.epoch, y.epoch) # 0 THEN cmpInt(x.epoch, y.epoch)
                       ELSE IF Lists440[x.release][y.release] # 0
                       THEN Lists440[x.release][y.release]
                       ELSE IF Lists440[x.suffix][y.suffix] # 0
                       THEN Lists440[x.suffix][y.suffix] ELSE Locals440[x.local][y.local]
<1>1. ASSUME NEW x \in Version
      PROVE  /\ x.epoch \in Int /\ x.release \in Seq(Int)
             /\ x.suffix \in Seq(Int) /\ x.local \in Seq(Seq(Int))
  BY DEF Version
<1>2. ASSUME NEW x \in Version, NEW y \in Version
      PROVE  compare440(x, y) = of(x, y)
  <2> DEFINE p == cmpInt(x.epoch, y.epoch)
             q == cmpIntSlice(x.release, y.release)
             r == cmpIntSlice(x.suffix, y.suffix)
             s == cmpSlice(x.local, y.local, cmpIntSlice)
  <2>1. p = Numbers440[x.epoch][y.epoch] /\ p \in {-1, 0, 1}
    BY <1>1, NumbersAre DEF Ranks
  <2>2. q = Lists440[x.release][y.release] /\ q \in {-1, 0, 1}
    BY <1>1, ListsAre DEF Ranks
  <2>3. r = Lists440[x.suffix][y.suffix] /\ r \in {-1, 0, 1}
    BY <1>1, ListsAre DEF Ranks
  <2>4. s = Locals440[x.local][y.local] /\ s \in {-1, 0, 1}
    BY <1>1, LocalsAre DEF Ranks
  <2>5. compare440(x, y) = cmpIntSlice(<<p, q, r, s>>, <<0, 0, 0, 0>>)
    BY DEF compare440
  <2>6. of(x, y) = IF p # 0 THEN p ELSE IF q # 0 THEN q ELSE IF r # 0 THEN r ELSE s
    BY <2>2, <2>3, <2>4
  <2>7. cmpIntSlice(<<p, q, r, s>>, <<0, 0, 0, 0>>) =
          IF p # 0 THEN p ELSE IF q # 0 THEN q ELSE IF r # 0 THEN r ELSE s
    <3> HIDE DEF p, q, r, s
    <3>1. p \in Sign /\ q \in Sign /\ r \in Sign /\ s \in Sign
      BY <2>1, <2>2, <2>3, <2>4 DEF Sign
    <3> QED BY ONLY <3>1, FirstOfFour
  <2> QED BY <2>5, <2>6, <2>7
<1>3. ASSUME NEW S, NEW c, Ranks(c, S), NEW x \in S, NEW y \in S, NEW w \in S
      PROVE  /\ c[x][y] \in {-1, 0, 1} /\ c[y][x] = -c[x][y]
             /\ c[y][w] \in {-1, 0, 1} /\ c[x][w] \in {-1, 0, 1}
             /\ c[x][y] <= 0 /\ c[y][w] <= 0 => c[x][w] <= 0
             /\ c[x][y] = 0 => c[x][w] = c[y][w]
             /\ c[y][w] = 0 => c[x][w] = c[x][y]
             /\ c[x][y] < 0 /\ c[y][w] < 0 => c[x][w] < 0
  <2>1. c[y][x] = -c[x][y]
    BY <1>3 DEF Ranks
  <2> QED BY <1>3, <2>1, RankedThree
<1> DEFINE Of(c, x, y, w) ==
             /\ c[x][y] \in {-1, 0, 1} /\ c[y][x] = -c[x][y]
             /\ c[y][w] \in {-1, 0, 1} /\ c[x][w] \in {-1, 0, 1}
             /\ c[x][y] <= 0 /\ c[y][w] <= 0 => c[x][w] <= 0
             /\ c[x][y] = 0 => c[x][w] = c[y][w]
             /\ c[y][w] = 0 => c[x][w] = c[x][y]
             /\ c[x][y] < 0 /\ c[y][w] < 0 => c[x][w] < 0
<1>4. Of(Numbers440, a.epoch, b.epoch, d.epoch)
  BY <1>1, <1>3, NumbersAre
<1>5. Of(Lists440, a.release, b.release, d.release)
  BY <1>1, <1>3, ListsAre
<1>6. Of(Lists440, a.suffix, b.suffix, d.suffix)
  BY <1>1, <1>3, ListsAre
<1>7. Of(Locals440, a.local, b.local, d.local)
  BY <1>1, <1>3, LocalsAre
<1>8. \A x, y \in {a, b, d} : cmpInt(x.epoch, y.epoch) = Numbers440[x.epoch][y.epoch]
  BY <1>1, NumbersAre
<1>9. of(a, b) \in {-1, 0, 1} /\ of(b, a) = -of(a, b)
  BY <1>4, <1>5, <1>6, <1>7, <1>8
<1>10. of(a, b) <= 0 /\ of(b, d) <= 0 => of(a, d) <= 0
  BY <1>4, <1>5, <1>6, <1>7, <1>8
<1> HIDE DEF of
<1> QED BY <1>2, <1>9, <1>10

(* Whatever is spelled, what is newer is an order: nothing is newer than     *)
(* itself, two steps up are one, and a version in between is left behind by  *)
(* the one or leaves the other behind.  So nothing that is installed because *)
(* it is newer can lead round in a circle, and two spellings of one version  *)
(* are newer than the same (IsNewer, compare440).                            *)
THEOREM NewerIsAnOrder ==
  /\ \A v \in DOMAIN Groups : ~IsNewer(v, v)
  /\ \A u, v, w \in DOMAIN Groups :
       /\ IsNewer(u, v) /\ IsNewer(v, w) => IsNewer(u, w)
       /\ IsNewer(u, w) /\ parsePEP440(v) # Invalid => IsNewer(u, v) \/ IsNewer(v, w)
<1>1. ASSUME NEW v \in DOMAIN Groups PROVE ~IsNewer(v, v)
  <2>1. CASE parsePEP440(v) # Invalid
    <3> DEFINE r == compare440(parsePEP440(v), parsePEP440(v))
    <3>1. r \in {-1, 0, 1} /\ r = -r
      BY <2>1, ParsedIsAVersion, VersionsAreRanked
    <3> HIDE DEF r
    <3>2. r = 0
      BY <3>1
    <3> QED BY <3>2 DEF IsNewer, r
  <2> QED BY <2>1 DEF IsNewer
<1>2. ASSUME NEW u \in DOMAIN Groups, NEW v \in DOMAIN Groups, NEW w \in DOMAIN Groups,
             parsePEP440(u) # Invalid, parsePEP440(v) # Invalid, parsePEP440(w) # Invalid
      PROVE  /\ IsNewer(u, v) /\ IsNewer(v, w) => IsNewer(u, w)
             /\ IsNewer(u, w) => IsNewer(u, v) \/ IsNewer(v, w)
  <2> DEFINE x == parsePEP440(u)
             y == parsePEP440(v)
             z == parsePEP440(w)
  <2>1. x \in Version /\ y \in Version /\ z \in Version
    BY <1>2, ParsedIsAVersion
  <2>2. /\ IsNewer(u, v) <=> compare440(x, y) > 0
        /\ IsNewer(v, w) <=> compare440(y, z) > 0
        /\ IsNewer(u, w) <=> compare440(x, z) > 0
    BY <1>2 DEF IsNewer
  <2> HIDE DEF x, y, z
  <2>3. /\ compare440(x, y) \in {-1, 0, 1} /\ compare440(y, x) = -compare440(x, y)
        /\ compare440(y, z) \in {-1, 0, 1} /\ compare440(z, y) = -compare440(y, z)
        /\ compare440(x, z) \in {-1, 0, 1} /\ compare440(z, x) = -compare440(x, z)
    BY <2>1, VersionsAreRanked
  <2>4. /\ compare440(x, y) <= 0 /\ compare440(y, z) <= 0 => compare440(x, z) <= 0
        /\ compare440(y, x) <= 0 /\ compare440(x, z) <= 0 => compare440(y, z) <= 0
    BY <2>1, VersionsAreRanked
  <2>5. compare440(y, x) <= 0 /\ compare440(x, z) <= 0 => compare440(y, z) <= 0
    BY <2>4
  <2> DEFINE xy == compare440(x, y)  yz == compare440(y, z)  xz == compare440(x, z)
             yx == compare440(y, x)
  <2> HIDE DEF xy, yz, xz, yx
  <2>6. /\ xy \in {-1, 0, 1} /\ yz \in {-1, 0, 1} /\ xz \in {-1, 0, 1} /\ yx = -xy
        /\ xy <= 0 /\ yz <= 0 => xz <= 0
        /\ yx <= 0 /\ xz <= 0 => yz <= 0
    BY <2>3, <2>4 DEF xy, yz, xz, yx
  <2>7. (xy > 0 /\ yz > 0 => xz > 0) /\ (xz > 0 => xy > 0 \/ yz > 0)
    BY <2>6
  <2> QED BY <2>2, <2>7 DEF xy, yz, xz
<1> QED BY <1>1, <1>2 DEF IsNewer

(***************************************************************************)
(* Offers                                                                  *)
(***************************************************************************)

(* ParseRelease finds the URL of an asset exactly when the release carries  *)
(* it: the last asset of the name that has a URL decides.                   *)
LEMMA CarriedIsFound ==
  ASSUME RelTypes, NEW name \in published, Releases[name].assets # Nothing, NEW asset
  PROVE  Carries(Releases[name], asset)
           <=> urlOf(Releases[name].assets, asset) \notin {Nothing, Blank}
<1> DEFINE assets == Releases[name].assets
           of == {i \in DOMAIN assets : assets[i].name = asset /\ assets[i].url # Nothing}
<1>1. Len(assets) \in Nat /\ DOMAIN assets = 1 .. Len(assets)
  BY ListsAssumption DEF RelTypes
<1>2. urlOf(assets, asset) = IF of = {} THEN Nothing ELSE assets[Max(of)].url
  BY DEF urlOf
<1>3. of # {} => Max(of) \in of /\ \A y \in of : Max(of) >= y
  <2>1. of \in SUBSET (0 .. Len(assets))
    BY <1>1
  <2> HIDE DEF of
  <2> QED BY <1>1, <2>1, GreatestExists
<1>4. Carries(Releases[name], asset) <=>
        \E i \in 1 .. Len(assets) :
          /\ assets[i].name = asset /\ assets[i].url \notin {Nothing, Blank}
          /\ \A j \in i + 1 .. Len(assets) : assets[j].name = asset => assets[j].url = Nothing
  BY <1>1 DEF Carries
<1>5. ASSUME Carries(Releases[name], asset)
      PROVE  urlOf(assets, asset) \notin {Nothing, Blank}
  <2>1. PICK i \in 1 .. Len(assets) :
          /\ assets[i].name = asset /\ assets[i].url \notin {Nothing, Blank}
          /\ \A j \in i + 1 .. Len(assets) : assets[j].name = asset => assets[j].url = Nothing
    BY <1>4, <1>5
  <2>2. i \in of
    BY <1>1, <2>1
  <2>3. Max(of) \in of /\ Max(of) >= i
    BY <1>3, <2>2
  <2>4. Max(of) \in 1 .. Len(assets) /\ Max(of) \notin i + 1 .. Len(assets)
    BY <1>1, <2>1, <2>3
  <2>5. Max(of) = i
    <3> DEFINE m == Max(of)
    <3>1. m >= i /\ m \in 1 .. Len(assets) /\ m \notin i + 1 .. Len(assets)
      BY <2>3, <2>4
    <3> HIDE DEF m
    <3>2. m = i
      BY <1>1, <3>1
    <3> QED BY <3>2 DEF m
  <2> QED BY <1>2, <2>1, <2>2, <2>5
<1>6. ASSUME urlOf(assets, asset) \notin {Nothing, Blank}
      PROVE  Carries(Releases[name], asset)
  <2> DEFINE m == Max(of)
  <2>1. m \in of /\ (\A y \in of : m >= y) /\ assets[m].url \notin {Nothing, Blank}
    BY <1>2, <1>3, <1>6
  <2>2. m \in 1 .. Len(assets) /\ assets[m].name = asset
    BY <1>1, <2>1
  <2> HIDE DEF m
  <2>3. ASSUME NEW j \in m + 1 .. Len(assets), assets[j].name = asset, assets[j].url # Nothing
        PROVE  FALSE
    <3>1. j \in 1 .. Len(assets) /\ ~(m >= j)
      BY <1>1, <2>2
    <3>2. j \in of
      BY <1>1, <2>3, <3>1
    <3> QED BY <2>1, <3>1, <3>2
  <2> QED BY <1>4, <2>1, <2>2, <2>3
<1> QED BY <1>5, <1>6

(* A release that can be installed: it has a tag, and both assets. *)
Whole(body) ==
  /\ body.tag \notin {Nothing, Blank} /\ body.assets # Nothing
  /\ Carries(body, "binary") /\ Carries(body, "sum")

(* What ParseRelease makes something of can be installed. *)
LEMMA ParsedIsWhole ==
  ASSUME RelTypes, NEW name \in published, ParseRelease(name) # Nothing
  PROVE  Whole(Releases[name])
<1>1. Releases[name].assets # Nothing
  BY DEF ParseRelease
<1>2. /\ urlOf(Releases[name].assets, "binary") \notin {Nothing, Blank}
      /\ urlOf(Releases[name].assets, "sum") \notin {Nothing, Blank}
  BY DEF ParseRelease
<1> QED BY <1>1, <1>2, ReleaseHasItsTag, CarriedIsFound DEF Whole

(* A release that ParseRelease refuses cannot be installed: something of it *)
(* is missing.                                                              *)
LEMMA RefusedIsNotWhole ==
  ASSUME RelTypes, NEW name \in published, ParseRelease(name) = Nothing
  PROVE  ~Whole(Releases[name])
<1>1. CASE Releases[name].tag \in {Nothing, Blank} \/ Releases[name].assets = Nothing
  BY <1>1 DEF Whole
<1>2. CASE Releases[name].assets # Nothing
           /\ (\/ urlOf(Releases[name].assets, "binary") \in {Nothing, Blank}
               \/ urlOf(Releases[name].assets, "sum") \in {Nothing, Blank})
  BY <1>2, CarriedIsFound DEF Whole
<1>3. \/ Releases[name].tag \in {Nothing, Blank} \/ Releases[name].assets = Nothing
      \/ urlOf(Releases[name].assets, "binary") \in {Nothing, Blank}
      \/ urlOf(Releases[name].assets, "sum") \in {Nothing, Blank}
  BY NothingAssumption DEF ParseRelease, RelTypes
<1> QED BY <1>1, <1>2, <1>3

(* No step but Install changes what is installed, and no step takes back    *)
(* what was said, installed or noted of the others (Run, apply).            *)
LEMMA SaidIsSaid ==
  ASSUME RelInv, NEW p \in Process, Step(p)
  PROVE  /\ answer[p] = Nothing
         /\ \A q \in Process : Overtaken(q) => Overtaken(q)'
         /\ \A q \in Process \ {p} :
              /\ Installed(q)' <=> Installed(q)
              /\ Release(q)' = Release(q)
         /\ ~Install(p) => /\ installed' = installed /\ passed' = passed
                           /\ ~Installed(p)'
<1>0. RelTypes /\ Knows(p) /\ Elsewhere(p)
  BY StepsAreOwn DEF RelInv
<1>1. pc[p] # "done"
  BY DEF Step, Start, ReadCache, Respond, NoReply, Decode, WriteCache, Decide, Refuse, Install,
         Die, UnderWay
<1>2. answer[p] = Nothing
  BY <1>0, <1>1 DEF Knows
<1>3. ASSUME ~Install(p) PROVE installed' = installed /\ passed' = passed
  BY <1>3 DEF Step, Start, ReadCache, Respond, NoReply, Decode, WriteCache, Decide, Refuse,
              Die, outside
<1>4. ASSUME ~Install(p), Installed(p)' PROVE FALSE
  <2>1. Step(p) => \/ answer' = answer
                   \/ \E what \in {"current", "unanswered", "no asset", "offer", "refused"},
                         exit \in {0, 3} : Say(p, what, exit)
    BY <1>4 DEF Step, Start, ReadCache, UseCache, Respond, NoReply, Decode, WriteCache,
                Decide, Refuse, Die
  <2>2. \A what, exit : Say(p, what, exit) => answer'[p].what = what
    BY <1>0 DEF Say, RelTypes
  <2> QED BY <1>2, <1>4, <2>1, <2>2 DEF Installed
<1>5. \A q, r \in Process : r \in passed[q] => r \in passed'[q]
  <2>1. Install(p) => passed' = [q \in Process |-> IF q # p /\ UnderWay(q) THEN passed[q] \union {p}
                                                                          ELSE passed[q]]
    BY DEF Install
  <2> QED BY <1>3, <2>1
<1>6. ASSUME NEW q \in Process, Overtaken(q) PROVE Overtaken(q)'
  <2>1. PICK r \in Process : q \in passed[r] /\ answer[r] = Success
    BY <1>6 DEF Overtaken
  <2>2. r # p
    BY <1>2, <2>1, ReleaseAssumption
  <2> QED BY <1>0, <1>5, <2>1, <2>2 DEF Elsewhere, Overtaken
<1>7. ASSUME NEW q \in Process \ {p}
      PROVE  (Installed(q)' <=> Installed(q)) /\ Release(q)' = Release(q)
  BY <1>0 DEF Elsewhere, Installed, Release
<1> QED BY <1>2, <1>3, <1>4, <1>6, <1>7

(* What is installed is newer than what its updater was running.  So what   *)
(* is older than an update already installed was offered to someone who was *)
(* under way by then, or went on from where another such one had taken the  *)
(* host back to (Run, apply; IsNewer).                                      *)
LEMMA NeverOlder ==
  RelInv /\ RelInv' /\ NoneOlder /\ BegunNoOlder /\ [Next]_relVars
    => NoneOlder' /\ BegunNoOlder'
<1> SUFFICES ASSUME RelInv, RelInv', NoneOlder, BegunNoOlder, [Next]_relVars
             PROVE  NoneOlder' /\ BegunNoOlder'
  OBVIOUS
<1>0. RelTypes /\ RelTypes'
  BY DEF RelInv
<1>1. CASE UNCHANGED <<pc, running, installed, answer, payload, passed>>
  BY <1>1 DEF NoneOlder, BegunNoOlder, Installed, Release, UnderWay, Overtaken
<1>2. Publish \/ Tick \/ SetClock \/ UNCHANGED relVars
        => UNCHANGED <<pc, running, installed, answer, payload, passed>>
  BY DEF Publish, Tick, SetClock, relVars
<1>3. ASSUME NEW p \in Process, Step(p) PROVE NoneOlder' /\ BegunNoOlder'
  <2>1. Elsewhere(p) /\ Knows(p)
    BY <1>0, <1>3, StepsAreOwn DEF RelInv
  <2>2. ASSUME NEW q \in Process, Installed(q) PROVE Release(q).version \in DOMAIN Groups
    <3>1. Told(q)
      BY DEF RelInv
    <3>2. payload[q] \in published /\ Release(q) # Nothing
      BY <2>2, <3>1 DEF Told, Installed
    <3> QED BY <1>0, <3>2, TagsAreSpelled, SpellingsHaveGroups DEF Release
  <2>3. CASE Install(p)
    <3>1. /\ pc[p] = "offered" /\ pc' = [pc EXCEPT ![p] = "done"]
          /\ installed' = Release(p).version /\ payload' = payload /\ running' = running
          /\ answer'[p] = Success
          /\ passed' = [q \in Process |-> IF q # p /\ UnderWay(q) THEN passed[q] \union {p}
                                                                  ELSE passed[q]]
      <4>1. Say(p, "installed", 0)
        BY <2>3 DEF Install
      <4>2. answer'[p] = Success
        BY <1>0, <4>1 DEF Say, RelTypes, Success
      <4> QED BY <2>3, <4>1, <4>2 DEF Install, Say, Move, Release
    <3>2. /\ IsNewer(Release(p).version, running[p])
          /\ Release(p).version \in DOMAIN Groups /\ running[p] \in DOMAIN Groups
      <4>1. /\ Release(p) # Nothing /\ IsNewer(Release(p).version, running[p])
            /\ payload[p] \in published /\ running[p] \in Spelling
        BY <2>1, <3>1 DEF Knows
      <4> QED BY <1>0, <4>1, TagsAreSpelled, SpellingsHaveGroups DEF Release
    <3>3. /\ Release(p)' = Release(p) /\ UnderWay(p) /\ ~UnderWay(p)'
      BY <1>0, <3>1 DEF Release, UnderWay, RelTypes
    <3>4. NoneOlder'
      <4> SUFFICES ASSUME NEW q \in Process, Installed(q)',
                          IsNewer(Release(q).version, installed)'
                   PROVE  Overtaken(q)'
        BY DEF NoneOlder
      <4>1. q # p
        BY <3>1, <3>2, <3>3, NewerIsAnOrder
      <4>2. Installed(q) /\ Release(q)' = Release(q)
        BY <1>3, <4>1, SaidIsSaid
      <4>3. CASE q \in passed[p]
        BY <3>1, <4>3 DEF Overtaken
      <4>4. CASE q \notin passed[p]
        <5>1. IsNewer(Release(q).version, running[p])
          BY <2>2, <3>1, <3>2, <4>2, NewerIsAnOrder
        <5>2. Overtaken(q)
          BY <3>3, <4>2, <4>4, <5>1 DEF BegunNoOlder
        <5> QED BY <1>3, <5>2, SaidIsSaid
      <4> QED BY <4>3, <4>4
    <3>5. BegunNoOlder'
      <4> SUFFICES ASSUME NEW q \in Process, NEW r \in Process, Installed(q)', UnderWay(r)',
                          q \notin passed'[r], IsNewer(Release(q).version, running[r])'
                   PROVE  Overtaken(q)'
        BY DEF BegunNoOlder
      <4>1. r # p
        BY <3>3
      <4>2. UnderWay(r) /\ running'[r] = running[r]
        BY <2>1, <4>1 DEF Elsewhere, UnderWay
      <4>3. q # p /\ q \notin passed[r]
        BY <3>1, <4>1, <4>2
      <4>4. Installed(q) /\ Release(q)' = Release(q)
        BY <1>3, <4>3, SaidIsSaid
      <4>5. Overtaken(q)
        BY <4>2, <4>3, <4>4 DEF BegunNoOlder
      <4> QED BY <1>3, <4>5, SaidIsSaid
    <3> QED BY <3>4, <3>5
  <2>4. CASE ~Install(p)
    <3>1. installed' = installed /\ passed' = passed /\ ~Installed(p)'
      BY <1>3, <2>4, SaidIsSaid
    <3>2. ASSUME NEW q \in Process, Installed(q)'
          PROVE  /\ q # p /\ Installed(q) /\ Release(q)' = Release(q)
                 /\ Overtaken(q) => Overtaken(q)'
      BY <1>3, <3>1, <3>2, SaidIsSaid
    <3>3. NoneOlder'
      BY <3>1, <3>2 DEF NoneOlder
    <3>4. ASSUME NEW r \in Process, UnderWay(r)'
          PROVE  running'[r] = installed \/ (UnderWay(r) /\ running'[r] = running[r])
      <4>1. CASE r # p
        BY <2>1, <3>4, <4>1 DEF Elsewhere, UnderWay
      <4>2. CASE r = p
        <5>1. ASSUME NEW asset \in BOOLEAN, Start(p, asset) PROVE running'[p] = installed
          BY <1>0, <5>1 DEF Start, RelTypes
        <5>2. ASSUME ReadCache(p) \/ Respond(p) \/ NoReply(p) \/ Decode(p) \/ WriteCache(p)
                     \/ Decide(p) \/ Refuse(p) \/ Die(p)
              PROVE  UnderWay(p) /\ running' = running
          BY <5>2 DEF ReadCache, Respond, NoReply, Decode, WriteCache, Decide, Refuse, Die,
                      UnderWay
        <5> QED BY <1>3, <2>4, <4>2, <5>1, <5>2 DEF Step
      <4> QED BY <4>1, <4>2
    <3>5. BegunNoOlder'
      BY <3>1, <3>2, <3>4 DEF BegunNoOlder, NoneOlder
    <3> QED BY <3>3, <3>5
  <2> QED BY <2>3, <2>4
<1> QED BY <1>1, <1>2, <1>3 DEF Next, Step

(* By the code's own comparison, for all spellings and however many updates *)
(* overlap: a host is older than an update it was told is installed only    *)
(* where another that was under way by then has installed since.  No update *)
(* that starts after one was installed takes the host back behind it, and   *)
(* none but those that overlap can lead it round in a circle (Run, apply;   *)
(* IsNewer).                                                                *)
THEOREM NoWayBack == Spec => []NoneOlder
<1>1. Init => RelInv /\ NoneOlder /\ BegunNoOlder
  BY RelInitInv
<1> QED BY <1>1, NeverOlder, ReleaseInvariant, PTL DEF Spec

(* If the code's comparison orders the spellings in play as PEP 440 does, a *)
(* host is offered exactly what is newer and can be installed, is told that *)
(* all is well only when it is, and is left older than an update that was   *)
(* reported only by one under way when that one installed, whatever is      *)
(* published, withdrawn, cached or killed meanwhile (Checker.Check,         *)
(* ParseRelease, Run).                                                      *)
THEOREM OffersFollowTheOrder ==
  ASSUME ComparisonIsRight
  PROVE  Spec => []OffersAreRight
<1>1. Spec => []NoneOlder
  BY NoWayBack
<1>2. RelInv /\ NoneOlder => OffersAreRight
  <2> SUFFICES ASSUME RelInv, NoneOlder, NEW p \in Process,
                      answer[p] # Nothing, payload[p] # Nothing,
                      answer[p].what \notin {"unanswered", "refused"}
               PROVE  /\ answer[p].what = "no asset" => ~Whole(Releases[payload[p]])
                      /\ answer[p].what \in {"current", "offer", "installed"} =>
                           Whole(Releases[payload[p]])
                      /\ answer[p].what = "current" =>
                           ~Succeeds(Releases[payload[p]].tag, running[p])
                      /\ answer[p].what \in {"offer", "installed"} =>
                           Succeeds(Releases[payload[p]].tag, running[p])
                      /\ answer[p].what = "installed" =>
                           (Succeeds(Releases[payload[p]].tag, installed) => Overtaken(p))
                      /\ answer[p].what \in {"no asset", "current", "offer", "installed"}
    BY DEF OffersAreRight, Whole
  <2>1. RelTypes /\ Told(p)
    BY DEF RelInv
  <2>2. payload[p] \in published /\ running[p] \in Spelling
    BY <2>1 DEF Told
  <2>3. CASE answer[p].what = "no asset" /\ Release(p) = Nothing
    BY <2>1, <2>2, <2>3, RefusedIsNotWhole DEF Release
  <2>4. CASE /\ answer[p].what \in {"current", "offer", "installed"} /\ Release(p) # Nothing
             /\ answer[p].what = "current" <=> ~IsNewer(Release(p).version, running[p])
    <3>1. /\ Release(p).version = Releases[payload[p]].tag
          /\ Release(p).version \in Spelling /\ Whole(Releases[payload[p]])
      BY <2>1, <2>2, <2>4, ReleaseHasItsTag, TagsAreSpelled, ParsedIsWhole DEF Release
    <3>2. IsNewer(Release(p).version, running[p])
            <=> Succeeds(Releases[payload[p]].tag, running[p])
      BY <2>2, <3>1 DEF ComparisonIsRight
    <3>3. ASSUME answer[p].what = "installed"
          PROVE  Succeeds(Releases[payload[p]].tag, installed) => Overtaken(p)
      <4>1. IsNewer(Release(p).version, installed) => Overtaken(p)
        BY <3>3 DEF NoneOlder, Installed
      <4>2. installed \in Spelling
        BY <2>1 DEF RelTypes
      <4> QED BY <3>1, <4>1, <4>2 DEF ComparisonIsRight
    <3> QED BY <2>4, <3>1, <3>2, <3>3
  <2> QED BY <2>1, <2>3, <2>4 DEF Told
<1> QED BY <1>1, <1>2, ReleaseInvariant, PTL

=============================================================================
