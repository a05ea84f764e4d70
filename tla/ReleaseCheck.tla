----------------------------- MODULE ReleaseCheck ------------------------------
(***************************************************************************)
(* internal/updater/checker.go and release.go behind `fleetfix update` and *)
(* behind whatever asks at launch: is there a newer release?  Processes of *)
(* one host share one cache file that is written in place; the releases API*)
(* answers with what is published at that moment, with an error or with a  *)
(* page; the wall clock the cache is stamped with may be set.  `update     *)
(* --apply` goes on to install what it found: Installer has what that does,*)
(* here it is one step that succeeds or fails.                             *)
(***************************************************************************)
EXTENDS Pep440

CONSTANTS
  Process,     (* the processes                                            *)
  Order,       (* every spelling of a version, in the order PEP 440 gives them *)
  Nothing,     (* an answer not given, a file or an asset that is not there *)
  Blank,       (* the empty string                                         *)
  Releases,    (* what the API says of each release: its tag and its assets *)
  Starts,      (* what runs where and what is published: see MCUpdate       *)
  CacheTTL,    (* how long an answer is reused by whoever asks at launch   *)
  HTTPTimeout, (* how long the API has to answer                           *)
  MaxTime,     (* bounds: the time, *)
  MaxSet,      (* how often the clock is set *)
  Jumps        (* and by how much                                          *)

(* What `update --apply` answers of a release it has installed. *)
Success == [what |-> "installed", code |-> 0]

ASSUME ReleaseAssumption ==
  /\ Nothing \notin Process /\ Nothing # Success
  /\ {CacheTTL, HTTPTimeout, MaxTime, MaxSet} \subseteq Nat /\ 0 < CacheTTL
  /\ Jumps \subseteq Int

(* Whatever is installed or is a tag can be spelled. *)
ASSUME SpelledAssumption ==
  \A start \in Starts :
    start.installed \union ({Releases[r].tag : r \in start.published} \ {Nothing, Blank})
      \subseteq DOMAIN Groups

(* The assets of a release and the versions in their order are lists.       *)
ASSUME ListsAssumption ==
  /\ Len(Order) \in Nat /\ DOMAIN Order = 1 .. Len(Order)
  /\ \A start \in Starts : \A name \in start.published :
       LET assets == Releases[name].assets
       IN  assets # Nothing => Len(assets) \in Nat /\ DOMAIN assets = 1 .. Len(assets)

VARIABLES
  kind,       (* what each process is: "launch", "update", "apply"         *)
  published,  (* the releases the project has                              *)
  latest,     (* the one the API calls the latest                          *)
  installed,  (* the version of the binary on the host                     *)
  time, wall, sets,  (* the time, the clock of the host, how often it was set *)
  cache,      (* the cache file                                            *)
  pc,         (* where each process is                                     *)
  running,    (* the version each process is                               *)
  asked,      (* when it asked the API, while it has not answered          *)
  stamp,      (* the entry it is to write                                  *)
  payload,    (* the response it works with                                *)
  answer,     (* what it said, and its exit code                           *)
  used,       (* for the properties: where its answer came from            *)
  back,       (* for the properties: how far the clock was set back in all *)
  passed      (* for the properties: who installed while it was under way  *)

relVars == <<kind, published, latest, installed, time, wall, sets, cache, pc,
             running, asked, stamp, payload, answer, used, back, passed>>
outside == <<kind, published, latest, installed, time, wall, sets, back, passed>>

PC == {"idle", "reading", "fetching", "reply", "writing", "decided", "offered", "done"}

(* The cache file: not there, not of one piece, or an entry.                *)
Torn == [state |-> "torn"]
Entry(body) == [state |-> "entry", at |-> wall, stamped |-> time, body |-> body]

(* A body that is no releases response: not JSON, not an object, cut off at *)
(* maxResponse, or more than one value.                                     *)
Page == "page"

-----------------------------------------------------------------------------
(* ParseRelease: a tag that is a string and not empty, and for the binary   *)
(* and for its checksum the URL of the last asset of that name.  An asset   *)
(* is [name, url], and Nothing is what is not a string.                     *)

urlFirst(assets, name) ==
  LET of == {i \in DOMAIN assets : assets[i].name = name /\ assets[i].url # Nothing}
  IN  IF of = {} THEN Nothing ELSE assets[Min(of)].url

urlOf(assets, name) ==
  LET of == {i \in DOMAIN assets : assets[i].name = name /\ assets[i].url # Nothing}
  IN  IF of = {} THEN Nothing ELSE assets[Max(of)].url

ParseRelease(name) ==
  LET body == Releases[name]
  IN
  IF \/ body.tag \in {Nothing, Blank} \/ body.assets = Nothing
     \/ urlOf(body.assets, "binary") \in {Nothing, Blank}
     \/ urlOf(body.assets, "sum") \in {Nothing, Blank}
  THEN Nothing
  ELSE [version |-> body.tag, binary |-> urlOf(body.assets, "binary"),
        sum |-> urlOf(body.assets, "sum")]

(* Nothing is no release. *)
ASSUME NothingAssumption ==
  \A start \in Starts : \A name \in start.published :
    LET body == Releases[name]
    IN  body.assets # Nothing =>
          [version |-> body.tag, binary |-> urlOf(body.assets, "binary"),
           sum |-> urlOf(body.assets, "sum")] # Nothing

-----------------------------------------------------------------------------
(* What a process does. *)

Move(p, to) == pc' = [pc EXCEPT ![p] = to]

Say(p, what, code) ==
  /\ answer' = [answer EXCEPT ![p] = [what |-> what, code |-> code]]
  /\ Move(p, "done")

(* freshChecker: every read is stale for whoever typed the command.         *)
TTL(p) == IF kind[p] = "launch" THEN CacheTTL ELSE 0

(* Run, with or without an asset for this architecture.  Nothing keeps      *)
(* updates that apply from overlapping.                                     *)
Start(p, asset) ==
  /\ pc[p] = "idle" /\ kind[p] # Nothing
  /\ running' = [running EXCEPT ![p] = installed]
  /\ IF asset THEN Move(p, "reading") /\ UNCHANGED answer ELSE Say(p, "current", 0)
  /\ UNCHANGED <<outside, cache, asked, stamp, payload, used>>

(* Whatever was written is read, however old. *)
freshAlways(p) == cache # Nothing /\ cache # Torn

fresh(p) == /\ cache # Nothing /\ cache # Torn
            /\ wall - cache.at < TTL(p)

Use(p, body, entry) ==
  /\ payload' = [payload EXCEPT ![p] = body]
  /\ used' = [used EXCEPT ![p] = entry]

UseCache(p) ==
  /\ Use(p, cache.body, [kept |-> time - cache.stamped, back |-> back])
  /\ Move(p, "decided")

ReadCache(p) ==
  /\ pc[p] = "reading"
  /\ \/ fresh(p) /\ UseCache(p) /\ UNCHANGED asked
     \/ /\ ~fresh(p)
        /\ asked' = [asked EXCEPT ![p] = time]
        /\ Move(p, "fetching") /\ UNCHANGED <<payload, used>>
  /\ UNCHANGED <<outside, cache, running, stamp, answer>>

(* The API has answered 200 with what is published now, or the network has  *)
(* with something else; the body is there a little later.                   *)
Respond(p) ==
  /\ pc[p] = "fetching"
  /\ \E body \in {latest, Page} : Use(p, body, Nothing)
  /\ Move(p, "reply")
  /\ UNCHANGED <<outside, cache, running, asked, stamp, answer>>

(* Another status, no connection, the timeout: it can come at any moment.   *)
NoReplyUseCache(p) ==
  /\ pc[p] = "fetching"
  /\ \/ freshAlways(p) /\ UseCache(p) /\ UNCHANGED answer
     \/ ~freshAlways(p) /\ Say(p, "unanswered", 3) /\ UNCHANGED <<payload, used>>
  /\ asked' = [asked EXCEPT ![p] = 0]
  /\ UNCHANGED <<outside, cache, running, stamp>>

NoReply(p) ==
  /\ pc[p] \in {"fetching", "reply"}
  /\ Say(p, "unanswered", 3)
  /\ asked' = [asked EXCEPT ![p] = 0]
  /\ UNCHANGED <<outside, cache, running, stamp, payload, used>>

(* DecodePayload refuses the page; a response is put into the cache, which  *)
(* WriteFile first empties -- unless it cannot be opened.                   *)
Decode(p) ==
  /\ pc[p] = "reply"
  /\ \/ /\ payload[p] = Page
        /\ Say(p, "unanswered", 3) /\ UNCHANGED <<cache, stamp>>
     \/ /\ payload[p] # Page
        /\ cache' = Torn /\ stamp' = [stamp EXCEPT ![p] = Entry(payload[p])]
        /\ Move(p, "writing") /\ UNCHANGED answer
     \/ /\ payload[p] # Page
        /\ Move(p, "decided") /\ UNCHANGED <<cache, stamp, answer>>
  /\ asked' = [asked EXCEPT ![p] = 0]
  /\ UNCHANGED <<outside, running, payload, used>>

(* The entry goes in from the start of the file: what a longer one left     *)
(* there stays behind it.  Or the disk is full.                             *)
WriteCache(p) ==
  /\ pc[p] = "writing"
  /\ cache' \in {stamp[p], Torn}
  /\ stamp' = [stamp EXCEPT ![p] = Nothing]
  /\ Move(p, "decided")
  /\ UNCHANGED <<outside, running, asked, payload, answer, used>>

(* The rest of Check, and Run up to the point where it would install.       *)
Decide(p) ==
  LET rel == ParseRelease(payload[p])
  IN  /\ pc[p] = "decided"
      /\ IF rel = Nothing THEN Say(p, "no asset", 3)
         ELSE IF ~IsNewer(rel.version, running[p]) THEN Say(p, "current", 0)
         ELSE IF kind[p] # "apply" THEN Say(p, "offer", 0)
         ELSE Move(p, "offered") /\ UNCHANGED answer
      /\ UNCHANGED <<outside, cache, running, asked, stamp, payload, used>>

(* apply: no place to write to, no trail, a digest that does not match and  *)
(* every other failure are refusals; or the release is installed.           *)
Refuse(p) ==
  /\ pc[p] = "offered"
  /\ Say(p, "refused", 3)
  /\ UNCHANGED <<outside, cache, running, asked, stamp, payload, used>>

UnderWay(p) == pc[p] \notin {"idle", "done"}

Install(p) ==
  LET rel == ParseRelease(payload[p])
  IN  /\ pc[p] = "offered"
      /\ rel.binary = rel.sum
      /\ installed' = rel.version
      /\ passed' = [q \in Process |-> IF q # p /\ UnderWay(q) THEN passed[q] \union {p}
                                                              ELSE passed[q]]
      /\ Say(p, "installed", 0)
      /\ UNCHANGED <<kind, published, latest, time, wall, sets, back, cache, running,
                     asked, stamp, payload, used>>

(* The process is killed: what it had emptied stays empty.                  *)
Die(p) ==
  /\ UnderWay(p)
  /\ Move(p, "done")
  /\ stamp' = [stamp EXCEPT ![p] = Nothing] /\ payload' = [payload EXCEPT ![p] = Nothing]
  /\ UNCHANGED <<outside, cache, running, asked, answer, used>>

-----------------------------------------------------------------------------
Init ==
  /\ \E start \in Starts :
       /\ kind \in start.kinds
       /\ published = start.published
       /\ installed \in start.installed
  /\ latest \in published
  /\ time = 0 /\ wall = 0 /\ sets = 0 /\ back = 0
  /\ cache = Nothing
  /\ pc = [p \in Process |-> "idle"]
  /\ running = [p \in Process |-> Nothing]
  /\ asked = [p \in Process |-> 0]
  /\ stamp = [p \in Process |-> Nothing]
  /\ payload = [p \in Process |-> Nothing]
  /\ answer = [p \in Process |-> Nothing]
  /\ used = [p \in Process |-> Nothing]
  /\ passed = [p \in Process |-> {}]

(* A release comes out, or one is withdrawn and an earlier one is the latest. *)
Publish ==
  /\ latest' \in published \ {latest}
  /\ UNCHANGED <<kind, published, installed, time, wall, sets, cache, pc, running,
                 asked, stamp, payload, answer, used, back, passed>>

(* A fetch does not outlast its timeout. *)
Tick ==
  /\ time < MaxTime
  /\ \A p \in Process : pc[p] \in {"fetching", "reply"} => time - asked[p] < HTTPTimeout
  /\ time' = time + 1 /\ wall' = wall + 1
  /\ UNCHANGED <<kind, published, latest, installed, sets, cache, pc, running, asked, stamp,
                 payload, answer, used, back, passed>>

SetClock ==
  /\ sets < MaxSet
  /\ sets' = sets + 1
  /\ \E j \in Jumps : /\ wall' = wall + j
                      /\ back' = IF j < 0 THEN back - j ELSE back
  /\ UNCHANGED <<kind, published, latest, installed, time, cache, pc, running, asked, stamp,
                 payload, answer, used, passed>>

Next ==
  \/ Publish \/ Tick \/ SetClock
  \/ \E p \in Process :
       \/ \E asset \in BOOLEAN : Start(p, asset)
       \/ ReadCache(p) \/ Respond(p) \/ NoReply(p) \/ Decode(p) \/ WriteCache(p)
       \/ Decide(p) \/ Refuse(p) \/ Install(p) \/ Die(p)

Spec == Init /\ [][Next]_relVars

-----------------------------------------------------------------------------
(* What PEP 440 makes of a spelling, not what pep440.go does.               *)
Place(v) == Max({0} \union {i \in DOMAIN Order : v \in Order[i]})

Succeeds(v, w) == 0 < Place(w) /\ Place(w) < Place(v)

Carries(body, name) ==
  \E i \in DOMAIN body.assets :
    /\ body.assets[i].name = name /\ body.assets[i].url \notin {Nothing, Blank}
    /\ \A j \in i + 1 .. Len(body.assets) :
         body.assets[j].name = name => body.assets[j].url = Nothing

(* Another update was under way when this one installed, and installed too. *)
Overtaken(p) ==
  \E q \in Process : p \in passed[q] /\ answer[q] = Success

(* A host is offered exactly what is newer than what it runs -- by PEP 440, *)
(* whatever the spelling -- and can be installed on it; it is told that the *)
(* release cannot be when an asset is missing, and that all is well only    *)
(* when it is.  A host goes back behind an update only when another that was*)
(* under way while that one installed installs after it: whatever is asked, *)
(* published or withdrawn, no update that starts later takes it back.       *)
OffersAreRight ==
  \A p \in Process :
    answer[p] # Nothing /\ payload[p] # Nothing /\ answer[p].what \notin {"unanswered", "refused"} =>
      LET body == Releases[payload[p]]
          whole == /\ body.tag \notin {Nothing, Blank} /\ body.assets # Nothing
                   /\ Carries(body, "binary") /\ Carries(body, "sum")
      IN  CASE answer[p].what = "no asset" -> ~whole
            [] answer[p].what = "current"  -> whole /\ ~Succeeds(body.tag, running[p])
            [] answer[p].what = "offer"     -> whole /\ Succeeds(body.tag, running[p])
            [] answer[p].what = "installed" ->
                 /\ whole /\ Succeeds(body.tag, running[p])
                 /\ Succeeds(body.tag, installed) => Overtaken(p)

(* Nobody is answered from a cache that was written longer ago than its TTL *)
(* plus what the clock was set back by, and nobody from one that was not    *)
(* wholly written.                                                          *)
AnswersAreFresh ==
  \A p \in Process :
    used[p] # Nothing /\ payload[p] # Nothing => /\ used[p].kept < TTL(p) + used[p].back
                         /\ payload[p] \in published
==============================================================================
