------------------------- MODULE BuiltinChecksProofs --------------------------
(***************************************************************************)
(* The six properties of the built-in checks, for every check, every world *)
(* a host can be in and move to, every way its files and programs may fail *)
(* to answer, every policy and every probes.yml.                           *)
(***************************************************************************)
EXTENDS BuiltinChecks, FiniteSetTheorems, SequenceTheorems, WellFoundedInduction, TLAPS

(* A number, a text and an address that a host says are never Nothing. *)
LEMMA ValuesAreSomething ==
  /\ \A n \in Int : n # Nothing
  /\ \A s \in STRING : s # Nothing
  /\ {"192.0.2.1"} # Nothing
<1>1. Nothing \notin Int \union STRING \union FileFacts \union {{"192.0.2.1"}}
  BY NothingAssumption
<1>2. Nothing \notin Int /\ Nothing \notin STRING /\ Nothing \notin {{"192.0.2.1"}}
  BY ONLY <1>1
<1> QED BY ONLY <1>2

(***************************************************************************)
(* What the loops over a list keep                                         *)
(***************************************************************************)

(* A set of natural numbers that is not empty has a least one. *)
LEMMA LeastExists ==
  ASSUME NEW T \in SUBSET Nat, T # {}
  PROVE  \E x \in T : \A y \in T : x <= y
<1> DEFINE R == OpToRel(<, Nat)
<1>1. IsWellFoundedOn(R, Nat)
  BY NatLessThanWellFounded
<1>2. \E x \in T : \A y \in T : ~ (<<y, x>> \in R)
  <2> HIDE DEF R
  <2> QED BY <1>1, WFMin
<1>3. PICK x \in T : \A y \in T : ~ (y < x)
  BY <1>2 DEF OpToRel
<1> QED BY <1>3

(* What is collected up to each place of the list. *)
UpTo(up, seq, keep, n) ==
  up = [i \in 0..n |->
          IF i = 0 THEN <<>>
          ELSE IF seq[i] \in keep THEN Append(up[i - 1], seq[i]) ELSE up[i - 1]]

(* There is such a function, so that Kept is its last value. *)
LEMMA KeptIsCollected ==
  ASSUME NEW T, NEW seq \in Seq(T), NEW keep
  PROVE  \E up : UpTo(up, seq, keep, Len(seq)) /\ Kept(seq, keep) = up[Len(seq)]
<1> DEFINE Unbuilt == {n \in Nat : n <= Len(seq) /\ ~ \E up : UpTo(up, seq, keep, n)}
<1>1. Len(seq) \in Nat
  OBVIOUS
<1>2. Unbuilt = {}
  <2> SUFFICES ASSUME Unbuilt # {} PROVE FALSE
    OBVIOUS
  <2>1. PICK n \in Unbuilt : \A m \in Unbuilt : n <= m
    <3> HIDE DEF Unbuilt
    <3>1. Unbuilt \in SUBSET Nat
      BY DEF Unbuilt
    <3> QED BY <3>1, LeastExists
  <2>2. CASE n = 0
    <3>1. UpTo([i \in 0..0 |-> <<>>], seq, keep, 0)
      BY DEF UpTo
    <3> QED BY <2>1, <2>2, <3>1
  <2>3. CASE n # 0
    <3>1. n - 1 \in Nat /\ n - 1 <= Len(seq) /\ n - 1 \notin Unbuilt
      BY <1>1, <2>1, <2>3
    <3>2. PICK up : UpTo(up, seq, keep, n - 1)
      BY <3>1
    <3> DEFINE next == IF seq[n] \in keep THEN Append(up[n - 1], seq[n]) ELSE up[n - 1]
               longer == [i \in 0..n |-> IF i = n THEN next ELSE up[i]]
    <3>3. \A i \in 0..n - 1 : longer[i] = up[i]
      BY <3>1
    <3>4. UpTo(longer, seq, keep, n)
      <4> SUFFICES ASSUME NEW i \in 0..n
                   PROVE  longer[i] =
                            IF i = 0 THEN <<>>
                            ELSE IF seq[i] \in keep THEN Append(longer[i - 1], seq[i])
                                 ELSE longer[i - 1]
        BY DEF UpTo
      <4>1. CASE i = n
        <5>1. longer[n - 1] = up[n - 1] /\ longer[n] = next
          BY <3>1, <3>3
        <5> QED BY <5>1, <4>1, <2>3
      <4>2. CASE i # n
        <5>1. i \in 0..n - 1 /\ longer[i] = up[i] /\ (i # 0 => longer[i - 1] = up[i - 1])
          BY <3>1, <3>3, <4>2
        <5> HIDE DEF longer
        <5> QED BY <5>1, <3>2 DEF UpTo
      <4> QED BY <4>1, <4>2
    <3> QED BY <3>4, <2>1
  <2> QED BY <2>2, <2>3
<1>3. \E up : UpTo(up, seq, keep, Len(seq))
  BY <1>1, <1>2
<1>4. UpTo(CHOOSE up : UpTo(up, seq, keep, Len(seq)), seq, keep, Len(seq))
  BY <1>3
<1>5. Kept(seq, keep) = (CHOOSE up : UpTo(up, seq, keep, Len(seq)))[Len(seq)]
  BY DEF Kept, UpTo
<1> QED BY <1>4, <1>5

(* What has been collected up to a place: nothing but what is wanted of what*)
(* was passed, all of it, and the list itself as long as nothing is dropped.*)
Collected(got, seq, keep, n) ==
  /\ got \in Seq({seq[i] : i \in 1..n} \intersect keep)
  /\ Len(got) <= n
  /\ \A i \in 1..n : seq[i] \in keep => seq[i] \in Range(got)
  /\ (\A i \in 1..n : seq[i] \in keep) => Len(got) = n
  /\ Len(got) = n => \A i \in 1..n : seq[i] \in keep /\ got[i] = seq[i]

(* One more place of the list: what is kept of it is collected, in order.*)
LEMMA CollectedNext ==
  ASSUME NEW T, NEW seq \in Seq(T), NEW keep, NEW n \in 1..Len(seq), NEW got,
         Collected(got, seq, keep, n - 1)
  PROVE  Collected(IF seq[n] \in keep THEN Append(got, seq[n]) ELSE got, seq, keep, n)
<1> DEFINE Old == {seq[i] : i \in 1..n - 1} \intersect keep
           New == {seq[i] : i \in 1..n} \intersect keep
<1>1. n \in Nat /\ n - 1 \in Nat /\ got \in Seq(Old) /\ Len(got) \in Nat /\ Len(got) <= n - 1
  BY DEF Collected
<1>2. Old \subseteq New
  BY <1>1
<1>3. got \in Seq(New)
  BY <1>1, <1>2, SeqMonotonic
<1>4. CASE seq[n] \in keep
  <2>1. seq[n] \in New
    BY <1>1, <1>4
  <2> HIDE DEF Old, New
  <2> DEFINE more == Append(got, seq[n])
  <2>2. /\ more \in Seq(New) /\ Len(more) = Len(got) + 1 /\ more[Len(got) + 1] = seq[n]
        /\ \A i \in 1..Len(got) : more[i] = got[i]
    BY <1>3, <2>1
  <2>3. DOMAIN more = 1..Len(got) + 1 /\ DOMAIN got = 1..Len(got)
    BY <1>3, <2>2
  <2> HIDE DEF more
  <2>4. \A i \in 1..n : seq[i] \in keep => seq[i] \in Range(more)
    <3> SUFFICES ASSUME NEW i \in 1..n, seq[i] \in keep PROVE seq[i] \in Range(more)
      OBVIOUS
    <3>1. CASE i = n
      BY <3>1, <2>2, <2>3, <1>1 DEF Range
    <3>2. CASE i # n
      <4>1. seq[i] \in Range(got)
        BY <3>2, <1>1 DEF Collected
      <4>2. PICK j \in DOMAIN got : got[j] = seq[i]
        BY <4>1 DEF Range
      <4>3. j \in DOMAIN more /\ more[j] = seq[i]
        BY <4>2, <2>2, <2>3, <1>1
      <4> QED BY <4>3 DEF Range
    <3> QED BY <3>1, <3>2
  <2>5. (\A i \in 1..n : seq[i] \in keep) => Len(more) = n
    <3> HAVE \A i \in 1..n : seq[i] \in keep
    <3>1. \A i \in 1..n - 1 : seq[i] \in keep
      BY <1>1
    <3> QED BY <3>1, <2>2, <1>1 DEF Collected
  <2>6. Len(more) = n => \A i \in 1..n : seq[i] \in keep /\ more[i] = seq[i]
    <3> SUFFICES ASSUME Len(more) = n, NEW i \in 1..n
                 PROVE  seq[i] \in keep /\ more[i] = seq[i]
      OBVIOUS
    <3>1. Len(got) = n - 1
      BY <2>2, <1>1
    <3>2. \A k \in 1..n - 1 : seq[k] \in keep /\ got[k] = seq[k]
      BY <3>1 DEF Collected
    <3>3. CASE i = n
      BY <3>1, <3>3, <2>2, <1>1, <1>4
    <3>4. CASE i # n
      <4>1. i \in 1..n - 1 /\ i \in 1..Len(got)
        BY <3>1, <3>4, <1>1
      <4> QED BY <4>1, <3>2, <2>2
    <3> QED BY <3>3, <3>4
  <2>7. Len(more) <= n
    BY <2>2, <1>1
  <2> QED BY <2>2, <2>4, <2>5, <2>6, <2>7, <1>4 DEF Collected, New, more
<1>5. CASE seq[n] \notin keep
  <2>1. Len(got) <= n /\ Len(got) # n
    BY <1>1
  <2>2. \A i \in 1..n : seq[i] \in keep => seq[i] \in Range(got)
    <3> SUFFICES ASSUME NEW i \in 1..n, seq[i] \in keep PROVE seq[i] \in Range(got)
      OBVIOUS
    <3>1. i \in 1..n - 1
      BY <1>1, <1>5
    <3> QED BY <3>1 DEF Collected
  <2>3. n \in 1..n
    BY <1>1
  <2> QED BY <1>3, <1>5, <2>1, <2>2, <2>3 DEF Collected
<1> QED BY <1>4, <1>5

(* What a loop that skips the others collects. *)
LEMMA KeptAre ==
  ASSUME NEW T, NEW seq \in Seq(T), NEW keep
  PROVE  Collected(Kept(seq, keep), seq, keep, Len(seq))
<1>1. PICK up : UpTo(up, seq, keep, Len(seq)) /\ Kept(seq, keep) = up[Len(seq)]
  BY KeptIsCollected
<1> DEFINE Wrong == {n \in 0..Len(seq) : ~ Collected(up[n], seq, keep, n)}
<1>2. Len(seq) \in Nat
  OBVIOUS
<1>3. Wrong = {}
  <2> SUFFICES ASSUME Wrong # {} PROVE FALSE
    OBVIOUS
  <2>1. PICK n \in Wrong : \A m \in Wrong : n <= m
    <3>1. Wrong \in SUBSET Nat
      BY <1>2
    <3> HIDE DEF Wrong
    <3> QED BY <3>1, LeastExists
  <2>2. CASE n = 0
    <3>1. up[0] = <<>>
      BY <1>1, <1>2 DEF UpTo
    <3>2. Collected(<<>>, seq, keep, 0)
      BY DEF Collected
    <3> QED BY <2>1, <2>2, <3>1, <3>2
  <2>3. CASE n # 0
    <3>1. n \in 1..Len(seq) /\ n \in 0..Len(seq) /\ n - 1 \in 0..Len(seq) /\ n - 1 \notin Wrong
      BY <1>2, <2>1, <2>3
    <3> HIDE DEF Wrong
    <3>2. Collected(up[n - 1], seq, keep, n - 1)
      BY <3>1 DEF Wrong
    <3>3. up[n] = IF seq[n] \in keep THEN Append(up[n - 1], seq[n]) ELSE up[n - 1]
      BY <1>1, <2>3, <3>1 DEF UpTo
    <3>4. Collected(up[n], seq, keep, n)
      BY <3>1, <3>2, <3>3, CollectedNext
    <3> QED BY <3>4, <2>1 DEF Wrong
  <2> QED BY <2>2, <2>3
<1>4. Len(seq) \notin Wrong /\ Len(seq) \in 0..Len(seq)
  BY <1>2, <1>3
<1> QED BY <1>1, <1>4

(***************************************************************************)
(* Policies and probes                                                     *)
(***************************************************************************)

Layered(f) ==
  \A layer \in {"system", "user", "probes"} :
    f[layer].state \in FileState /\ IsDocument(f[layer].doc)

(* Whatever the layers say, every rule that ships is there, and can grade. *)
LEMMA ResolvedRulesStand ==
  ASSUME NEW system, NEW user
  PROVE  /\ DOMAIN Resolve(system, user).set = DOMAIN Defaults
         /\ \A id \in DOMAIN Defaults : Valid(Resolve(system, user).set[id])
<1> DEFINE overrides == ParseOverrides(Load(system, user).values).overrides
<1>1. Resolve(system, user).set = Merge(overrides).set
  BY DEF Resolve
<1> HIDE DEF overrides
<1>2. ASSUME NEW id \in DOMAIN Defaults
      PROVE  Valid(Defaults[id])
  BY PolicyAssumption DEF Valid
<1>3. ASSUME NEW id \in DOMAIN Defaults
      PROVE  Valid(Merge(overrides).set[id])
  BY <1>2 DEF Merge
<1>4. DOMAIN Merge(overrides).set = DOMAIN Defaults
  BY DEF Merge
<1> QED BY <1>1, <1>3, <1>4

(* A document that holds settings holds them as such, at every key. *)
LEMMA SettingsAreScalars ==
  ASSUME NEW doc, IsDocument(doc), NEW top, NEW key
  PROVE  LET v == At(section(doc, top), key) IN v \in Scalar \/ v = Absent
<1> DEFINE v == At(section(doc, top), key)
<1>1. CASE top \in DOMAIN doc /\ doc[top].kind = "map"
  <2>1. section(doc, top) = doc[top].of
    BY <1>1 DEF section, At
  <2>2. CASE key \in DOMAIN doc[top].of
    <3>1. doc[top] \notin Scalar
      BY <1>1 DEF Scalar
    <3>2. doc[top].of[key] \in Scalar
      BY <1>1, <2>2, <3>1 DEF IsDocument
    <3> QED BY <2>1, <2>2, <3>2 DEF At
  <2>3. CASE key \notin DOMAIN doc[top].of
    BY <2>1, <2>3 DEF At
  <2> QED BY <2>2, <2>3
<1>2. CASE ~ (top \in DOMAIN doc /\ doc[top].kind = "map")
  <2>1. section(doc, top) = <<>>
    BY <1>2 DEF section, At, Absent
  <2> QED BY <2>1 DEF At
<1> QED BY <1>1, <1>2

(* probes.go, clamp: what comes out is within the bounds of the knob. *)
LEMMA ClampIsWithin ==
  ASSUME NEW n \in Bound, NEW knob, knob.low \in Int, knob.high \in Int, knob.low <= knob.high
  PROVE  clamp(n, knob) \in knob.low .. knob.high
BY PolicyAssumption DEF clamp, Bound

(* The bounds of every knob leave room for its default. *)
LEMMA KnobsHaveRoom ==
  \A key \in DOMAIN Knob :
    /\ Knob[key].low \in Nat /\ Knob[key].high \in Nat /\ Knob[key].default \in Nat
    /\ Knob[key].low <= Knob[key].default /\ Knob[key].default <= Knob[key].high
    /\ Knob[key].whole \in BOOLEAN
<1> DEFINE Room(k) == /\ k.low \in Nat /\ k.high \in Nat /\ k.default \in Nat
                      /\ k.low <= k.default /\ k.default <= k.high
                      /\ k.whole \in BOOLEAN
<1>1. /\ Room(Count("ping", 10, 1, 900)) /\ Room(Seconds("ping", 20, 5, 500))
      /\ Room(Count("ping", 15, 1, 300)) /\ Room(Seconds("dns", 300, 10, 3000))
      /\ Room(Count("http", 15, 1, 120)) /\ Room(Count("http", 5, 0, 20))
      /\ Room(Seconds("tcp", 300, 10, 3000)) /\ Room(Count("traceroute", 15, 1, 30))
      /\ Room(Count("traceroute", 1, 1, 10)) /\ Room(Count("traceroute", 1, 1, 3))
  BY DEF Count, Seconds
<1> HIDE DEF Room
<1>2. \A key \in DOMAIN Knob : Room(Knob[key])
  BY <1>1 DEF Knob
<1> QED BY <1>2 DEF Room

(* intVal: less than one unit of a number is lost, and towards zero. *)
LEMMA TruncatedIs ==
  ASSUME NEW n \in Int
  PROVE  /\ truncated(n) \in Int
         /\ IF n >= 0 THEN n - 100 * truncated(n) \in 0..99 ELSE 100 * truncated(n) - n \in 0..99
<1>1. ASSUME NEW m \in Nat
      PROVE  m \div 100 \in Nat /\ m - 100 * (m \div 100) \in 0..99
  OBVIOUS
<1>2. CASE n >= 0
  BY <1>1, <1>2 DEF truncated
<1>3. CASE ~ (n >= 0)
  <2> DEFINE m == -n
             q == m \div 100
  <2>1. m \in Nat /\ q \in Nat /\ m - 100 * q \in 0..99
    BY <1>1, <1>3
  <2>2. truncated(n) = -q
    BY <1>3 DEF truncated
  <2> HIDE DEF q
  <2> QED BY <1>3, <2>1, <2>2
<1> QED BY <1>2, <1>3

(* What is read of a number is one. *)
LEMMA AskedIsBound ==
  ASSUME NEW n \in Bound, NEW knob
  PROVE  asRead(n, knob) \in Bound
BY TruncatedIs DEF asRead, Bound

(* Every knob is within its bounds, and every list of targets is one. *)
LEMMA ProbesAreInBounds ==
  ASSUME NEW doc, IsDocument(doc)
  PROVE  LET p == ResolveProbes(doc) IN
         /\ \A key \in DOMAIN Knob : p.knobs[key] \in Knob[key].low .. Knob[key].high
         /\ \A sec \in DOMAIN Targets : p.targets[sec] \in Seq(Texts)
<1> DEFINE p == ResolveProbes(doc)
           value(key) == At(section(doc, Knob[key].section), key)
           list(sec) == At(section(doc, sec), "targets")
<1>1. ASSUME NEW key \in DOMAIN Knob
      PROVE  p.knobs[key] \in Knob[key].low .. Knob[key].high
  <2>1. p.knobs[key] = numberVal(value(key), Knob[key])
    BY DEF ResolveProbes
  <2>2. value(key) \in Scalar \/ value(key) = Absent
    BY SettingsAreScalars
  <2> HIDE DEF value
  <2>3. value(key).kind = "number" => value(key).n \in Bound
    BY <2>2 DEF Scalar, Absent
  <2>4. /\ Knob[key].low \in Int /\ Knob[key].high \in Int /\ Knob[key].low <= Knob[key].high
        /\ Knob[key].default \in Knob[key].low .. Knob[key].high
    BY KnobsHaveRoom
  <2> HIDE DEF p
  <2>5. CASE value(key).kind = "number"
    BY <2>1, <2>3, <2>4, <2>5, AskedIsBound, ClampIsWithin DEF numberVal
  <2>6. CASE value(key).kind # "number"
    BY <2>1, <2>4, <2>6 DEF numberVal
  <2> QED BY <2>5, <2>6
<1>2. ASSUME NEW sec \in DOMAIN Targets
      PROVE  p.targets[sec] \in Seq(Texts)
  <2>1. p.targets[sec] = listVal(list(sec), sec)
    BY DEF ResolveProbes
  <2>2. list(sec) \in Scalar \/ list(sec) = Absent
    BY SettingsAreScalars
  <2> HIDE DEF list, p
  <2>3. CASE list(sec).kind = "list"
    <3> DEFINE q == list(sec).of
               keep == {item \in Range(q) : keeps(sec, item)}
    <3>1. q \in Seq(STRING)
      BY <2>2, <2>3 DEF Scalar, Absent
    <3>2. listVal(list(sec), sec) = Kept(q, keep)
      BY <2>3 DEF listVal
    <3> HIDE DEF q, keep
    <3>3. Kept(q, keep) \in Seq({q[i] : i \in 1..Len(q)} \intersect keep)
      BY <3>1, KeptAre DEF Collected
    <3>4. {q[i] : i \in 1..Len(q)} \intersect keep \subseteq Texts
      BY <3>1 DEF Texts
    <3> QED BY <2>1, <3>2, <3>3, <3>4, SeqMonotonic
  <2>4. CASE list(sec).kind # "list"
    <3>1. p.targets[sec] = Targets[sec]
      BY <2>1, <2>4 DEF listVal
    <3>2. ASSUME NEW a \in Texts, NEW b \in Texts
          PROVE  <<a>> \in Seq(Texts) /\ <<a, b>> \in Seq(Texts)
      OBVIOUS
    <3>3. Spelled \subseteq Texts
      BY DEF Texts
    <3>4. {"8.8.8.8", "1.1.1.1", "github.com", "archive.ubuntu.com", "https://github.com",
           "github.com:443"} \subseteq Texts
      BY <3>3 DEF Spelled
    <3>5. /\ <<"8.8.8.8", "1.1.1.1">> \in Seq(Texts)
          /\ <<"github.com", "archive.ubuntu.com">> \in Seq(Texts)
          /\ <<"https://github.com">> \in Seq(Texts)
          /\ <<"github.com:443">> \in Seq(Texts)
      BY <3>2, <3>4
    <3>6. Targets[sec] \in {<<"8.8.8.8", "1.1.1.1">>, <<"github.com", "archive.ubuntu.com">>,
                            <<"https://github.com">>, <<"github.com:443">>}
      BY DEF Targets
    <3>7. Targets[sec] \in Seq(Texts)
      <4> HIDE DEF p
      <4> QED BY ONLY <3>5, <3>6
    <3> QED BY <3>1, <3>7
  <2> QED BY <2>3, <2>4
<1> QED BY <1>1, <1>2

(* The probes in force, whatever became of their file. *)
LEMMA LoadedProbesAreInBounds ==
  ASSUME NEW file, IsDocument(file.doc)
  PROVE  LET p == resolveProbes(file) IN
         /\ \A key \in DOMAIN Knob : p.knobs[key] \in Knob[key].low .. Knob[key].high
         /\ \A sec \in DOMAIN Targets : p.targets[sec] \in Seq(Texts)
<1> DEFINE doc == IF Contributes(file) THEN file.doc ELSE <<>>
<1>1. IsDocument(doc)
  BY DEF IsDocument
<1>2. /\ resolveProbes(file).knobs = ResolveProbes(doc).knobs
      /\ resolveProbes(file).targets = ResolveProbes(doc).targets
  BY DEF resolveProbes, LoadProbes, ResolveProbes
<1> HIDE DEF doc
<1> QED BY <1>1, <1>2, ProbesAreInBounds

(* A check whose probes all take up to their own timeouts is not cut off by *)
(* its budget; for curl that is so up to two URLs.                          *)
LEMMA BudgetsAreEnough ==
  ASSUME NEW p,
         \A key \in DOMAIN Knob : p.knobs[key] \in Knob[key].low .. Knob[key].high,
         \A sec \in DOMAIN Targets : p.targets[sec] \in Seq(Texts),
         NEW c \in {"network.ping", "network.dns", "network.https", "network.tcp",
                    "network.ladder"}
  PROVE  \/ Longest(c, p) <= Budget(c, p)
         \/ c = "network.https" /\ Len(p.targets.http) > 2
<1>1. /\ p.knobs.pingWait \in Nat /\ p.knobs.dnsWait \in Nat /\ p.knobs.httpWait \in Nat
      /\ p.knobs.tcpWait \in Nat
  <2>1. {"pingWait", "dnsWait", "httpWait", "tcpWait"} \subseteq DOMAIN Knob
    BY DEF Knob
  <2>2. \A key \in DOMAIN Knob : p.knobs[key] \in Nat
    BY KnobsHaveRoom
  <2> QED BY <2>1, <2>2
<1>2. /\ Len(p.targets.ping) \in Nat /\ Len(p.targets.dns) \in Nat
      /\ Len(p.targets.http) \in Nat /\ Len(p.targets.tcp) \in Nat
  BY DEF Targets
<1>3. ASSUME NEW n \in Nat, NEW w \in Nat
      PROVE  n * 100 * w = n * (100 * w) /\ n * w \in Nat /\ n * (100 * w) \in Nat
  OBVIOUS
<1>4. CASE c = "network.ping"
  <2> DEFINE n == Len(p.targets.ping)
             w == p.knobs.pingWait
  <2>1. Longest(c, p) = n * 100 * w
    BY <1>4 DEF Longest
  <2>2. Budget(c, p) = n * (100 * w) + 500
    BY <1>4 DEF Budget, budgetFor, slack
  <2>3. n \in Nat /\ w \in Nat
    BY <1>1, <1>2
  <2> HIDE DEF n, w
  <2>4. n * 100 * w = n * (100 * w) /\ n * (100 * w) \in Nat
    BY <2>3, <1>3
  <2> QED BY <2>1, <2>2, <2>4
<1>5. CASE c = "network.dns"
  <2>1. Longest(c, p) = Len(p.targets.dns) * p.knobs.dnsWait
    BY <1>5 DEF Longest
  <2>2. Budget(c, p) = Len(p.targets.dns) * p.knobs.dnsWait + 500
    BY <1>5 DEF Budget, budgetFor, slack
  <2> QED BY <2>1, <2>2, <1>1, <1>2, <1>3
<1>6. CASE c = "network.tcp"
  <2>1. Longest(c, p) = Len(p.targets.tcp) * p.knobs.tcpWait
    BY <1>6 DEF Longest
  <2>2. Budget(c, p) = Len(p.targets.tcp) * p.knobs.tcpWait + 500
    BY <1>6 DEF Budget, budgetFor, slack
  <2> QED BY <2>1, <2>2, <1>1, <1>2, <1>3
<1>7. CASE c = "network.https" /\ Len(p.targets.http) <= 2
  <2> DEFINE n == Len(p.targets.http)
             w == 100 * p.knobs.httpWait
  <2>1. Longest(c, p) = n * (w + 200)
    BY <1>7 DEF Longest, curlGrace
  <2>2. Budget(c, p) = n * w + 500
    BY <1>7 DEF Budget, budgetFor, slack
  <2>3. n \in {0, 1, 2} /\ w \in Nat
    <3>1. n \in Nat /\ n <= 2
      BY <1>2, <1>7
    <3>2. w \in Nat
      BY <1>1
    <3> HIDE DEF n, w
    <3> QED BY <3>1, <3>2
  <2> HIDE DEF n, w
  <2>4. n * (w + 200) <= n * w + 500
    BY <2>3
  <2> QED BY <2>1, <2>2, <2>4
<1>8. CASE c = "network.ladder"
  <2>1. Longest(c, p) = 2 * 600 + p.knobs.dnsWait + 100 * p.knobs.httpWait + 200
    BY <1>8 DEF Longest, LadderPingTimeout, curlGrace
  <2>2. Budget(c, p) = 2 * 600 + p.knobs.dnsWait + 100 * p.knobs.httpWait + 500
    BY <1>8 DEF Budget, LadderPingTimeout, slack
  <2>3. \A a, b \in Nat : 2 * 600 + a + 100 * b + 200 <= 2 * 600 + a + 100 * b + 500
    OBVIOUS
  <2> DEFINE a == p.knobs.dnsWait
             b == p.knobs.httpWait
  <2>4. a \in Nat /\ b \in Nat /\ Longest(c, p) = 2 * 600 + a + 100 * b + 200
        /\ Budget(c, p) = 2 * 600 + a + 100 * b + 500
    BY <1>1, <2>1, <2>2
  <2> HIDE DEF a, b
  <2> QED BY <2>3, <2>4
<1> QED BY <1>2, <1>4, <1>5, <1>6, <1>7, <1>8

(* A setting that is read is in effect, or a warning names its rule. *)
LEMMA SettingIsNotLost ==
  ASSUME NEW values, NEW id \in DOMAIN values, values[id].kind = "map",
         NEW s \in Setting, s \in DOMAIN values[id].of, values[id].of[s] \in Scalar
  PROVE  LET parsed == ParseOverrides(values)
             merged == Merge(parsed.overrides)
         IN  \/ /\ id \in DOMAIN merged.set /\ s \in {"warn", "crit"}
                /\ values[id].of[s] = Number(merged.set[id][s])
             \/ \E w \in parsed.warnings \union merged.warnings : "id" \in DOMAIN w /\ w.id = id
<1> DEFINE v == values[id]
           parsed == ParseOverrides(values)
           merged == Merge(parsed.overrides)
           bounds == Bounds(v)
<1>1. CASE s = "other" \/ v.of[s].kind # "number"
  <2>1. s \in Rejected(v)
    BY <1>1 DEF Rejected
  <2>2. [id |-> id, setting |-> s] \in parsed.warnings
    BY <2>1 DEF ParseOverrides
  <2> QED BY <2>2
<1>2. CASE ~ (s = "other" \/ v.of[s].kind # "number")
  <2>1. s \in {"warn", "crit"} /\ v.of[s].kind = "number"
    BY <1>2 DEF Setting
  <2>2. s \in DOMAIN bounds /\ bounds[s] = v.of[s].n
    BY <1>2, <2>1 DEF Bounds
  <2>3. v.of[s] = Number(bounds[s])
    BY <2>1, <2>2 DEF Scalar, Number
  <2>4. bounds # <<>>
    BY <2>2
  <2>5. id \in DOMAIN parsed.overrides /\ parsed.overrides[id] = bounds
    <3> HIDE DEF bounds
    <3> QED BY <2>4 DEF ParseOverrides, bounds
  <2> HIDE DEF bounds, parsed
  <2>6. CASE id \in DOMAIN Defaults /\ Valid(Override(Defaults[id], bounds))
    <3>1. id \in DOMAIN merged.set /\ merged.set[id] = Override(Defaults[id], bounds)
      BY <2>5, <2>6 DEF Merge
    <3>2. Override(Defaults[id], bounds)[s] = bounds[s]
      BY <2>1, <2>2 DEF Override
    <3> HIDE DEF merged
    <3> QED BY <2>1, <2>3, <3>1, <3>2 DEF parsed, merged
  <2>7. CASE ~ (id \in DOMAIN Defaults /\ Valid(Override(Defaults[id], bounds)))
    <3>1. [id |-> id, setting |-> "rule"] \in merged.warnings
      BY <2>5, <2>7 DEF Merge
    <3> HIDE DEF merged
    <3> QED BY <3>1 DEF parsed, merged
  <2> QED BY <2>6, <2>7
<1> QED BY <1>1, <1>2

(* What a policy resolved from layers says of every setting in them. *)
LEMMA WrittenIsHeard ==
  ASSUME Layered(files), policy = Resolve(files.system, files.user),
         probes = resolveProbes(files.probes)
  PROVE  NothingVanishes
<1> DEFINE doc(file) == IF Contributes(file) THEN file.doc ELSE <<>>
           values == mergeMappings(doc(files.system), doc(files.user))
           parsed == ParseOverrides(values)
           merged == Merge(parsed.overrides)
<1>1. policy.set = merged.set
  BY DEF Resolve, Load
<1>2. parsed.warnings \union merged.warnings \subseteq policy.warnings
  BY DEF Resolve, Load
<1>3. ASSUME NEW id \in DOMAIN values, values[id].kind = "map", NEW s \in Setting,
             s \in DOMAIN values[id].of, values[id].of[s] \in Scalar,
             NEW file, file.doc[id].of[s] = values[id].of[s]
      PROVE  InEffect(file, id, s) \/ Complained(id)
  <2>1. \/ /\ id \in DOMAIN merged.set /\ s \in {"warn", "crit"}
           /\ values[id].of[s] = Number(merged.set[id][s])
        \/ \E w \in parsed.warnings \union merged.warnings : "id" \in DOMAIN w /\ w.id = id
    <3> HIDE DEF values
    <3> QED BY <1>3, SettingIsNotLost
  <2> HIDE DEF values, parsed, merged
  <2> QED BY <1>1, <1>2, <1>3, <2>1 DEF InEffect, Complained
<1>4. ASSUME NEW layer \in {"system", "user"}, NEW id, NEW s, Sets(files[layer], id, s)
      PROVE  /\ doc(files[layer]) = files[layer].doc /\ id \in DOMAIN files[layer].doc
             /\ files[layer].doc[id].kind = "map" /\ s \in DOMAIN files[layer].doc[id].of
             /\ files[layer].doc[id].of[s] \in Scalar
  <2>1. files[layer].doc[id] \notin Scalar
    BY <1>4 DEF Sets, Scalar
  <2> QED BY <1>4, <2>1 DEF Sets, Layered, IsDocument
<1>5. ASSUME NEW id \in RuleId, NEW s \in Setting, Sets(files.user, id, s)
      PROVE  InEffect(files.user, id, s) \/ Complained(id)
  <2> DEFINE base == doc(files.system)
             over == files.user.doc
  <2>1. /\ doc(files.user) = over /\ id \in DOMAIN over /\ over[id].kind = "map"
        /\ s \in DOMAIN over[id].of /\ over[id].of[s] \in Scalar
    BY <1>4, <1>5
  <2>2. /\ id \in DOMAIN values
        /\ values[id] = IF id \in DOMAIN base /\ base[id].kind = "map"
                          THEN Mapping(Over(over[id].of, base[id].of)) ELSE over[id]
    BY <2>1 DEF mergeMappings
  <2>3. values[id].kind = "map" /\ s \in DOMAIN values[id].of /\ values[id].of[s] = over[id].of[s]
    <3> HIDE DEF values, base, over
    <3> QED BY <2>1, <2>2 DEF Mapping, Over
  <2> QED BY <1>3, <2>1, <2>2, <2>3
<1>6. ASSUME NEW id \in RuleId, NEW s \in Setting, Sets(files.system, id, s),
             ~ Overrules(files.user, id, s)
      PROVE  InEffect(files.system, id, s) \/ Complained(id)
  <2> DEFINE base == files.system.doc
             over == doc(files.user)
  <2>1. /\ doc(files.system) = base /\ id \in DOMAIN base /\ base[id].kind = "map"
        /\ s \in DOMAIN base[id].of /\ base[id].of[s] \in Scalar
    BY <1>4, <1>6
  <2>2. id \in DOMAIN over => over[id].kind = "map" /\ s \notin DOMAIN over[id].of
    BY <1>6 DEF Overrules, Sets
  <2>3. /\ id \in DOMAIN values
        /\ values[id] = IF id \in DOMAIN over
                          THEN Mapping(Over(over[id].of, base[id].of)) ELSE base[id]
    BY <2>1, <2>2 DEF mergeMappings
  <2>4. values[id].kind = "map" /\ s \in DOMAIN values[id].of /\ values[id].of[s] = base[id].of[s]
    <3> HIDE DEF values, base, over
    <3> QED BY <2>1, <2>2, <2>3 DEF Mapping, Over
  <2> QED BY <1>3, <2>1, <2>3, <2>4
<1>7. ASSUME NEW layer \in {"system", "user"},
             files[layer].state \in {"unreadable", "unparseable"}
      PROVE  [layer |-> layer] \in policy.warnings
  <2>1. layer \in {"system", "user"} /\ files["system"] = files.system /\ files["user"] = files.user
    OBVIOUS
  <2> QED BY <1>7, <2>1 DEF Resolve, Load
<1>8. ASSUME Contributes(files.probes), NEW key \in DOMAIN Knob,
             At(section(files.probes.doc, Knob[key].section), key).kind = "number"
      PROVE  \/ Follows(probes.knobs[key], key,
                         At(section(files.probes.doc, Knob[key].section), key).n)
             \/ \E w \in probes.warnings : w.key = key
  <2> DEFINE v == At(section(files.probes.doc, Knob[key].section), key)
             read == asRead(v.n, Knob[key])
             clamped == Warning(Knob[key].section, key, "clamped")
  <2>1. probes.knobs[key] = numberVal(v, Knob[key])
    BY <1>8 DEF resolveProbes, LoadProbes, ResolveProbes
  <2>2. numberWarnings(v, Knob[key].section, key) \subseteq probes.warnings
    <3> DEFINE all == {numberWarnings(At(section(files.probes.doc, Knob[k].section), k),
                                      Knob[k].section, k) : k \in DOMAIN Knob}
    <3>1. UNION all \subseteq ResolveProbes(files.probes.doc).warnings
      <4> DEFINE cfg == files.probes.doc
                 one == UNION {sectionWarnings(cfg, sec) : sec \in Sections}
                 two == UNION {listWarnings(At(section(cfg, sec), "targets"), sec) :
                                 sec \in DOMAIN Targets}
      <4>1. ResolveProbes(cfg).warnings = one \union (UNION all) \union two
        BY SMT DEF ResolveProbes
      <4> HIDE DEF all, one, two
      <4> QED BY <4>1
    <3>2. ResolveProbes(files.probes.doc).warnings \subseteq probes.warnings
      <4>1. LoadProbes(files.probes) = ResolveProbes(files.probes.doc)
        BY <1>8 DEF LoadProbes
      <4>2. "warnings" \in DOMAIN LoadProbes(files.probes)
        BY DEF LoadProbes, ResolveProbes
      <4> QED BY <4>1, <4>2 DEF resolveProbes
    <3>3. numberWarnings(v, Knob[key].section, key) \in all
      OBVIOUS
    <3> HIDE DEF all
    <3> QED BY <3>1, <3>2, <3>3
  <2>3. CASE clamp(read, Knob[key]) = read
    <3>1. v \in Scalar \/ v = Absent
      BY SettingsAreScalars DEF Layered
    <3> HIDE DEF v
    <3>2. v.n \in Bound
      BY <1>8, <3>1 DEF Scalar, Absent, v
    <3>3. read \in Knob[key].low .. Knob[key].high
      BY <2>3, <3>2, AskedIsBound, ClampIsWithin, KnobsHaveRoom
    <3>4. v.n # NaN /\ v.n \in Int
      <4>1. NaN \notin Int /\ (v.n = NaN => read = NaN)
        BY PolicyAssumption DEF asRead
      <4>2. read \in Int
        BY <3>3, KnobsHaveRoom
      <4> QED BY <3>2, <4>1, <4>2 DEF Bound
    <3>5. probes.knobs[key] = read
      BY <1>8, <2>1, <2>3 DEF numberVal, v
    <3>6. read = IF Knob[key].whole THEN truncated(v.n) ELSE v.n
      BY <3>4 DEF asRead
    <3> HIDE DEF read
    <3>7. Follows(probes.knobs[key], key, v.n)
      BY <3>4, <3>5, <3>6, TruncatedIs DEF Follows
    <3> QED BY <3>7 DEF v
  <2>4. CASE clamp(read, Knob[key]) # read
    <3> HIDE DEF v
    <3>1. numberWarnings(v, Knob[key].section, key) = {clamped}
      BY <1>8, <2>4 DEF numberWarnings, v
    <3>2. clamped.key = key
      BY DEF Warning
    <3> QED BY <2>2, <3>1, <3>2
  <2> QED BY <2>3, <2>4
<1> HIDE DEF values
<1> QED BY <1>5, <1>6, <1>7, <1>8 DEF NothingVanishes

(* And it can be run with. *)
LEMMA ResolvedStands ==
  ASSUME Layered(files), policy = Resolve(files.system, files.user),
         probes = resolveProbes(files.probes)
  PROVE  PolicyStands
<1>1. /\ DOMAIN policy.set = DOMAIN Defaults
      /\ \A id \in DOMAIN policy.set : Valid(policy.set[id])
  BY ResolvedRulesStand
<1>2. /\ \A key \in DOMAIN Knob : probes.knobs[key] \in Knob[key].low .. Knob[key].high
      /\ \A sec \in DOMAIN Targets : probes.targets[sec] \in Seq(Texts)
  BY LoadedProbesAreInBounds DEF Layered
<1>3. \A key \in DOMAIN Knob :
        probes.knobs[key] # NaN /\ probes.knobs[key] \in Knob[key].low .. Knob[key].high
  BY <1>2, PolicyAssumption
<1>4. ASSUME NEW c \in {"network.ping", "network.dns", "network.https", "network.tcp",
                        "network.ladder"}
      PROVE  \/ Longest(c, probes) <= Budget(c, probes)
             \/ c = "network.https" /\ Len(probes.targets.http) > 2
  BY <1>2, BudgetsAreEnough
<1> QED BY <1>1, <1>3, <1>4 DEF PolicyStands

(***************************************************************************)
(* The states of a run                                                     *)
(***************************************************************************)

Begun == \E start \in Starts : check = start.check /\ files \in start.files

(* The worlds of a run are of one host. *)
Placed ==
  /\ been \union {host} \subseteq UNION Worlds[check]
  /\ \A v, w \in been \union {host} : Alike(check, v, w)

Configured ==
  IF policy = Nothing THEN seen = <<>> /\ answer = Nothing
  ELSE policy = Resolve(files.system, files.user) /\ probes = resolveProbes(files.probes)

(* What was read is what a world it was in says, in the order of the script.*)
Asked ==
  /\ seen \in Seq(Range(seen)) /\ (seen = <<>> => been = {})
  /\ policy # Nothing /\ seen # <<>> =>
       /\ Len(seen) <= Len(Script)
       /\ \A i \in DOMAIN seen : \E w \in been : seen[i] \in Replies(Script[i], w, seen)

(* A reading was taken only because those before it left the question open. *)
GoesOn ==
  /\ check = "system.updates" /\ Taken(2) => fromNotifier([notifier |-> Got(1)]) = Nothing
  /\ check = "services.failed" /\ Taken(2) => Got(1).how = "ok" /\ Got(1).rows # <<>>
  /\ check \in {"docker.disk", "docker.containers"} /\ Taken(2) => Runtime.available
  /\ check = "docker.containers" /\ Taken(3) => Got(2).how = "ok" /\ Got(2).rows # <<>>
  /\ check = "network.traceroute" /\ Taken(1) => TraceTarget # ""
  /\ check = "network.traceroute" /\ Taken(2) => Got(1) # {}
  /\ check = "logsqueeze.candidates" /\ Taken(2) => openable(Got(1)) = Bare("ok")
  /\ check = "storage.stale" /\ Taken(2) => walkable(Got(1), "opened") = Bare("ok")
  /\ check = "storage.stale" /\ Taken(3) => walkable(Got(1), Got(2)) = Bare("ok")
  /\ check = "storage.env" /\ Taken(2) => readable(Got(1)) = Bare("ok")
  /\ check = "storage.env" /\ Taken(3) => Got(2).how = "unread"
  /\ check = "procs.top" /\ Taken(2) => Got(1).how = "ok"

Inv ==
  /\ Begun /\ Placed /\ Configured /\ Asked
  /\ policy # Nothing => GoesOn
  /\ Answered => policy # Nothing /\ Settled /\ answer = Run

(* Where in a script the questions are that build on an earlier answer. *)
LEMMA ScriptIsList ==
  ASSUME check \in CheckName, \A sec \in DOMAIN Targets : probes.targets[sec] \in Seq(Texts)
  PROVE  /\ Len(Script) \in Nat /\ DOMAIN Script = 1..Len(Script)
         /\ \A i \in DOMAIN Script : /\ Script[i].ask = "owners" => i = 2
                                     /\ Script[i].ask \in {"inspect", "gateway"} => i = 3
<1>1. ASSUME NEW q \in {<<Ask("loadavg")>>, <<Ask("meminfo")>>, <<Ask("zones")>>,
                        <<Ask("uptime")>>, <<Ask("df")>>, <<Ask("blame")>>, <<Ask("version")>>,
                        <<Ask("route")>>, <<Ask("resolvers")>>, <<Ask("ss")>>,
                        <<Ask("notifier"), Ask("apt")>>, <<Ask("units"), Ask("owners")>>,
                        <<Ask("version"), Ask("dockerdf")>>, <<Ask("tools"), Ask("trace")>>,
                        <<Ask("root"), Ask("listing")>>, <<Ask("ticks"), Ask("procs")>>}
      PROVE  /\ Len(q) \in Nat /\ DOMAIN q = 1..Len(q)
             /\ \A i \in DOMAIN q : /\ q[i].ask = "owners" => i = 2
                                    /\ q[i].ask \in {"inspect", "gateway"} => i = 3
  BY DEF Ask
<1>2. ASSUME NEW q \in {<<Ask("version"), Ask("ps"), Ask("inspect")>>,
                        <<Ask("root"), Ask("open"), Ask("tree")>>,
                        <<Ask("root"), Ask("text"), Ask("reopen")>>, LadderScript}
      PROVE  /\ Len(q) \in Nat /\ DOMAIN q = 1..Len(q)
             /\ \A i \in DOMAIN q : /\ q[i].ask = "owners" => i = 2
                                    /\ q[i].ask \in {"inspect", "gateway"} => i = 3
  BY DEF Ask, LadderScript
<1>3. ASSUME NEW targets \in Seq(Texts), NEW what \in {"ping", "dns", "curl", "dial"}
      PROVE  LET q == Each(what, targets) IN
             /\ Len(q) \in Nat /\ DOMAIN q = 1..Len(q)
             /\ \A i \in DOMAIN q : /\ q[i].ask = "owners" => i = 2
                                    /\ q[i].ask \in {"inspect", "gateway"} => i = 3
  BY DEF Each, AskOf
<1>4. /\ probes.targets.ping \in Seq(Texts) /\ probes.targets.dns \in Seq(Texts)
      /\ probes.targets.http \in Seq(Texts) /\ probes.targets.tcp \in Seq(Texts)
  BY DEF Targets
<1>5. CASE check \in {"network.ping", "network.dns", "network.https", "network.tcp"}
  <2>1. PICK what \in {"ping", "dns", "curl", "dial"}, targets \in Seq(Texts) :
          Script = Each(what, targets)
    <3>1. CASE check = "network.ping"
      BY <3>1, <1>4 DEF Script
    <3>2. CASE check = "network.dns"
      BY <3>2, <1>4 DEF Script
    <3>3. CASE check = "network.https"
      BY <3>3, <1>4 DEF Script
    <3>4. CASE check = "network.tcp"
      BY <3>4, <1>4 DEF Script
    <3> QED BY <1>5, <3>1, <3>2, <3>3, <3>4
  <2> QED BY <1>3, <2>1
<1>6. CASE check \in {"docker.containers", "storage.stale", "storage.env", "network.ladder"}
  <2>1. Script \in {<<Ask("version"), Ask("ps"), Ask("inspect")>>,
                    <<Ask("root"), Ask("open"), Ask("tree")>>,
                    <<Ask("root"), Ask("text"), Ask("reopen")>>, LadderScript}
    BY <1>6 DEF Script
  <2> QED BY <1>2, <2>1
<1>7. CASE check \notin {"network.ping", "network.dns", "network.https", "network.tcp",
                         "docker.containers", "storage.stale", "storage.env", "network.ladder"}
  <2>1. Script \in {<<Ask("loadavg")>>, <<Ask("meminfo")>>, <<Ask("zones")>>,
                    <<Ask("uptime")>>, <<Ask("df")>>, <<Ask("blame")>>, <<Ask("version")>>,
                    <<Ask("route")>>, <<Ask("resolvers")>>, <<Ask("ss")>>,
                    <<Ask("notifier"), Ask("apt")>>, <<Ask("units"), Ask("owners")>>,
                    <<Ask("version"), Ask("dockerdf")>>, <<Ask("tools"), Ask("trace")>>,
                    <<Ask("root"), Ask("listing")>>, <<Ask("ticks"), Ask("procs")>>}
    BY <1>7 DEF Script, CheckName, DockerChecks, NetChecks
  <2> QED BY <1>1, <2>1
<1> QED BY <1>5, <1>6, <1>7

(* What may be said to a question depends on the world, and for three of    *)
(* them on one earlier answer.                                              *)
LEMMA RepliesAgree ==
  ASSUME NEW q, NEW w, NEW s, NEW t, q.ask = "owners" => s[1] = t[1],
         q.ask \in {"inspect", "gateway"} => s[2] = t[2]
  PROVE  Replies(q, w, s) = Replies(q, w, t)
<1>1. UnitReplies(q.ask, w, s) = UnitReplies(q.ask, w, t)
  <2>1. CASE q.ask = "owners"
    BY <2>1 DEF UnitReplies
  <2>2. CASE q.ask = "inspect"
    BY <2>2 DEF UnitReplies
  <2>3. CASE q.ask \notin {"owners", "inspect"}
    BY <2>3 DEF UnitReplies
  <2> QED BY <2>1, <2>2, <2>3
<1>2. NetReplies(q.ask, w, s) = NetReplies(q.ask, w, t)
  <2>1. CASE q.ask = "gateway"
    BY <2>1 DEF NetReplies
  <2>2. CASE q.ask # "gateway"
    BY <2>2 DEF NetReplies
  <2> QED BY <2>1, <2>2
<1> QED BY <1>1, <1>2 DEF Replies

(* Worlds that are alike a third are alike. *)
LEMMA AlikeIsTransitive ==
  ASSUME NEW c, NEW u, NEW v, NEW w, Alike(c, u, v), Alike(c, v, w)
  PROVE  Alike(c, u, w)
BY DEF Alike

(* Where a run may be, and with what. *)
LEMMA Bearings ==
  ASSUME Begun
  PROVE  /\ check \in CheckName /\ check \in DOMAIN Worlds /\ Layered(files)
         /\ \A group \in Worlds[check] : \A v, w \in group :
              v \in Hosts(check) /\ Alike(check, v, w)
BY StartsAssumption, WorldsAssumption DEF Begun, Layered

(* What the probes are sent to is a list of texts, whatever the file holds.*)
LEMMA TargetsAreLists ==
  ASSUME Begun, Configured, policy # Nothing
  PROVE  \A sec \in DOMAIN Targets : probes.targets[sec] \in Seq(Texts)
<1>1. IsDocument(files.probes.doc)
  BY Bearings DEF Layered
<1> QED BY <1>1, LoadedProbesAreInBounds DEF Configured

(* The first state is one the invariant holds in. *)
LEMMA InitInv == Init => Inv
<1> SUFFICES ASSUME Init PROVE Inv
  OBVIOUS
<1>1. Begun
  BY DEF Init, Begun
<1>2. PICK group \in Worlds[check] : host \in group
  BY DEF Init
<1>3. been = {} /\ seen = <<>> /\ policy = Nothing /\ answer = Nothing
  BY DEF Init
<1>4. Placed
  BY <1>1, <1>2, <1>3, Bearings DEF Placed
<1>5. Asked
  <2>1. seen \in Seq(Range(seen))
    BY <1>3
  <2> QED BY <1>3, <2>1 DEF Asked
<1> QED BY <1>1, <1>3, <1>4, <1>5 DEF Inv, Configured, Answered

(* A run that has its configuration has read nothing yet. *)
LEMMA InvConfigure == Inv /\ Configure => Inv'
<1> SUFFICES ASSUME Inv, Configure PROVE Inv'
  OBVIOUS
<1>1. /\ UNCHANGED <<check, files, host, been, seen, answer>> /\ policy = Nothing
      /\ policy' = Resolve(files.system, files.user) /\ probes' = resolveProbes(files.probes)
  BY DEF Configure
<1>2. seen = <<>> /\ answer = Nothing /\ been = {} /\ seen \in Seq(Range(seen))
  BY <1>1 DEF Inv, Configured, Asked
<1>3. Begun' /\ Placed'
  BY <1>1 DEF Inv, Begun, Placed
<1>4. Configured'
  BY <1>1, <1>2 DEF Configured
<1>5. Asked'
  BY <1>1, <1>2 DEF Asked
<1>6. GoesOn'
  BY <1>1, <1>2 DEF GoesOn, Taken
<1>7. ~ Answered'
  BY <1>1, <1>2 DEF Answered
<1> QED BY <1>3, <1>4, <1>5, <1>6, <1>7 DEF Inv

(* A reading is what the world says now, and what was read stays read. *)
LEMMA ReadIsAsked ==
  ASSUME Inv, Read
  PROVE  Asked'
<1>1. PICK reply \in Replies(Script[Len(seen) + 1], host, seen) : seen' = Append(seen, reply)
  BY DEF Read
<1>2. /\ been' = been \union {host} /\ UNCHANGED <<check, files, policy, probes, answer>>
      /\ policy # Nothing /\ answer = Nothing /\ ~Settled
  BY DEF Read
<1>3. /\ Len(Script) \in Nat /\ DOMAIN Script = 1..Len(Script)
      /\ \A i \in DOMAIN Script : /\ Script[i].ask = "owners" => i = 2
                                  /\ Script[i].ask \in {"inspect", "gateway"} => i = 3
  <2>1. check \in CheckName /\ \A sec \in DOMAIN Targets : probes.targets[sec] \in Seq(Texts)
    BY <1>2, Bearings, TargetsAreLists DEF Inv
  <2> QED BY <2>1, ScriptIsList
<1>4. seen \in Seq(Range(seen)) /\ Len(seen) \in Nat /\ DOMAIN seen = 1..Len(seen)
  BY DEF Inv, Asked
<1> DEFINE n == Len(seen)
<1>5. seen' \in Seq(Range(seen) \union {reply})
  <2>1. Range(seen) \subseteq Range(seen) \union {reply}
    OBVIOUS
  <2>2. seen \in Seq(Range(seen) \union {reply})
    BY <1>4, <2>1, SeqMonotonic
  <2> QED BY <1>1, <2>2
<1>6. /\ Len(seen') = n + 1 /\ DOMAIN seen' = 1..n + 1 /\ seen'[n + 1] = reply
      /\ \A i \in 1..n : seen'[i] = seen[i]
  BY <1>1, <1>4
<1>7. seen' \in Seq(Range(seen'))
  <2>1. \A i \in 1..n + 1 : seen'[i] \in Range(seen')
    BY <1>6 DEF Range
  <2>2. seen' = [i \in 1..Len(seen') |-> seen'[i]] /\ Len(seen') \in Nat
    BY <1>5
  <2> QED BY <2>1, <2>2, <1>6
<1>8. Script' = Script
  BY <1>2 DEF Script
<1>9. n + 1 <= Len(Script)
  <2>1. n # Len(Script)
    BY <1>2 DEF Settled
  <2>2. n <= Len(Script)
    BY <1>2, <1>3, <1>4 DEF Inv, Asked
  <2> DEFINE m == Len(Script)
  <2>3. m \in Nat /\ n \in Nat /\ n # m /\ n <= m
    BY <1>3, <1>4, <2>1, <2>2
  <2> HIDE DEF m, n
  <2>4. n + 1 <= m
    BY <2>3
  <2> QED BY <2>4 DEF m, n
<1>10. ASSUME NEW i \in DOMAIN seen'
       PROVE  \E w \in been' : seen'[i] \in Replies(Script'[i], w, seen')
  <2>1. i \in 1..n + 1 /\ i \in DOMAIN Script
    BY <1>3, <1>4, <1>6, <1>9
  <2>2. \A w : Replies(Script[i], w, seen) = Replies(Script[i], w, seen')
    <3>1. Script[i].ask = "owners" => seen[1] = seen'[1]
      BY <1>3, <1>4, <1>6, <2>1
    <3>2. Script[i].ask \in {"inspect", "gateway"} => seen[2] = seen'[2]
      BY <1>3, <1>4, <1>6, <2>1
    <3> QED BY <3>1, <3>2, RepliesAgree
  <2>3. \E w \in been' : seen'[i] \in Replies(Script[i], w, seen)
    <3>1. CASE i = n + 1
      BY <1>1, <1>2, <1>6, <3>1
    <3>2. CASE i # n + 1
      <4>1. i \in DOMAIN seen /\ seen'[i] = seen[i] /\ seen # <<>>
        BY <1>4, <1>6, <2>1, <3>2
      <4> QED BY <1>2, <4>1 DEF Inv, Asked
    <3> QED BY <3>1, <3>2
  <2> QED BY <2>2, <2>3, <1>8
<1>11. seen' # <<>>
  BY <1>4, <1>6
<1> QED BY <1>6, <1>7, <1>8, <1>9, <1>10, <1>11 DEF Asked


(* A check that is settled takes no more readings, and one that is not goes *)
(* on for a reason.                                                         *)
LEMMA ReadGoesOn ==
  ASSUME Inv, Read
  PROVE  GoesOn'
<1>1. PICK reply : seen' = Append(seen, reply)
  BY DEF Read
<1>2. UNCHANGED <<check, files, policy, probes, answer>> /\ policy # Nothing /\ ~Settled
  BY DEF Read
<1>3. seen \in Seq(Range(seen)) /\ Len(seen) \in Nat /\ DOMAIN seen = 1..Len(seen) /\ GoesOn
  BY <1>2 DEF Inv, Asked
<1> DEFINE n == Len(seen)
<1>4. /\ DOMAIN seen' = 1..n + 1
      /\ \A i \in 1..n : seen'[i] = seen[i]
  <2>1. seen \in Seq(Range(seen) \union {reply})
    <3>1. Range(seen) \subseteq Range(seen) \union {reply}
      OBVIOUS
    <3> QED BY <1>3, <3>1, SeqMonotonic
  <2> QED BY <1>1, <1>3, <2>1
<1>5. \A i \in {1, 2} : Taken(i + 1)' => Taken(i) /\ Got(i)' = Got(i) /\ Taken(i)'
  BY <1>3, <1>4 DEF Taken, Got
<1>6. \A i \in {1, 2, 3} : Taken(i) => Taken(i)' /\ Got(i)' = Got(i)
  BY <1>3, <1>4 DEF Taken, Got
<1>7. Taken(2)' => Taken(1) /\ Taken(1)' /\ Got(1)' = Got(1) /\ Runtime' = Runtime
  BY <1>5 DEF Runtime
<1>8. Taken(3)' => /\ Taken(1) /\ Taken(2) /\ Taken(2)' /\ Got(2)' = Got(2) /\ Got(1)' = Got(1)
  BY <1>5, <1>6, <1>7
<1> HIDE DEF n
<1>9. check = "system.updates" /\ Taken(2)' => fromNotifier([notifier |-> Got(1)']) = Nothing
  BY <1>2, <1>7 DEF Settled, MotdTold
<1>10. check = "services.failed" /\ Taken(2)' => Got(1)'.how = "ok" /\ Got(1)'.rows # <<>>
  BY <1>2, <1>7 DEF Settled
<1>11. check \in {"docker.disk", "docker.containers"} /\ Taken(2)' => Runtime'.available
  BY <1>2, <1>7 DEF Settled
<1>12. check = "docker.containers" /\ Taken(3)' => Got(2)'.how = "ok" /\ Got(2)'.rows # <<>>
  BY <1>2, <1>8 DEF Settled
<1>13. check = "network.traceroute" => TraceTarget' # ""
  BY <1>2 DEF Settled, TraceTarget, SentTo
<1>14. check = "network.traceroute" /\ Taken(2)' => Got(1)' # {}
  BY <1>2, <1>7 DEF Settled
<1>15. check = "logsqueeze.candidates" /\ Taken(2)' => openable(Got(1)') = Bare("ok")
  BY <1>2, <1>7 DEF Settled
<1>16. check = "storage.stale" /\ Taken(2)' => walkable(Got(1)', "opened") = Bare("ok")
  <2>1. CASE Taken(2)
    BY <1>3, <1>7, <2>1 DEF GoesOn
  <2>2. CASE ~ Taken(2)
    BY <1>2, <1>7, <2>2 DEF Settled
  <2> QED BY <2>1, <2>2
<1>17. check = "storage.stale" /\ Taken(3)' => walkable(Got(1)', Got(2)') = Bare("ok")
  BY <1>2, <1>8 DEF Settled
<1>18. check = "storage.env" /\ Taken(2)' => readable(Got(1)') = Bare("ok")
  BY <1>2, <1>7 DEF Settled
<1>19. check = "storage.env" /\ Taken(3)' => Got(2)'.how = "unread"
  BY <1>2, <1>8 DEF Settled
<1>20. check = "procs.top" /\ Taken(2)' => Got(1)'.how = "ok"
  BY <1>2, <1>7 DEF Settled
<1> QED BY <1>2, <1>9, <1>10, <1>11, <1>12, <1>13, <1>14, <1>15, <1>16, <1>17, <1>18, <1>19,
           <1>20 DEF GoesOn

(* What was read, and why, is as it was while nothing is read. *)
LEMMA Steady ==
  ASSUME UNCHANGED <<check, files, policy, probes, been, seen>>
  PROVE  (Begun => Begun') /\ (Asked => Asked') /\ (GoesOn => GoesOn')
<1>1. Script' = Script
  BY DEF Script
<1>2. \A i \in {1, 2, 3} : (Taken(i)' <=> Taken(i)) /\ Got(i)' = Got(i)
  BY DEF Taken, Got
<1>3. Runtime' = Runtime
  BY <1>2 DEF Runtime
<1>4. (Begun => Begun') /\ TraceTarget' = TraceTarget
  BY DEF Begun, TraceTarget, SentTo
<1>5. Asked => Asked'
  BY <1>1 DEF Asked
<1>6. GoesOn => GoesOn'
  BY <1>2, <1>3, <1>4 DEF GoesOn
<1> QED BY <1>4, <1>5, <1>6

(* And no step leaves it. *)
LEMMA InvNext == Inv /\ [Next]_vars => Inv'
<1> SUFFICES ASSUME Inv, [Next]_vars PROVE Inv'
  OBVIOUS
<1>1. CASE Configure
  BY <1>1, InvConfigure
<1>2. CASE Read
  <2>1. /\ been' = been \union {host}
        /\ UNCHANGED <<check, files, policy, probes, host, answer>> /\ policy # Nothing
        /\ answer = Nothing
    BY <1>2 DEF Read
  <2>2. Begun' /\ Placed' /\ Configured'
    BY <2>1 DEF Inv, Begun, Placed, Configured
  <2>3. ~ Answered'
    BY <2>1 DEF Answered
  <2> QED BY <1>2, <2>2, <2>3, ReadIsAsked, ReadGoesOn DEF Inv
<1>3. CASE Answer
  <2>1. UNCHANGED <<check, files, policy, probes, host, been, seen, expired>>
    BY <1>3 DEF Answer
  <2>2. policy # Nothing /\ Settled /\ answer' = Run
    BY <1>3 DEF Answer
  <2>3. Begun' /\ Placed' /\ Configured' /\ Asked' /\ (policy' # Nothing => GoesOn')
    BY <2>1, <2>2, Steady DEF Inv, Placed, Configured
  <2>4. Settled' /\ answer' = Run'
    <3>1. Script' = Script
      BY <2>1 DEF Script
    <3>2. /\ Runtime' = Runtime /\ TraceTarget' = TraceTarget /\ RungsRead' = RungsRead
          /\ MotdTold' = MotdTold
      BY <2>1 DEF Runtime, TraceTarget, SentTo, RungsRead, MotdTold, Taken, Got
    <3>3. Settled'
      BY <2>1, <2>2, <3>1, <3>2 DEF Settled, Taken, Got
    <3>4. Run' = Run
      BY <2>1, <3>2 DEF Run, Taken, Got
    <3> QED BY <2>2, <3>3, <3>4
  <2> QED BY <2>1, <2>2, <2>3, <2>4 DEF Inv
<1>4. CASE Drift
  <2>1. /\ UNCHANGED <<check, files, policy, probes, been, seen, expired, answer>>
        /\ answer = Nothing
    BY <1>4 DEF Drift
  <2>2. PICK group \in Worlds[check] : host \in group /\ host' \in group
    BY <1>4 DEF Drift
  <2>3. Placed'
    <3>1. Alike(check, host, host') /\ Alike(check, host', host) /\ Alike(check, host', host')
      BY <2>2, Bearings DEF Inv
    <3>2. \A w \in been : Alike(check, w, host) /\ Alike(check, host, w)
      BY DEF Inv, Placed
    <3>3. \A w \in been : Alike(check, w, host') /\ Alike(check, host', w)
      BY <3>1, <3>2, AlikeIsTransitive
    <3>4. \A v, w \in been : Alike(check, v, w)
      BY DEF Inv, Placed
    <3>5. been \union {host'} \subseteq UNION Worlds[check]
      BY <2>2 DEF Inv, Placed
    <3> QED BY <2>1, <3>1, <3>3, <3>4, <3>5 DEF Placed
  <2>4. Begun' /\ Configured' /\ Asked' /\ (policy' # Nothing => GoesOn')
    BY <2>1, Steady DEF Inv, Configured
  <2>5. ~ Answered'
    BY <2>1 DEF Answered
  <2> QED BY <2>3, <2>4, <2>5 DEF Inv
<1>5. CASE Expire
  <2>1. /\ UNCHANGED <<check, files, policy, probes, host, been, seen, answer>>
        /\ answer = Nothing
    BY <1>5 DEF Expire
  <2>2. Begun' /\ Placed' /\ Configured' /\ Asked' /\ (policy' # Nothing => GoesOn')
    BY <2>1, Steady DEF Inv, Placed, Configured
  <2>3. ~ Answered'
    BY <2>1 DEF Answered
  <2> QED BY <2>2, <2>3 DEF Inv
<1>6. CASE UNCHANGED vars
  <2>1. UNCHANGED <<check, files, policy, probes, host, been, seen, expired, answer>>
    BY <1>6 DEF vars
  <2>2. Begun' /\ Placed' /\ Configured' /\ Asked' /\ (policy' # Nothing => GoesOn')
    BY <2>1, Steady DEF Inv, Placed, Configured
  <2>3. (Settled' <=> Settled) /\ Run' = Run
    BY <2>1 DEF Settled, Taken, Got, Script, Runtime, Run, TraceTarget, SentTo, RungsRead,
       MotdTold
  <2> QED BY <2>1, <2>2, <2>3 DEF Inv, Answered
<1> QED BY <1>1, <1>2, <1>3, <1>4, <1>5, <1>6 DEF Next

(* So it holds of every state of the process. *)
THEOREM InvIsInvariant == Spec => []Inv
BY InitInv, InvNext, PTL DEF Spec

(* Whatever the files say, what results can be run with (internal/resolve,   *)
(* config.Thresholds): every rule is one that can grade, every knob is       *)
(* within its bounds, and no budget cuts off a check whose probes all take   *)
(* up to their own timeouts, for curl up to two URLs.                        *)
THEOREM PolicyAlwaysStands == Spec => []PolicyStands
<1>1. Inv => PolicyStands
  <2> SUFFICES ASSUME Inv PROVE PolicyStands
    OBVIOUS
  <2>1. CASE policy = Nothing
    BY <2>1 DEF PolicyStands
  <2>2. CASE policy # Nothing
    BY <2>2, Bearings, ResolvedStands DEF Inv, Configured
  <2> QED BY <2>1, <2>2
<1> QED BY <1>1, InvIsInvariant, PTL

(* Nothing an operator wrote is lost in silence: what a file that was read   *)
(* sets is in effect, was overruled by a later layer or is warned about, and *)
(* a file that was not read is named.  Of a knob that counts whole units the *)
(* number is in effect but for its fraction, which intVal drops in silence.  *)
THEOREM NothingEverVanishes == Spec => []NothingVanishes
<1>1. Inv => NothingVanishes
  <2> SUFFICES ASSUME Inv PROVE NothingVanishes
    OBVIOUS
  <2>1. CASE policy = Nothing
    BY <2>1 DEF NothingVanishes
  <2>2. CASE policy # Nothing
    BY <2>2, Bearings, WrittenIsHeard DEF Inv, Configured
  <2> QED BY <2>1, <2>2
<1> QED BY <1>1, InvIsInvariant, PTL

(***************************************************************************)
(* What makes an answer right                                              *)
(***************************************************************************)

RightAnswer == NeverGreenBlind /\ FaultIsHeard /\ NoFalseAlarm /\ RightOneNamed

Declined == Final(answer) \in {"error", "unavailable"} \/ Admits

Heard(x) ==
  \/ Declined
  \/ /\ \/ rank(Final(answer)) >= rank(x.status)
        \/ check = "network.https" /\ Final(answer) = "warn"
     /\ check \in Finds \union (Lists \ {"system.thermal"}) => x.about \in Named

Owed == check # "network.traceroute" /\ (AllWhole \/ check \in Finds \union Lists)

(* A budget that runs out makes any answer an error: but for what it names, *)
(* there is only the answer to look at.                                     *)
LEMMA RightIf ==
  ASSUME ~expired =>
           /\ check # "network.sockets" /\ Final(answer) = "ok" => Declined \/ AllWhole
           /\ been # {} => \A x : (\A w \in been : x \in Worth(w)) => Heard(x)
           /\ AllWhole /\ Final(answer) \in {"warn", "crit"} =>
                \E w \in been : \E x \in Worth(w) : rank(x.status) >= rank(Final(answer)),
         Owed => Named \subseteq UNION {Abouts(w) : w \in been}
  PROVE  RightAnswer
<1>1. CASE expired
  BY <1>1 DEF RightAnswer, NeverGreenBlind, FaultIsHeard, NoFalseAlarm, RightOneNamed, Verdict, Owed
<1>2. CASE ~expired
  <2>1. Verdict = Final(answer)
    BY <1>2 DEF Verdict
  <2>2. NeverGreenBlind /\ NoFalseAlarm /\ RightOneNamed
    BY <1>2, <2>1 DEF NeverGreenBlind, NoFalseAlarm, RightOneNamed, Owed, Declined
  <2>3. FaultIsHeard
    BY <1>2, <2>1 DEF FaultIsHeard, Heard, Declined
  <2> QED BY <2>2, <2>3 DEF RightAnswer
<1> QED BY <1>1, <1>2

(* Most checks live on one world. *)
LEMMA RightOfOne ==
  ASSUME NEW w \in been,
         check # "network.sockets" /\ Final(answer) = "ok" => Declined \/ AllWhole,
         \A x \in Worth(w) : Heard(x),
         AllWhole /\ Final(answer) \in {"warn", "crit"} =>
           \E x \in Worth(w) : rank(x.status) >= rank(Final(answer)),
         Owed => Named \subseteq Abouts(w)
  PROVE  RightAnswer
BY RightIf

(* An answer that says it could not look has nothing to be wrong about. *)
LEMMA BareIsRight ==
  ASSUME answer \in {Bare("error"), Bare("unavailable")}
  PROVE  RightAnswer
<1>1. Final(answer) \in {"error", "unavailable"} /\ answer.steps = {} /\ answer.trips = {}
  <2>1. answer.status \in {"error", "unavailable"} /\ answer.steps = {} /\ answer.trips = {}
    BY DEF Bare
  <2> QED BY <2>1 DEF Final, Unset
<1>2. Named = {}
  BY <1>1 DEF Named
<1> QED BY <1>1, <1>2, RightIf DEF Declined, Heard

(* What a judged answer names. *)
LEMMA JudgedIs ==
  ASSUME NEW status \in Status, NEW steps, answer = Judged(status, steps)
  PROVE  /\ Final(answer) = status /\ answer.steps = steps
         /\ Named = {s.about : s \in {t \in steps : check \in Finds \/ t.status \in {"warn", "crit"}}}
                      \ {Nothing}
<1>1. answer.status = status /\ answer.steps = steps /\ answer.trips = {}
  BY DEF Judged
<1>2. Final(answer) = status
  BY <1>1 DEF Final, Status, Unset
<1> QED BY <1>1, <1>2 DEF Named

(* The worst of what has been graded. *)
LEMMA WorstOfGrades ==
  ASSUME NEW S \in SUBSET {"ok", "warn", "crit"}
  PROVE  WorstOf(S) = IF "crit" \in S THEN "crit" ELSE IF "warn" \in S THEN "warn" ELSE "ok"
<1> DEFINE worst == IF "crit" \in S THEN "crit" ELSE IF "warn" \in S THEN "warn" ELSE "ok"
<1>1. rank("ok") = 0 /\ rank("warn") = 3 /\ rank("crit") = 5
  BY DEF rank
<1>2. worst \in S \union {"ok"} /\ \A t \in S \union {"ok"} : rank(t) <= rank(worst)
  BY <1>1
<1>3. \A s \in S \union {"ok"} : (\A t \in S \union {"ok"} : rank(t) <= rank(s)) => s = worst
  BY <1>1, <1>2
<1> QED BY <1>2, <1>3 DEF WorstOf

(* An answer that trips one rule has that rule's grade. *)
LEMMA GradeIsFinal ==
  ASSUME NEW set, NEW id, NEW v, NEW subject, NEW steps,
         answer = Graded(Check(set, id, v, subject), steps)
  PROVE  /\ Grade(set[id], v) \in {"ok", "warn", "crit"}
         /\ Final(answer) = Grade(set[id], v) /\ answer.steps = steps
         /\ {t.subject : t \in answer.trips} =
              IF Grade(set[id], v) = "ok" THEN {} ELSE {subject}
<1> DEFINE sev == Grade(set[id], v)
           trip == [rule |-> id, severity |-> sev, subject |-> subject,
                    bound |-> IF sev = "crit" THEN set[id].crit ELSE set[id].warn]
<1>1. sev \in {"ok", "warn", "crit"}
  BY DEF Grade
<1>2. answer.status = Unset /\ answer.steps = steps /\ answer.trips = Check(set, id, v, subject)
  BY DEF Graded
<1>3. answer.trips = IF sev = "ok" THEN {} ELSE {trip}
  BY <1>2 DEF Check
<1> DEFINE S == {FromSeverity(t.severity) : t \in answer.trips}
<1>4. S = IF sev = "ok" THEN {} ELSE {sev}
  <2>1. trip.severity = sev
    OBVIOUS
  <2>2. CASE sev = "ok"
    BY <1>3, <2>2
  <2>3. CASE sev # "ok"
    <3>1. FromSeverity(sev) = sev
      BY <1>1, <2>3 DEF FromSeverity
    <3> HIDE DEF sev, trip
    <3>2. S = {FromSeverity(trip.severity)}
      BY <1>3, <2>3
    <3> QED BY <2>1, <2>3, <3>1, <3>2
  <2> QED BY <2>2, <2>3
<1>5. Final(answer) = WorstOf(S)
  BY <1>2 DEF Final
<1> HIDE DEF S
<1>6. Final(answer) = sev
  BY <1>1, <1>4, <1>5, WorstOfGrades
<1>7. {t.subject : t \in answer.trips} = IF sev = "ok" THEN {} ELSE {subject}
  <2>1. trip.subject = subject
    OBVIOUS
  <2> HIDE DEF sev, trip
  <2> QED BY <1>3, <2>1
<1> QED BY <1>1, <1>2, <1>6, <1>7

(* Such an answer is right of a world that is worth that grade.             *)
LEMMA OneGradeIsRight ==
  ASSUME NEW w \in been, NEW id \in DOMAIN policy.set, NEW v, NEW about,
         NEW steps \in SUBSET {Unseen}, check \notin Finds \union Lists,
         answer = Graded(Check(policy.set, id, v, about), steps),
         Worth(w) = GradedBad(id, v, about),
         AllWhole \/ Unseen \in steps
  PROVE  RightAnswer
<1> DEFINE g == Grade(policy.set[id], v)
<1>1. /\ g \in {"ok", "warn", "crit"} /\ Final(answer) = g /\ answer.steps = steps
      /\ {t.subject : t \in answer.trips} = IF g = "ok" THEN {} ELSE {about}
  BY GradeIsFinal
<1>2. Worth(w) = IF g = "ok" THEN {} ELSE {Step(about, g)}
  BY DEF GradedBad, SetGrade, Bad
<1>3. AllWhole \/ Declined
  BY <1>1 DEF Declined, Admits
<1> HIDE DEF g
<1>4. \A x \in Worth(w) : x.status = g /\ x.about = about
  BY <1>2 DEF Step
<1>5. rank(g) \in Int
  BY <1>1 DEF rank
<1>6. Named \subseteq Abouts(w)
  <2>1. \A s \in steps : s.about = Nothing
    BY DEF Unseen, Step
  <2>2. Named \subseteq IF g = "ok" THEN {} ELSE {about}
    BY <1>1, <2>1 DEF Named
  <2>3. g # "ok" => about \in Abouts(w)
    BY <1>2 DEF Abouts, Step, Finds
  <2> QED BY <2>2, <2>3
<1>7. \A x \in Worth(w) : Heard(x)
  BY <1>1, <1>4, <1>5 DEF Heard, Lists
<1>8. Final(answer) \in {"warn", "crit"} => \E x \in Worth(w) : rank(x.status) >= rank(Final(answer))
  <2> SUFFICES ASSUME g \in {"warn", "crit"}
               PROVE  \E x \in Worth(w) : rank(x.status) >= rank(g)
    BY <1>1
  <2>1. Step(about, g) \in Worth(w) /\ Step(about, g).status = g
    BY <1>2 DEF Step
  <2> QED BY <2>1, <1>5
<1> QED BY <1>3, <1>6, <1>7, <1>8, RightOfOne

(***************************************************************************)
(* The checks, one by one                                                  *)
(***************************************************************************)

(* A check that has answered was configured, and its readings are of worlds *)
(* of its own.                                                              *)
LEMMA AnsweredFrom ==
  ASSUME Inv, Answered
  PROVE  /\ policy # Nothing /\ Settled /\ answer = Run /\ GoesOn
         /\ Len(seen) \in Nat /\ DOMAIN seen = 1..Len(seen)
         /\ seen # <<>> => Len(seen) <= Len(Script)
         /\ seen = <<>> => been = {}
         /\ \A w \in been : w \in Hosts(check)
         /\ \A v, w \in been : Alike(check, v, w)
         /\ \A i \in DOMAIN seen : \E w \in been : seen[i] \in Replies(Script[i], w, seen)
<1>1. policy # Nothing /\ Settled /\ answer = Run /\ GoesOn /\ Asked /\ Placed /\ Begun
  BY DEF Inv
<1>2. Len(seen) \in Nat /\ DOMAIN seen = 1..Len(seen)
  BY <1>1 DEF Asked
<1>3. \A w \in been : w \in Hosts(check)
  BY <1>1, Bearings DEF Placed
<1>4. \A i \in DOMAIN seen : seen # <<>>
  BY <1>2
<1> QED BY <1>1, <1>2, <1>3, <1>4 DEF Asked, Placed

(* Who answers a question. *)
LEMMA RepliesAre ==
  ASSUME NEW q, NEW w, NEW s
  PROVE  /\ q.ask \in HostAsks => Replies(q, w, s) = HostReplies(q.ask, w)
         /\ q.ask \in UnitAsks => Replies(q, w, s) = UnitReplies(q.ask, w, s)
         /\ q.ask \in TreeAsks => Replies(q, w, s) = TreeReplies(q.ask, w)
         /\ q.ask \notin HostAsks \union UnitAsks \union TreeAsks =>
              Replies(q, w, s) = NetReplies(q.ask, w, s)
BY DEF Replies, HostAsks, UnitAsks, TreeAsks

(* The checks that ask one question. *)
OneAsk == {"system.load", "system.memory", "system.thermal", "system.uptime", "disk.usage",
           "disk.inodes", "services.boot", "docker.runtime", "network.interface",
           "network.resolver", "network.sockets"}

(* What a check that asks one question goes by: one reply, of one world. *)
LEMMA OneReading ==
  ASSUME Inv, Answered, NEW what, Script = <<Ask(what)>>, check \in OneAsk
  PROVE  \E w \in been : /\ w \in Hosts(check) /\ seen[1] \in Replies(Ask(what), w, seen)
                         /\ Taken(1) /\ Got(1) = seen[1].got /\ (AllWhole <=> seen[1].whole)
<1>1. Len(Script) = 1 /\ Script[1] = Ask(what)
  OBVIOUS
<1>2. Len(seen) = 1
  BY <1>1, AnsweredFrom DEF Settled, OneAsk
<1>3. DOMAIN seen = {1}
  BY <1>2, AnsweredFrom
<1>4. PICK w \in been : seen[1] \in Replies(Script[1], w, seen)
  BY <1>3, AnsweredFrom
<1>5. Taken(1) /\ Got(1) = seen[1].got /\ (AllWhole <=> seen[1].whole)
  BY <1>3 DEF Taken, Got, AllWhole
<1> QED BY <1>1, <1>4, <1>5, AnsweredFrom

(* cpu.load: a line of three numbers is the load, anything else a fault.    *)
LEMMA LoadIsRight ==
  ASSUME Inv, Answered, check = "system.load"
  PROVE  RightAnswer
<1> DEFINE id == "cpu.load_per_cpu"
<1>1. PICK w \in been : /\ w \in Hosts(check) /\ seen[1] \in Replies(Ask("loadavg"), w, seen)
                        /\ Got(1) = seen[1].got /\ (AllWhole <=> seen[1].whole)
  <2>1. Script = <<Ask("loadavg")>> /\ check \in OneAsk
    BY DEF Script, OneAsk
  <2> QED BY <2>1, OneReading
<1>2. w.load \in Nat /\ w.cpus \in Nat \ {0}
  BY <1>1 DEF Hosts, DockerChecks, NetChecks
<1>3. seen[1] \in HostReplies("loadavg", w)
  BY <1>1, RepliesAre DEF Ask, HostAsks
<1>4. answer = LoadRun(policy.set, Got(1))
  BY AnsweredFrom DEF Run
<1>5. CASE id \notin DOMAIN policy.set
  BY <1>4, <1>5, BareIsRight DEF LoadRun, GradedBy
<1>6. CASE id \in DOMAIN policy.set /\ seen[1] = Whole(Loadavg(w, <<w.load, w.load, w.load>>))
  <2> DEFINE f == <<w.load, w.load, w.load>>
             about == "load"
  <2>1. Got(1).loadavg = f /\ Got(1).cpus = w.cpus /\ AllWhole
    BY <1>1, <1>6 DEF Whole, Loadavg
  <2>2. w.load # Nothing /\ w.load # NaN
    BY <1>2, NothingAssumption, PolicyAssumption
  <2>3. f \in Seq(Int \union {NaN}) /\ Len(f) = 3 /\ f[1] = w.load /\ f[2] = w.load /\ f[3] = w.load
    BY <1>2
  <2>4. f # Nothing
    BY <2>3, NothingAssumption
  <2>5. ReadLoadavg(f) = w.load
    <3> HIDE DEF f
    <3> QED BY <2>2, <2>3, <2>4 DEF ReadLoadavg
  <2>6. cpuCount(Got(1)) = w.cpus
    BY <1>2, <2>1 DEF cpuCount
  <2>7. answer = Graded(Check(policy.set, id, w.load \div w.cpus, about), {})
    BY <1>4, <1>6, <2>1, <2>2, <2>5, <2>6 DEF LoadRun, GradedBy
  <2>8. Worth(w) = GradedBad(id, w.load \div w.cpus, about)
    BY DEF Worth
  <2>9. check \notin Finds \union Lists
    BY DEF Finds, Lists
  <2> HIDE DEF id, about
  <2> QED BY <1>6, <2>1, <2>7, <2>8, <2>9, OneGradeIsRight
<1>7. CASE \E f \in {Nothing, <<>>, <<NaN, NaN, NaN>>} : seen[1] = Torn(Loadavg(w, f))
  <2>1. PICK f \in {Nothing, <<>>, <<NaN, NaN, NaN>>} : seen[1] = Torn(Loadavg(w, f))
    BY <1>7
  <2>2. Got(1).loadavg = f
    BY <1>1, <2>1 DEF Torn, Loadavg
  <2>3. ReadLoadavg(f) \in {Nothing, NaN}
    <3>1. Len(<<>>) = 0 /\ <<NaN, NaN, NaN>>[1] = NaN
      OBVIOUS
    <3> QED BY <3>1 DEF ReadLoadavg
  <2>4. answer = Bare("error")
    BY <1>4, <2>2, <2>3 DEF LoadRun, GradedBy, unreadable
  <2> QED BY <2>4, BareIsRight
<1> QED BY <1>3, <1>5, <1>6, <1>7 DEF HostReplies

(* memory: a file without a total, or with none, is a fault.                *)
LEMMA MemoryIsRight ==
  ASSUME Inv, Answered, check = "system.memory"
  PROVE  RightAnswer
<1> DEFINE id == "mem.used_pct"
<1>1. PICK w \in been : /\ w \in Hosts(check) /\ seen[1] \in Replies(Ask("meminfo"), w, seen)
                        /\ Got(1) = seen[1].got /\ (AllWhole <=> seen[1].whole)
  <2>1. Script = <<Ask("meminfo")>> /\ check \in OneAsk
    BY DEF Script, OneAsk
  <2> QED BY <2>1, OneReading
<1>2. /\ w.total \in Nat \ {0} /\ w.free \in Nat /\ w.free <= w.total
      /\ w.available # Nothing => w.available \in Nat /\ w.available <= w.total
  BY <1>1 DEF Hosts, DockerChecks, NetChecks
<1>3. \/ seen[1] = Whole(Meminfo(w)) \/ seen[1] = Torn(Nothing) \/ seen[1] = Torn(<<>>)
      \/ seen[1] = Torn([Meminfo(w) EXCEPT !["MemTotal"] = 0])
  <2>1. seen[1] \in HostReplies("meminfo", w)
    BY <1>1, RepliesAre DEF Ask, HostAsks
  <2> QED BY <2>1 DEF HostReplies
<1>4. answer = MemoryRun(policy.set, [meminfo |-> Got(1)])
  BY AnsweredFrom DEF Run
<1>5. CASE id \notin DOMAIN policy.set
  BY <1>4, <1>5, BareIsRight DEF MemoryRun, GradedBy
<1>6. CASE id \in DOMAIN policy.set /\ seen[1] = Whole(Meminfo(w))
  <2> DEFINE about == "memory"
             file == Meminfo(w)
  <2>1. Got(1) = file /\ AllWhole
    BY <1>1, <1>6 DEF Whole
  <2>2. file # Nothing
    <3>1. \/ file \in [MemTotal : Int, MemFree : Int]
          \/ file \in [MemTotal : Int, MemFree : Int, MemAvailable : Int]
      BY <1>2 DEF Meminfo
    <3> QED BY <3>1, NothingAssumption
  <2>3. /\ ReadMeminfo(file).total = w.total
        /\ ReadMeminfo(file).used = w.total - (IF w.available = Nothing THEN w.free ELSE w.available)
    BY <1>2 DEF Meminfo, ReadMeminfo
  <2> HIDE DEF file
  <2>4. UsedPct(ReadMeminfo(file)) = UsedOf(w)
    BY <1>2, <2>3 DEF UsedPct, UsedOf
  <2>5. answer = Graded(Check(policy.set, id, UsedOf(w), about), {})
    BY <1>2, <1>4, <1>6, <2>1, <2>2, <2>3, <2>4 DEF MemoryRun, GradedBy, memoryGraded
  <2>6. Worth(w) = GradedBad(id, UsedOf(w), about)
    BY DEF Worth
  <2>7. check \notin Finds \union Lists
    BY DEF Finds, Lists
  <2> HIDE DEF id, about
  <2> QED BY <1>6, <2>1, <2>5, <2>6, <2>7, OneGradeIsRight
<1>7. CASE seen[1] # Whole(Meminfo(w))
  <2>1. Got(1) = Nothing \/ ReadMeminfo(Got(1)).total = 0
    <3>1. CASE seen[1] = Torn(Nothing)
      BY <1>1, <3>1 DEF Torn
    <3>2. CASE seen[1] = Torn(<<>>)
      BY <1>1, <3>2 DEF Torn, ReadMeminfo
    <3>3. CASE seen[1] = Torn([Meminfo(w) EXCEPT !["MemTotal"] = 0])
      BY <1>1, <3>3 DEF Torn, ReadMeminfo, Meminfo
    <3> QED BY <1>3, <1>7, <3>1, <3>2, <3>3
  <2>2. answer = Bare("error")
    BY <1>4, <2>1 DEF MemoryRun, GradedBy, unreadable
  <2> QED BY <2>2, BareIsRight
<1> QED BY <1>5, <1>6, <1>7

(* system.uptime grades nothing; what is no duration is a fault.            *)
LEMMA UptimeIsRight ==
  ASSUME Inv, Answered, check = "system.uptime"
  PROVE  RightAnswer
<1>1. PICK w \in been : /\ w \in Hosts(check) /\ seen[1] \in Replies(Ask("uptime"), w, seen)
                        /\ Got(1) = seen[1].got /\ (AllWhole <=> seen[1].whole)
  <2>1. Script = <<Ask("uptime")>> /\ check \in OneAsk
    BY DEF Script, OneAsk
  <2> QED BY <2>1, OneReading
<1>2. seen[1] = Whole(w.uptime) \/ seen[1] = Torn(Nothing) \/ seen[1] = Torn(NaN)
  <2>1. seen[1] \in HostReplies("uptime", w)
    BY <1>1, RepliesAre DEF Ask, HostAsks
  <2> QED BY <2>1 DEF HostReplies
<1>3. answer = UptimeRun([uptime |-> Got(1)])
  BY AnsweredFrom DEF Run
<1>4. answer = Bare("error") \/ (AllWhole /\ answer = Judged("ok", {}))
  BY <1>1, <1>2, <1>3 DEF UptimeRun, Whole, Torn
<1>5. CASE answer = Judged("ok", {}) /\ AllWhole
  <2>1. Final(answer) = "ok" /\ Named = {}
    BY <1>5, JudgedIs DEF Status
  <2>2. Worth(w) = {}
    BY DEF Worth
  <2> QED BY <1>5, <2>1, <2>2, RightOfOne
<1> QED BY <1>4, <1>5, BareIsRight

(* An answer that says it did not see all of what it lost. *)
LEMMA AdmittedIsRight ==
  ASSUME Declined, ~ Owed, ~ AllWhole
  PROVE  RightAnswer
BY RightIf DEF Heard

(* Each reading is a reply of a world the check looked at. *)
LEMMA ReadingIs ==
  ASSUME Inv, Answered, NEW i, Taken(i), NEW q, Script[i] = q
  PROVE  /\ \E w \in been : w \in Hosts(check) /\ seen[i] \in Replies(q, w, seen)
         /\ Got(i) = seen[i].got
BY AnsweredFrom DEF Taken, Got

(* parseAptUpgradable: as many security updates as there are. *)
LEMMA RowsOfApt ==
  ASSUME NEW n \in Nat
  PROVE  ParseAptUpgradable(AptRows(n)) = n
<1> DEFINE row == [suite |-> "security", pocket |-> "main"]
           q == AptRows(n)
           keep == {r \in Range(q) : r.suite = "security" \/ r.pocket = "security"}
<1>1. q \in Seq({row}) /\ Len(q) = n /\ \A i \in 1..n : q[i] = row
  BY DEF AptRows
<1>2. \A i \in 1..n : q[i] \in keep
  BY <1>1 DEF Range
<1> HIDE DEF q, keep
<1>3. Len(Kept(q, keep)) = n
  BY <1>1, <1>2, KeptAre DEF Collected
<1> QED BY <1>3 DEF ParseAptUpgradable, q, keep

(* updates: what the notifier left behind, or else what apt says.           *)
LEMMA UpdatesAreRight ==
  ASSUME Inv, Answered, check = "system.updates"
  PROVE  RightAnswer
<1> DEFINE id == "updates.security"
           about == "security updates"
           told == fromNotifier([notifier |-> Got(1)])
<1>1. Script = <<Ask("notifier"), Ask("apt")>>
  BY DEF Script
<1>2. /\ Len(Script) = 2 /\ Script[1] = Ask("notifier") /\ Script[2] = Ask("apt")
  BY <1>1
<1>3. /\ Len(seen) \in Nat /\ DOMAIN seen = 1..Len(seen) /\ Len(seen) <= 2 /\ Settled /\ GoesOn
  BY <1>2, AnsweredFrom
<1>4. Taken(1) /\ (Taken(2) <=> ~ MotdTold) /\ (MotdTold <=> told # Nothing)
  BY <1>2, <1>3 DEF Settled, GoesOn, Taken, MotdTold
<1>5. PICK w \in been : w \in Hosts(check) /\ seen[1] \in Replies(Ask("notifier"), w, seen)
  BY <1>2, <1>4, ReadingIs
<1>6. w.motd \in MotdFacts \union {Nothing}
  BY <1>5 DEF Hosts, DockerChecks, NetChecks
<1>7. seen[1].whole /\ Got(1) \in {w.motd, Nothing}
  <2>1. seen[1] \in HostReplies("notifier", w)
    BY <1>5, RepliesAre DEF Ask, HostAsks
  <2>2. seen[1] \in {Whole(w.motd), Whole(Nothing)}
    BY <2>1 DEF HostReplies
  <2> QED BY <1>4, <2>2 DEF Whole, Got
<1>8. answer = UpdatesRun(policy.set, [notifier |-> Got(1), apt |-> Got(2)])
  BY AnsweredFrom DEF Run
<1>9. check \notin Finds \union Lists
  BY DEF Finds, Lists
<1>10. fromNotifier([notifier |-> Got(1), apt |-> Got(2)]) = told
  BY DEF fromNotifier
<1>11. CASE id \notin DOMAIN policy.set
  BY <1>8, <1>11, BareIsRight DEF UpdatesRun, GradedBy
<1>12. CASE id \in DOMAIN policy.set /\ MotdTold
  <2>1. AllWhole
    BY <1>3, <1>4, <1>7, <1>12 DEF AllWhole, Taken
  <2>2. CASE Misread
    BY <2>1, <2>2 DEF RightAnswer, NeverGreenBlind, FaultIsHeard, NoFalseAlarm, RightOneNamed
  <2>3. CASE ~ Misread
    <3>1. told = ParseNotifierText(Got(1)) /\ told # Nothing /\ Got(1) # Nothing /\ ~ Got(1).behind
      BY <1>4, <1>12, <2>3 DEF fromNotifier, Misread
    <3>2. Got(1) = w.motd
      BY <1>7, <3>1
    <3> HIDE DEF told
    <3>3. told = SecurityOf(w)
      BY <1>12, <3>1, <3>2 DEF ParseNotifierText, SecurityOf
    <3>4. answer = Graded(Check(policy.set, id, told, about), {})
      BY <1>8, <1>10, <1>12, <3>1 DEF UpdatesRun, GradedBy
    <3>5. Worth(w) = GradedBad(id, told, about)
      BY <3>3 DEF Worth
    <3> HIDE DEF id, about
    <3> QED BY <1>9, <1>12, <2>1, <3>4, <3>5, OneGradeIsRight
  <2> QED BY <2>2, <2>3
<1>13. CASE id \in DOMAIN policy.set /\ ~ MotdTold
  <2>1. told = Nothing
    BY <1>4, <1>13
  <2> HIDE DEF told
  <2>3. Taken(2)
    BY <1>4, <1>13
  <2>4. PICK v \in been : v \in Hosts(check) /\ seen[2] \in Replies(Ask("apt"), v, seen)
    BY <1>2, <2>3, ReadingIs
  <2>5. seen[2] \in HostReplies("apt", v) /\ Got(2) = seen[2].got
    BY <2>3, <2>4, RepliesAre DEF Ask, HostAsks, Got
  <2>6. v.security \in Nat
    BY <2>4 DEF Hosts, DockerChecks, NetChecks
  <2>7. AllWhole <=> seen[2].whole
    BY <1>3, <1>7, <2>3 DEF AllWhole, Taken
  <2>8. answer = IF Got(2).how # "ok" THEN NotRun(Got(2).how)
                 ELSE Graded(Check(policy.set, id, ParseAptUpgradable(Got(2).rows), about),
                             IF Got(2).stderr THEN {Unseen} ELSE {})
    BY <1>8, <1>10, <1>13, <2>1 DEF UpdatesRun, GradedBy
  <2>9. CASE seen[2] = Whole(Apt("ok", FALSE, v.security))
    <3>1. /\ Got(2).how = "ok" /\ ~ Got(2).stderr /\ Got(2).rows = AptRows(v.security)
          /\ AllWhole
      BY <2>5, <2>7, <2>9 DEF Whole, Apt
    <3>2. answer = Graded(Check(policy.set, id, v.security, about), {})
      BY <2>6, <2>8, <3>1, RowsOfApt
    <3>3. Worth(v) = GradedBad(id, v.security, about)
      BY <1>13 DEF Worth, SecurityOf
    <3> HIDE DEF id, about
    <3> QED BY <1>9, <1>13, <3>1, <3>2, <3>3, OneGradeIsRight
  <2>10. CASE seen[2] = Torn(Apt("ok", TRUE, 0))
    <3>1. Got(2).how = "ok" /\ Got(2).stderr /\ ~ AllWhole
      BY <2>5, <2>7, <2>10 DEF Torn, Apt
    <3>2. answer.steps = {Unseen}
      BY <2>8, <3>1 DEF Graded
    <3>3. Declined
      BY <3>2 DEF Declined, Admits
    <3> QED BY <1>9, <3>1, <3>3, AdmittedIsRight DEF Owed
  <2>11. CASE \E how \in {"absent", "failed", "nonzero"} : seen[2] = Torn(Apt(how, FALSE, 0))
    <3>1. Got(2).how \in {"absent", "failed", "nonzero"}
      BY <2>5, <2>11 DEF Torn, Apt
    <3>2. answer \in {Bare("error"), Bare("unavailable")}
      BY <2>8, <3>1 DEF NotRun, Unavailable
    <3> QED BY <3>2, BareIsRight
  <2> QED BY <2>5, <2>9, <2>10, <2>11 DEF HostReplies
<1> QED BY <1>11, <1>12, <1>13

(* mergeMappings of two documents is one. *)
LEMMA MergedIsDocument ==
  ASSUME NEW base, NEW over, IsDocument(base), IsDocument(over)
  PROVE  IsDocument(mergeMappings(base, over))
<1> DEFINE doc == mergeMappings(base, over)
<1> SUFFICES ASSUME NEW k \in DOMAIN doc
             PROVE  doc[k] \in Scalar \/ (doc[k].kind = "map" /\ \A s \in DOMAIN doc[k].of : doc[k].of[s] \in Scalar)
  BY DEF IsDocument
<1>1. /\ k \in DOMAIN base \union DOMAIN over
      /\ doc[k] = IF k \notin DOMAIN over THEN base[k]
                  ELSE IF k \in DOMAIN base /\ over[k].kind = "map" /\ base[k].kind = "map"
                         THEN Mapping(Over(over[k].of, base[k].of)) ELSE over[k]
  BY DEF mergeMappings
<1> HIDE DEF doc
<1>2. CASE k \notin DOMAIN over
  BY <1>1, <1>2 DEF IsDocument
<1>3. CASE k \in DOMAIN over /\ ~ (k \in DOMAIN base /\ over[k].kind = "map" /\ base[k].kind = "map")
  BY <1>1, <1>3 DEF IsDocument
<1>4. CASE k \in DOMAIN over /\ k \in DOMAIN base /\ over[k].kind = "map" /\ base[k].kind = "map"
  <2> DEFINE of == Over(over[k].of, base[k].of)
  <2>1. doc[k] = Mapping(of)
    BY <1>1, <1>4
  <2>2. doc[k].kind = "map" /\ doc[k].of = of
    BY <2>1 DEF Mapping
  <2>3. over[k] \notin Scalar /\ base[k] \notin Scalar
    BY <1>4 DEF Scalar
  <2>4. /\ \A s \in DOMAIN over[k].of : over[k].of[s] \in Scalar
        /\ \A s \in DOMAIN base[k].of : base[k].of[s] \in Scalar
    BY <1>4, <2>3 DEF IsDocument
  <2>5. \A s \in DOMAIN of : of[s] \in Scalar
    BY <2>4 DEF Over
  <2> QED BY <2>2, <2>5
<1> QED BY <1>1, <1>2, <1>3, <1>4

(* And every bound of a rule is a number. *)
LEMMA ResolvedRulesAreNumbers ==
  ASSUME NEW system, NEW user, IsDocument(system.doc), IsDocument(user.doc)
  PROVE  \A id \in DOMAIN Resolve(system, user).set :
           /\ Resolve(system, user).set[id].warn \in Int
           /\ Resolve(system, user).set[id].crit \in Int
<1> DEFINE doc(file) == IF Contributes(file) THEN file.doc ELSE <<>>
           values == mergeMappings(doc(system), doc(user))
           overrides == ParseOverrides(values).overrides
<1>1. IsDocument(doc(system)) /\ IsDocument(doc(user))
  BY DEF IsDocument
<1>2. IsDocument(values)
  BY <1>1, MergedIsDocument
<1>3. Resolve(system, user).set = Merge(overrides).set
  BY DEF Resolve, Load
<1>4. ASSUME NEW id \in DOMAIN overrides, NEW s \in DOMAIN overrides[id]
      PROVE  overrides[id][s] \in Bound
  <2> HIDE DEF values
  <2>1. id \in DOMAIN values /\ overrides[id] = Bounds(values[id])
    BY <1>4 DEF ParseOverrides
  <2>2. values[id].kind = "map"
    BY <1>4, <2>1 DEF Bounds
  <2>3. s \in DOMAIN values[id].of /\ values[id].of[s].kind = "number"
        /\ overrides[id][s] = values[id].of[s].n
    BY <1>4, <2>1, <2>2 DEF Bounds
  <2>4. values[id] \notin Scalar
    BY <2>2 DEF Scalar
  <2>5. values[id].of[s] \in Scalar
    BY <1>2, <2>1, <2>3, <2>4 DEF IsDocument
  <2> QED BY <2>3, <2>5 DEF Scalar
<1> HIDE DEF overrides
<1>5. ASSUME NEW id \in DOMAIN Defaults
      PROVE  Merge(overrides).set[id].warn \in Int /\ Merge(overrides).set[id].crit \in Int
  <2>1. Defaults[id].warn \in Int /\ Defaults[id].crit \in Int
    BY PolicyAssumption
  <2>2. CASE id \in DOMAIN overrides /\ Valid(Override(Defaults[id], overrides[id]))
    <3> DEFINE rule == Override(Defaults[id], overrides[id])
    <3>1. Merge(overrides).set[id] = rule
      BY <2>2 DEF Merge
    <3>2. rule.warn \in Bound /\ rule.crit \in Bound
      BY <1>4, <2>1, <2>2 DEF Override, Bound
    <3>3. rule.warn # NaN /\ rule.crit # NaN
      BY <2>2 DEF Valid
    <3> HIDE DEF rule
    <3> QED BY <3>1, <3>2, <3>3 DEF Bound
  <2>3. CASE ~ (id \in DOMAIN overrides /\ Valid(Override(Defaults[id], overrides[id])))
    <3>1. Merge(overrides).set[id] = Defaults[id]
      BY <2>3 DEF Merge
    <3> QED BY <2>1, <3>1
  <2> QED BY <2>2, <2>3
<1>6. DOMAIN Merge(overrides).set = DOMAIN Defaults
  BY DEF Merge
<1> QED BY <1>3, <1>5, <1>6

(* More is never graded better. *)
LEMMA GradesRise ==
  ASSUME NEW rule, rule.warn \in Int, rule.crit \in Int, NEW u \in Int, NEW v \in Int, u <= v
  PROVE  /\ Grade(rule, u) \in {"ok", "warn", "crit"} /\ Grade(rule, v) \in {"ok", "warn", "crit"}
         /\ rank(Grade(rule, u)) <= rank(Grade(rule, v))
<1>1. u # NaN /\ v # NaN /\ rule.warn # NaN /\ rule.crit # NaN
  BY PolicyAssumption
<1>2. /\ AtLeast(u, rule.crit) => AtLeast(v, rule.crit)
      /\ AtLeast(u, rule.warn) => AtLeast(v, rule.warn)
  BY <1>1 DEF AtLeast
<1> QED BY <1>2 DEF Grade, rank

(* The policy of a run bounds by numbers. *)
LEMMA PolicyIsOfNumbers ==
  ASSUME Inv, policy # Nothing
  PROVE  \A id \in DOMAIN policy.set : policy.set[id].warn \in Int /\ policy.set[id].crit \in Int
<1>1. IsDocument(files.system.doc) /\ IsDocument(files.user.doc)
  BY Bearings DEF Inv, Layered
<1> QED BY <1>1, ResolvedRulesAreNumbers DEF Inv, Configured

(* What it is to be a list. *)
LEMMA ListIs ==
  ASSUME NEW T, NEW seq \in Seq(T)
  PROVE  /\ Len(seq) \in Nat /\ DOMAIN seq = 1..Len(seq)
         /\ \A i \in 1..Len(seq) : seq[i] \in T
         /\ (seq = <<>> <=> Len(seq) = 0)
         /\ Range(seq) = {seq[i] : i \in 1..Len(seq)} /\ Range(seq) \subseteq T
BY DEF Range

(* What is kept of a list is of it. *)
LEMMA KeptIsOf ==
  ASSUME NEW T, NEW seq \in Seq(T), NEW keep
  PROVE  /\ Kept(seq, keep) \in Seq(T) /\ Len(Kept(seq, keep)) \in Nat
         /\ Len(Kept(seq, keep)) <= Len(seq)
         /\ Range(Kept(seq, keep)) = Range(seq) \intersect keep
<1> DEFINE kept == Kept(seq, keep)
           n == Len(seq)
           S == {seq[i] : i \in 1..n} \intersect keep
<1>1. /\ kept \in Seq(S) /\ Len(kept) <= n
      /\ \A i \in 1..n : seq[i] \in keep => seq[i] \in Range(kept)
  <2>1. Collected(kept, seq, keep, n)
    BY KeptAre
  <2> HIDE DEF kept, n
  <2> QED BY <2>1 DEF Collected
<1>2. n \in Nat /\ DOMAIN seq = 1..n /\ \A i \in 1..n : seq[i] \in T
  OBVIOUS
<1>3. S \subseteq T /\ S = Range(seq) \intersect keep
  BY <1>2 DEF Range
<1>4. kept \in Seq(T)
  <2> HIDE DEF kept, S
  <2> QED BY <1>1, <1>3, SeqMonotonic
<1>5. \A i \in DOMAIN kept : kept[i] \in S
  <2> HIDE DEF kept, S
  <2> QED BY <1>1
<1>6. Range(kept) \subseteq S
  <2> HIDE DEF kept, S
  <2> QED BY <1>5 DEF Range
<1>7. S \subseteq Range(kept)
  <2> HIDE DEF kept
  <2> QED BY <1>1
<1> HIDE DEF kept, S
<1> QED BY <1>1, <1>3, <1>4, <1>6, <1>7 DEF kept

(* Nor is a list that has lost an entry of anything else. *)
LEMMA ShortIsOf ==
  ASSUME NEW T, NEW seq \in Seq(T), NEW some \in Short(seq)
  PROVE  some \in Seq(T) /\ Len(some) = Len(seq) - 1 /\ Range(some) \subseteq Range(seq)
<1>1. PICK i \in DOMAIN seq : some = RemoveAt(seq, i)
  BY DEF Short
<1> DEFINE n == Len(seq)
           before == SubSeq(seq, 1, i - 1)
           after == SubSeq(seq, i + 1, n)
<1>2. n \in Nat /\ DOMAIN seq = 1..n /\ i \in 1..n /\ \A j \in 1..n : seq[j] \in Range(seq)
  BY ListIs DEF Range
<1>3. seq \in Seq(Range(seq))
  BY <1>2
<1>4. /\ before \in Seq(Range(seq)) /\ Len(before) = i - 1
      /\ after \in Seq(Range(seq)) /\ Len(after) = n - i
  BY <1>2, <1>3
<1>5. some = before \o after
  BY <1>1 DEF RemoveAt
<1> HIDE DEF before, after, n
<1>6. some \in Seq(Range(seq)) /\ Len(some) = n - 1
  <2>1. some \in Seq(Range(seq)) /\ Len(some) = Len(before) + Len(after)
    BY <1>4, <1>5, ConcatProperties
  <2> QED BY <1>2, <1>4, <2>1
<1>7. Range(some) \subseteq Range(seq) /\ Range(seq) \subseteq T
  BY <1>6, ListIs
<1>8. some \in Seq(T)
  BY <1>6, <1>7, SeqMonotonic
<1> QED BY <1>6, <1>7, <1>8 DEF n

(* A program has printed its rows, or there is nothing to read. *)
LEMMA PrintedIs ==
  ASSUME NEW rows, NEW r \in PrintsOrNothing(rows)
  PROVE  \/ r.whole /\ r.got.how = "ok" /\ r.got.rows = rows
         \/ ~ r.whole /\ r.got.how \in {"absent", "failed", "nonzero"} /\ r.got.rows = <<>>
<1>1. \A how, q : /\ Whole(Printed(how, q)).whole /\ ~ Torn(Printed(how, q)).whole
                  /\ Whole(Printed(how, q)).got.how = how /\ Whole(Printed(how, q)).got.rows = q
                  /\ Torn(Printed(how, q)).got.how = how /\ Torn(Printed(how, q)).got.rows = q
  BY DEF Whole, Torn, Printed
<1>2. CASE r = Whole(Printed("ok", rows))
  BY <1>1, <1>2
<1>3. CASE \E how \in {"absent", "failed", "nonzero"} : r = Torn(Printed(how, <<>>))
  BY <1>1, <1>3
<1> QED BY <1>2, <1>3 DEF PrintsOrNothing

(* A program that fails may have printed some of them. *)
LEMMA PrintedCouldBe ==
  ASSUME NEW T, NEW rows \in Seq(T), NEW r \in PrintsWhatItCould(rows)
  PROVE  \/ r.whole /\ r.got.how = "ok" /\ r.got.rows = rows
         \/ /\ ~ r.whole /\ r.got.how \in {"absent", "failed", "nonzero"}
            /\ r.got.rows \in Seq(T) /\ Range(r.got.rows) \subseteq Range(rows)
<1>1. CASE r \in PrintsOrNothing(rows)
  <2>1. <<>> \in Seq(T) /\ Range(<<>>) = {}
    BY DEF Range
  <2> QED BY <1>1, <2>1, PrintedIs
<1>2. CASE \E some \in {rows} \union Short(rows) : r = Torn(Printed("nonzero", some))
  <2>1. PICK some \in {rows} \union Short(rows) : r = Torn(Printed("nonzero", some))
    BY <1>2
  <2>2. ~ r.whole /\ r.got.how = "nonzero" /\ r.got.rows = some
    BY <2>1 DEF Torn, Printed
  <2>3. some \in Seq(T) /\ Range(some) \subseteq Range(rows)
    BY ShortIsOf
  <2> QED BY <2>2, <2>3
<1> QED BY <1>1, <1>2 DEF PrintsWhatItCould

(* The worst of what an answer has tripped. *)
LEMMA TripsAreFinal ==
  ASSUME NEW trips, NEW steps, answer = Graded(trips, steps),
         \A t \in trips : t.severity \in {"warn", "crit"}
  PROVE  /\ answer.trips = trips /\ answer.steps = steps /\ Final(answer) \in {"ok", "warn", "crit"}
         /\ \A t \in trips : rank(Final(answer)) >= rank(t.severity)
         /\ Final(answer) \in {"warn", "crit"} => \E t \in trips : t.severity = Final(answer)
<1>1. answer.status = Unset /\ answer.steps = steps /\ answer.trips = trips
  BY DEF Graded
<1> DEFINE S == {FromSeverity(t.severity) : t \in trips}
<1>2. \A t \in trips : FromSeverity(t.severity) = t.severity
  BY DEF FromSeverity
<1>3. S \in SUBSET {"ok", "warn", "crit"} /\ \A s \in S : \E t \in trips : t.severity = s
  BY <1>2
<1>4. \A t \in trips : t.severity \in S
  BY <1>2
<1>5. Final(answer) = WorstOf(S)
  BY <1>1 DEF Final
<1> HIDE DEF S
<1>6. Final(answer) = IF "crit" \in S THEN "crit" ELSE IF "warn" \in S THEN "warn" ELSE "ok"
  BY <1>3, <1>5, WorstOfGrades
<1>7. \A t \in trips : rank(Final(answer)) >= rank(t.severity)
  BY <1>4, <1>6 DEF rank
<1> QED BY <1>1, <1>3, <1>6, <1>7

(* The step that says something was not seen names nothing, and admits it.*)
LEMMA UnseenIsSaid == Unseen.about = Nothing /\ (Unseen \in answer.steps => Declined)
<1>1. Unseen.about = Nothing
  BY DEF Unseen, Step
<1> QED BY <1>1 DEF Declined, Admits
(* An answer that has nothing to say of a world with nothing wrong. *)
LEMMA NothingIsWrong ==
  ASSUME NEW w \in been, Worth(w) = {}, answer.trips = {}, check \notin Finds,
         Final(answer) \notin {"warn", "crit"},
         \A s \in answer.steps : s.status \notin {"warn", "crit"} \/ s.about = Nothing,
         check # "network.sockets" /\ Final(answer) = "ok" => Declined \/ AllWhole
  PROVE  RightAnswer
<1>1. Named = {}
  BY DEF Named
<1> QED BY <1>1, RightOfOne

(* An answer that judges a world as it is. *)
LEMMA OneJudgementIsRight ==
  ASSUME NEW w \in been, NEW status \in {"ok", "warn", "crit"}, NEW about, NEW steps,
         answer = Judged(status, steps), Worth(w) = Bad(about, status), AllWhole,
         check \notin Finds \union Lists,
         \/ check = "network.traceroute"
         \/ \A s \in steps : s.status \in {"warn", "crit"} => s.about \in Abouts(w) \union {Nothing}
  PROVE  RightAnswer
<1>1. /\ Final(answer) = status
      /\ Named = {s.about : s \in {t \in steps : check \in Finds \/ t.status \in {"warn", "crit"}}} \ {Nothing}
  BY JudgedIs DEF Status
<1>2. rank(status) \in Int
  BY DEF rank
<1>3. \A x \in Worth(w) : Heard(x)
  <2>1. \A x \in Worth(w) : x.status = status
    BY DEF Bad, Step
  <2> QED BY <1>1, <1>2, <2>1 DEF Heard, Lists
<1>4. Final(answer) \in {"warn", "crit"} => \E x \in Worth(w) : rank(x.status) >= rank(Final(answer))
  <2>1. status # "ok" => Step(about, status) \in Worth(w)
    BY DEF Bad
  <2>2. Step(about, status).status = status
    BY DEF Step
  <2> QED BY <1>1, <1>2, <2>1, <2>2
<1>5. Owed => Named \subseteq Abouts(w)
  BY <1>1 DEF Owed
<1> QED BY <1>3, <1>4, <1>5, RightOfOne

(* What could not be had and is taken for the worst is heard all the same.  *)
LEMMA TornIsHeard ==
  ASSUME NEW w \in been, ~ AllWhole, Final(answer) = "crit", check \notin Finds \union Lists,
         \A x \in Worth(w) : x.status \in {"ok", "warn", "crit"}
  PROVE  RightAnswer
<1>1. \A x \in Worth(w) : rank(Final(answer)) >= rank(x.status)
  BY DEF rank
<1> QED BY <1>1, RightOfOne DEF Heard, Owed, Lists
(* Of some values one is the first of the largest. *)
LEMMA LargestExists ==
  ASSUME NEW n \in Nat, n # 0, NEW v, \A j \in 1..n : v[j] \in Int
  PROVE  \E i \in 1..n : /\ \A j \in 1..n : v[j] <= v[i]
                         /\ \A j \in 1..(i - 1) : v[j] # v[i]
<1> DEFINE Tops(m, i) == \A j \in 1..m : v[j] <= v[i]
           Without == {m \in 1..n : ~ \E i \in 1..m : Tops(m, i)}
<1>1. Without = {}
  <2> SUFFICES ASSUME Without # {} PROVE FALSE
    OBVIOUS
  <2>1. PICK m \in Without : \A k \in Without : m <= k
    <3>1. Without \in SUBSET Nat
      OBVIOUS
    <3> HIDE DEF Without
    <3> QED BY <3>1, LeastExists
  <2>2. m \in 1..n /\ m \in Nat /\ ~ \E i \in 1..m : Tops(m, i)
    BY <2>1
  <2>3. m # 1
    <3> SUFFICES ASSUME m = 1 PROVE FALSE
      OBVIOUS
    <3>1. Tops(1, 1) /\ 1 \in 1..1
      <4>1. v[1] \in Int
        BY <2>2
      <4> QED BY <4>1
    <3> HIDE DEF Tops
    <3> QED BY <2>2, <3>1
  <2>4. m - 1 \in 1..n /\ m - 1 < m
    BY <2>2, <2>3
  <2>5. m - 1 \notin Without
    <3> HIDE DEF Without
    <3> QED BY <2>1, <2>2, <2>4
  <2>6. PICK i \in 1..m - 1 : Tops(m - 1, i)
    BY <2>4, <2>5
  <2> HIDE DEF Without
  <2>7. v[m] \in Int /\ v[i] \in Int /\ i \in 1..m /\ m \in 1..m
    BY <2>2, <2>4, <2>6
  <2>8. \A j \in 1..m : v[j] \in Int /\ (j = m \/ j \in 1..m - 1)
    BY <2>2
  <2>9. CASE v[m] <= v[i]
    <3>1. Tops(m, i)
      BY <2>6, <2>8, <2>9
    <3> QED BY <2>2, <2>7, <3>1
  <2>10. CASE ~ (v[m] <= v[i])
    <3>1. Tops(m, m)
      BY <2>6, <2>7, <2>8, <2>10
    <3> QED BY <2>2, <2>7, <3>1
  <2> QED BY <2>9, <2>10
<1> DEFINE Top == {i \in 1..n : Tops(n, i)}
<1>2. Top # {}
  <2>1. n \in 1..n
    OBVIOUS
  <2>2. n \notin Without
    <3> HIDE DEF Without
    <3> QED BY <1>1
  <2>3. PICK i \in 1..n : Tops(n, i)
    BY <2>1, <2>2
  <2> QED BY <2>3
<1>3. PICK i \in Top : \A k \in Top : i <= k
  <2>1. Top \in SUBSET Nat
    OBVIOUS
  <2> HIDE DEF Top
  <2> QED BY <1>2, <2>1, LeastExists
<1>4. ASSUME NEW j \in 1..(i - 1), v[j] = v[i] PROVE FALSE
  <2>1. j \in 1..n /\ j < i
    BY <1>3, <1>4
  <2>2. j \in Top
    BY <1>3, <1>4, <2>1
  <2> HIDE DEF Top
  <2> QED BY <1>3, <2>1, <2>2
<1> QED BY <1>3, <1>4
(* thermal: the hottest of the zones that have a temperature. *)
ZoneRead == [label : {"x", "denied"}, name : STRING, temp : Int]

(* Hottest: a zone of the list that no other exceeds. *)
LEMMA HottestIs ==
  ASSUME NEW zones \in Seq(ZoneRead), zones # <<>>
  PROVE  /\ \E i \in DOMAIN zones : Hottest(zones) = zones[i]
         /\ \A j \in DOMAIN zones : zones[j].temp <= Hottest(zones).temp
<1> DEFINE n == Len(zones)
           v == [j \in 1..n |-> zones[j].temp]
           IsFirst(i) == /\ \A j \in DOMAIN zones : zones[j].temp <= zones[i].temp
                         /\ \A j \in 1..(i - 1) : zones[j].temp # zones[i].temp
<1>1. n \in Nat /\ n # 0 /\ DOMAIN zones = 1..n /\ \A j \in 1..n : zones[j].temp \in Int
  <2>1. n \in Nat /\ n # 0 /\ DOMAIN zones = 1..n /\ \A j \in 1..n : zones[j] \in ZoneRead
    OBVIOUS
  <2>2. \A z \in ZoneRead : z.temp \in Int
    BY DEF ZoneRead
  <2> QED BY <2>1, <2>2
<1> HIDE DEF n
<1>2. \A j \in 1..n : v[j] = zones[j].temp /\ v[j] \in Int
  BY <1>1
<1> HIDE DEF v
<1>3. PICK i \in 1..n : /\ \A j \in 1..n : v[j] <= v[i]
                        /\ \A j \in 1..(i - 1) : v[j] # v[i]
  <2>1. n \in Nat /\ n # 0 /\ \A j \in 1..n : v[j] \in Int
    BY <1>1, <1>2
  <2> QED BY <2>1, LargestExists
<1>4. IsFirst(i) /\ i \in DOMAIN zones
  BY <1>1, <1>2, <1>3
<1>5. Hottest(zones) = zones[CHOOSE k \in DOMAIN zones : IsFirst(k)]
  BY DEF Hottest, FirstLargest
<1> DEFINE top == CHOOSE k \in DOMAIN zones : IsFirst(k)
<1> HIDE DEF IsFirst
<1>6. top \in DOMAIN zones /\ IsFirst(top)
  BY <1>4
<1> HIDE DEF top
<1> QED BY <1>5, <1>6 DEF IsFirst, top

(* system.thermal: the hottest zone is graded. *)
LEMMA ThermalIsRight ==
  ASSUME Inv, Answered, check = "system.thermal"
  PROVE  RightAnswer
<1> DEFINE id == "thermal.temp_c"
<1>1. PICK w \in been : /\ w \in Hosts(check) /\ seen[1] \in Replies(Ask("zones"), w, seen)
                        /\ Got(1) = seen[1].got /\ (AllWhole <=> seen[1].whole)
  <2>1. Script = <<Ask("zones")>> /\ check \in OneAsk
    BY DEF Script, OneAsk
  <2> QED BY <2>1, OneReading
<1>2. w.zones \in Seq([name : STRING, temp : Int \union {Nothing}])
  BY <1>1 DEF Hosts, DockerChecks, NetChecks
<1>3. PICK label \in {"x", "denied"} :
        seen[1].got = Labelled(w.zones, label) /\ (seen[1].whole <=> label = "x")
  <2>1. seen[1] \in HostReplies("zones", w)
    BY <1>1, RepliesAre DEF Ask, HostAsks
  <2>2. seen[1] = Whole(Labelled(w.zones, "x")) \/ seen[1] = Torn(Labelled(w.zones, "denied"))
    BY <2>1 DEF HostReplies
  <2>3. \A r : Whole(r).got = r /\ Whole(r).whole /\ Torn(r).got = r /\ ~ Torn(r).whole
    BY DEF Whole, Torn
  <2>4. CASE seen[1] = Whole(Labelled(w.zones, "x"))
    BY <2>3, <2>4
  <2>5. CASE seen[1] = Torn(Labelled(w.zones, "denied"))
    BY <2>3, <2>5
  <2> QED BY <2>2, <2>4, <2>5
<1> DEFINE all == Labelled(w.zones, label)
           keep == {z \in Range(all) : z.temp # Nothing}
           read == Kept(all, keep)
           n == Len(w.zones)
<1>4. /\ n \in Nat /\ DOMAIN w.zones = 1..n
      /\ \A i \in 1..n : w.zones[i].name \in STRING /\ w.zones[i].temp \in Int \union {Nothing}
  <2>1. /\ n \in Nat /\ DOMAIN w.zones = 1..n
        /\ \A i \in 1..n : w.zones[i] \in [name : STRING, temp : Int \union {Nothing}]
    <3> DEFINE Zone == [name : STRING, temp : Int \union {Nothing}]
               zones == w.zones
    <3>1. zones \in Seq(Zone)
      BY <1>2
    <3> HIDE DEF Zone, zones
    <3>2. Len(zones) \in Nat /\ DOMAIN zones = 1..Len(zones) /\ \A i \in 1..Len(zones) : zones[i] \in Zone
      BY <3>1, ListIs
    <3> QED BY <3>2 DEF Zone, zones
  <2> QED BY <2>1
<1>5. /\ all \in Seq([label : {"x", "denied"}, name : STRING, temp : Int \union {Nothing}])
      /\ Len(all) = n /\ DOMAIN all = 1..n
      /\ \A i \in 1..n : /\ all[i].label = label /\ all[i].name = w.zones[i].name
                         /\ all[i].temp = w.zones[i].temp
  BY <1>4 DEF Labelled
<1> HIDE DEF all, n
<1>6. /\ Range(read) = keep
      /\ read \in Seq([label : {"x", "denied"}, name : STRING, temp : Int \union {Nothing}])
  <2>1. Range(all) \intersect keep = keep
    OBVIOUS
  <2> HIDE DEF keep
  <2> QED BY <1>5, <2>1, KeptIsOf
<1>7. \A z \in keep : /\ z \in ZoneRead /\ z.label = label
                      /\ \E i \in 1..n : all[i] = z /\ w.zones[i].temp = z.temp /\ w.zones[i].name = z.name
  <2> SUFFICES ASSUME NEW z \in keep
               PROVE  /\ z \in ZoneRead /\ z.label = label
                      /\ \E i \in 1..n : /\ all[i] = z /\ w.zones[i].temp = z.temp
                                          /\ w.zones[i].name = z.name
    OBVIOUS
  <2>1. PICK i \in 1..n : all[i] = z
    BY <1>5 DEF Range
  <2>2. z.temp # Nothing
    OBVIOUS
  <2> HIDE DEF keep
  <2>3. z \in [label : {"x", "denied"}, name : STRING, temp : Int \union {Nothing}]
    BY <1>5, <2>1, ListIs
  <2>4. z \in ZoneRead
    BY <2>2, <2>3 DEF ZoneRead
  <2> QED BY <1>5, <2>1, <2>4
<1> HIDE DEF keep, read
<1>8. read \in Seq(ZoneRead)
  <2>1. read \in Seq(Range(read))
    BY <1>6 DEF Range
  <2>2. Range(read) \subseteq ZoneRead
    BY <1>6, <1>7
  <2> QED BY <2>1, <2>2, SeqMonotonic
<1>9. \A i \in DOMAIN read : read[i] \in keep
  BY <1>6 DEF Range
<1>10. read # Nothing
  BY <1>8, NothingAssumption DEF ZoneRead
<1>11. ReadZones(all) = IF label = "denied" /\ read # <<>> THEN Nothing ELSE read
  <2>1. ReadZones(all) = IF \E i \in DOMAIN read : read[i].label = "denied" THEN Nothing ELSE read
    BY DEF ReadZones, read, keep
  <2>2. (\E i \in DOMAIN read : TRUE) <=> read # <<>>
    BY <1>8
  <2> QED BY <1>7, <1>9, <2>1, <2>2
<1>12. answer = ThermalRun(policy.set, [zones |-> all])
  BY <1>1, <1>3, AnsweredFrom DEF Run, all
<1>13. CASE id \notin DOMAIN policy.set \/ label = "denied" \/ read = <<>>
  <2>1. answer \in {Bare("error"), Bare("unavailable")}
    BY <1>10, <1>11, <1>12, <1>13 DEF ThermalRun, GradedBy, unreadable, Unavailable
  <2> QED BY <2>1, BareIsRight
<1>14. CASE id \in DOMAIN policy.set /\ label = "x" /\ read # <<>>
  <2> DEFINE z == Hottest(read)
             g == Grade(policy.set[id], z.temp)
  <2>1. answer = Graded(Check(policy.set, id, z.temp, z.name), {})
    BY <1>10, <1>11, <1>12, <1>14 DEF ThermalRun, GradedBy
  <2>2. AllWhole
    BY <1>1, <1>3, <1>14
  <2>3. z \in keep /\ \A i \in DOMAIN read : read[i].temp <= z.temp
    <3> HIDE DEF z
    <3> QED BY <1>8, <1>9, <1>14, HottestIs DEF z
  <2> HIDE DEF z
  <2>4. PICK h \in 1..n : w.zones[h].temp = z.temp /\ w.zones[h].name = z.name /\ z.temp \in Int
    BY <1>7, <2>3 DEF ZoneRead
  <2>5. /\ g \in {"ok", "warn", "crit"} /\ Final(answer) = g /\ answer.steps = {}
        /\ {t.subject : t \in answer.trips} = IF g = "ok" THEN {} ELSE {z.name}
    BY <2>1, GradeIsFinal
  <2>6. Worth(w) = UNION {GradedBad(id, w.zones[i].temp, w.zones[i].name) :
                            i \in {j \in DOMAIN w.zones : w.zones[j].temp # Nothing}}
    BY DEF Worth
  <2>7. \A v, about : GradedBad(id, v, about) =
          Bad(about, Grade(policy.set[id], v))
    BY <1>14 DEF GradedBad, SetGrade
  <2>8. policy.set[id].warn \in Int /\ policy.set[id].crit \in Int
    BY <1>14, PolicyIsOfNumbers, AnsweredFrom
  <2> HIDE DEF id, g
  <2>9. \A x \in Worth(w) : Heard(x)
    <3> SUFFICES ASSUME NEW x \in Worth(w) PROVE Heard(x)
      OBVIOUS
    <3>1. PICK i \in 1..n : w.zones[i].temp # Nothing /\ x \in GradedBad(id, w.zones[i].temp, w.zones[i].name)
      BY <1>4, <2>6
    <3> DEFINE gi == Grade(policy.set[id], w.zones[i].temp)
    <3>2. x.status = gi
      BY <2>7, <3>1 DEF Bad, Step
    <3>3. all[i] \in keep
      BY <1>5, <3>1 DEF keep, Range
    <3>4. \E k \in DOMAIN read : read[k] = all[i]
      BY <1>6, <3>3 DEF Range
    <3>5. w.zones[i].temp \in Int /\ w.zones[i].temp <= z.temp
      BY <1>4, <1>5, <2>3, <3>1, <3>4
    <3>6. rank(gi) <= rank(g) /\ gi \in {"ok", "warn", "crit"}
      BY <2>4, <2>8, <3>5, GradesRise DEF g
    <3> HIDE DEF gi
    <3>7. rank(g) \in Int /\ rank(gi) \in Int
      BY <2>5, <3>6 DEF rank
    <3>8. rank(Final(answer)) >= rank(x.status)
      BY <2>5, <3>2, <3>6, <3>7
    <3>9. check \notin Finds \union (Lists \ {"system.thermal"})
      BY DEF Finds, Lists
    <3> QED BY <3>8, <3>9 DEF Heard
  <2>10. g # "ok" => Step(z.name, g) \in Worth(w)
    <3>1. h \in {j \in DOMAIN w.zones : w.zones[j].temp # Nothing}
      BY <1>4, <2>4, NothingAssumption
    <3>2. Bad(z.name, g) \subseteq Worth(w)
      BY <2>4, <2>6, <2>7, <3>1 DEF g
    <3> QED BY <3>2 DEF Bad
  <2>11. Final(answer) \in {"warn", "crit"} => \E x \in Worth(w) : rank(x.status) >= rank(Final(answer))
    <3>1. Step(z.name, g).status = g /\ rank(g) \in Int
      BY <2>5 DEF Step, rank
    <3> QED BY <2>5, <2>10, <3>1
  <2>12. Named \subseteq Abouts(w)
    <3>1. Named \subseteq IF g = "ok" THEN {} ELSE {z.name}
      BY <2>5 DEF Named
    <3>2. Step(z.name, g).about = z.name
      BY DEF Step
    <3> QED BY <2>10, <3>1, <3>2 DEF Abouts
  <2> QED BY <2>2, <2>9, <2>11, <2>12, RightOfOne
<1> QED BY <1>13, <1>14
(* disk.usage and disk.inodes: a df that complained has said so, and every  *)
(* mount it printed is graded by itself.                                    *)
MountFacts == [mount : STRING, capacity : Nat, pseudo : BOOLEAN, total : Nat \ {0}, used : Nat]

UsageId == IF check = "disk.usage" THEN "disk.used_pct" ELSE "disk.inode_pct"

GradeOf(row) == Grade(policy.set[UsageId], row.capacity)

(* ParseDF: the rows that are of a disk, whose percentage is what df printed.*)
LEMMA MountsAre ==
  ASSUME NEW rows \in Seq(MountFacts)
  PROVE  /\ ParseDF(rows) \in Seq(MountFacts)
         /\ \A r : r \in Range(ParseDF(rows)) <=> r \in Range(rows) /\ ~ r.pseudo
         /\ \A r \in MountFacts : usedPercent(r) = r.capacity
<1>1. \A r \in MountFacts : r.total \notin {Nothing, 0} /\ r.used # Nothing /\ r.capacity # Nothing
  BY NothingAssumption DEF MountFacts
<1> DEFINE keep == {r \in Range(rows) : ~r.pseudo /\ r.total \notin {Nothing, 0} /\ r.used # Nothing}
<1>2. Range(rows) \subseteq MountFacts
  BY ListIs
<1>3. \A r : r \in Range(rows) \intersect keep <=> r \in Range(rows) /\ ~ r.pseudo
  BY <1>1, <1>2
<1>4. ParseDF(rows) = Kept(rows, keep)
  BY DEF ParseDF
<1> HIDE DEF keep
<1>5. ParseDF(rows) \in Seq(MountFacts) /\ Range(ParseDF(rows)) = Range(rows) \intersect keep
  BY <1>4, KeptIsOf
<1> QED BY <1>1, <1>3, <1>5 DEF usedPercent

(* What is tripped is a mount that is bad. *)
LEMMA RowsAreGraded ==
  ASSUME NEW rows \in Seq(MountFacts), UsageId \in DOMAIN policy.set
  PROVE  LET trips == gradeRows(policy.set, UsageId, ParseDF(rows)) IN
         /\ \A t \in trips : /\ t.severity \in {"warn", "crit"}
                             /\ \E r \in Range(rows) : /\ ~ r.pseudo /\ t.severity = GradeOf(r)
                                                       /\ t.subject = r.mount
         /\ \A r \in Range(rows) : ~ r.pseudo /\ GradeOf(r) # "ok" =>
              \E t \in trips : t.severity = GradeOf(r) /\ t.subject = r.mount
<1> DEFINE read == ParseDF(rows)
           trips == gradeRows(policy.set, UsageId, read)
<1>1. /\ read \in Seq(MountFacts) /\ \A r \in MountFacts : usedPercent(r) = r.capacity
      /\ \A r : r \in Range(read) <=> r \in Range(rows) /\ ~ r.pseudo
  BY MountsAre
<1> HIDE DEF read
<1>2. \A r \in Range(read) : r \in MountFacts /\ \E i \in DOMAIN read : read[i] = r
  BY <1>1, ListIs
<1>3. \A i \in DOMAIN read : read[i] \in Range(read) /\ usedPercent(read[i]) = read[i].capacity
  BY <1>1, ListIs DEF Range
<1>4. trips = UNION {Check(policy.set, UsageId, usedPercent(read[i]), read[i].mount) : i \in DOMAIN read}
  BY DEF gradeRows
<1>5. ASSUME NEW v, NEW subject, NEW t \in Check(policy.set, UsageId, v, subject)
      PROVE  /\ t.severity = Grade(policy.set[UsageId], v) /\ t.subject = subject
             /\ t.severity \in {"warn", "crit"}
  BY DEF Check, Grade
<1>6. ASSUME NEW v, NEW subject, Grade(policy.set[UsageId], v) # "ok"
      PROVE  \E t \in Check(policy.set, UsageId, v, subject) : TRUE
  BY <1>6 DEF Check
<1> HIDE DEF trips
<1>7. ASSUME NEW t \in trips
      PROVE  /\ t.severity \in {"warn", "crit"}
             /\ \E r \in Range(rows) : ~ r.pseudo /\ t.severity = GradeOf(r) /\ t.subject = r.mount
  <2>1. PICK i \in DOMAIN read : t \in Check(policy.set, UsageId, usedPercent(read[i]), read[i].mount)
    BY <1>4
  <2>2. /\ t.severity = GradeOf(read[i]) /\ t.subject = read[i].mount
        /\ t.severity \in {"warn", "crit"}
    BY <1>3, <1>5, <2>1 DEF GradeOf
  <2> QED BY <1>1, <1>3, <2>2
<1>8. ASSUME NEW r \in Range(rows), ~ r.pseudo, GradeOf(r) # "ok"
      PROVE  \E t \in trips : t.severity = GradeOf(r) /\ t.subject = r.mount
  <2>1. PICK i \in DOMAIN read : read[i] = r
    BY <1>1, <1>2, <1>8
  <2>2. usedPercent(read[i]) = r.capacity
    BY <1>3, <2>1
  <2>3. PICK t \in Check(policy.set, UsageId, r.capacity, r.mount) : TRUE
    BY <1>6, <1>8 DEF GradeOf
  <2>4. t \in trips
    BY <1>4, <2>1, <2>2, <2>3
  <2> QED BY <1>5, <2>3, <2>4 DEF GradeOf
<1> QED BY <1>7, <1>8 DEF trips, read

(* disk.usage and disk.inodes: every mount is graded, and named when it is full.*)
LEMMA DiskIsRight ==
  ASSUME Inv, Answered, check \in {"disk.usage", "disk.inodes"}
  PROVE  RightAnswer
<1>1. PICK w \in been : /\ w \in Hosts(check) /\ seen[1] \in Replies(Ask("df"), w, seen)
                        /\ Got(1) = seen[1].got /\ (AllWhole <=> seen[1].whole)
  <2>1. Script = <<Ask("df")>> /\ check \in OneAsk
    BY DEF Script, OneAsk
  <2> QED BY <2>1, OneReading
<1>2. w.mounts \in Seq(MountFacts)
  BY <1>1 DEF Hosts, DockerChecks, NetChecks, MountFacts
<1> DEFINE rows == Got(1).rows
           how == Got(1).how
<1>3. \/ AllWhole /\ how = "ok" /\ rows = w.mounts
      \/ /\ ~ AllWhole /\ how \in {"absent", "failed", "nonzero"}
         /\ rows \in Seq(MountFacts) /\ Range(rows) \subseteq Range(w.mounts)
  <2>1. seen[1] \in HostReplies("df", w)
    BY <1>1, RepliesAre DEF Ask, HostAsks
  <2>2. seen[1] \in PrintsWhatItCould(w.mounts)
    BY <2>1 DEF HostReplies
  <2> QED BY <1>1, <1>2, <2>2, PrintedCouldBe
<1> HIDE DEF rows, how
<1>4. answer = DfRun(policy.set, UsageId, Got(1))
  BY AnsweredFrom DEF Run, UsageId
<1>5. CASE UsageId \notin DOMAIN policy.set \/ how \in {"absent", "failed"} \/ ParseDF(rows) = <<>>
  <2>1. answer \in {Bare("error"), Bare("unavailable")}
    BY <1>4, <1>5 DEF DfRun, GradedBy, NotRun, nothingToGrade, Unavailable, rows, how
  <2> QED BY <2>1, BareIsRight
<1>6. CASE UsageId \in DOMAIN policy.set /\ how \notin {"absent", "failed"} /\ ParseDF(rows) # <<>>
  <2> DEFINE trips == gradeRows(policy.set, UsageId, ParseDF(rows))
             steps == IF how = "nonzero" THEN {Unseen} ELSE {}
  <2>1. answer = Graded(trips, steps)
    BY <1>4, <1>6 DEF DfRun, GradedBy, Complaint, rows, how
  <2>2. rows \in Seq(MountFacts) /\ Range(rows) \subseteq Range(w.mounts)
    BY <1>2, <1>3
  <2>3. /\ \A t \in trips : /\ t.severity \in {"warn", "crit"}
                            /\ \E r \in Range(rows) : /\ ~ r.pseudo /\ t.severity = GradeOf(r)
                                                      /\ t.subject = r.mount
        /\ \A r \in Range(rows) : ~ r.pseudo /\ GradeOf(r) # "ok" =>
             \E t \in trips : t.severity = GradeOf(r) /\ t.subject = r.mount
    BY <1>6, <2>2, RowsAreGraded
  <2> HIDE DEF trips
  <2>4. /\ answer.trips = trips /\ answer.steps = steps /\ Final(answer) \in {"ok", "warn", "crit"}
        /\ \A t \in trips : rank(Final(answer)) >= rank(t.severity)
        /\ Final(answer) \in {"warn", "crit"} => \E t \in trips : t.severity = Final(answer)
    BY <2>1, <2>3, TripsAreFinal
  <2>5. (AllWhole => rows = w.mounts) /\ (~ AllWhole => Declined)
    <3>1. how = "nonzero" => Unseen \in steps
      OBVIOUS
    <3>2. ~ AllWhole => how = "nonzero"
      BY <1>3, <1>6
    <3> HIDE DEF steps
    <3>3. ~ AllWhole => Declined
      BY <2>4, <3>1, <3>2, UnseenIsSaid
    <3>4. AllWhole => rows = w.mounts
      BY <1>3
    <3> QED BY <3>3, <3>4
  <2>6. \A s \in steps : s.about = Nothing
    BY DEF Unseen, Step
  <2> HIDE DEF steps
  <2>7. check \notin Finds /\ check \in Lists
    BY DEF Finds, Lists
  <2>8. Worth(w) = UNION {GradedBad(UsageId, w.mounts[i].capacity, w.mounts[i].mount) :
                            i \in {j \in DOMAIN w.mounts : ~w.mounts[j].pseudo}}
    BY DEF Worth, UsageId
  <2>9. \A r : GradedBad(UsageId, r.capacity, r.mount) =
                 IF GradeOf(r) = "ok" THEN {} ELSE {Step(r.mount, GradeOf(r))}
    BY <1>6 DEF GradedBad, SetGrade, Bad, GradeOf
  <2>10. \A x \in Worth(w) : \E r \in Range(w.mounts) :
           ~ r.pseudo /\ GradeOf(r) # "ok" /\ x.about = r.mount /\ x.status = GradeOf(r)
    <3> SUFFICES ASSUME NEW x \in Worth(w)
                 PROVE  \E r \in Range(w.mounts) :
                          ~ r.pseudo /\ GradeOf(r) # "ok" /\ x.about = r.mount /\ x.status = GradeOf(r)
      OBVIOUS
    <3>1. PICK i \in DOMAIN w.mounts :
            ~w.mounts[i].pseudo /\ x \in GradedBad(UsageId, w.mounts[i].capacity, w.mounts[i].mount)
      BY <2>8
    <3> DEFINE r == w.mounts[i]
    <3>2. r \in Range(w.mounts)
      BY DEF Range
    <3>3. GradeOf(r) # "ok" /\ x = Step(r.mount, GradeOf(r))
      BY <2>9, <3>1
    <3> HIDE DEF r
    <3>4. x.about = r.mount /\ x.status = GradeOf(r)
      BY <3>3 DEF Step
    <3> QED BY <3>1, <3>2, <3>3, <3>4 DEF r
  <2>11. \A r \in Range(w.mounts) : ~ r.pseudo /\ GradeOf(r) # "ok" =>
           Step(r.mount, GradeOf(r)) \in Worth(w)
    <3> SUFFICES ASSUME NEW r \in Range(w.mounts), ~ r.pseudo, GradeOf(r) # "ok"
                 PROVE  Step(r.mount, GradeOf(r)) \in Worth(w)
      OBVIOUS
    <3>1. PICK i \in DOMAIN w.mounts : w.mounts[i] = r
      BY DEF Range
    <3>2. GradedBad(UsageId, w.mounts[i].capacity, w.mounts[i].mount) \subseteq Worth(w)
      BY <2>8, <3>1
    <3> QED BY <2>9, <3>1, <3>2
  <2>12. \A r : Step(r.mount, GradeOf(r)).about = r.mount /\ Step(r.mount, GradeOf(r)).status = GradeOf(r)
    BY DEF Step
  <2>13. Named = {t.subject : t \in trips} \ {Nothing}
    BY <2>4, <2>6, <2>7 DEF Named
  <2>14. Named \subseteq Abouts(w)
    <3> SUFFICES ASSUME NEW t \in trips PROVE t.subject \in Abouts(w)
      BY <2>13
    <3>1. PICK r \in Range(rows) : ~ r.pseudo /\ t.severity = GradeOf(r) /\ t.subject = r.mount
      BY <2>3
    <3>2. Step(r.mount, GradeOf(r)) \in Worth(w)
      BY <2>2, <2>3, <2>11, <3>1
    <3> QED BY <2>12, <3>1, <3>2 DEF Abouts
  <2>15. \A x \in Worth(w) : Heard(x)
    <3> SUFFICES ASSUME NEW x \in Worth(w), AllWhole, rows = w.mounts PROVE Heard(x)
      BY <2>5 DEF Heard
    <3>1. PICK t \in trips : t.severity = x.status /\ t.subject = x.about
      BY <2>3, <2>10
    <3>2. x.about # Nothing
      <4>1. \A r \in Range(w.mounts) : r.mount \in STRING
        <5>1. Range(w.mounts) \subseteq MountFacts
          BY <1>2, ListIs
        <5> QED BY <5>1 DEF MountFacts
      <4> QED BY <2>10, <4>1, ValuesAreSomething
    <3>3. x.about \in Named
      BY <2>13, <3>1, <3>2
    <3>4. rank(Final(answer)) >= rank(x.status)
      BY <2>4, <3>1
    <3> QED BY <3>3, <3>4 DEF Heard
  <2>16. AllWhole /\ Final(answer) \in {"warn", "crit"} =>
           \E x \in Worth(w) : rank(x.status) >= rank(Final(answer))
    <3> SUFFICES ASSUME AllWhole, Final(answer) \in {"warn", "crit"}
                 PROVE  \E x \in Worth(w) : rank(x.status) >= rank(Final(answer))
      OBVIOUS
    <3>1. PICK t \in trips : t.severity = Final(answer)
      BY <2>4
    <3>2. PICK r \in Range(rows) : ~ r.pseudo /\ t.severity = GradeOf(r)
      BY <2>3
    <3>3. Step(r.mount, GradeOf(r)) \in Worth(w)
      BY <2>2, <2>3, <2>11, <3>1, <3>2
    <3>4. Step(r.mount, GradeOf(r)).status = Final(answer) /\ rank(Final(answer)) \in Int
      BY <2>12, <3>1, <3>2 DEF rank
    <3> QED BY <3>3, <3>4
  <2> QED BY <2>5, <2>14, <2>15, <2>16, RightOfOne
<1> QED BY <1>5, <1>6
(* services.boot grades nothing; a line it could not read is said to be lost.*)
BlameFacts == [id : STRING, min : Nat, s : Nat, ms : Nat, bad : BOOLEAN]

(* services.boot: it grades nothing, and says when a line was lost. *)
LEMMA BootIsRight ==
  ASSUME Inv, Answered, check = "services.boot"
  PROVE  RightAnswer
<1>1. PICK w \in been : /\ w \in Hosts(check) /\ seen[1] \in Replies(Ask("blame"), w, seen)
                        /\ Got(1) = seen[1].got /\ (AllWhole <=> seen[1].whole)
  <2>1. Script = <<Ask("blame")>> /\ check \in OneAsk
    BY DEF Script, OneAsk
  <2> QED BY <2>1, OneReading
<1>2. w.blame \in Seq(BlameFacts)
  BY <1>1 DEF Hosts, DockerChecks, NetChecks, BlameFacts
<1> DEFINE spoilt == [w.blame EXCEPT ![1].bad = TRUE]
<1>3. \/ seen[1] \in PrintsOrNothing(w.blame)
      \/ seen[1] = Torn(Printed("ok", spoilt))
  <2>1. seen[1] \in UnitReplies("blame", w, seen)
    BY <1>1, RepliesAre DEF Ask, UnitAsks
  <2> QED BY <2>1 DEF UnitReplies
<1>4. answer = BootRun(Got(1))
  BY AnsweredFrom DEF Run
<1>5. check \notin Finds /\ Worth(w) = {}
  BY DEF Finds, Worth
<1>6. CASE Got(1).how # "ok" \/ ParseBlame(Got(1).rows) = <<>>
  <2>1. answer \in {Bare("error"), Bare("unavailable")}
    BY <1>4, <1>6 DEF BootRun, NotRun, Unavailable
  <2> QED BY <2>1, BareIsRight
<1>7. CASE Got(1).how = "ok" /\ ParseBlame(Got(1).rows) # <<>>
  <2>1. answer = Judged("ok", BootSteps(Got(1).rows))
    BY <1>4, <1>7 DEF BootRun
  <2>2. Final(answer) = "ok" /\ answer.steps = BootSteps(Got(1).rows) /\ answer.trips = {}
    BY <2>1, JudgedIs DEF Status, Judged
  <2>3. \A s \in BootSteps(Got(1).rows) : s.status = "ok"
    BY DEF BootSteps, StepOf, Aside, Step
  <2>4. CASE seen[1] \in PrintsOrNothing(w.blame)
    <3>1. AllWhole
      BY <1>1, <1>7, <2>4, PrintedIs
    <3> QED BY <1>5, <2>2, <2>3, <3>1, NothingIsWrong
  <2>5. CASE seen[1] = Torn(Printed("ok", spoilt))
    <3> DEFINE keep == {l \in Range(spoilt) : parseTime(l) # Nothing}
    <3>1. Got(1).rows = spoilt
      <4> HIDE DEF spoilt
      <4> QED BY <1>1, <2>5 DEF Torn, Printed
    <3>2. /\ spoilt \in Seq(BlameFacts) /\ Len(spoilt) = Len(w.blame)
          /\ Len(spoilt) # 0 => spoilt[1].bad
      <4>1. \A b \in BlameFacts : [b EXCEPT !.bad = TRUE] \in BlameFacts /\ [b EXCEPT !.bad = TRUE].bad
        BY DEF BlameFacts
      <4>2. CASE Len(w.blame) = 0
        <5>1. w.blame = <<>>
          BY <1>2, <4>2, ListIs
        <5>2. DOMAIN spoilt = DOMAIN w.blame
          OBVIOUS
        <5>3. DOMAIN spoilt = {}
          <6> HIDE DEF spoilt
          <6> QED BY <5>1, <5>2
        <5>4. spoilt = [i \in DOMAIN spoilt |-> spoilt[i]]
          OBVIOUS
        <5> HIDE DEF spoilt
        <5>5. spoilt = <<>>
          BY <5>3, <5>4
        <5> QED BY <4>2, <5>5
      <4>3. CASE Len(w.blame) # 0
        <5>1. w.blame[1] \in BlameFacts /\ 1 \in 1..Len(w.blame)
          BY <1>2, <4>3, ListIs
        <5>2. spoilt = [w.blame EXCEPT ![1] = [@ EXCEPT !.bad = TRUE]]
          OBVIOUS
        <5> DEFINE b == [w.blame[1] EXCEPT !.bad = TRUE]
        <5>3. b \in BlameFacts /\ b.bad
          BY <4>1, <5>1
        <5>4. spoilt = [w.blame EXCEPT ![1] = b]
          BY <5>2
        <5> HIDE DEF b, spoilt
        <5> QED BY <1>2, <5>1, <5>3, <5>4
      <4> QED BY <4>2, <4>3
    <3> HIDE DEF spoilt
    <3>3. ParseBlame(spoilt) = Kept(spoilt, keep)
      BY DEF ParseBlame
    <3>4. 1 \in 1..Len(spoilt) => spoilt[1] \notin keep
      BY <3>2, ListIs DEF parseTime
    <3> HIDE DEF keep
    <3>5. Collected(Kept(spoilt, keep), spoilt, keep, Len(spoilt))
      BY <3>2, KeptAre
    <3>6. Kept(spoilt, keep) \in Seq(BlameFacts) /\ Len(Kept(spoilt, keep)) \in Nat
      BY <3>2, KeptIsOf
    <3>7. Len(spoilt) # 0
      <4>1. Kept(spoilt, keep) # <<>>
        BY <1>7, <3>1, <3>3
      <4> QED BY <3>5, <3>6, <4>1 DEF Collected
    <3>8. Len(ParseBlame(spoilt)) < Len(spoilt)
      BY <3>2, <3>3, <3>4, <3>5, <3>6, <3>7, ListIs DEF Collected
    <3>9. Aside \in answer.steps
      BY <2>2, <3>1, <3>8 DEF BootSteps
    <3>10. Declined
      BY <3>9 DEF Declined, Admits
    <3> QED BY <1>5, <2>2, <2>3, <3>10, NothingIsWrong
  <2> QED BY <1>3, <2>4, <2>5
<1> QED BY <1>6, <1>7

(* docker.runtime: a daemon that is down is a fault, one that is not        *)
(* installed is none.                                                       *)
LEMMA RuntimeIsRight ==
  ASSUME Inv, Answered, check = "docker.runtime"
  PROVE  RightAnswer
<1>1. PICK w \in been : /\ w \in Hosts(check) /\ seen[1] \in Replies(Ask("version"), w, seen)
                        /\ Got(1) = seen[1].got /\ (AllWhole <=> seen[1].whole)
  <2>1. Script = <<Ask("version")>> /\ check \in OneAsk
    BY DEF Script, OneAsk
  <2> QED BY <2>1, OneReading
<1>2. \/ Got(1) = "absent" /\ AllWhole /\ ~ w.installed
      \/ Got(1) = "ok" /\ AllWhole /\ w.up
      \/ Got(1) = "failed" /\ AllWhole /\ w.installed /\ ~ w.up
      \/ Got(1) = "failed" /\ ~ AllWhole
  <2>1. seen[1] \in UnitReplies("version", w, seen)
    BY <1>1, RepliesAre DEF Ask, UnitAsks
  <2>2. \/ ~ w.installed /\ seen[1] = Whole("absent")
        \/ w.installed /\ w.up /\ (seen[1] = Whole("ok") \/ seen[1] = Torn("failed"))
        \/ w.installed /\ ~ w.up /\ seen[1] = Whole("failed")
    BY <2>1 DEF UnitReplies
  <2> QED BY <1>1, <2>2 DEF Whole, Torn
<1>3. answer = RuntimeRun(Runtime)
  BY AnsweredFrom DEF Run
<1>4. check \notin Finds \union Lists
  BY DEF Finds, Lists
<1>5. Worth(w) = Bad("docker", IF w.installed /\ ~w.up THEN "crit" ELSE "ok")
  BY DEF Worth
<1>6. CASE Got(1) = "absent"
  <2>1. answer = Judged("unavailable", {})
    BY <1>3, <1>6 DEF RuntimeRun, Runtime, Probe, Detect, NoRuntime, statusFor
  <2>2. answer = Bare("unavailable")
    BY <2>1 DEF Judged, Bare
  <2> QED BY <2>2, BareIsRight
<1>7. CASE Got(1) = "ok" /\ AllWhole /\ w.up
  <2>1. answer = Judged("ok", {Step("docker", "ok")})
    BY <1>3, <1>7 DEF RuntimeRun, Runtime, Probe, Detect, statusFor
  <2>2. Worth(w) = Bad("docker", "ok")
    BY <1>5, <1>7
  <2>3. Step("docker", "ok").status = "ok"
    BY DEF Step
  <2> QED BY <1>4, <1>7, <2>1, <2>2, <2>3, OneJudgementIsRight
<1>8. CASE Got(1) = "failed"
  <2>1. answer = Judged("crit", {Step("docker", "crit")})
    BY <1>3, <1>8 DEF RuntimeRun, Runtime, Probe, Detect, statusFor
  <2>2. Final(answer) = "crit"
    BY <2>1, JudgedIs DEF Status
  <2>3. CASE AllWhole
    <3>1. Worth(w) = Bad("docker", "crit")
      BY <1>2, <1>5, <1>8, <2>3
    <3>2. Step("docker", "crit").about \in Abouts(w)
      BY <3>1 DEF Abouts, Bad
    <3> QED BY <1>4, <2>1, <2>3, <3>1, <3>2, OneJudgementIsRight
  <2>4. CASE ~ AllWhole
    <3>1. \A x \in Worth(w) : x.status \in {"ok", "warn", "crit"}
      BY <1>5 DEF Bad, Step
    <3> QED BY <1>4, <2>2, <2>4, <3>1, TornIsHeard
  <2> QED BY <2>3, <2>4
<1> QED BY <1>2, <1>6, <1>7, <1>8

(* docker.disk: a table or a fault, of a daemon that answers. *)
LEMMA DockerDiskIsRight ==
  ASSUME Inv, Answered, check = "docker.disk"
  PROVE  RightAnswer
<1>1. Len(Script) = 2 /\ Script[1] = Ask("version") /\ Script[2] = Ask("dockerdf")
  BY DEF Script
<1>2. /\ Len(seen) \in Nat /\ DOMAIN seen = 1..Len(seen) /\ Len(seen) <= 2 /\ Settled
  BY <1>1, AnsweredFrom
<1>3. Taken(1) /\ (Taken(2) \/ ~ Runtime.available)
  BY <1>1, <1>2 DEF Settled, Taken
<1>4. PICK w \in been : w \in Hosts(check) /\ seen[1] \in Replies(Ask("version"), w, seen)
  BY <1>1, <1>3, ReadingIs
<1>5. seen[1] \in UnitReplies("version", w, seen) /\ Got(1) = seen[1].got
  BY <1>3, <1>4, RepliesAre DEF Ask, UnitAsks, Got
<1>6. answer = DiskUsageRun(Runtime, Got(2))
  BY AnsweredFrom DEF Run
<1>7. Worth(w) = {} /\ check \notin Finds
  BY DEF Worth, Finds
<1>8. CASE ~ Runtime.available \/ Got(2).how # "ok" \/ Got(2).rows = <<>>
  <2>1. answer \in {Bare("error"), Bare("unavailable")}
    BY <1>6, <1>8 DEF DiskUsageRun, Unavailable
  <2> QED BY <2>1, BareIsRight
<1>9. CASE Runtime.available /\ Got(2).how = "ok" /\ Got(2).rows # <<>>
  <2>1. answer = Judged("ok", {StepOf(Got(2).rows[i], "ok") : i \in DOMAIN Got(2).rows})
    BY <1>6, <1>9 DEF DiskUsageRun
  <2>2. seen[1].whole
    <3>1. seen[1] \in {Whole("absent"), Whole("ok"), Whole("failed"), Torn("failed")}
      BY <1>5 DEF UnitReplies
    <3>2. Got(1) # "failed"
      BY <1>9 DEF Runtime, Probe, Detect, NoRuntime
    <3> QED BY <1>5, <3>1, <3>2 DEF Whole, Torn
  <2>3. Taken(2)
    BY <1>3, <1>9
  <2>4. PICK v \in been : seen[2] \in Replies(Ask("dockerdf"), v, seen)
    BY <1>1, <2>3, ReadingIs
  <2>5. seen[2] \in UnitReplies("dockerdf", v, seen) /\ Got(2) = seen[2].got
    BY <2>3, <2>4, RepliesAre DEF Ask, UnitAsks, Got
  <2>6. seen[2].whole
    <3>1. seen[2] = Whole(Printed("nonzero", <<>>)) \/ seen[2] \in PrintsOrNothing(v.images)
      BY <2>5 DEF UnitReplies
    <3>2. Whole(Printed("nonzero", <<>>)).whole
      BY DEF Whole
    <3> QED BY <1>9, <2>5, <3>1, <3>2, PrintedIs
  <2>7. AllWhole
    BY <1>2, <2>2, <2>6 DEF AllWhole
  <2>8. Final(answer) = "ok" /\ answer.trips = {} /\ \A s \in answer.steps : s.status = "ok"
    BY <2>1, JudgedIs DEF Status, Judged, StepOf, Step
  <2> QED BY <1>7, <2>7, <2>8, NothingIsWrong
<1> QED BY <1>8, <1>9

(* network.sockets grades nothing. *)
LEMMA SocketsAreRight ==
  ASSUME Inv, Answered, check = "network.sockets"
  PROVE  RightAnswer
<1>1. PICK w \in been : TRUE
  <2>1. Script = <<Ask("ss")>> /\ check \in OneAsk
    BY DEF Script, OneAsk
  <2> QED BY <2>1, OneReading
<1>2. answer = SocketsRun(Got(1))
  BY AnsweredFrom DEF Run
<1>3. answer \in {Bare("error"), Bare("unavailable")} \/ answer = Judged("ok", {})
  BY <1>2 DEF SocketsRun, NotRun, Unavailable
<1>4. CASE answer = Judged("ok", {})
  <2>1. Final(answer) = "ok" /\ answer.trips = {} /\ answer.steps = {}
    BY <1>4, JudgedIs DEF Status, Judged
  <2>2. Worth(w) = {} /\ check \notin Finds
    BY DEF Worth, Finds
  <2> QED BY <2>1, <2>2, NothingIsWrong
<1> QED BY <1>3, <1>4, BareIsRight
(* What a reading carries, whole or torn, and how a program ended. *)
LEMMA CarriedIs ==
  /\ \A g : Whole(g).whole /\ Whole(g).got = g /\ ~ Torn(g).whole /\ Torn(g).got = g
  /\ \A h, s : Ends(h, s).how = h /\ Ends(h, s).said = s
BY DEF Whole, Torn, Ends

(* ping says what was lost, or nothing. *)
LEMMA PingSays ==
  ASSUME NEW w, NEW s, NEW r \in NetReplies("ping", w, s)
  PROVE  \/ r.whole /\ r.got.how \in {"nonzero", "ok"} /\ r.got.said = w.loss
         \/ ~ r.whole /\ r.got.how \in {"timeout", "absent"} /\ r.got.said = Nothing
<1>1. \E how \in {"nonzero", "ok"} :
        r \in {Whole(Ends(how, w.loss)), Torn(Ends("timeout", Nothing)), Torn(Ends("absent", Nothing))}
  BY DEF NetReplies
<1> QED BY <1>1, CarriedIs

(* A name is resolved, is not, or nothing is heard of it. *)
LEMMA DNSSays ==
  ASSUME NEW w, NEW s, NEW r \in NetReplies("dns", w, s)
  PROVE  \/ r.whole /\ r.got = IF w.resolves THEN {"192.0.2.1"} ELSE Nothing
         \/ ~ r.whole /\ r.got = Nothing
<1>1. r \in {Whole(IF w.resolves THEN {"192.0.2.1"} ELSE Nothing), Torn(Nothing)}
  BY DEF NetReplies
<1> QED BY <1>1, CarriedIs

(* curl prints a code when it comes to print. *)
LEMMA CurlSays ==
  ASSUME NEW w, NEW s, NEW r \in NetReplies("curl", w, s)
  PROVE  \/ r.whole /\ ~ w.curl /\ r.got.how = "absent"
         \/ /\ r.whole /\ w.curl /\ r.got.how \in {"nonzero", "ok"} /\ r.got.said = w.code
         \/ ~ r.whole /\ w.curl /\ r.got.said = Nothing
<1>1. CASE w.curl
  <2>1. \E how \in {"nonzero", "ok"} :
          r \in {Whole(Ends(how, w.code)), Torn(Ends("timeout", Nothing)), Torn(Ends("nonzero", Nothing))}
    BY <1>1 DEF NetReplies
  <2> QED BY <1>1, <2>1, CarriedIs
<1>2. CASE ~ w.curl
  <2>1. r = Whole(Ends("absent", Nothing))
    BY <1>2 DEF NetReplies
  <2> QED BY <1>2, <2>1, CarriedIs
<1> QED BY <1>1, <1>2

(* What the route says of the link. *)
LEMMA LinkIsRead ==
  ASSUME NEW w \in NetFacts, NEW link, link = w.link \/ (link = Nothing /\ w.link = "unknown"),
         NEW net, net.routes = w.routes, net.link = link, net.ipv4 = w.ipv4
  PROVE  /\ Network(net) = Nothing <=> ~ \E i \in DOMAIN w.routes : w.routes[i].default
         /\ Network(net) # Nothing => Network(net).operstate = w.link /\ Network(net).ipv4 = w.ipv4
<1> DEFINE Route == [default : BOOLEAN, gateway : STRING]
           rows == w.routes
           keep == {r \in Range(rows) : r.default}
           defaults == Kept(rows, keep)
<1>1. rows \in Seq(Route) /\ w.link \in STRING /\ w.ipv4 \in STRING \union {Nothing}
  BY DEF NetFacts
<1>2. \A r \in Route : r # Nothing /\ r.gateway # Nothing /\ r.gateway \in STRING
  BY NothingAssumption
<1>3. Range(rows) \intersect keep = keep
  OBVIOUS
<1>4. (\E r \in keep : TRUE) <=> \E i \in DOMAIN rows : rows[i].default
  BY DEF Range
<1> HIDE DEF Route, keep
<1>5. defaults \in Seq(Route) /\ Range(defaults) = keep
  BY <1>1, <1>3, KeptIsOf
<1>6. DefaultRoute(rows) = IF defaults = <<>> THEN Nothing
                           ELSE IF Head(defaults).gateway = Nothing THEN Nothing ELSE Head(defaults)
  BY DEF DefaultRoute, keep
<1> HIDE DEF defaults, rows
<1>7. CASE defaults = <<>>
  <2>1. Range(defaults) = {}
    BY <1>7 DEF Range
  <2>2. DefaultRoute(rows) = Nothing /\ ~ \E i \in DOMAIN rows : rows[i].default
    BY <1>4, <1>5, <1>6, <1>7, <2>1
  <2>3. Network(net) = Nothing
    BY <2>2 DEF Network, rows
  <2> QED BY <2>2, <2>3 DEF rows
<1>8. CASE defaults # <<>>
  <2>1. Head(defaults) \in Route /\ Head(defaults) = defaults[1] /\ 1 \in DOMAIN defaults
    BY <1>5, <1>8
  <2>2. DefaultRoute(rows) = Head(defaults) /\ DefaultRoute(rows) # Nothing
    BY <1>2, <1>6, <1>8, <2>1
  <2>3. \E i \in DOMAIN rows : rows[i].default
    BY <1>4, <1>5, <2>1 DEF Range
  <2>4. Operstate(net.link) = w.link
    BY <1>1, NothingAssumption DEF Operstate
  <2> DEFINE said == [gateway |-> DefaultRoute(rows).gateway, ipv4 |-> w.ipv4, operstate |-> w.link]
  <2>5. Network(net) = said
    BY <2>2, <2>4 DEF Network, rows
  <2>6. DefaultRoute(rows).gateway \in STRING
    BY <1>2, <2>1, <2>2
  <2>7. said \in [gateway : STRING, ipv4 : STRING \union {Nothing}, operstate : STRING]
    BY <1>1, <2>6
  <2>8. said # Nothing
    BY <2>7, NothingAssumption
  <2>9. said.operstate = w.link /\ said.ipv4 = w.ipv4
    OBVIOUS
  <2> QED BY <2>3, <2>5, <2>8, <2>9 DEF rows
<1> QED BY <1>7, <1>8

(* A route is read whole. *)
LEMMA RouteIsRead ==
  ASSUME NEW w \in NetFacts, NEW s, NEW r \in NetReplies("route", w, s)
  PROVE  /\ r.whole
         /\ Network(r.got) = Nothing \/ Network(r.got).operstate = "down" <=> ~ Linked(w)
         /\ Network(r.got) # Nothing => Network(r.got).ipv4 = w.ipv4
<1>1. r.whole /\ \E link : /\ link = w.link \/ (link = Nothing /\ w.link = "unknown")
                           /\ r.got = [routes |-> w.routes, link |-> link, ipv4 |-> w.ipv4]
  BY DEF NetReplies, Whole
<1>2. PICK link : /\ link = w.link \/ (link = Nothing /\ w.link = "unknown")
                  /\ r.got = [routes |-> w.routes, link |-> link, ipv4 |-> w.ipv4]
  BY <1>1
<1>3. r.got.routes = w.routes /\ r.got.link = link /\ r.got.ipv4 = w.ipv4
  BY <1>2
<1>4. /\ Network(r.got) = Nothing <=> ~ \E i \in DOMAIN w.routes : w.routes[i].default
      /\ Network(r.got) # Nothing =>
           Network(r.got).operstate = w.link /\ Network(r.got).ipv4 = w.ipv4
  BY <1>2, <1>3, LinkIsRead
<1> QED BY <1>1, <1>4 DEF Linked

(* network.interface: a link that is up, with an address. *)
LEMMA InterfaceIsRight ==
  ASSUME Inv, Answered, check = "network.interface"
  PROVE  RightAnswer
<1>1. PICK w \in been : /\ w \in Hosts(check) /\ seen[1] \in Replies(Ask("route"), w, seen)
                        /\ Got(1) = seen[1].got /\ (AllWhole <=> seen[1].whole)
  <2>1. Script = <<Ask("route")>> /\ check \in OneAsk
    BY DEF Script, OneAsk
  <2> QED BY <2>1, OneReading
<1>2. w \in NetFacts
  BY <1>1 DEF Hosts, DockerChecks, NetChecks
<1>3. seen[1] \in NetReplies("route", w, seen)
  BY <1>1, RepliesAre DEF Ask, HostAsks, UnitAsks, TreeAsks
<1> DEFINE net == Network(Got(1))
           status == IF ~Linked(w) THEN "crit" ELSE IF w.ipv4 = Nothing THEN "warn" ELSE "ok"
<1>4. /\ AllWhole /\ (net = Nothing \/ net.operstate = "down" <=> ~ Linked(w))
      /\ net # Nothing => net.ipv4 = w.ipv4
  BY <1>1, <1>2, <1>3, RouteIsRead
<1>5. answer = IfaceRun(net)
  BY AnsweredFrom DEF Run
<1> HIDE DEF net
<1>6. answer = Judged(status, {})
  BY <1>4, <1>5 DEF IfaceRun
<1>7. check \notin Finds \union Lists
  BY DEF Finds, Lists
<1>8. Worth(w) = Bad("link", status)
  BY DEF Worth, LinkBad
<1>9. status \in {"ok", "warn", "crit"}
  OBVIOUS
<1> HIDE DEF status
<1> QED BY <1>4, <1>6, <1>7, <1>8, <1>9, OneJudgementIsRight

(* network.resolver: a name server to ask, or it is critical. *)
LEMMA ResolverIsRight ==
  ASSUME Inv, Answered, check = "network.resolver"
  PROVE  RightAnswer
<1>1. PICK w \in been : /\ w \in Hosts(check) /\ seen[1] \in Replies(Ask("resolvers"), w, seen)
                        /\ Got(1) = seen[1].got /\ (AllWhole <=> seen[1].whole)
  <2>1. Script = <<Ask("resolvers")>> /\ check \in OneAsk
    BY DEF Script, OneAsk
  <2> QED BY <2>1, OneReading
<1>2. w.nameservers # Nothing
  BY <1>1 DEF Hosts, DockerChecks, NetChecks
<1>3. seen[1] = Whole(w.nameservers) \/ seen[1] = Torn(Nothing)
  <2>1. seen[1] \in NetReplies("resolvers", w, seen)
    BY <1>1, RepliesAre DEF Ask, HostAsks, UnitAsks, TreeAsks
  <2> QED BY <2>1 DEF NetReplies
<1>4. answer = ResolverRun(Resolver(Got(1)))
  BY AnsweredFrom DEF Run
<1>5. check \notin Finds \union Lists
  BY DEF Finds, Lists
<1>6. Worth(w) = Bad("resolvers", IF w.nameservers = {} THEN "crit" ELSE "ok")
  BY DEF Worth
<1>7. CASE seen[1] = Whole(w.nameservers)
  <2> DEFINE status == IF w.nameservers = {} THEN "crit" ELSE "ok"
  <2>1. AllWhole /\ Got(1) = w.nameservers
    BY <1>1, <1>7 DEF Whole
  <2>2. answer = Judged(status, {})
    BY <1>2, <1>4, <2>1 DEF ResolverRun, Resolver
  <2>3. status \in {"ok", "warn", "crit"} /\ Worth(w) = Bad("resolvers", status)
    BY <1>6
  <2> HIDE DEF status
  <2> QED BY <1>5, <2>1, <2>2, <2>3, OneJudgementIsRight
<1>8. CASE seen[1] = Torn(Nothing)
  <2>1. ~ AllWhole /\ Got(1) = Nothing
    BY <1>1, <1>8 DEF Torn
  <2>2. answer = Judged("crit", {})
    BY <1>4, <2>1 DEF ResolverRun, Resolver
  <2>3. Final(answer) = "crit"
    BY <2>2, JudgedIs DEF Status
  <2>4. \A x \in Worth(w) : x.status \in {"ok", "warn", "crit"}
    BY <1>6 DEF Bad, Step
  <2> QED BY <1>5, <2>1, <2>3, <2>4, TornIsHeard
<1> QED BY <1>3, <1>7, <1>8

(* A set of places in a list has a last one. *)
LEMMA LastExists ==
  ASSUME NEW n \in Nat, NEW S \in SUBSET (1..n), S # {}
  PROVE  Max(S) \in S /\ Max(S) + 1 \in Int
<1> DEFINE v == [j \in 1..n |-> IF j \in S THEN j ELSE 0]
<1>0. PICK k \in S : k \in 1..n
  OBVIOUS
<1>1. n # 0 /\ \A j \in 1..n : v[j] \in Int
  <2>1. n # 0
    BY <1>0
  <2>2. \A j \in 1..n : v[j] \in Int
    OBVIOUS
  <2> QED BY <2>1, <2>2
<1>2. \A j \in 1..n : (j \in S => v[j] = j) /\ (j \notin S => v[j] = 0)
  OBVIOUS
<1> HIDE DEF v
<1>3. PICK i \in 1..n : \A j \in 1..n : v[j] <= v[i]
  BY <1>1, LargestExists
<1>4. i \in S
  <2>1. v[k] <= v[i] /\ v[k] = k
    BY <1>0, <1>2, <1>3
  <2>2. i \notin S => v[i] = 0
    BY <1>2
  <2> QED BY <1>0, <2>1, <2>2
<1>5. \A j \in S : j <= i
  BY <1>2, <1>3, <1>4
<1>6. Max(S) \in S
  BY <1>4, <1>5 DEF Max
<1> DEFINE m == Max(S)
<1>7. m \in 1..n
  BY <1>6
<1> HIDE DEF m
<1>8. m + 1 \in Int
  BY <1>7
<1> QED BY <1>6, <1>8 DEF m

(* A trace that was cut short says so; one that was not is where it got. *)
LEMMA TraceIsRight ==
  ASSUME Inv, Answered, check = "network.traceroute"
  PROVE  RightAnswer
<1> DEFINE target == TraceTarget
           tool == SelectTraceTool(Got(1))
<1>1. Len(Script) = 2 /\ Script[1] = Ask("tools") /\ Script[2] = Ask("trace")
  BY DEF Script
<1>2. /\ Len(seen) \in Nat /\ DOMAIN seen = 1..Len(seen) /\ Len(seen) <= 2 /\ Settled /\ GoesOn
      /\ policy # Nothing /\ (seen = <<>> => been = {})
  BY <1>1, AnsweredFrom
<1>3. answer = TracerouteRun(target, IF Taken(1) THEN tool ELSE Nothing, Got(2))
  BY AnsweredFrom DEF Run
<1>4. check \notin Finds \union Lists
  BY DEF Finds, Lists
<1>6. CASE target = ""
  <2>1. ~ Taken(1)
    BY <1>2, <1>6 DEF GoesOn
  <2>2. been = {}
    BY <1>2, <2>1 DEF Taken
  <2>3. answer = Bare("skipped")
    BY <1>3, <1>6 DEF TracerouteRun
  <2>4. Final(answer) = "skipped"
    BY <2>3 DEF Final, Bare, Unset
  <2> HIDE DEF target, tool
  <2>5. ~ Owed /\ Final(answer) \notin {"ok", "warn", "crit"}
    BY <2>4 DEF Owed
  <2> QED BY <2>2, <2>5, RightIf
<1>7. CASE target # ""
  <2>1. Len(seen) = 2 \/ (Taken(1) /\ Got(1) = {})
    <3> HIDE DEF tool
    <3> QED BY <1>1, <1>2, <1>7 DEF Settled
  <2>2. Taken(1) /\ (Taken(2) \/ Got(1) = {})
    BY <1>2, <2>1 DEF Taken
  <2>3. PICK v \in been : v \in Hosts(check) /\ seen[1] \in Replies(Ask("tools"), v, seen)
    BY <1>1, <2>2, ReadingIs
  <2>4. seen[1] \in NetReplies("tools", v, seen)
    BY <2>3, RepliesAre DEF Ask, HostAsks, UnitAsks, TreeAsks
  <2>5. seen[1].whole /\ Got(1) = v.tools
    BY <2>2, <2>4 DEF NetReplies, Whole, Got
  <2>6. v.tools \subseteq {"traceroute", "tracepath"}
    BY <2>3 DEF Hosts, DockerChecks, NetChecks, NetFacts
  <2>7. tool # Nothing <=> v.tools # {}
    BY <2>5, <2>6, NothingAssumption DEF SelectTraceTool, Spelled
  <2>8. answer = TracerouteRun(target, tool, Got(2))
    BY <1>3, <2>2
  <2> HIDE DEF tool, target
  <2>9. CASE v.tools = {}
    <3>1. answer = Bare("unavailable")
      BY <1>7, <2>7, <2>8, <2>9 DEF TracerouteRun, Unavailable
    <3> QED BY <3>1, BareIsRight
  <2>10. CASE v.tools # {}
    <3>1. Taken(2)
      BY <2>2, <2>5, <2>10
    <3>2. PICK w \in been : w \in Hosts(check) /\ seen[2] \in Replies(Ask("trace"), w, seen)
      BY <1>1, <3>1, ReadingIs
    <3>3. seen[2] \in NetReplies("trace", w, seen) /\ Got(2) = seen[2].got
      BY <3>1, <3>2, RepliesAre DEF Ask, HostAsks, UnitAsks, TreeAsks, Got
    <3>4. w.tools = v.tools
      BY <2>3, AnsweredFrom DEF Alike, NetChecks
    <3>5. AllWhole <=> seen[2].whole
      BY <1>2, <2>5, <3>1 DEF AllWhole, Taken
    <3> DEFINE ran == Got(2)
               trace == Trace(tool, ran, target)
               steps == {Step(i, hopStatus(trace.hops[i])) : i \in DOMAIN trace.hops}
                          \union (IF trace.error THEN {Unseen} ELSE {})
               status == IF trace.hops = <<>> THEN "crit" ELSE IF trace.reached THEN "ok"
                         ELSE IF StalledAt(trace) # Nothing THEN "warn" ELSE "crit"
    <3>6. answer = Judged(status, steps)
      BY <1>7, <2>7, <2>8, <2>10 DEF TracerouteRun
    <3>7. \/ /\ AllWhole /\ ran.how = "ok" /\ ran.hops = w.hops /\ (ran.resume <=> w.arrives)
             /\ ~ ran.tooMany /\ ~ ran.complained
          \/ ~ AllWhole /\ ran.how = "timeout"
          \/ ~ AllWhole /\ ran.how = "nonzero" /\ ran.hops = <<>> /\ ran.complained
      BY <3>3, <3>5 DEF NetReplies, Whole, Torn
    <3> HIDE DEF ran
    <3>8. CASE ~ AllWhole
      <4>1. trace.error
        BY <3>7, <3>8 DEF Trace
      <4>2. answer.steps = steps
        BY <3>6 DEF Judged
      <4>3. Unseen \in answer.steps
        BY <4>1, <4>2
      <4> QED BY <1>4, <3>8, <4>3, UnseenIsSaid, AdmittedIsRight DEF Owed
    <3>9. CASE AllWhole
      <4>1. trace.hops = w.hops /\ trace.reached = Reached(tool, ran, target)
        BY <3>7, <3>9 DEF Trace
      <4>2. w.arrives <=> ArrivesAt(w, target)
        <5>1. PICK start \in Starts : check = start.check /\ files \in start.files
          BY DEF Inv, Begun
        <5>2. w \in UNION Worlds[check] /\ probes = resolveProbes(files.probes)
          BY <1>2 DEF Inv, Placed, Configured
        <5>3. target = SentTo(files, resolveProbes(files.probes).ladder)
          BY <5>2 DEF target, TraceTarget
        <5> QED BY <1>7, <5>1, <5>2, <5>3, StartsAssumption
      <4>3. w.hops \in Seq([hosts : SUBSET STRING, flags : SUBSET STRING]) /\ w.arrives \in BOOLEAN
        BY <3>2 DEF Hosts, DockerChecks, NetChecks, NetFacts
      <4>4. trace.reached <=> w.arrives
        BY <3>7, <3>9, <4>1, <4>2 DEF Reached, ArrivesAt
      <4> DEFINE answered == {i \in DOMAIN w.hops : Responded(w.hops[i])}
      <4>5. StalledAt(trace) = IF trace.reached \/ answered = {} THEN Nothing ELSE Max(answered) + 1
        <5> HIDE DEF trace
        <5> QED BY <4>1 DEF StalledAt
      <4>6. answered # {} => Max(answered) + 1 # Nothing
        <5>1. Len(w.hops) \in Nat /\ answered \in SUBSET (1..Len(w.hops))
          BY <4>3, ListIs
        <5> HIDE DEF answered
        <5>3. answered # {} => Max(answered) + 1 \in Int
          BY <5>1, LastExists
        <5> QED BY <5>3, ValuesAreSomething
      <4>7. answered # {} <=> \E i \in DOMAIN w.hops : w.hops[i].hosts # {}
        BY DEF Responded
      <4>8. w.hops = <<>> => answered = {} /\ ~ w.arrives
        <5>1. w.hops = <<>> => ~ w.arrives
          BY <4>2 DEF ArrivesAt
        <5>2. w.hops = <<>> => answered = {}
          <6>1. DOMAIN <<>> = {}
            OBVIOUS
          <6> QED BY <6>1
        <5> QED BY <5>1, <5>2
      <4> DEFINE truth == IF w.arrives THEN "ok"
                          ELSE IF \E i \in DOMAIN w.hops : w.hops[i].hosts # {} THEN "warn" ELSE "crit"
      <4> HIDE DEF answered, trace
      <4>9. status = truth
        BY <4>1, <4>4, <4>5, <4>6, <4>7, <4>8
      <4>10. Worth(w) = Bad("trace", truth)
        <5>1. w.tools # {}
          BY <2>10, <3>4
        <5> QED BY <5>1 DEF Worth
      <4>11. truth \in {"ok", "warn", "crit"}
        OBVIOUS
      <4> HIDE DEF status, truth, steps
      <4> QED BY <1>4, <3>6, <3>9, <4>9, <4>10, <4>11, OneJudgementIsRight
    <3> QED BY <3>8, <3>9
  <2> QED BY <2>9, <2>10
<1> QED BY <1>6, <1>7
(* The four checks that probe a list of targets: one that got no answer is  *)
(* critical, so that no answer is never green; one that did is judged by it.*)
ProbeChecks == {"network.ping", "network.dns", "network.https", "network.tcp"}

(* Of a URL with no exchange the check says less than is true. *)
Told(said, true) == said = true \/ (check = "network.https" /\ said = "warn" /\ true = "crit")

(* The four checks that probe a list of targets: as bad as the worst of them.*)
LEMMA ProbesAreRight ==
  ASSUME Inv, Answered, check \in ProbeChecks, NEW targets \in Seq(Texts),
         Len(Script) = Len(targets),
         NEW st, DOMAIN st = DOMAIN seen, answer = ProbesRun(targets, st),
         NEW V, \A w \in been : V[w] \in {"ok", "warn", "crit"} /\ Worth(w) = EachBad(targets, V[w]),
         \A i \in DOMAIN seen : /\ st[i] \in {"ok", "warn", "crit"}
                                /\ ~ seen[i].whole => st[i] = "crit"
                                /\ \E w \in been : seen[i].whole => Told(st[i], V[w])
  PROVE  RightAnswer
<1>1. /\ Len(seen) \in Nat /\ DOMAIN seen = 1..Len(seen) /\ Settled /\ (seen = <<>> => been = {})
  BY AnsweredFrom
<1>2. Len(seen) = Len(targets) /\ DOMAIN targets = DOMAIN seen
  <2>1. Len(seen) = Len(Script)
    BY <1>1 DEF Settled, ProbeChecks
  <2> QED BY <1>1, <2>1, ListIs
<1>3. check \notin Finds \union Lists /\ check # "network.traceroute"
  BY DEF Finds, Lists, ProbeChecks
<1>4. CASE targets = <<>>
  <2>1. Len(seen) = 0
    BY <1>2, <1>4
  <2>2. seen = <<>>
    <3>1. seen \in Seq(Range(seen))
      BY DEF Inv, Asked
    <3> QED BY <2>1, <3>1, ListIs
  <2>3. answer = Bare("skipped")
    BY <1>4 DEF ProbesRun
  <2>4. Final(answer) = "skipped" /\ Named = {}
    BY <2>3 DEF Final, Bare, Unset, Named
  <2> QED BY <1>1, <2>2, <2>4, RightIf
<1>5. CASE targets # <<>>
  <2> DEFINE steps == {Step(targets[i], st[i]) : i \in DOMAIN targets}
             status == tally(st)
  <2>1. answer = Judged(status, steps)
    BY <1>5 DEF ProbesRun
  <2>2. status = IF \E i \in DOMAIN seen : st[i] = "crit" THEN "crit"
                 ELSE IF \E i \in DOMAIN seen : st[i] = "warn" THEN "warn" ELSE "ok"
    BY DEF tally, Status
  <2> HIDE DEF status
  <2>3. /\ status \in Status /\ status \in {"ok", "warn", "crit"}
        /\ status # "ok" => \E i \in DOMAIN seen : st[i] = status
        /\ \A i \in DOMAIN seen : rank(status) >= rank(st[i]) /\ (status = "ok" => st[i] = "ok")
    <3>1. /\ status \in {"ok", "warn", "crit"}
          /\ status # "ok" => \E i \in DOMAIN seen : st[i] = status
          /\ \A i \in DOMAIN seen : (status = "ok" => st[i] = "ok") /\ (status = "warn" => st[i] # "crit")
      BY <2>2
    <3>2. \A i \in DOMAIN seen : rank(status) >= rank(st[i])
      BY <3>1 DEF rank
    <3> QED BY <3>1, <3>2 DEF Status
  <2>4. /\ Final(answer) = status
        /\ Named = {s.about : s \in {t \in steps : check \in Finds \/ t.status \in {"warn", "crit"}}} \ {Nothing}
    BY <2>1, <2>3, JudgedIs
  <2>5. \A w \in been : \A i \in DOMAIN targets :
          V[w] # "ok" => Step(targets[i], V[w]) \in Worth(w)
    <3> SUFFICES ASSUME NEW w \in been, NEW i \in DOMAIN targets, V[w] # "ok"
                 PROVE  Step(targets[i], V[w]) \in EachBad(targets, V[w])
      OBVIOUS
    <3>1. Step(targets[i], V[w]) \in Bad(targets[i], V[w])
      BY DEF Bad
    <3> QED BY <3>1 DEF EachBad
  <2>6. \A w \in been : \A x \in Worth(w) : x.status = V[w] /\ V[w] # "ok"
    <3> SUFFICES ASSUME NEW w \in been, NEW x \in EachBad(targets, V[w])
                 PROVE  x.status = V[w] /\ V[w] # "ok"
      OBVIOUS
    <3>1. PICK i \in DOMAIN targets : x \in Bad(targets[i], V[w])
      BY DEF EachBad
    <3> QED BY <3>1 DEF Bad, Step
  <2>7. \A a, s : Step(a, s).about = a /\ Step(a, s).status = s
    BY DEF Step
  <2>8. Final(answer) = "ok" => AllWhole
    BY <2>3, <2>4 DEF AllWhole
  <2>9. \A x : been # {} /\ (\A w \in been : x \in Worth(w)) => Heard(x)
    <3> SUFFICES ASSUME NEW x, \A w \in been : x \in Worth(w) PROVE Heard(x)
      OBVIOUS
    <3>1. 1 \in DOMAIN seen
      <4>1. Len(targets) # 0
        BY <1>5, ListIs
      <4> QED BY <1>1, <1>2, <4>1
    <3>2. PICK w \in been : seen[1].whole => Told(st[1], V[w])
      BY <3>1
    <3>3. x.status = V[w] /\ V[w] \in {"warn", "crit"}
      BY <2>6
    <3>4. /\ st[1] \in {"ok", "warn", "crit"} /\ rank(status) >= rank(st[1])
          /\ ~ seen[1].whole => st[1] = "crit"
      BY <2>3, <3>1
    <3>5. rank(status) >= rank(V[w]) \/ (check = "network.https" /\ status = "warn")
      <4>1. st[1] = V[w] \/ st[1] = "crit" \/ (check = "network.https" /\ st[1] = "warn")
        BY <3>2, <3>4 DEF Told
      <4> QED BY <2>3, <3>3, <3>4, <4>1 DEF rank
    <3> QED BY <1>3, <2>4, <3>3, <3>5 DEF Heard
  <2>10. AllWhole /\ Final(answer) \in {"warn", "crit"} =>
           \E w \in been : \E x \in Worth(w) : rank(x.status) >= rank(Final(answer))
    <3> SUFFICES ASSUME AllWhole, status \in {"warn", "crit"}
                 PROVE  \E w \in been : \E x \in Worth(w) : rank(x.status) >= rank(status)
      BY <2>4
    <3>1. PICK i \in DOMAIN seen : st[i] = status
      BY <2>3
    <3>2. PICK w \in been : Told(st[i], V[w])
      BY DEF AllWhole
    <3>3. V[w] # "ok" /\ rank(V[w]) >= rank(status)
      BY <3>1, <3>2 DEF Told, rank
    <3>4. Step(targets[i], V[w]) \in Worth(w)
      BY <1>2, <2>5, <3>3
    <3> QED BY <2>7, <3>3, <3>4
  <2>11. AllWhole => Named \subseteq UNION {Abouts(w) : w \in been}
    <3> SUFFICES ASSUME AllWhole, NEW a \in Named PROVE \E w \in been : a \in Abouts(w)
      OBVIOUS
    <3>1. PICK s \in steps : s.status \in {"warn", "crit"} /\ a = s.about
      BY <1>3, <2>4
    <3>2. PICK i \in DOMAIN targets : s = Step(targets[i], st[i])
      OBVIOUS
    <3>3. st[i] \in {"warn", "crit"} /\ a = targets[i] /\ i \in DOMAIN seen
      BY <1>2, <2>7, <3>1, <3>2
    <3>4. PICK w \in been : Told(st[i], V[w])
      BY <3>3 DEF AllWhole
    <3>5. V[w] # "ok"
      BY <3>3, <3>4 DEF Told
    <3>6. Step(targets[i], V[w]) \in Worth(w)
      BY <2>5, <3>5
    <3> QED BY <2>7, <3>3, <3>6 DEF Abouts, ProbeChecks
  <2> QED BY <1>3, <2>8, <2>9, <2>10, <2>11, RightIf DEF Owed
<1> QED BY <1>4, <1>5

(* Each target is asked about in turn, of a world with the facts of a net.  *)
LEMMA EachIsAsked ==
  ASSUME Inv, Answered, check \in ProbeChecks, NEW what \in {"ping", "dns", "curl", "dial"},
         NEW targets \in Seq(Texts), Script = Each(what, targets)
  PROVE  /\ Len(Script) = Len(targets)
         /\ \A w \in been : w \in NetFacts /\ (check = "network.https" => w.curl)
         /\ \A i \in DOMAIN seen : /\ Taken(i) /\ Got(i) = seen[i].got
                                   /\ \E w \in been : seen[i] \in NetReplies(what, w, seen)
<1>1. Len(Script) = Len(targets) /\ \A i \in DOMAIN targets : Script[i] = AskOf(what, targets[i])
  BY ListIs DEF Each
<1>2. ASSUME NEW i \in DOMAIN seen
      PROVE  /\ Taken(i) /\ Got(i) = seen[i].got
             /\ \E w \in been : seen[i] \in NetReplies(what, w, seen)
  <2>1. i \in DOMAIN targets
    <3>1. /\ Len(seen) \in Nat /\ DOMAIN seen = 1..Len(seen) /\ (seen # <<>> => Len(seen) <= Len(Script))
      BY AnsweredFrom
    <3>2. seen # <<>>
      BY <1>2
    <3>3. Len(targets) \in Nat /\ DOMAIN targets = 1..Len(targets)
      BY ListIs
    <3> QED BY <1>1, <3>1, <3>2, <3>3
  <2>2. Taken(i) /\ Got(i) = seen[i].got
    BY <1>2 DEF Taken, Got
  <2>3. PICK w \in been : seen[i] \in Replies(AskOf(what, targets[i]), w, seen)
    BY <1>1, <2>1, <2>2, ReadingIs
  <2>4. seen[i] \in NetReplies(what, w, seen)
    BY <2>3, RepliesAre DEF AskOf, HostAsks, UnitAsks, TreeAsks
  <2> QED BY <2>2, <2>4
<1>3. \A w \in been : w \in NetFacts /\ (check = "network.https" => w.curl)
  <2> TAKE w \in been
  <2>1. w \in Hosts(check) /\ Alike(check, w, w)
    BY AnsweredFrom
  <2>2. w \in NetFacts
    BY <2>1 DEF Hosts, NetChecks, DockerChecks, ProbeChecks
  <2> QED BY <2>1, <2>2 DEF Alike
<1> QED BY <1>1, <1>2, <1>3

(* network.ping: the loss to each target, graded. *)
LEMMA PingIsRight ==
  ASSUME Inv, Answered, check = "network.ping"
  PROVE  RightAnswer
<1> DEFINE targets == probes.targets.ping
           st == [i \in DOMAIN seen |-> PingStatus(Ping(Got(i)))]
           true(w) == IF w.loss = 100 THEN "crit" ELSE IF w.loss > 0 THEN "warn" ELSE "ok"
           V == [w \in been |-> true(w)]
<1>1. targets \in Seq(Texts) /\ Script = Each("ping", targets) /\ check \in ProbeChecks
  BY AnsweredFrom, TargetsAreLists DEF Inv, Targets, Script, ProbeChecks
<1> HIDE DEF targets
<1>2. /\ Len(Script) = Len(targets) /\ \A w \in been : w \in NetFacts
      /\ \A i \in DOMAIN seen : /\ Got(i) = seen[i].got
                                /\ \E w \in been : seen[i] \in NetReplies("ping", w, seen)
  BY <1>1, EachIsAsked
<1>3. answer = ProbesRun(targets, st)
  BY AnsweredFrom DEF Run, targets
<1>4. \A w \in been : V[w] \in {"ok", "warn", "crit"} /\ Worth(w) = EachBad(targets, V[w])
  BY DEF Worth, targets
<1>5. ASSUME NEW i \in DOMAIN seen
      PROVE  /\ st[i] \in {"ok", "warn", "crit"}
             /\ ~ seen[i].whole => st[i] = "crit"
             /\ \E w \in been : seen[i].whole => Told(st[i], V[w])
  <2>1. PICK w \in been : seen[i] \in NetReplies("ping", w, seen)
    BY <1>2
  <2>2. w.loss \in 0..100
    BY <1>2 DEF NetFacts
  <2>3. \/ seen[i].whole /\ Got(i).how \in {"nonzero", "ok"} /\ Got(i).said = w.loss
        \/ ~ seen[i].whole /\ Got(i).how \in {"timeout", "absent"} /\ Got(i).said = Nothing
    BY <1>2, <2>1, PingSays
  <2>4. st[i] = PingStatus(Ping(Got(i))) /\ V[w] = true(w)
    OBVIOUS
  <2>5. w.loss # Nothing
    BY <2>2, ValuesAreSomething
  <2> HIDE DEF st, V
  <2>6. CASE seen[i].whole
    <3>1. Ping(Got(i)) = w.loss
      BY <2>3, <2>6 DEF Ping
    <3>2. st[i] = V[w] /\ st[i] \in {"ok", "warn", "crit"}
      BY <2>2, <2>4, <2>5, <3>1 DEF PingStatus
    <3> QED BY <2>6, <3>2 DEF Told
  <2>7. CASE ~ seen[i].whole
    <3>1. Ping(Got(i)) = Nothing
      BY <2>3, <2>7 DEF Ping
    <3>2. st[i] = "crit"
      BY <2>4, <3>1 DEF PingStatus
    <3> QED BY <2>7, <3>2
  <2> QED BY <2>6, <2>7
<1>6. DOMAIN st = DOMAIN seen
  OBVIOUS
<1> HIDE DEF st, V
<1> QED BY <1>1, <1>2, <1>3, <1>4, <1>5, <1>6, ProbesAreRight

(* network.dns: each name that does not resolve. *)
LEMMA DNSIsRight ==
  ASSUME Inv, Answered, check = "network.dns"
  PROVE  RightAnswer
<1> DEFINE targets == probes.targets.dns
           st == [i \in DOMAIN seen |-> DNSStatus(DNS(Got(i)))]
           true(w) == IF w.resolves THEN "ok" ELSE "crit"
           V == [w \in been |-> true(w)]
<1>1. targets \in Seq(Texts) /\ Script = Each("dns", targets) /\ check \in ProbeChecks
  BY AnsweredFrom, TargetsAreLists DEF Inv, Targets, Script, ProbeChecks
<1> HIDE DEF targets
<1>2. /\ Len(Script) = Len(targets) /\ \A w \in been : w \in NetFacts
      /\ \A i \in DOMAIN seen : /\ Got(i) = seen[i].got
                                /\ \E w \in been : seen[i] \in NetReplies("dns", w, seen)
  BY <1>1, EachIsAsked
<1>3. answer = ProbesRun(targets, st)
  BY AnsweredFrom DEF Run, targets
<1>4. \A w \in been : V[w] \in {"ok", "warn", "crit"} /\ Worth(w) = EachBad(targets, V[w])
  BY DEF Worth, targets
<1>5. ASSUME NEW i \in DOMAIN seen
      PROVE  /\ st[i] \in {"ok", "warn", "crit"}
             /\ ~ seen[i].whole => st[i] = "crit"
             /\ \E w \in been : seen[i].whole => Told(st[i], V[w])
  <2>1. PICK w \in been : seen[i] \in NetReplies("dns", w, seen)
    BY <1>2
  <2>2. \/ seen[i].whole /\ Got(i) = IF w.resolves THEN {"192.0.2.1"} ELSE Nothing
        \/ ~ seen[i].whole /\ Got(i) = Nothing
    BY <1>2, <2>1, DNSSays
  <2>3. st[i] = DNSStatus(DNS(Got(i))) /\ V[w] = true(w)
    OBVIOUS
  <2>4. {"192.0.2.1"} # Nothing
    BY ValuesAreSomething
  <2> HIDE DEF st, V
  <2>5. DNSStatus(DNS(Got(i))) = IF Got(i) # Nothing THEN "ok" ELSE "crit"
    BY DEF DNSStatus, DNS
  <2> QED BY <2>2, <2>3, <2>4, <2>5 DEF Told
<1>6. DOMAIN st = DOMAIN seen
  OBVIOUS
<1> HIDE DEF st, V
<1> QED BY <1>1, <1>2, <1>3, <1>4, <1>5, <1>6, ProbesAreRight

(* network.https: each URL by the answer of its server. *)
LEMMA HTTPSIsRight ==
  ASSUME Inv, Answered, check = "network.https"
  PROVE  RightAnswer
<1> DEFINE targets == probes.targets.http
           st == [i \in DOMAIN seen |-> HTTPSStatus(Curl(Got(i)))]
           true(w) == IF w.code = 0 THEN "crit" ELSE IF w.code >= 400 THEN "warn" ELSE "ok"
           V == [w \in been |-> true(w)]
<1>1. targets \in Seq(Texts) /\ Script = Each("curl", targets) /\ check \in ProbeChecks
  BY AnsweredFrom, TargetsAreLists DEF Inv, Targets, Script, ProbeChecks
<1> HIDE DEF targets
<1>2. /\ Len(Script) = Len(targets) /\ \A w \in been : w \in NetFacts /\ w.curl
      /\ \A i \in DOMAIN seen : /\ Got(i) = seen[i].got
                                /\ \E w \in been : seen[i] \in NetReplies("curl", w, seen)
  BY <1>1, EachIsAsked
<1>3. answer = ProbesRun(targets, st)
  BY AnsweredFrom DEF Run, targets
<1>4. \A w \in been : V[w] \in {"ok", "warn", "crit"} /\ Worth(w) = EachBad(targets, V[w])
  BY DEF Worth, targets
<1>5. ASSUME NEW i \in DOMAIN seen
      PROVE  /\ st[i] \in {"ok", "warn", "crit"}
             /\ ~ seen[i].whole => st[i] = "crit"
             /\ \E w \in been : seen[i].whole => Told(st[i], V[w])
  <2>1. PICK w \in been : seen[i] \in NetReplies("curl", w, seen)
    BY <1>2
  <2>2. w.code \in {0} \union 200..599
    BY <1>2 DEF NetFacts
  <2>3. \/ seen[i].whole /\ Got(i).how \in {"nonzero", "ok"} /\ Got(i).said = w.code
        \/ ~ seen[i].whole /\ Got(i).said = Nothing
    BY <1>2, <2>1, CurlSays
  <2>4. st[i] = HTTPSStatus(Curl(Got(i))) /\ V[w] = true(w)
    OBVIOUS
  <2>5. w.code # Nothing
    BY <2>2, ValuesAreSomething
  <2> HIDE DEF st, V
  <2>6. CASE seen[i].whole
    <3>1. ~ Curl(Got(i)).error /\ Curl(Got(i)).code = w.code
      BY <2>3, <2>5, <2>6 DEF Curl
    <3>2. st[i] = IF w.code \in 200..399 THEN "ok" ELSE "warn"
      BY <2>4, <3>1 DEF HTTPSStatus, CurlOK
    <3>3. V[w] = IF w.code = 0 THEN "crit" ELSE IF w.code >= 400 THEN "warn" ELSE "ok"
      BY <2>4
    <3>4. Told(st[i], V[w])
      BY <2>2, <3>2, <3>3 DEF Told
    <3> QED BY <2>6, <3>2, <3>4
  <2>7. CASE ~ seen[i].whole
    <3>1. st[i] = "crit"
      BY <2>3, <2>4, <2>7 DEF Curl, HTTPSStatus
    <3> QED BY <2>7, <3>1
  <2> QED BY <2>6, <2>7
<1>6. DOMAIN st = DOMAIN seen
  OBVIOUS
<1> HIDE DEF st, V
<1> QED BY <1>1, <1>2, <1>3, <1>4, <1>5, <1>6, ProbesAreRight

(* network.tcp: each port by how it took the dial. *)
LEMMA TCPIsRight ==
  ASSUME Inv, Answered, check = "network.tcp"
  PROVE  RightAnswer
<1> DEFINE targets == probes.targets.tcp
           st == [i \in DOMAIN seen |-> portStatus(Port(Got(i).addresses, Got(i).dial))]
           true(w) == IF ~w.resolves \/ w.dial \notin {"connected", "refused"} THEN "crit"
                      ELSE IF w.dial = "refused" THEN "warn" ELSE "ok"
           V == [w \in been |-> true(w)]
<1>1. targets \in Seq(Texts) /\ Script = Each("dial", targets) /\ check \in ProbeChecks
  BY AnsweredFrom, TargetsAreLists DEF Inv, Targets, Script, ProbeChecks
<1> HIDE DEF targets
<1>2. /\ Len(Script) = Len(targets) /\ \A w \in been : w \in NetFacts
      /\ \A i \in DOMAIN seen : /\ Got(i) = seen[i].got
                                /\ \E w \in been : seen[i] \in NetReplies("dial", w, seen)
  BY <1>1, EachIsAsked
<1>3. answer = ProbesRun(targets, st)
  BY AnsweredFrom DEF Run, targets
<1>4. \A w \in been : V[w] \in {"ok", "warn", "crit"} /\ Worth(w) = EachBad(targets, V[w])
  BY DEF Worth, targets
<1>5. ASSUME NEW i \in DOMAIN seen
      PROVE  /\ st[i] \in {"ok", "warn", "crit"}
             /\ ~ seen[i].whole => st[i] = "crit"
             /\ \E w \in been : seen[i].whole => Told(st[i], V[w])
  <2>1. PICK w \in been : seen[i] \in NetReplies("dial", w, seen)
    BY <1>2
  <2>2. w.dial \in {"connected", "refused", "silent", "late", "noroute", "other"}
    BY <1>2 DEF NetFacts, classifyDial
  <2>3. \/ /\ seen[i].whole /\ Got(i).dial = w.dial
           /\ Got(i).addresses = IF w.resolves THEN {"192.0.2.1"} ELSE Nothing
        \/ ~ seen[i].whole /\ Got(i).addresses = Nothing
    <3> DEFINE found == IF w.resolves THEN {"192.0.2.1"} ELSE Nothing
    <3>1. \/ seen[i] = Whole([addresses |-> found, dial |-> w.dial])
          \/ seen[i] = Torn([addresses |-> Nothing, dial |-> "other"])
      BY <2>1 DEF NetReplies
    <3>2. Got(i) = seen[i].got
      BY <1>2
    <3> HIDE DEF found
    <3>3. CASE seen[i] = Whole([addresses |-> found, dial |-> w.dial])
      BY <3>2, <3>3 DEF Whole, found
    <3>4. CASE seen[i] = Torn([addresses |-> Nothing, dial |-> "other"])
      BY <3>2, <3>4 DEF Torn
    <3> QED BY <3>1, <3>3, <3>4
  <2>4. st[i] = portStatus(Port(Got(i).addresses, Got(i).dial)) /\ V[w] = true(w)
    OBVIOUS
  <2>5. {"192.0.2.1"} # Nothing
    BY ValuesAreSomething
  <2> HIDE DEF st, V
  <2>6. CASE seen[i].whole /\ w.resolves
    <3>1. st[i] = portStatus(classifyDial[w.dial])
      BY <2>3, <2>4, <2>5, <2>6 DEF Port
    <3>2. st[i] = IF w.dial = "connected" THEN "ok" ELSE IF w.dial = "refused" THEN "warn" ELSE "crit"
      BY <2>2, <3>1 DEF portStatus, classifyDial
    <3> QED BY <2>4, <2>6, <3>2 DEF Told
  <2>7. CASE ~ (seen[i].whole /\ w.resolves)
    <3>1. st[i] = "crit"
      BY <2>3, <2>4, <2>7 DEF Port, portStatus
    <3> QED BY <2>4, <2>7, <3>1 DEF Told
  <2> QED BY <2>6, <2>7
<1>6. DOMAIN st = DOMAIN seen
  OBVIOUS
<1> HIDE DEF st, V
<1> QED BY <1>1, <1>2, <1>3, <1>4, <1>5, <1>6, ProbesAreRight
(* network.ladder: a rung that could not be asked is one that failed, and   *)
(* the first that failed is the answer.                                     *)
RungBad(w, i) ==
  CASE i = 1 -> IF Linked(w) THEN "ok" ELSE "crit"
    [] i \in {2, 3} -> IF w.loss = 100 THEN "crit" ELSE "ok"
    [] i = 4 -> IF w.resolves THEN "ok" ELSE "crit"
    [] i = 5 -> IF ~w.curl THEN "warn" ELSE IF w.code = 0 THEN "crit" ELSE "ok"

(* Which rungs of a world are bad, one by one and together. *)
LEMMA RungsAre ==
  ASSUME NEW w
  PROVE  /\ \A i \in 1..5 : RungBad(w, i) \in {"ok", "warn", "crit"}
         /\ \A i \in 1..5 : RungBad(w, i) # "ok" => Step(Rung[i], RungBad(w, i)) \in RungsBad(w)
         /\ \A x \in RungsBad(w) : \E i \in 1..5 :
              RungBad(w, i) # "ok" /\ x.about = Rung[i] /\ x.status = RungBad(w, i)
<1>1. RungsBad(w) = Bad(Rung[1], RungBad(w, 1)) \union Bad(Rung[2], RungBad(w, 2))
                      \union Bad(Rung[3], RungBad(w, 3)) \union Bad(Rung[4], RungBad(w, 4))
                      \union Bad(Rung[5], RungBad(w, 5))
  <2>1. /\ Rung[1] = "link" /\ Rung[2] = "gateway" /\ Rung[3] = "internet" /\ Rung[4] = "dns"
        /\ Rung[5] = "https"
    BY DEF Rung
  <2>2. /\ RungBad(w, 1) = IF Linked(w) THEN "ok" ELSE "crit"
        /\ RungBad(w, 2) = IF w.loss = 100 THEN "crit" ELSE "ok"
        /\ RungBad(w, 3) = IF w.loss = 100 THEN "crit" ELSE "ok"
        /\ RungBad(w, 4) = IF w.resolves THEN "ok" ELSE "crit"
        /\ RungBad(w, 5) = IF ~w.curl THEN "warn" ELSE IF w.code = 0 THEN "crit" ELSE "ok"
    BY DEF RungBad
  <2> QED BY <2>1, <2>2 DEF RungsBad
<1>2. \A i \in 1..5 : i = 1 \/ i = 2 \/ i = 3 \/ i = 4 \/ i = 5
  OBVIOUS
<1>3. \A i \in 1..5 : RungBad(w, i) \in {"ok", "warn", "crit"}
  BY <1>2 DEF RungBad
<1>4. ASSUME NEW i \in 1..5
      PROVE  Bad(Rung[i], RungBad(w, i)) \subseteq RungsBad(w)
  BY <1>1, <1>2
<1>5. \A i \in 1..5 : RungBad(w, i) # "ok" => Step(Rung[i], RungBad(w, i)) \in RungsBad(w)
  BY <1>4 DEF Bad
<1>6. \A x \in RungsBad(w) : \E i \in 1..5 : x \in Bad(Rung[i], RungBad(w, i))
  BY <1>1
<1>7. \A a, s : \A x \in Bad(a, s) : s # "ok" /\ x.about = a /\ x.status = s
  BY DEF Bad, Step
<1> QED BY <1>3, <1>5, <1>6, <1>7

(* What was read of each rung, and of which world. *)
LEMMA RungsAreRead ==
  ASSUME Inv, Answered, check = "network.ladder"
  PROVE  LET n == Len(RungsRead)
             rung == rungs(RungsRead)
         IN  /\ n \in 0..5 /\ DOMAIN rung = 1..5 /\ \A i \in 1..5 : i > n => rung[i] = "skipped"
             /\ Len(seen) = n + 1 \/ (seen = <<>> /\ been = {} /\ n = 0)
             /\ seen # <<>> =>
                  /\ Len(seen) = n + 1 /\ DOMAIN seen = 1..n + 1 /\ seen[1].whole
                  /\ \A w \in been : Got(1) <=> w.curl
             /\ \A i \in 1..n : \E w \in been :
                  /\ rung[i] \in {"failed", "passed", "skipped"}
                  /\ rung[i] = "skipped" => i = 2 /\ rung[1] = "failed"
                  /\ ~ seen[i + 1].whole => rung[i] = "failed"
                  /\ seen[i + 1].whole /\ rung[i] # "skipped" =>
                       (rung[i] = "failed" <=> RungBad(w, i) # "ok")
<1> DEFINE net == IF Taken(2) THEN Network(Got(2)) ELSE Nothing
           gate == IF Taken(3) /\ net # Nothing THEN Ping(Got(3)) ELSE Nothing
           inter == IF Taken(4) THEN Ping(Got(4)) ELSE Nothing
           name == DNS(Got(5))
           page == IF Taken(6) THEN Curl(Got(6)) ELSE Nothing
           all == <<net, gate, inter, name, page>>
           n == Len(RungsRead)
           rung == rungs(RungsRead)
<1>1. RungsRead = SubSeq(all, 1, Len(seen) - 1)
  BY DEF RungsRead
<1> HIDE DEF net, gate, inter, name, page
<1>2. /\ Len(Script) = 6 /\ Script[1] = Ask("look") /\ Script[2] = Ask("route")
      /\ Script[3] = Ask("gateway") /\ Script[4] = Ask("ping") /\ Script[5] = Ask("dns")
      /\ Script[6] = Ask("curl")
  BY DEF Script, LadderScript
<1>3. /\ Len(seen) \in Nat /\ DOMAIN seen = 1..Len(seen) /\ (seen # <<>> => Len(seen) <= 6)
      /\ (seen = <<>> => been = {})
  BY <1>2, AnsweredFrom
<1>4. seen = <<>> <=> Len(seen) = 0
  <2>1. seen \in Seq(Range(seen))
    BY DEF Inv, Asked
  <2> QED BY <2>1, ListIs
<1>5. Len(seen) <= 6
  BY <1>3, <1>4
<1>6. /\ n = IF Len(seen) = 0 THEN 0 ELSE Len(seen) - 1
      /\ \A i \in 1..n : RungsRead[i] = all[i]
  <2>1. Len(all) = 5
    OBVIOUS
  <2>2. all \in Seq({net, gate, inter, name, page})
    OBVIOUS
  <2> HIDE DEF all
  <2> QED BY <1>1, <1>3, <1>5, <2>1, <2>2
<1> DEFINE m == Len(seen)
<1>12. n \in Nat /\ n <= 5 /\ (n > 0 => m = n + 1) /\ (m # 0 => m = n + 1) /\ (m = 0 => n = 0)
  <2>1. n = IF m = 0 THEN 0 ELSE m - 1
    BY <1>6
  <2>2. m \in Nat /\ m <= 6
    BY <1>3, <1>5
  <2> HIDE DEF n, m
  <2> QED BY <2>1, <2>2
<1> HIDE DEF n
<1>7. /\ (1 <= n => RungsRead[1] = net) /\ (2 <= n => RungsRead[2] = gate)
      /\ (3 <= n => RungsRead[3] = inter) /\ (4 <= n => RungsRead[4] = name)
      /\ (5 <= n => RungsRead[5] = page)
  <2> QED BY <1>6, <1>12
<1>8. /\ DOMAIN rung = 1..5 /\ \A i \in 1..5 : i > n => rung[i] = "skipped"
      /\ (1 <= n => rung[1] = linkRung(net)) /\ (2 <= n => rung[2] = gatewayRung(net, gate))
      /\ (3 <= n => rung[3] = pingRung(inter)) /\ (4 <= n => rung[4] = dnsRung(name))
      /\ (5 <= n => rung[5] = httpsRung(page))
  <2>1. Len(Rung) = 5
    BY DEF Rung
  <2>2. /\ DOMAIN rung = 1..5
        /\ \A i \in 1..5 : rung[i] =
             IF i > n THEN "skipped"
             ELSE CASE i = 1 -> linkRung(RungsRead[1])
                    [] i = 2 -> gatewayRung(RungsRead[1], RungsRead[2])
                    [] i = 3 -> pingRung(RungsRead[3])
                    [] i = 4 -> dnsRung(RungsRead[4])
                    [] i = 5 -> httpsRung(RungsRead[5])
    BY <2>1 DEF rungs, n
  <2>3. n \in Nat
    BY <1>12
  <2> HIDE DEF rung
  <2>4. /\ (1 <= n => rung[1] = linkRung(RungsRead[1]))
        /\ (2 <= n => rung[2] = gatewayRung(RungsRead[1], RungsRead[2]))
        /\ (3 <= n => rung[3] = pingRung(RungsRead[3])) /\ (4 <= n => rung[4] = dnsRung(RungsRead[4]))
        /\ (5 <= n => rung[5] = httpsRung(RungsRead[5]))
    BY <2>2, <2>3
  <2> QED BY <1>7, <2>2, <2>3, <2>4
<1>9. ASSUME NEW i \in 1..6, NEW what \in {"look", "route", "gateway", "ping", "dns", "curl"},
             Script[i] = Ask(what), Taken(i)
      PROVE  \E w \in been : w \in NetFacts /\ seen[i] \in NetReplies(what, w, seen) /\ Got(i) = seen[i].got
  <2>1. PICK w \in been : w \in Hosts(check) /\ seen[i] \in Replies(Ask(what), w, seen)
    BY <1>9, ReadingIs
  <2>2. w \in NetFacts
    BY <2>1 DEF Hosts, NetChecks, DockerChecks
  <2>3. seen[i] \in NetReplies(what, w, seen)
    BY <2>1, RepliesAre DEF Ask, HostAsks, UnitAsks, TreeAsks
  <2> QED BY <1>9, <2>2, <2>3 DEF Got
<1> HIDE DEF all
<1>10. \A i \in 1..6 : i <= Len(seen) => Taken(i)
  BY <1>3 DEF Taken
<1>11. Taken(1) => seen[1].whole /\ \A w \in been : Got(1) <=> w.curl
  <2> SUFFICES ASSUME Taken(1) PROVE seen[1].whole /\ \A w \in been : Got(1) <=> w.curl
    OBVIOUS
  <2>1. PICK v \in been : v \in NetFacts /\ seen[1] \in NetReplies("look", v, seen) /\ Got(1) = seen[1].got
    BY <1>2, <1>9
  <2>2. seen[1].whole /\ Got(1) = v.curl
    BY <2>1 DEF NetReplies, Whole
  <2>3. \A w \in been : v.curl = w.curl
    BY AnsweredFrom DEF Alike, NetChecks
  <2> QED BY <2>2, <2>3
<1> DEFINE Good(i, w) == /\ rung[i] \in {"failed", "passed", "skipped"}
                         /\ rung[i] = "skipped" => i = 2 /\ rung[1] = "failed"
                         /\ ~ seen[i + 1].whole => rung[i] = "failed"
                         /\ seen[i + 1].whole /\ rung[i] # "skipped" =>
                              (rung[i] = "failed" <=> RungBad(w, i) # "ok")
<1> HIDE DEF rung
<1>13. 1 <= n => \E w \in been : Good(1, w)
  <2> SUFFICES ASSUME 1 <= n PROVE \E w \in been : Good(1, w)
    OBVIOUS
  <2>1. Taken(2)
    BY <1>10, <1>12
  <2>2. PICK w \in been : w \in NetFacts /\ seen[2] \in NetReplies("route", w, seen) /\ Got(2) = seen[2].got
    BY <1>2, <1>9, <2>1
  <2>3. seen[2].whole /\ (net = Nothing \/ net.operstate = "down" <=> ~ Linked(w))
    BY <2>1, <2>2, RouteIsRead DEF net
  <2>4. rung[1] = IF ~ Linked(w) THEN "failed" ELSE "passed"
    BY <1>8, <2>3 DEF linkRung
  <2>5. RungBad(w, 1) = IF Linked(w) THEN "ok" ELSE "crit"
    BY DEF RungBad
  <2> QED BY <2>3, <2>4, <2>5
<1>14. ASSUME NEW r, NEW w \in NetFacts, r \in NetReplies("ping", w, seen)
       PROVE  /\ pingRung(Ping(r.got)) \in {"failed", "passed"}
              /\ ~ r.whole => pingRung(Ping(r.got)) = "failed"
              /\ r.whole => (pingRung(Ping(r.got)) = "failed" <=> w.loss = 100)
  <2>1. \/ r.whole /\ r.got.how \in {"nonzero", "ok"} /\ r.got.said = w.loss
        \/ ~ r.whole /\ r.got.how \in {"timeout", "absent"} /\ r.got.said = Nothing
    BY <1>14, PingSays
  <2>2. w.loss \in 0..100
    BY DEF NetFacts
  <2>3. w.loss # Nothing
    BY <2>2, ValuesAreSomething
  <2> QED BY <2>1, <2>2, <2>3 DEF Ping, pingRung
<1>15. 2 <= n => \E w \in been : Good(2, w)
  <2> SUFFICES ASSUME 2 <= n PROVE \E w \in been : Good(2, w)
    OBVIOUS
  <2>1. Taken(2) /\ Taken(3)
    BY <1>10, <1>12
  <2>2. PICK w \in been : w \in NetFacts /\ seen[3] \in NetReplies("gateway", w, seen) /\ Got(3) = seen[3].got
    BY <1>2, <1>9, <2>1
  <2>3. net = Network(seen[2].got)
    BY <2>1 DEF net, Got
  <2>4. CASE net = Nothing
    <3>1. seen[3].whole
      BY <2>2, <2>3, <2>4 DEF NetReplies, Whole
    <3>2. rung[1] = "failed" /\ rung[2] = "skipped"
      BY <1>8, <1>12, <2>4 DEF linkRung, gatewayRung
    <3> QED BY <3>1, <3>2
  <2>5. CASE net # Nothing
    <3>1. \/ seen[3].whole /\ Got(3).how = "ok" /\ Got(3).said = w.loss
          \/ ~ seen[3].whole /\ Got(3).how = "failed"
      <4>1. seen[3] \in {Whole(Ends("ok", w.loss)), Torn(Ends("failed", Nothing))}
        BY <2>2, <2>3, <2>5 DEF NetReplies
      <4> QED BY <2>2, <4>1, CarriedIs
    <3>2. w.loss \in 0..100
      BY <2>2 DEF NetFacts
    <3>3. w.loss # Nothing
      BY <3>2, ValuesAreSomething
    <3>4. rung[2] = pingRung(Ping(Got(3)))
      BY <1>8, <2>1, <2>5 DEF gatewayRung, gate
    <3>5. RungBad(w, 2) = IF w.loss = 100 THEN "crit" ELSE "ok"
      BY DEF RungBad
    <3> QED BY <3>1, <3>2, <3>3, <3>4, <3>5 DEF Ping, pingRung
  <2> QED BY <2>4, <2>5
<1>16. 3 <= n => \E w \in been : Good(3, w)
  <2> SUFFICES ASSUME 3 <= n PROVE \E w \in been : Good(3, w)
    OBVIOUS
  <2>1. Taken(4)
    BY <1>10, <1>12
  <2>2. PICK w \in been : w \in NetFacts /\ seen[4] \in NetReplies("ping", w, seen) /\ Got(4) = seen[4].got
    BY <1>2, <1>9, <2>1
  <2>3. rung[3] = pingRung(Ping(seen[4].got))
    BY <1>8, <2>1, <2>2 DEF inter
  <2>4. RungBad(w, 3) = IF w.loss = 100 THEN "crit" ELSE "ok"
    BY DEF RungBad
  <2> QED BY <1>14, <2>2, <2>3, <2>4
<1>17. 4 <= n => \E w \in been : Good(4, w)
  <2> SUFFICES ASSUME 4 <= n PROVE \E w \in been : Good(4, w)
    OBVIOUS
  <2>1. Taken(5)
    BY <1>10, <1>12
  <2>2. PICK w \in been : w \in NetFacts /\ seen[5] \in NetReplies("dns", w, seen) /\ Got(5) = seen[5].got
    BY <1>2, <1>9, <2>1
  <2>3. \/ seen[5].whole /\ Got(5) = IF w.resolves THEN {"192.0.2.1"} ELSE Nothing
        \/ ~ seen[5].whole /\ Got(5) = Nothing
    BY <2>2, DNSSays
  <2>4. rung[4] = IF Got(5) # Nothing THEN "passed" ELSE "failed"
    BY <1>8 DEF dnsRung, DNS, name
  <2>5. RungBad(w, 4) = IF w.resolves THEN "ok" ELSE "crit"
    BY DEF RungBad
  <2>6. {"192.0.2.1"} # Nothing
    BY ValuesAreSomething
  <2> QED BY <2>3, <2>4, <2>5, <2>6
<1>18. 5 <= n => \E w \in been : Good(5, w)
  <2> SUFFICES ASSUME 5 <= n PROVE \E w \in been : Good(5, w)
    OBVIOUS
  <2>1. Taken(6)
    BY <1>10, <1>12
  <2>2. PICK w \in been : w \in NetFacts /\ seen[6] \in NetReplies("curl", w, seen) /\ Got(6) = seen[6].got
    BY <1>2, <1>9, <2>1
  <2>3. \/ seen[6].whole /\ ~ w.curl /\ Got(6).how = "absent"
        \/ /\ seen[6].whole /\ w.curl /\ Got(6).how \in {"nonzero", "ok"} /\ Got(6).said = w.code
        \/ ~ seen[6].whole /\ Got(6).said = Nothing
    BY <2>2, CurlSays
  <2>4. w.code \in {0} \union 200..599
    BY <2>2 DEF NetFacts
  <2>5. w.code # Nothing
    <3>1. w.code \in Int
      BY <2>4
    <3> QED BY <3>1, ValuesAreSomething
  <2>6. rung[5] = httpsRung(Curl(Got(6)))
    BY <1>8, <2>1 DEF page
  <2>7. RungBad(w, 5) = IF ~w.curl THEN "warn" ELSE IF w.code = 0 THEN "crit" ELSE "ok"
    BY DEF RungBad
  <2>8. rung[5] = IF Got(6).how \in {"absent", "failed", "timeout"} \/ Got(6).said = Nothing \/ Got(6).said = 0
                    THEN "failed" ELSE "passed"
    BY <2>6 DEF httpsRung, Curl
  <2> QED BY <2>3, <2>5, <2>7, <2>8
<1>19. \A i \in 1..n : \E w \in been : Good(i, w)
  <2> SUFFICES ASSUME NEW i \in 1..n PROVE \E w \in been : Good(i, w)
    OBVIOUS
  <2>1. i = 1 \/ i = 2 \/ i = 3 \/ i = 4 \/ i = 5
    BY <1>12
  <2> QED BY <1>12, <1>13, <1>15, <1>16, <1>17, <1>18, <2>1
<1>20. seen # <<>> => Len(seen) = n + 1 /\ DOMAIN seen = 1..n + 1 /\ Taken(1)
  <2> SUFFICES ASSUME seen # <<>> PROVE Len(seen) = n + 1 /\ DOMAIN seen = 1..n + 1 /\ Taken(1)
    OBVIOUS
  <2>1. Len(seen) # 0 /\ Len(seen) = n + 1
    BY <1>4, <1>12
  <2>2. DOMAIN seen = 1..n + 1
    BY <1>3, <2>1
  <2>3. Taken(1)
    BY <1>12, <2>2 DEF Taken
  <2> QED BY <2>1, <2>2, <2>3
<1>21. seen = <<>> => been = {} /\ n = 0
  BY <1>3, <1>4, <1>12
<1>22. n \in 0..5 /\ (Len(seen) = n + 1 \/ (seen = <<>> /\ been = {} /\ n = 0))
  BY <1>4, <1>12, <1>20, <1>21
<1> QED BY <1>8, <1>11, <1>19, <1>20, <1>22 DEF n, rung
(* What a ladder's answer is, of the rungs it climbed. *)
LEMMA LadderIs ==
  ASSUME Inv, Answered, check = "network.ladder"
  PROVE  LET n      == Len(RungsRead)
             rung   == rungs(RungsRead)
             failed == {i \in 1..5 : rung[i] = "failed"}
             noCurl == Taken(1) /\ ~Got(1)
         IN  \E status \in {"ok", "warn", "crit"} : \E steps :
               /\ answer = Judged(status, steps)
               /\ \A s \in steps : s.status \in {"warn", "crit"} =>
                    \E i \in 1..n : rung[i] = "failed" /\ s.about = Rung[i]
               /\ failed = {} /\ n = 5 => status = "ok"
               /\ failed # {} =>
                    \E i \in failed : /\ \A j \in failed : i <= j
                                      /\ status = IF i = 5 /\ noCurl THEN "warn" ELSE "crit"
<1> DEFINE n == Len(RungsRead)
           rung == rungs(RungsRead)
           failed == {i \in 1..5 : rung[i] = "failed"}
           noCurl == Taken(1) /\ ~Got(1)
           failure == FirstFailure(rung)
           ran == Cardinality({i \in DOMAIN rung : rung[i] # "skipped"})
           status == IF failure = "https" /\ noCurl THEN "warn"
                     ELSE IF failure # Nothing THEN "crit" ELSE IF ran < 5 THEN "warn" ELSE "ok"
           steps == {Step(Rung[i], rungStatus(rung[i], noCurl /\ Rung[i] = "https")) :
                       i \in {j \in DOMAIN rung : j <= n}}
<1>1. answer = LadderRun(noCurl, RungsRead)
  BY AnsweredFrom DEF Run
<1>2. Len(Rung) = 5
  BY DEF Rung
<1>3. /\ n \in 0..5 /\ DOMAIN rung = 1..5 /\ \A i \in 1..5 : i > n => rung[i] = "skipped"
      /\ \A i \in 1..n : /\ rung[i] \in {"failed", "passed", "skipped"}
                         /\ rung[i] = "skipped" => i = 2 /\ rung[1] = "failed"
  BY RungsAreRead
<1> HIDE DEF rung, n, noCurl
<1>4. answer = Judged(status, steps)
  BY <1>1, <1>2 DEF LadderRun, rung, n
<1>5. failure = IF failed = {} THEN Nothing ELSE Rung[Min(failed)]
  BY <1>3 DEF FirstFailure
<1>6. \A i \in 1..5 : Rung[i] # Nothing /\ (Rung[i] = "https" <=> i = 5)
  <2>1. /\ Rung[1] = "link" /\ Rung[2] = "gateway" /\ Rung[3] = "internet" /\ Rung[4] = "dns"
        /\ Rung[5] = "https"
    BY DEF Rung
  <2>2. \A i \in 1..5 : i = 1 \/ i = 2 \/ i = 3 \/ i = 4 \/ i = 5
    OBVIOUS
  <2> QED BY <2>1, <2>2, NothingAssumption DEF Spelled
<1>7. failed = {} /\ n = 5 => status = "ok"
  <2> SUFFICES ASSUME failed = {}, n = 5 PROVE status = "ok"
    OBVIOUS
  <2>1. {i \in DOMAIN rung : rung[i] # "skipped"} = 1..5
    BY <1>3
  <2>2. Cardinality(1..5) = 5
    <3> HIDE DEF failed, noCurl
    <3>1. \A a, b \in Int : Cardinality(a..b) = IF a > b THEN 0 ELSE b - a + 1
      BY FS_Interval
    <3>2. \A b \in Int : Cardinality(1..b) = IF 1 > b THEN 0 ELSE b - 1 + 1
      BY <3>1
    <3> QED BY <3>2
  <2>3. ran = 5
    BY <2>1, <2>2
  <2>4. failure = Nothing /\ Nothing # "https"
    BY <1>5, NothingAssumption DEF Spelled
  <2> HIDE DEF ran, failure
  <2> QED BY <2>3, <2>4
<1>8. failed # {} =>
        \E i \in failed : /\ \A j \in failed : i <= j
                          /\ status = IF i = 5 /\ noCurl THEN "warn" ELSE "crit"
  <2> SUFFICES ASSUME failed # {}
               PROVE  \E i \in failed : /\ \A j \in failed : i <= j
                                        /\ status = IF i = 5 /\ noCurl THEN "warn" ELSE "crit"
    OBVIOUS
  <2> DEFINE i == Min(failed)
  <2>1. i \in failed /\ \A j \in failed : i <= j
    <3>1. failed \in SUBSET Nat
      OBVIOUS
    <3> HIDE DEF failed
    <3>2. \E x \in failed : \A y \in failed : x <= y
      BY <3>1, LeastExists
    <3> QED BY <3>2 DEF Min
  <2>2. failure = Rung[i] /\ i \in 1..5
    BY <1>5, <2>1
  <2> HIDE DEF i, failure
  <2>3. status = IF i = 5 /\ noCurl THEN "warn" ELSE "crit"
    BY <1>6, <2>2
  <2> QED BY <2>1, <2>3
<1>9. ASSUME NEW s \in steps, s.status \in {"warn", "crit"}
      PROVE  \E i \in 1..n : rung[i] = "failed" /\ s.about = Rung[i]
  <2>1. PICK i \in DOMAIN rung : i <= n /\ s = Step(Rung[i], rungStatus(rung[i], noCurl /\ Rung[i] = "https"))
    OBVIOUS
  <2>2. i \in 1..n /\ s.about = Rung[i] /\ s.status = rungStatus(rung[i], noCurl /\ Rung[i] = "https")
    BY <1>3, <2>1 DEF Step
  <2>3. rung[i] \in {"failed", "passed", "skipped"}
    BY <1>3, <2>2
  <2>4. rung[i] = "failed"
    BY <1>9, <2>2, <2>3 DEF rungStatus
  <2> QED BY <2>2, <2>4
<1>10. status \in {"ok", "warn", "crit"}
  OBVIOUS
<1> HIDE DEF status, steps, failed
<1> QED BY <1>4, <1>7, <1>8, <1>9, <1>10 DEF n, rung, noCurl, failed

(* network.ladder: the first rung that fails is the one that is named. *)
LEMMA LadderIsRight ==
  ASSUME Inv, Answered, check = "network.ladder"
  PROVE  RightAnswer
<1> DEFINE n == Len(RungsRead)
           rung == rungs(RungsRead)
           failed == {i \in 1..5 : rung[i] = "failed"}
           noCurl == Taken(1) /\ ~Got(1)
           IsIt(status, steps) ==
             /\ answer = Judged(status, steps)
             /\ \A s \in steps : s.status \in {"warn", "crit"} =>
                  \E i \in 1..n : rung[i] = "failed" /\ s.about = Rung[i]
             /\ failed = {} /\ n = 5 => status = "ok"
             /\ failed # {} =>
                  \E i \in failed : /\ \A j \in failed : i <= j
                                    /\ status = IF i = 5 /\ noCurl THEN "warn" ELSE "crit"
<1>0. PICK status \in {"ok", "warn", "crit"} : \E steps : IsIt(status, steps)
  BY LadderIs
<1>1. PICK steps : IsIt(status, steps)
  BY <1>0
<1>2. /\ n \in 0..5 /\ \A i \in 1..5 : i > n => rung[i] = "skipped"
      /\ Len(seen) = n + 1 \/ (seen = <<>> /\ been = {} /\ n = 0)
      /\ seen # <<>> =>
           /\ Len(seen) = n + 1 /\ DOMAIN seen = 1..n + 1 /\ seen[1].whole
           /\ \A w \in been : Got(1) <=> w.curl
      /\ \A i \in 1..n : \E w \in been :
           /\ rung[i] \in {"failed", "passed", "skipped"}
           /\ rung[i] = "skipped" => i = 2 /\ rung[1] = "failed"
           /\ ~ seen[i + 1].whole => rung[i] = "failed"
           /\ seen[i + 1].whole /\ rung[i] # "skipped" =>
                (rung[i] = "failed" <=> RungBad(w, i) # "ok")
  BY RungsAreRead
<1>3. /\ Final(answer) = status
      /\ Named = {s.about : s \in {t \in steps : check \in Finds \/ t.status \in {"warn", "crit"}}} \ {Nothing}
  BY <1>1, JudgedIs DEF Status
<1>4. check \notin Finds \union Lists /\ \A w : Worth(w) = RungsBad(w)
  BY DEF Finds, Lists, Worth
<1> HIDE DEF rung, n
<1>5. AllWhole => \A i \in 1..n : seen[i + 1].whole
  <2> SUFFICES ASSUME AllWhole, NEW i \in 1..n PROVE seen[i + 1].whole
    OBVIOUS
  <2>1. Len(seen) = n + 1 /\ n > 0
    BY <1>2
  <2>2. DOMAIN seen = 1..n + 1
    BY <2>1, AnsweredFrom
  <2> QED BY <1>2, <2>2 DEF AllWhole
<1>6. Owed => Named \subseteq UNION {Abouts(w) : w \in been}
  <2> SUFFICES ASSUME AllWhole, NEW a \in Named PROVE \E w \in been : a \in Abouts(w)
    BY <1>4 DEF Owed
  <2>1. PICK s \in steps : s.status \in {"warn", "crit"} /\ a = s.about
    BY <1>3, <1>4
  <2>2. PICK i \in 1..n : rung[i] = "failed" /\ a = Rung[i]
    BY <1>1, <2>1
  <2>3. PICK w \in been : RungBad(w, i) # "ok"
    BY <1>2, <1>5, <2>2
  <2>4. Step(Rung[i], RungBad(w, i)) \in Worth(w)
    BY <1>2, <1>4, <2>3, RungsAre
  <2>5. a \in Abouts(w)
    BY <2>2, <2>4 DEF Abouts, Step
  <2> QED BY <2>5
<1>7. CASE expired
  BY <1>6, <1>7, RightIf
<1>8. CASE ~expired
  <2>1. n = 5 /\ seen # <<>>
    <3>1. Len(Script) = 6
      BY DEF Script, LadderScript
    <3>2. Len(seen) = 6
      BY <1>8, <3>1, AnsweredFrom DEF Settled
    <3>3. seen # <<>>
      BY <3>2
    <3> QED BY <1>2, <3>2, <3>3
  <2>2. /\ DOMAIN seen = 1..6 /\ Taken(1) /\ seen[1].whole /\ \A w \in been : ~noCurl <=> w.curl
    <3>1. DOMAIN seen = 1..6 /\ seen[1].whole /\ \A w \in been : Got(1) <=> w.curl
      BY <1>2, <2>1
    <3> QED BY <3>1 DEF Taken
  <2>3. \A i \in 1..5 : i \in 1..n /\ i + 1 \in 1..6
    BY <2>1
  <2>4. \A w, i : i \in 1..5 => /\ i # 5 => RungBad(w, i) # "warn"
                                /\ i = 5 => (w.curl => RungBad(w, i) # "warn")
                                /\ i = 5 => (~w.curl => RungBad(w, i) = "warn")
    <3>1. \A i \in 1..5 : i = 1 \/ i = 2 \/ i = 3 \/ i = 4 \/ i = 5
      OBVIOUS
    <3> QED BY <3>1 DEF RungBad
  <2>5. rank("ok") = 0 /\ rank("warn") = 3 /\ rank("crit") = 5
    BY DEF rank
  <2> HIDE DEF noCurl
  <2>6. Final(answer) = "ok" => AllWhole
    <3> SUFFICES ASSUME status = "ok" PROVE AllWhole
      BY <1>3
    <3>1. failed = {}
      BY <1>1
    <3>2. \A i \in 1..5 : seen[i + 1].whole
      BY <1>2, <2>3, <3>1
    <3>3. \A k \in 1..6 : k = 1 \/ (k - 1 \in 1..5 /\ k = (k - 1) + 1)
      OBVIOUS
    <3> QED BY <2>2, <3>2, <3>3 DEF AllWhole
  <2>7. ASSUME been # {}, NEW x, \A w \in been : x \in Worth(w)
        PROVE  Heard(x)
    <3>1. PICK v \in been : TRUE
      BY <2>7
    <3>2. PICK i \in 1..5 : x.about = Rung[i] /\ x.status = RungBad(v, i) /\ x.status # "ok"
      BY <1>4, <2>7, <3>1, RungsAre
    <3>3. PICK w \in been :
             /\ rung[i] \in {"failed", "passed", "skipped"}
             /\ rung[i] = "skipped" => i = 2 /\ rung[1] = "failed"
             /\ ~ seen[i + 1].whole => rung[i] = "failed"
             /\ seen[i + 1].whole /\ rung[i] # "skipped" =>
                  (rung[i] = "failed" <=> RungBad(w, i) # "ok")
      BY <1>2, <2>3
    <3>4. PICK j \in 1..5 : RungBad(w, j) # "ok" /\ x.about = Rung[j] /\ x.status = RungBad(w, j)
      BY <1>4, <2>7, <3>3, RungsAre
    <3>5. j = i
      <4>1. /\ Rung[1] = "link" /\ Rung[2] = "gateway" /\ Rung[3] = "internet" /\ Rung[4] = "dns"
            /\ Rung[5] = "https"
        BY DEF Rung
      <4>2. \A k \in 1..5 : k = 1 \/ k = 2 \/ k = 3 \/ k = 4 \/ k = 5
        OBVIOUS
      <4> QED BY <3>2, <3>4, <4>1, <4>2
    <3>6. rung[i] = "failed" \/ (i = 2 /\ rung[1] = "failed")
      BY <3>3, <3>4, <3>5
    <3>7. failed # {}
      BY <3>6
    <3>8. PICK m \in failed : /\ \A k \in failed : m <= k
                              /\ status = IF m = 5 /\ noCurl THEN "warn" ELSE "crit"
      BY <1>1, <3>7
    <3>9. x.status \in {"warn", "crit"}
      BY <3>4, RungsAre
    <3>10. m = 5 => i = 5
      BY <3>6, <3>8
    <3>11. m = 5 /\ noCurl => x.status = "warn"
      BY <2>2, <2>4, <3>4, <3>5, <3>10
    <3>12. rank(status) >= rank(x.status)
      BY <2>5, <3>8, <3>9, <3>11
    <3> QED BY <1>3, <1>4, <3>12 DEF Heard
  <2>8. ASSUME AllWhole, Final(answer) \in {"warn", "crit"}
        PROVE  \E w \in been : \E x \in Worth(w) : rank(x.status) >= rank(Final(answer))
    <3>1. failed # {}
      BY <1>1, <1>3, <2>1, <2>8
    <3>2. PICK m \in failed : status = IF m = 5 /\ noCurl THEN "warn" ELSE "crit"
      BY <1>1, <3>1
    <3>3. m \in 1..5 /\ m \in 1..n /\ rung[m] = "failed" /\ seen[m + 1].whole
      BY <1>5, <2>3, <2>8
    <3>4. PICK w \in been : RungBad(w, m) # "ok"
      BY <1>2, <3>3
    <3>5. Step(Rung[m], RungBad(w, m)) \in Worth(w) /\ RungBad(w, m) \in {"warn", "crit"}
      BY <1>4, <3>3, <3>4, RungsAre
    <3>6. ~ (m = 5 /\ noCurl) => RungBad(w, m) = "crit"
      BY <2>2, <2>4, <3>3, <3>5
    <3>7. Step(Rung[m], RungBad(w, m)).status = RungBad(w, m)
      BY DEF Step
    <3>8. rank(RungBad(w, m)) >= rank(status)
      BY <2>5, <3>2, <3>5, <3>6
    <3> QED BY <1>3, <3>5, <3>7, <3>8
  <2> QED BY <1>6, <1>8, <2>6, <2>7, <2>8, RightIf
<1> QED BY <1>7, <1>8
(* A list of which nothing is dropped is kept as it is. *)
LEMMA AllAreKept ==
  ASSUME NEW T, NEW seq \in Seq(T), NEW keep, \A i \in 1..Len(seq) : seq[i] \in keep
  PROVE  Len(Kept(seq, keep)) = Len(seq) /\ \A i \in 1..Len(seq) : Kept(seq, keep)[i] = seq[i]
BY KeptAre DEF Collected

UnitFacts == [id : STRING, owner : STRING \union {Nothing}]

(* The failed units, as they are listed. *)
LEMMA UnitsAreListed ==
  ASSUME NEW units \in Seq(UnitFacts)
  PROVE  LET rows == ParseFailedUnits(UnitRows(units))
         IN  /\ Len(rows) = Len(units) /\ DOMAIN rows = 1..Len(units)
             /\ \A i \in 1..Len(units) : rows[i].id = units[i].id /\ units[i].id \in STRING
             /\ UnitRows(units) = <<>> <=> units = <<>>
             /\ rows = <<>> <=> units = <<>>
<1> DEFINE n == Len(units)
           said == UnitRows(units)
           keep == {r \in Range(said) : r.fields >= 4}
           rows == ParseFailedUnits(said)
           Row == [id : STRING, fields : {4}]
<1>1. n \in Nat /\ DOMAIN units = 1..n /\ \A i \in 1..n : units[i] \in UnitFacts
  BY ListIs
<1>2. \A i \in 1..n : units[i].id \in STRING
  BY <1>1 DEF UnitFacts
<1>3. said = [i \in 1..n |-> [id |-> units[i].id, fields |-> 4]]
  BY <1>1 DEF UnitRows
<1>4. \A i \in 1..n : said[i] \in Row /\ said[i].id = units[i].id /\ said[i].fields = 4
  BY <1>2, <1>3
<1>5. DOMAIN said = 1..n
  BY <1>3
<1> HIDE DEF said, Row
<1>6. said \in Seq(Row) /\ Len(said) = n
  <2> HIDE DEF n
  <2>1. said = [i \in 1..n |-> said[i]]
    BY <1>3
  <2> QED BY <1>1, <1>4, <2>1
<1>7. \A i \in 1..n : said[i] \in keep
  BY <1>4, <1>5 DEF Range
<1>8. rows = Kept(said, keep)
  BY DEF ParseFailedUnits
<1> HIDE DEF keep, rows
<1>9. Len(rows) = n /\ \A i \in 1..n : rows[i] = said[i]
  BY <1>6, <1>7, <1>8, AllAreKept
<1>10. rows \in Seq(Row)
  BY <1>6, <1>8, KeptIsOf
<1>11. DOMAIN rows = 1..n /\ (rows = <<>> <=> units = <<>>) /\ (said = <<>> <=> units = <<>>)
  BY <1>6, <1>9, <1>10, ListIs
<1> QED BY <1>2, <1>4, <1>9, <1>11 DEF rows, said

(* Owners that did not come, or not for every unit, are missed. *)
LEMMA OwnersAreMissed ==
  ASSUME NEW rows, Len(rows) \in Nat \ {0}, DOMAIN rows = 1..Len(rows), NEW w, NEW show,
         LET says == [i \in DOMAIN rows |-> OwnerOf(rows[i], w)]
         IN  show = Shown("failed", <<>>) \/ show = Shown("ok", Tail(says))
  PROVE  OwnersLost(rows, show)
<1> DEFINE n == Len(rows)
           says == [i \in DOMAIN rows |-> OwnerOf(rows[i], w)]
           T == {OwnerOf(rows[i], w) : i \in DOMAIN rows}
<1>1. CASE show = Shown("failed", <<>>)
  BY <1>1 DEF OwnersLost, Shown
<1>2. CASE show = Shown("ok", Tail(says))
  <2>1. says \in Seq(T) /\ Len(says) = n
    <3> HIDE DEF n
    <3>1. says = [i \in 1..n |-> OwnerOf(rows[i], w)] /\ \A i \in 1..n : OwnerOf(rows[i], w) \in T
      BY DEF n
    <3> QED BY <3>1 DEF n
  <2> HIDE DEF says, T
  <2>2. Tail(says) \in Seq(T) /\ Len(Tail(says)) = n - 1
    BY <2>1
  <2> DEFINE blocks == Tail(says)
             kept == Kept(blocks, Range(blocks) \ {Nothing})
  <2> HIDE DEF blocks
  <2>3. kept \in Seq(T) /\ Len(kept) \in Nat /\ Len(kept) <= n - 1
    BY <2>2, KeptIsOf DEF blocks
  <2> HIDE DEF kept
  <2> DEFINE told == ParseShowUser(blocks)
             owner(x) == [owner |-> IF x = "" THEN "root" ELSE x]
             m == Len(kept)
  <2>4. told = [i \in 1..m |-> owner(kept[i])]
    BY <2>3, ListIs DEF ParseShowUser, kept
  <2>5. m \in Nat
    BY <2>3
  <2> HIDE DEF told, owner, m
  <2>6. Len(told) = m
    BY <2>4, <2>5
  <2>7. Len(told) # n
    <3> HIDE DEF n
    <3>1. m <= n - 1 /\ n \in Nat
      BY <2>3 DEF m, n
    <3> QED BY <2>5, <2>6, <3>1
  <2>8. show.how = "ok" /\ show.blocks = blocks
    BY <1>2 DEF Shown, blocks
  <2> QED BY <2>7, <2>8 DEF OwnersLost, told
<1> QED BY <1>1, <1>2

(* services.failed: what is listed is what failed; of the owners, what is   *)
(* missed is said.                                                          *)
LEMMA FailedIsRight ==
  ASSUME Inv, Answered, check = "services.failed"
  PROVE  RightAnswer
<1> DEFINE id == "services.failed"
           about == "failed units"
<1>1. Len(Script) = 2 /\ Script[1] = Ask("units") /\ Script[2] = Ask("owners")
  BY DEF Script
<1>2. /\ Len(seen) \in Nat /\ DOMAIN seen = 1..Len(seen) /\ Len(seen) <= 2 /\ Settled /\ GoesOn
  BY <1>1, AnsweredFrom
<1>3. Taken(1) /\ (Taken(2) \/ Got(1).how # "ok" \/ Got(1).rows = <<>>)
  BY <1>1, <1>2 DEF Settled, Taken
<1>4. PICK w \in been : w \in Hosts(check) /\ seen[1] \in Replies(Ask("units"), w, seen)
  BY <1>1, <1>3, ReadingIs
<1>5. w.units \in Seq(UnitFacts)
  BY <1>4 DEF Hosts, DockerChecks, NetChecks, UnitFacts
<1>6. \/ seen[1].whole /\ Got(1).how = "ok" /\ Got(1).rows = UnitRows(w.units)
      \/ Got(1).how \in {"absent", "failed", "nonzero"}
  <2>1. seen[1] \in UnitReplies("units", w, seen) /\ Got(1) = seen[1].got
    BY <1>3, <1>4, RepliesAre DEF Ask, UnitAsks, Got
  <2>2. seen[1] \in PrintsOrNothing(UnitRows(w.units))
    BY <2>1 DEF UnitReplies
  <2> QED BY <2>1, <2>2, PrintedIs
<1>7. answer = FailedRun(policy.set, Got(1), Got(2))
  BY AnsweredFrom DEF Run
<1>8. CASE id \notin DOMAIN policy.set \/ Got(1).how \in {"absent", "failed", "nonzero"}
  <2>1. answer \in {Bare("error"), Bare("unavailable")}
    BY <1>7, <1>8 DEF FailedRun, GradedBy, NotRun, Unavailable
  <2> QED BY <2>1, BareIsRight
<1>9. CASE /\ id \in DOMAIN policy.set /\ seen[1].whole /\ Got(1).how = "ok"
           /\ Got(1).rows = UnitRows(w.units)
  <2> DEFINE n == Len(w.units)
             rows == ParseFailedUnits(Got(1).rows)
             lost == OwnersLost(rows, Got(2))
             steps == {StepOf(rows[i], "warn") : i \in DOMAIN rows}
                        \union (IF lost THEN {Unseen} ELSE {})
  <2>1. /\ Len(rows) = n /\ DOMAIN rows = 1..n /\ n \in Nat
        /\ \A i \in 1..n : rows[i].id = w.units[i].id /\ w.units[i].id \in STRING
        /\ Got(1).rows = <<>> <=> w.units = <<>>
        /\ rows = <<>> <=> w.units = <<>>
        /\ DOMAIN w.units = 1..n /\ (n = 0 <=> w.units = <<>>)
    <3>1. n \in Nat /\ DOMAIN w.units = 1..n /\ (w.units = <<>> <=> n = 0)
      BY <1>5, ListIs
    <3> QED BY <1>5, <1>9, <3>1, UnitsAreListed
  <2> HIDE DEF rows, lost
  <2>2. answer = IF rows = <<>> THEN Judged("ok", {})
                 ELSE Graded(Check(policy.set, id, n, about), steps)
    BY <1>7, <1>9, <2>1 DEF FailedRun, GradedBy, rows, lost
  <2>3. CASE w.units = <<>>
    <3>1. answer = Judged("ok", {})
      BY <2>1, <2>2, <2>3
    <3>2. Worth(w) = {} /\ check \notin Finds
      BY <2>3 DEF Worth, Finds
    <3>3. ~ Taken(2)
      BY <1>2, <2>1, <2>3 DEF GoesOn
    <3>4. AllWhole
      BY <1>2, <1>9, <3>3 DEF AllWhole, Taken
    <3>5. Final(answer) = "ok" /\ answer.trips = {} /\ answer.steps = {}
      BY <3>1, JudgedIs DEF Status, Judged
    <3> QED BY <3>2, <3>4, <3>5, NothingIsWrong
  <2>4. CASE w.units # <<>>
    <3> DEFINE g == Grade(policy.set[id], n)
    <3>1. answer = Graded(Check(policy.set, id, n, about), steps)
      BY <2>1, <2>2, <2>4
    <3>2. /\ g \in {"ok", "warn", "crit"} /\ Final(answer) = g /\ answer.steps = steps
          /\ {t.subject : t \in answer.trips} = IF g = "ok" THEN {} ELSE {about}
      <4> HIDE DEF steps, id, about
      <4> QED BY <3>1, GradeIsFinal
    <3>3. Worth(w) = GradedBad(id, n, about) \union {Step(w.units[i].id, "ok") : i \in DOMAIN w.units}
      BY <2>4 DEF Worth
    <3>4. GradedBad(id, n, about) = IF g = "ok" THEN {} ELSE {Step(about, g)}
      BY <1>9 DEF GradedBad, SetGrade, Bad
    <3>5. Taken(2)
      BY <1>3, <1>9, <2>1, <2>4
    <3>6. PICK v \in been : seen[2] \in Replies(Ask("owners"), v, seen)
      BY <1>1, <3>5, ReadingIs
    <3>7. ~ AllWhole => lost
      <4>1. seen[2] \in UnitReplies("owners", v, seen) /\ Got(2) = seen[2].got /\ Got(1) = seen[1].got
        BY <1>3, <3>5, <3>6, RepliesAre DEF Ask, UnitAsks, Got
      <4> DEFINE says == [i \in DOMAIN rows |-> OwnerOf(rows[i], v)]
      <4>2. seen[2] \in {Whole(Shown("ok", says)), Torn(Shown("failed", <<>>)),
                         Torn(Shown("ok", Tail(says)))}
        BY <4>1 DEF UnitReplies, rows
      <4> HIDE DEF says
      <4>3. ~ seen[2].whole => Got(2) = Shown("failed", <<>>) \/ Got(2) = Shown("ok", Tail(says))
        BY <4>1, <4>2 DEF Whole, Torn
      <4>4. ~ AllWhole => ~ seen[2].whole
        BY <1>2, <1>9 DEF AllWhole, Taken
      <4>5. n # 0
        BY <2>1, <2>4
      <4> HIDE DEF n
      <4> QED BY <2>1, <4>3, <4>4, <4>5, OwnersAreMissed DEF says, lost
    <3>8. ~ AllWhole => Declined
      <4>1. lost => Unseen \in answer.steps
        BY <3>2
      <4> QED BY <3>7, <4>1, UnseenIsSaid
    <3> HIDE DEF g, n
    <3>9. \A s \in steps : s.about = Nothing \/ \E i \in DOMAIN w.units : s.about = w.units[i].id
      BY <2>1 DEF StepOf, Step, Unseen
    <3>10. \A i \in DOMAIN w.units : \E s \in steps : s.about = w.units[i].id /\ s.status = "warn"
      <4> SUFFICES ASSUME NEW i \in DOMAIN w.units
                   PROVE  \E s \in steps : s.about = w.units[i].id /\ s.status = "warn"
        OBVIOUS
      <4>1. StepOf(rows[i], "warn") \in steps
        BY <2>1
      <4> QED BY <2>1, <4>1 DEF StepOf, Step
    <3>11. \A x \in Worth(w) :
             \/ g # "ok" /\ x.about = about /\ x.status = g
             \/ x.status = "ok" /\ \E i \in DOMAIN w.units : x.about = w.units[i].id
      <4>1. \A a, s : Step(a, s).about = a /\ Step(a, s).status = s
        BY DEF Step
      <4>2. \A x \in Worth(w) : \/ g # "ok" /\ x = Step(about, g)
                                \/ \E i \in DOMAIN w.units : x = Step(w.units[i].id, "ok")
        BY <3>3, <3>4
      <4> HIDE DEF about, id
      <4> SUFFICES ASSUME NEW x \in Worth(w)
                   PROVE  \/ g # "ok" /\ x.about = about /\ x.status = g
                          \/ x.status = "ok" /\ \E i \in DOMAIN w.units : x.about = w.units[i].id
        OBVIOUS
      <4>3. CASE g # "ok" /\ x = Step(about, g)
        BY <4>1, <4>3
      <4>4. CASE \E i \in DOMAIN w.units : x = Step(w.units[i].id, "ok")
        BY <4>1, <4>4
      <4> QED BY <4>2, <4>3, <4>4
    <3>12. g # "ok" => Step(about, g) \in Worth(w)
      BY <3>3, <3>4
    <3>13. \A i \in DOMAIN w.units : Step(w.units[i].id, "ok") \in Worth(w)
      BY <3>3
    <3>14. about # Nothing /\ \A i \in DOMAIN w.units : w.units[i].id # Nothing
      BY <2>1, NothingAssumption DEF Spelled
    <3>15. check \notin Finds /\ check \in Lists
      BY DEF Finds, Lists
    <3>16. Named = ({s.about : s \in {t \in steps : t.status \in {"warn", "crit"}}}
                      \union (IF g = "ok" THEN {} ELSE {about})) \ {Nothing}
      BY <3>2, <3>15 DEF Named
    <3> HIDE DEF steps, about
    <3>17. \A x \in Worth(w) : x.about \in Named
      BY <3>10, <3>11, <3>14, <3>16
    <3>18. \A x \in Worth(w) : rank(Final(answer)) >= rank(x.status)
      <4>1. rank("ok") = 0 /\ rank(g) \in Nat
        BY <3>2 DEF rank
      <4> QED BY <3>2, <3>11, <4>1
    <3>19. \A x \in Worth(w) : Heard(x)
      BY <3>17, <3>18 DEF Heard
    <3>20. Named \subseteq Abouts(w)
      <4>1. \A a, s : Step(a, s).about = a
        BY DEF Step
      <4>2. g # "ok" => about \in Abouts(w)
        BY <3>12, <4>1 DEF Abouts
      <4>3. \A i \in DOMAIN w.units : w.units[i].id \in Abouts(w)
        BY <3>13, <4>1 DEF Abouts
      <4> QED BY <3>9, <3>16, <4>2, <4>3
    <3>21. Final(answer) \in {"warn", "crit"} =>
             \E x \in Worth(w) : rank(x.status) >= rank(Final(answer))
      <4>1. Step(about, g).status = g /\ rank(g) \in Nat
        BY <3>2 DEF Step, rank
      <4>2. g # "ok" => rank(Step(about, g).status) >= rank(g)
        BY <4>1
      <4> QED BY <3>2, <3>12, <4>2
    <3> QED BY <3>8, <3>19, <3>20, <3>21, RightOfOne
  <2> QED BY <2>3, <2>4
<1> QED BY <1>6, <1>8, <1>9
(* docker.containers: what is listed is of one world, what is inspected of  *)
(* another.                                                                 *)
LEMMA RowsAreJoined ==
  ASSUME NEW id, NEW state, NEW unhealthy, NEW restarts, NEW started
  PROVE  LET row == Over([id |-> id, state |-> state, unhealthy |-> unhealthy],
                         [restarts |-> restarts, started |-> started])
         IN  /\ row.id = id /\ row.state = state /\ row.unhealthy = unhealthy
             /\ row.restarts = restarts /\ row.started = started
<1> DEFINE f == [id |-> id, state |-> state, unhealthy |-> unhealthy]
           g == [restarts |-> restarts, started |-> started]
<1>1. /\ DOMAIN f = {"id", "state", "unhealthy"} /\ DOMAIN g = {"restarts", "started"}
      /\ f.id = id /\ f.state = state /\ f.unhealthy = unhealthy
      /\ g.restarts = restarts /\ g.started = started
  OBVIOUS
<1> HIDE DEF f, g
<1>2. \A x \in {"id", "state", "unhealthy", "restarts", "started"} :
        Over(f, g)[x] = IF x \in {"id", "state", "unhealthy"} THEN f[x] ELSE g[x]
  BY <1>1 DEF Over
<1> QED BY <1>1, <1>2 DEF f, g

ContainersHere(w) ==
  /\ w.containers \in Seq(ContainerFacts)
  /\ \A i, j \in DOMAIN w.containers : w.containers[i].id = w.containers[j].id => i = j

(* Of the containers listed, what docker ps said. *)
LEMMA ContainersAreListed ==
  ASSUME NEW w, ContainersHere(w)
  PROVE  LET n      == Len(w.containers)
             said   == Listed(w.containers)
             listed == rowsFrom(said)
         IN  /\ n \in Nat /\ DOMAIN w.containers = 1..n
             /\ Len(listed) = n /\ DOMAIN listed = 1..n /\ Len(said) = n
             /\ listed = <<>> <=> n = 0
             /\ said = <<>> <=> n = 0
             /\ \A i \in 1..n :
                  /\ w.containers[i].id \in STRING
                  /\ listed[i] = [id |-> w.containers[i].id, state |-> w.containers[i].state,
                                  unhealthy |-> w.containers[i].unhealthy]
<1> DEFINE n == Len(w.containers)
           said == Listed(w.containers)
           keep == {l \in Range(said) : l.id # Nothing}
           listed == rowsFrom(said)
           Row == {said[i] : i \in 1..n}
<1>1. /\ n \in Nat /\ DOMAIN w.containers = 1..n
      /\ \A i \in 1..n : w.containers[i] \in ContainerFacts
  BY ListIs DEF ContainersHere
<1>2. \A i \in 1..n : w.containers[i].id \in STRING
  BY <1>1 DEF ContainerFacts
<1>3. DOMAIN said = 1..n /\ \A i \in 1..n :
        said[i] = [id |-> w.containers[i].id, state |-> w.containers[i].state,
                   unhealthy |-> w.containers[i].unhealthy]
  BY <1>1 DEF Listed
<1>4. said = [i \in 1..n |-> said[i]]
  BY <1>1 DEF Listed
<1>5. \A i \in 1..n : said[i].id # Nothing
  <2> SUFFICES ASSUME NEW i \in 1..n PROVE said[i].id # Nothing
    OBVIOUS
  <2> DEFINE c == w.containers[i]
  <2>1. said[i] = [id |-> c.id, state |-> c.state, unhealthy |-> c.unhealthy]
    BY <1>3
  <2>2. c.id # Nothing
    BY <1>2, NothingAssumption
  <2> HIDE DEF c, said
  <2> QED BY <2>1, <2>2
<1> HIDE DEF said
<1>6. said \in Seq(Row) /\ Len(said) = n
  <2>1. \A i \in 1..n : said[i] \in Row
    OBVIOUS
  <2> HIDE DEF n, Row
  <2> QED BY <1>1, <1>4, <2>1
<1>7. \A i \in 1..Len(said) : said[i] \in keep
  BY <1>3, <1>5, <1>6 DEF Range
<1>8. listed = Kept(said, keep)
  BY DEF rowsFrom
<1> HIDE DEF keep, listed, Row
<1>9. Len(listed) = n /\ \A i \in 1..n : listed[i] = said[i]
  BY <1>6, <1>7, <1>8, AllAreKept
<1>10. listed \in Seq(Row)
  BY <1>6, <1>8, KeptIsOf
<1>11. DOMAIN listed = 1..n /\ (listed = <<>> <=> n = 0) /\ (said = <<>> <=> n = 0)
  BY <1>6, <1>9, <1>10, ListIs
<1> QED BY <1>1, <1>2, <1>3, <1>6, <1>9, <1>11 DEF said, listed

(* As many lines as rows: every container listed is still there, and its    *)
(* line is its own.                                                         *)
LinesAre(lines, listed, w) ==
  /\ Len(lines) \in Nat /\ Len(lines) <= Len(listed) /\ lines \in Seq(Range(lines))
  /\ Len(lines) = Len(listed) =>
       \A i \in 1..Len(listed) : \E k \in DOMAIN w.containers :
         /\ w.containers[k].id = listed[i].id
         /\ lines[i] = [restarts |-> w.containers[k].restarts,
                        started |-> w.containers[k].started]

(* docker inspect prints a line of each container that is still there, no more.*)
LEMMA InspectedAre ==
  ASSUME NEW T, NEW listed \in Seq(T), NEW w
  PROVE  LinesAre(Inspected(listed, w), listed, w)
<1> DEFINE all == w.containers
           here(r) == \E i \in DOMAIN all : all[i].id = r.id
           at(r) == CHOOSE i \in DOMAIN all : all[i].id = r.id
           keep == {r \in Range(listed) : here(r)}
           kept == Kept(listed, keep)
           line(r) == [restarts |-> all[at(r)].restarts, started |-> all[at(r)].started]
           lines == Inspected(listed, w)
           n == Len(listed)
           m == Len(kept)
<1>1. /\ kept \in Seq(T) /\ m \in Nat /\ m <= n /\ n \in Nat
      /\ m = n => \A i \in 1..n : listed[i] \in keep /\ kept[i] = listed[i]
  <2> HIDE DEF keep
  <2> QED BY KeptIsOf, KeptAre, ListIs DEF Collected
<1>2. DOMAIN kept = 1..m
  <2> HIDE DEF kept
  <2> QED BY <1>1, ListIs
<1>3. lines = [i \in DOMAIN kept |-> line(kept[i])]
  BY DEF Inspected
<1> HIDE DEF kept, line, m, n, lines
<1>4. lines = [i \in 1..m |-> line(kept[i])]
  BY <1>2, <1>3
<1>5. Len(lines) = m /\ lines \in Seq(Range(lines))
  <2>1. \A i \in 1..m : line(kept[i]) \in Range(lines)
    BY <1>4 DEF Range
  <2> QED BY <1>1, <1>4, <2>1
<1>6. ASSUME m = n, NEW i \in 1..n
      PROVE  \E k \in DOMAIN all : all[k].id = listed[i].id /\ lines[i] = [restarts |-> all[k].restarts,
                                                                          started |-> all[k].started]
  <2>1. here(listed[i]) /\ lines[i] = line(listed[i])
    BY <1>1, <1>4, <1>6
  <2>2. at(listed[i]) \in DOMAIN all /\ all[at(listed[i])].id = listed[i].id
    BY <2>1
  <2> HIDE DEF at
  <2> QED BY <2>1, <2>2 DEF line
<1> QED BY <1>1, <1>5, <1>6 DEF LinesAre, lines, n

(* The rows of a report: what ps said of each container, and what inspect   *)
(* said of it, or nothing.                                                  *)
RowsAre(rows, w, v, n, lost) ==
  \A i \in 1..n :
    /\ rows[i].id = w.containers[i].id /\ rows[i].state = w.containers[i].state
    /\ rows[i].unhealthy = w.containers[i].unhealthy
    /\ lost => rows[i].restarts = 0
    /\ ~ lost => \E k \in DOMAIN v.containers :
                    /\ v.containers[k].id = rows[i].id
                    /\ rows[i].restarts = v.containers[k].restarts
                    /\ rows[i].started = v.containers[k].started

(* inspect: a row of each container listed, as inspected unless some were lost.*)
LEMMA RowsAreReported ==
  ASSUME NEW w, NEW v, ContainersHere(w), ContainersHere(v), NEW insp,
         Len(w.containers) # 0,
         LET listed == rowsFrom(Listed(w.containers))
             lines == IF v.up THEN Inspected(listed, v) ELSE <<>>
         IN  \/ insp = [how |-> "ok", lines |-> lines]
             \/ insp = [how |-> "failed", lines |-> <<>>]
             \/ \E some \in Short(lines) : insp = [how |-> "nonzero", lines |-> some]
  PROVE  LET listed == rowsFrom(Listed(w.containers))
             n      == Len(w.containers)
             rows   == inspect(listed, insp)
             lost   == noInspect(listed, insp)
         IN  /\ DOMAIN rows = 1..n /\ RowsAre(rows, w, v, n, lost)
             /\ ~ lost => v.up /\ insp.how = "ok"
<1> DEFINE listed == rowsFrom(Listed(w.containers))
           n == Len(w.containers)
           rows == inspect(listed, insp)
           lost == noInspect(listed, insp)
           lines == IF v.up THEN Inspected(listed, v) ELSE <<>>
           T == Range(listed)
<1>1. /\ n \in Nat /\ DOMAIN w.containers = 1..n /\ Len(listed) = n /\ DOMAIN listed = 1..n
      /\ n # 0
      /\ \A i \in 1..n : listed[i] = [id |-> w.containers[i].id, state |-> w.containers[i].state,
                                      unhealthy |-> w.containers[i].unhealthy]
  BY ContainersAreListed
<1>2. listed \in Seq(T)
  <2>1. listed \in Seq({Listed(w.containers)[i] : i \in DOMAIN Listed(w.containers)})
    <3> DEFINE said == Listed(w.containers)
               S == {said[i] : i \in DOMAIN said}
               keep == {l \in Range(said) : l.id # Nothing}
    <3>1. DOMAIN said = 1..n /\ said = [i \in 1..n |-> said[i]]
      BY <1>1 DEF Listed
    <3>2. said \in Seq(S)
      <4> HIDE DEF said, n
      <4>1. \A i \in 1..n : said[i] \in S
        BY <3>1
      <4> HIDE DEF S
      <4> QED BY <1>1, <3>1, <4>1 DEF n
    <3> HIDE DEF S, said, keep
    <3>3. Kept(said, keep) \in Seq(S)
      BY <3>2, KeptIsOf
    <3> QED BY <3>3 DEF S, said, keep, rowsFrom
  <2> HIDE DEF listed
  <2> QED BY <2>1 DEF Range
<1> HIDE DEF listed, T
<1>3. /\ lines \in Seq(Range(lines)) /\ Len(lines) \in Nat /\ Len(lines) <= n
      /\ Len(lines) = n =>
           /\ v.up
           /\ \A i \in 1..n : \E k \in DOMAIN v.containers :
                /\ v.containers[k].id = listed[i].id
                /\ lines[i] = [restarts |-> v.containers[k].restarts,
                               started |-> v.containers[k].started]
  <2>1. CASE v.up
    <3> DEFINE here == Inspected(listed, v)
    <3>1. LinesAre(here, listed, v)
      BY <1>2, InspectedAre
    <3>2. lines = here
      BY <2>1
    <3> HIDE DEF here, lines, n
    <3> QED BY <1>1, <2>1, <3>1, <3>2 DEF LinesAre
  <2>2. CASE ~ v.up
    <3>1. lines = <<>>
      BY <2>2
    <3>2. <<>> \in Seq({}) /\ Len(<<>>) = 0 /\ Range(<<>>) = {}
      BY DEF Range
    <3> HIDE DEF lines, n
    <3> QED BY <1>1, <3>1, <3>2 DEF n
  <2> QED BY <2>1, <2>2
<1> DEFINE got == inspected(listed, insp)
<1>4. \/ got = lines /\ insp.how = "ok"
      \/ Len(got) # n
  <2>1. CASE insp = [how |-> "ok", lines |-> lines]
    BY <2>1 DEF inspected
  <2>2. CASE insp = [how |-> "failed", lines |-> <<>>]
    <3>1. got = <<>>
      BY <2>2 DEF inspected
    <3> HIDE DEF got
    <3> QED BY <1>1, <3>1
  <2>3. CASE \E some \in Short(lines) : insp = [how |-> "nonzero", lines |-> some]
    <3>1. PICK some \in Short(lines) : insp = [how |-> "nonzero", lines |-> some]
      BY <2>3
    <3>2. got = some
      BY <3>1 DEF inspected
    <3> HIDE DEF lines, got
    <3>3. Len(some) = Len(lines) - 1
      BY <1>3, ShortIsOf
    <3> HIDE DEF n
    <3> QED BY <1>1, <1>3, <3>2, <3>3 DEF n
  <2> HIDE DEF lines
  <2> QED BY <2>1, <2>2, <2>3 DEF listed, lines
<1> HIDE DEF lines, got, n
<1>5. lost <=> Len(got) # n
  BY <1>1 DEF noInspect, got
<1>6. rows = IF lost THEN [i \in 1..n |-> Over(listed[i], NoInspect)]
             ELSE [i \in 1..n |-> Over(listed[i], got[i])]
  BY <1>1, <1>5 DEF inspect, Join, NoJoin, got
<1> HIDE DEF rows, lost
<1>7. DOMAIN rows = 1..n
  BY <1>6
<1>8. ~ lost => got = lines /\ insp.how = "ok" /\ Len(lines) = n
  BY <1>4, <1>5
<1>9. ASSUME NEW i \in 1..n
      PROVE  /\ rows[i].id = w.containers[i].id /\ rows[i].state = w.containers[i].state
             /\ rows[i].unhealthy = w.containers[i].unhealthy
             /\ lost => rows[i].restarts = 0
             /\ ~ lost => \E k \in DOMAIN v.containers :
                             /\ v.containers[k].id = rows[i].id
                             /\ rows[i].restarts = v.containers[k].restarts
                             /\ rows[i].started = v.containers[k].started
  <2> DEFINE c == w.containers[i]
             row == [id |-> c.id, state |-> c.state, unhealthy |-> c.unhealthy]
  <2>1. listed[i] = row
    BY <1>1
  <2>2. CASE lost
    <3>1. rows[i] = Over(row, [restarts |-> 0, started |-> Nothing])
      BY <1>6, <2>1, <2>2 DEF NoInspect
    <3> HIDE DEF c
    <3>2. /\ rows[i].id = c.id /\ rows[i].state = c.state /\ rows[i].unhealthy = c.unhealthy
          /\ rows[i].restarts = 0
      BY <3>1, RowsAreJoined
    <3> QED BY <2>2, <3>2 DEF c
  <2>3. CASE ~ lost
    <3>1. PICK k \in DOMAIN v.containers :
            /\ v.containers[k].id = listed[i].id
            /\ lines[i] = [restarts |-> v.containers[k].restarts, started |-> v.containers[k].started]
      BY <1>3, <1>8, <2>3
    <3> DEFINE d == v.containers[k]
    <3>2. rows[i] = Over(row, [restarts |-> d.restarts, started |-> d.started])
      BY <1>6, <1>8, <2>1, <2>3, <3>1
    <3>3. d.id = c.id
      BY <2>1, <3>1
    <3> HIDE DEF c, d
    <3>4. /\ rows[i].id = c.id /\ rows[i].state = c.state /\ rows[i].unhealthy = c.unhealthy
          /\ rows[i].restarts = d.restarts /\ rows[i].started = d.started
      BY <3>2, RowsAreJoined
    <3> QED BY <2>3, <3>3, <3>4 DEF c, d
  <2> QED BY <2>2, <2>3
<1>10. RowsAre(rows, w, v, n, lost)
  BY <1>9 DEF RowsAre
<1>11. ~ lost => v.up /\ insp.how = "ok"
  BY <1>3, <1>8
<1> QED BY <1>7, <1>10, <1>11 DEF n, rows, lost, listed
(* What is reported of rows: a loop of what inspect said, or a container    *)
(* that is dead or unhealthy by what ps said.                               *)
LEMMA ReportIs ==
  ASSUME NEW rows
  PROVE  /\ report(rows, Now) \in {"ok", "warn", "crit"}
         /\ report(rows, Now) = "crit" => \E i \in DOMAIN rows : restartLoop(rows[i], Now)
         /\ report(rows, Now) = "warn" => \E i \in DOMAIN rows : Dead(rows[i]) \/ rows[i].unhealthy
         /\ \A i \in DOMAIN rows : restartLoop(rows[i], Now) => report(rows, Now) = "crit"
         /\ \A i \in DOMAIN rows : Dead(rows[i]) \/ rows[i].unhealthy =>
              report(rows, Now) \in {"warn", "crit"}
BY DEF report

(* How bad a container is. *)
Badness(c) ==
  IF c.restarts > 3 /\ c.started # Nothing /\ Now - c.started <= 10 THEN "crit"
  ELSE IF c.state = "dead" \/ c.unhealthy THEN "warn" ELSE "ok"

(* docker.containers: the verdict of the worst container, and each bad one named.*)
LEMMA ContainersAreRight ==
  ASSUME Inv, Answered, check = "docker.containers"
  PROVE  RightAnswer
<1>1. Len(Script) = 3 /\ Script[1] = Ask("version") /\ Script[2] = Ask("ps") /\ Script[3] = Ask("inspect")
  BY DEF Script
<1>2. /\ Len(seen) \in Nat /\ DOMAIN seen = 1..Len(seen) /\ Len(seen) <= 3 /\ Settled /\ GoesOn
  BY <1>1, AnsweredFrom
<1>3. /\ Taken(1) /\ (Taken(2) \/ ~ Runtime.available)
      /\ Taken(2) /\ ~ Taken(3) /\ Runtime.available => Got(2).how # "ok" \/ Got(2).rows = <<>>
  BY <1>1, <1>2 DEF Settled, Taken
<1>4. answer = ContainersRun(Runtime, Got(2), Got(3), Now)
  BY AnsweredFrom DEF Run
<1>5. CASE ~ Runtime.available
  <2>1. answer = Bare("unavailable")
    BY <1>4, <1>5 DEF ContainersRun, Unavailable
  <2> QED BY <2>1, BareIsRight
<1>6. CASE Runtime.available
  <2>1. seen[1].whole
    <3>1. PICK u \in been : seen[1] \in Replies(Ask("version"), u, seen)
      BY <1>1, <1>3, ReadingIs
    <3>2. seen[1] \in UnitReplies("version", u, seen) /\ Got(1) = seen[1].got
      BY <1>3, <3>1, RepliesAre DEF Ask, UnitAsks, Got
    <3>3. seen[1] \in {Whole("absent"), Whole("ok"), Whole("failed"), Torn("failed")}
      BY <3>2 DEF UnitReplies
    <3>4. Got(1) # "failed"
      BY <1>6 DEF Runtime, Probe, Detect, NoRuntime
    <3> QED BY <3>2, <3>3, <3>4 DEF Whole, Torn
  <2>2. Taken(2)
    BY <1>3, <1>6
  <2>3. PICK w \in been : w \in Hosts(check) /\ seen[2] \in Replies(Ask("ps"), w, seen)
    BY <1>1, <2>2, ReadingIs
  <2>4. seen[2] \in UnitReplies("ps", w, seen) /\ Got(2) = seen[2].got
    BY <2>2, <2>3, RepliesAre DEF Ask, UnitAsks, Got
  <2>5. \/ Got(2).how # "ok"
        \/ seen[2].whole /\ w.up /\ Got(2).how = "ok" /\ Got(2).rows = Listed(w.containers)
    <3>1. CASE ~ w.up
      <4>1. seen[2] = Whole(Printed("nonzero", <<>>))
        BY <2>4, <3>1 DEF UnitReplies
      <4> QED BY <2>4, <4>1 DEF Whole, Printed
    <3>2. CASE w.up
      <4>1. seen[2] \in PrintsOrNothing(Listed(w.containers))
        BY <2>4, <3>2 DEF UnitReplies
      <4> QED BY <2>4, <3>2, <4>1, PrintedIs
    <3> QED BY <3>1, <3>2
  <2>6. CASE Got(2).how # "ok"
    <3>1. answer = Bare("error")
      BY <1>4, <1>6, <2>6 DEF ContainersRun
    <3> QED BY <3>1, BareIsRight
  <2>7. CASE seen[2].whole /\ w.up /\ Got(2).how = "ok" /\ Got(2).rows = Listed(w.containers)
    <3> DEFINE n == Len(w.containers)
               listed == rowsFrom(Got(2).rows)
    <3>1. \A u \in been : ContainersHere(u)
      <4>1. \A u \in been : u \in Hosts(check)
        BY AnsweredFrom
      <4> QED BY <4>1 DEF Hosts, DockerChecks, NetChecks, ContainersHere
    <3>2. /\ n \in Nat /\ DOMAIN w.containers = 1..n /\ (listed = <<>> <=> n = 0)
          /\ (Got(2).rows = <<>> <=> n = 0)
          /\ \A i \in 1..n : w.containers[i].id \in STRING
      BY <2>7, <3>1, ContainersAreListed
    <3>3. check \notin Finds /\ check \in Lists
      BY DEF Finds, Lists
    <3>4. \A u : u.up => Worth(u) = UNION {ContainerBad(u.containers[i]) : i \in DOMAIN u.containers}
      BY DEF Worth
    <3>5. CASE n = 0
      <4>1. answer = Judged("ok", {})
        BY <1>4, <1>6, <2>7, <3>2, <3>5 DEF ContainersRun
      <4>2. DOMAIN w.containers = {}
        <5> HIDE DEF n
        <5> QED BY <3>2, <3>5
      <4>3. Worth(w) = {}
        BY <2>7, <3>4, <4>2
      <4>4. ~ Taken(3)
        BY <1>2, <3>2, <3>5 DEF GoesOn
      <4>5. AllWhole
        BY <1>2, <2>1, <2>7, <4>4 DEF AllWhole, Taken
      <4>6. Final(answer) = "ok" /\ answer.trips = {} /\ answer.steps = {}
        BY <4>1, JudgedIs DEF Status, Judged
      <4> QED BY <3>3, <4>3, <4>5, <4>6, NothingIsWrong
    <3>6. CASE n # 0
      <4>1. Taken(3)
        BY <1>3, <1>6, <2>2, <2>7, <3>2, <3>6
      <4>2. PICK v \in been : v \in Hosts(check) /\ seen[3] \in Replies(Ask("inspect"), v, seen)
        BY <1>1, <4>1, ReadingIs
      <4> DEFINE rows == inspect(listed, Got(3))
                 lost == noInspect(listed, Got(3))
                 status == report(rows, Now)
                 flags == UNION {flag(rows[i], Now) : i \in DOMAIN rows}
                 steps == flags \union (IF lost THEN {Unseen} ELSE {})
                 lines == IF v.up THEN Inspected(listed, v) ELSE <<>>
      <4>3. /\ \/ seen[3].whole /\ Got(3) = [how |-> "ok", lines |-> lines]
               \/ ~ seen[3].whole /\ Got(3) = [how |-> "failed", lines |-> <<>>]
               \/ ~ seen[3].whole /\ \E some \in Short(lines) : Got(3) = [how |-> "nonzero", lines |-> some]
        <5>1. seen[3] \in UnitReplies("inspect", v, seen) /\ Got(3) = seen[3].got
          BY <4>1, <4>2, RepliesAre DEF Ask, UnitAsks, Got
        <5>2. listed = rowsFrom(seen[2].got.rows)
          BY <2>4
        <5> HIDE DEF listed
        <5>3. \/ seen[3] = Whole([how |-> "ok", lines |-> lines])
              \/ seen[3] = Torn([how |-> "failed", lines |-> <<>>])
              \/ \E some \in Short(lines) : seen[3] = Torn([how |-> "nonzero", lines |-> some])
          BY <5>1, <5>2 DEF UnitReplies
        <5> HIDE DEF lines
        <5>4. \A g : Whole(g).whole /\ Whole(g).got = g /\ ~ Torn(g).whole /\ Torn(g).got = g
          BY DEF Whole, Torn
        <5>5. CASE seen[3] = Whole([how |-> "ok", lines |-> lines])
          BY <5>1, <5>4, <5>5
        <5>6. CASE seen[3] = Torn([how |-> "failed", lines |-> <<>>])
          BY <5>1, <5>4, <5>6
        <5>7. CASE \E some \in Short(lines) : seen[3] = Torn([how |-> "nonzero", lines |-> some])
          BY <5>1, <5>4, <5>7
        <5> QED BY <5>3, <5>5, <5>6, <5>7
      <4>4. /\ DOMAIN rows = 1..n /\ RowsAre(rows, w, v, n, lost)
            /\ ~ lost => v.up /\ Got(3).how = "ok"
        <5>1. listed = rowsFrom(Listed(w.containers)) /\ ContainersHere(w) /\ ContainersHere(v)
          BY <2>7, <3>1
        <5> HIDE DEF listed
        <5> QED BY <3>6, <4>3, <5>1, RowsAreReported
      <4>5. answer = Judged(status, steps)
        BY <1>4, <1>6, <2>7, <3>2, <3>6 DEF ContainersRun
      <4> HIDE DEF listed
      <4>6. ~ lost => AllWhole
        <5>1. ~ lost => seen[3].whole
          BY <4>3, <4>4
        <5> QED BY <1>2, <2>1, <2>7, <5>1 DEF AllWhole, Taken
      <4> HIDE DEF rows, lost, lines
      <4>7. /\ status \in {"ok", "warn", "crit"}
            /\ status = "crit" => \E i \in 1..n : restartLoop(rows[i], Now)
            /\ status = "warn" => \E i \in 1..n : Dead(rows[i]) \/ rows[i].unhealthy
            /\ \A i \in 1..n : restartLoop(rows[i], Now) => status = "crit"
            /\ \A i \in 1..n : Dead(rows[i]) \/ rows[i].unhealthy => status \in {"warn", "crit"}
        BY <4>4, ReportIs
      <4> HIDE DEF status
      <4>8. \A c : ContainerBad(c) = IF Badness(c) = "ok" THEN {} ELSE {Step(c.id, Badness(c))}
        BY DEF ContainerBad, Bad, Badness
      <4>9. \A a, s : Step(a, s).about = a /\ Step(a, s).status = s
        BY DEF Step
      <4>10. \A u \in {w, v} : u.up => \A i \in DOMAIN u.containers :
               LET c == u.containers[i]
               IN  Badness(c) # "ok" => Step(c.id, Badness(c)) \in Worth(u)
        <5> SUFFICES ASSUME NEW u \in {w, v}, u.up, NEW i \in DOMAIN u.containers,
                            Badness(u.containers[i]) # "ok"
                     PROVE  Step(u.containers[i].id, Badness(u.containers[i])) \in Worth(u)
          OBVIOUS
        <5>1. ContainerBad(u.containers[i]) \subseteq Worth(u)
          BY <3>4
        <5> QED BY <4>8, <5>1
      <4>11. \A u \in {w, v} : u.up => \A x \in Worth(u) : \E i \in DOMAIN u.containers :
               LET c == u.containers[i]
               IN  Badness(c) # "ok" /\ x.about = c.id /\ x.status = Badness(c)
        <5> SUFFICES ASSUME NEW u \in {w, v}, u.up, NEW x \in Worth(u)
                     PROVE  \E i \in DOMAIN u.containers :
                              LET c == u.containers[i]
                              IN  Badness(c) # "ok" /\ x.about = c.id /\ x.status = Badness(c)
          OBVIOUS
        <5>1. PICK i \in DOMAIN u.containers : x \in ContainerBad(u.containers[i])
          BY <3>4
        <5> DEFINE c == u.containers[i]
        <5>2. Badness(c) # "ok" /\ x = Step(c.id, Badness(c))
          BY <4>8, <5>1
        <5> HIDE DEF c
        <5>3. x.about = c.id /\ x.status = Badness(c)
          BY <4>9, <5>2
        <5> QED BY <5>2, <5>3 DEF c
      (* A loop is true of the world that was inspected. *)
      <4>12. ASSUME NEW i \in 1..n, restartLoop(rows[i], Now)
             PROVE  /\ ~ lost /\ v.up
                    /\ \E k \in DOMAIN v.containers :
                         v.containers[k].id = rows[i].id /\ Badness(v.containers[k]) = "crit"
        <5>1. ~ lost /\ v.up
          <6>1. lost => rows[i].restarts = 0
            BY <4>4 DEF RowsAre
          <6> QED BY <4>4, <4>12, <6>1 DEF restartLoop, RestartLoopThreshold
        <5>2. PICK k \in DOMAIN v.containers :
                /\ v.containers[k].id = rows[i].id
                /\ rows[i].restarts = v.containers[k].restarts
                /\ rows[i].started = v.containers[k].started
          BY <4>4, <5>1 DEF RowsAre
        <5>3. Badness(v.containers[k]) = "crit"
          BY <4>12, <5>2 DEF Badness, restartLoop, RestartLoopThreshold, RestartLoopWindow
        <5> QED BY <5>1, <5>2, <5>3
      (* What is dead or unhealthy is so in the world that was listed. *)
      <4>13. ASSUME NEW i \in 1..n, Dead(rows[i]) \/ rows[i].unhealthy
             PROVE  /\ i \in DOMAIN w.containers /\ w.containers[i].id = rows[i].id
                    /\ Badness(w.containers[i]) \in {"warn", "crit"}
        <5>1. /\ rows[i].id = w.containers[i].id /\ rows[i].state = w.containers[i].state
              /\ rows[i].unhealthy = w.containers[i].unhealthy
          BY <4>4 DEF RowsAre
        <5> QED BY <3>2, <4>13, <5>1 DEF Badness, Dead
      <4>14. /\ Final(answer) = status /\ answer.steps = steps
             /\ Named = {s.about : s \in {t \in steps : t.status \in {"warn", "crit"}}} \ {Nothing}
        BY <3>3, <4>5, <4>7, JudgedIs DEF Status
      <4>15. \A s \in steps : s.about = Nothing \/ \E i \in 1..n :
               s.about = rows[i].id /\ (restartLoop(rows[i], Now) \/ Dead(rows[i]) \/ rows[i].unhealthy)
        <5> SUFFICES ASSUME NEW s \in steps, s # Unseen
                     PROVE  \E i \in 1..n : s.about = rows[i].id
                              /\ (restartLoop(rows[i], Now) \/ Dead(rows[i]) \/ rows[i].unhealthy)
          BY UnseenIsSaid
        <5>1. PICK i \in 1..n : s \in flag(rows[i], Now)
          BY <4>4
        <5> DEFINE c == rows[i]
        <5> HIDE DEF c
        <5>2. s \in flag(c, Now)
          BY <5>1 DEF c
        <5>3. s.about = c.id /\ (restartLoop(c, Now) \/ Dead(c) \/ c.unhealthy)
          BY <4>9, <5>2 DEF flag, StepOf
        <5> QED BY <5>3 DEF c
      <4>16. ASSUME NEW i \in 1..n, restartLoop(rows[i], Now) \/ Dead(rows[i]) \/ rows[i].unhealthy,
                    rows[i].id # Nothing
             PROVE  rows[i].id \in Named
        <5>1. flag(rows[i], Now) \subseteq steps
          BY <4>4
        <5> DEFINE c == rows[i]
        <5> HIDE DEF c
        <5>2. PICK s \in flag(c, Now) : s.about = c.id /\ s.status \in {"warn", "crit"}
          BY <4>9, <4>16 DEF flag, StepOf, c
        <5> HIDE DEF steps
        <5>3. s \in steps
          BY <5>1, <5>2 DEF c
        <5> QED BY <4>14, <4>16, <5>2, <5>3 DEF c
      <4>17. lost => Declined
        <5>1. lost => Unseen \in answer.steps
          BY <4>14
        <5> QED BY <5>1, UnseenIsSaid
      <4> HIDE DEF steps, flags
      <4>18. rank("ok") = 0 /\ rank("warn") = 3 /\ rank("crit") = 5
        BY DEF rank
      <4>19. ASSUME ~ lost, NEW x, \A u \in been : x \in Worth(u) PROVE Heard(x)
        <5>1. PICK i \in DOMAIN w.containers :
                LET c == w.containers[i]
                IN  Badness(c) # "ok" /\ x.about = c.id /\ x.status = Badness(c)
          BY <2>7, <4>11, <4>19
        <5>2. v.up
          BY <4>4, <4>19
        <5>3. PICK k \in DOMAIN v.containers :
                LET c == v.containers[k]
                IN  Badness(c) # "ok" /\ x.about = c.id /\ x.status = Badness(c)
          BY <4>11, <4>19, <5>2
        <5>4. /\ i \in 1..n /\ rows[i].id = x.about /\ rows[i].state = w.containers[i].state
              /\ rows[i].unhealthy = w.containers[i].unhealthy
          BY <3>2, <4>4, <5>1 DEF RowsAre
        <5>5. PICK j \in DOMAIN v.containers :
                /\ v.containers[j].id = rows[i].id
                /\ rows[i].restarts = v.containers[j].restarts
                /\ rows[i].started = v.containers[j].started
          BY <4>4, <4>19, <5>4 DEF RowsAre
        <5>6. j = k
          BY <3>1, <5>3, <5>4, <5>5 DEF ContainersHere
        <5>7. x.status = "crit" => restartLoop(rows[i], Now)
          <6> DEFINE c == v.containers[k]
          <6>1. x.status = Badness(c) /\ rows[i].restarts = c.restarts /\ rows[i].started = c.started
            BY <5>3, <5>5, <5>6
          <6> HIDE DEF c
          <6> QED BY <6>1 DEF Badness, restartLoop, RestartLoopThreshold, RestartLoopWindow
        <5>8. x.status \in {"warn", "crit"}
          BY <5>1 DEF Badness
        <5>9. x.status = "warn" => Dead(rows[i]) \/ rows[i].unhealthy
          <6> DEFINE c == w.containers[i]
          <6>1. x.status = Badness(c) /\ rows[i].state = c.state /\ rows[i].unhealthy = c.unhealthy
            BY <5>1, <5>4
          <6> HIDE DEF c
          <6> QED BY <6>1 DEF Badness, Dead
        <5>10. x.about # Nothing
          BY <3>2, <5>1, <5>4, NothingAssumption
        <5>11. x.about \in Named
          BY <4>16, <5>4, <5>7, <5>8, <5>9, <5>10
        <5>12. rank(Final(answer)) >= rank(x.status)
          BY <4>7, <4>14, <4>18, <5>4, <5>7, <5>8, <5>9
        <5> QED BY <5>11, <5>12 DEF Heard
      <4>20. Final(answer) \in {"warn", "crit"} =>
               \E u \in been : \E x \in Worth(u) : rank(x.status) >= rank(Final(answer))
        <5>1. CASE status = "crit"
          <6>1. PICK i \in 1..n : restartLoop(rows[i], Now)
            BY <4>7, <5>1
          <6>2. PICK k \in DOMAIN v.containers : v.up /\ Badness(v.containers[k]) = "crit"
            BY <4>12, <6>1
          <6>3. Step(v.containers[k].id, "crit") \in Worth(v)
            BY <4>10, <6>2
          <6> QED BY <4>9, <4>14, <4>18, <5>1, <6>3
        <5>2. CASE status = "warn"
          <6>1. PICK i \in 1..n : Dead(rows[i]) \/ rows[i].unhealthy
            BY <4>7, <5>2
          <6>2. i \in DOMAIN w.containers /\ Badness(w.containers[i]) \in {"warn", "crit"}
            BY <4>13, <6>1
          <6>3. Step(w.containers[i].id, Badness(w.containers[i])) \in Worth(w)
            BY <2>7, <4>10, <6>2
          <6>4. rank(Badness(w.containers[i])) >= rank("warn")
            BY <4>18, <6>2
          <6> QED BY <4>9, <4>14, <5>2, <6>3, <6>4
        <5> QED BY <4>14, <5>1, <5>2
      <4>21. Named \subseteq UNION {Abouts(u) : u \in been}
        <5> SUFFICES ASSUME NEW a \in Named PROVE \E u \in been : a \in Abouts(u)
          OBVIOUS
        <5>1. PICK i \in 1..n : /\ a = rows[i].id
                                /\ restartLoop(rows[i], Now) \/ Dead(rows[i]) \/ rows[i].unhealthy
          BY <4>14, <4>15
        <5>2. CASE restartLoop(rows[i], Now)
          <6>1. PICK k \in DOMAIN v.containers :
                  v.up /\ v.containers[k].id = a /\ Badness(v.containers[k]) = "crit"
            BY <4>12, <5>1, <5>2
          <6>2. Step(a, "crit") \in Worth(v)
            BY <4>10, <6>1
          <6> QED BY <4>9, <6>2 DEF Abouts
        <5>3. CASE Dead(rows[i]) \/ rows[i].unhealthy
          <6>1. /\ i \in DOMAIN w.containers /\ w.containers[i].id = a
                /\ Badness(w.containers[i]) \in {"warn", "crit"}
            BY <4>13, <5>1, <5>3
          <6>2. Step(a, Badness(w.containers[i])) \in Worth(w)
            BY <2>7, <4>10, <6>1
          <6> QED BY <4>9, <6>2 DEF Abouts
        <5> QED BY <5>1, <5>2, <5>3
      <4>22. ASSUME NEW x, \A u \in been : x \in Worth(u) PROVE Heard(x)
        BY <4>17, <4>19, <4>22 DEF Heard
      <4>23. Declined \/ AllWhole
        BY <4>6, <4>17
      <4> QED BY <4>20, <4>21, <4>22, <4>23, RightIf
    <3> QED BY <3>5, <3>6
  <2> QED BY <2>5, <2>6, <2>7
<1> QED BY <1>5, <1>6
(***************************************************************************)
(* Walks                                                                   *)
(***************************************************************************)

WalkedHere(w) ==
  /\ w.root \in {"dir", "notdir", "absent"} /\ w.entries \in Seq(EntryFacts)
  /\ w.root # "dir" => w.entries = <<>>

(* What a walk of a tree is after: the files it comes to.                   *)
FoundIn(w, prunes) ==
  {f \in Range(w.entries) : /\ f.kind = "file" /\ f.matches /\ f.info.regular
                            /\ prunes => f.inside \notin PrunedIn(w)}

(* What an entry of a tree is, by its kind. *)
LEMMA EntriesAre ==
  ASSUME NEW e \in EntryFacts
  PROVE  /\ e.kind \in {"dir", "file"} /\ e.name \in STRING
         /\ e.kind = "dir" => e.name # "" /\ e.inside = "" /\ e.opens /\ e.pruned \in BOOLEAN
         /\ e.kind = "file" => e.info \in FileFacts /\ e.info # Nothing
<1>1. CASE e \in [kind : {"dir"}, name : STRING \ {""}, inside : {""}, pruned : BOOLEAN, opens : {TRUE}]
  BY <1>1
<1>2. CASE e \in [kind : {"file"}, name : STRING, inside : STRING, matches : BOOLEAN, info : FileFacts]
  <2>1. e.kind = "file" /\ e.name \in STRING /\ e.info \in FileFacts
    <3> HIDE DEF FileFacts
    <3> QED BY <1>2
  <2> QED BY <2>1, NothingAssumption
<1> QED BY <1>1, <1>2 DEF EntryFacts

(* A walk that is refused nothing finds what there is and misses nothing.   *)
LEMMA WholeWalk ==
  ASSUME NEW w, WalkedHere(w), NEW prunes \in BOOLEAN
  PROVE  scan(w.entries, prunes) = FoundIn(w, prunes) /\ unreadableCount(w.entries, prunes) = 0
<1> DEFINE all == w.entries
           n == Len(all)
           shut == closed(all, prunes)
           keep == {e \in Range(all) : e.inside \notin shut}
           walk == visited(all, prunes)
<1>1. /\ all \in Seq(EntryFacts) /\ n \in Nat /\ DOMAIN all = 1..n /\ Range(all) \subseteq EntryFacts
      /\ \A i \in 1..n : all[i] \in EntryFacts
  BY ListIs DEF WalkedHere
<1>2. shut = IF prunes THEN PrunedIn(w) ELSE {}
  <2>1. \A j \in DOMAIN all : all[j].kind = "dir" => all[j].opens /\ all[j].pruned \in BOOLEAN
    BY <1>1, EntriesAre
  <2>2. {j \in DOMAIN all : all[j].kind = "dir" /\ (~all[j].opens \/ (prunes /\ all[j].pruned))}
          = IF prunes THEN {j \in DOMAIN all : all[j].kind = "dir" /\ all[j].pruned} ELSE {}
    BY <2>1
  <2> QED BY <2>2 DEF closed, PrunedIn
<1> HIDE DEF shut
<1>3. walk = Kept(all, keep)
  BY DEF visited, shut
<1> HIDE DEF walk, keep, all
<1>4. walk \in Seq(EntryFacts) /\ Range(walk) = Range(all) \intersect keep
  BY <1>1, <1>3, KeptIsOf
<1>5. \A e : e \in Range(walk) <=> e \in Range(all) /\ e.inside \notin shut
  BY <1>4 DEF keep
<1>6. scan(all, prunes) = FoundIn(w, prunes)
  <2>1. scan(all, prunes) =
          {e \in Range(walk) : e.kind = "file" /\ e.matches /\ e.info # Nothing /\ e.info.regular}
    BY DEF scan, walk
  <2>2. \A e \in Range(all) : e.kind = "file" => e.info # Nothing
    BY <1>1, EntriesAre
  <2>3. \A e : e \in scan(all, prunes) <=> e \in FoundIn(w, prunes)
    BY <1>2, <1>5, <2>1, <2>2 DEF FoundIn, all
  <2> QED BY <2>3
<1>7. unreadableCount(all, prunes) = 0
  <2> DEFINE out == {e \in Range(walk) : refused(e, prunes)}
             kept == Kept(walk, out)
  <2>1. \A e \in Range(walk) : ~ refused(e, prunes)
    <3>1. \A e \in Range(walk) : e \in EntryFacts
      BY <1>1, <1>4
    <3> QED BY <3>1, EntriesAre DEF refused
  <2>2. out = {}
    BY <2>1
  <2>3. unreadableCount(all, prunes) = Len(kept)
    BY DEF unreadableCount, walk
  <2> HIDE DEF out
  <2>4. kept \in Seq(EntryFacts) /\ Range(kept) = {}
    BY <1>4, <2>2, KeptIsOf
  <2> HIDE DEF kept
  <2>5. Len(kept) = 0
    <3>1. Len(kept) \in Nat /\ Range(kept) = {kept[i] : i \in 1..Len(kept)}
      BY <2>4, ListIs
    <3>2. Len(kept) # 0 => kept[1] \in Range(kept)
      BY <3>1
    <3> QED BY <2>4, <3>1, <3>2
  <2> QED BY <2>3, <2>5
<1> QED BY <1>6, <1>7 DEF all

(* One that is refused an entry counts it, and finds nothing that is not    *)
(* there.                                                                   *)
LEMMA RefusedWalk ==
  ASSUME NEW w, WalkedHere(w), NEW prunes \in BOOLEAN, NEW listing \in Refusing(w.entries)
  PROVE  scan(listing, prunes) \subseteq FoundIn(w, prunes) /\ unreadableCount(listing, prunes) > 0
<1> DEFINE all == w.entries
           n == Len(all)
<1>1. /\ all \in Seq(EntryFacts) /\ n \in Nat /\ DOMAIN all = 1..n /\ Range(all) \subseteq EntryFacts
      /\ \A i \in 1..n : all[i] \in EntryFacts
  BY ListIs DEF WalkedHere
<1> DEFINE other(e) == IF e.kind = "dir" THEN [e EXCEPT !.opens = FALSE] ELSE [e EXCEPT !.info = Nothing]
<1>2. PICK i \in DOMAIN all : /\ all[i] \in Range(visited(all, TRUE))
                              /\ IF all[i].kind = "dir" THEN ~all[i].pruned ELSE all[i].matches
                              /\ listing = [all EXCEPT ![i] = other(all[i])]
  BY DEF Refusing
<1> DEFINE e == all[i]
           lost == other(e)
           T == {listing[j] : j \in 1..n}
<1>3. i \in 1..n /\ e \in EntryFacts
  BY <1>1, <1>2
<1>4. /\ lost.kind = e.kind /\ lost.name = e.name /\ lost.inside = e.inside
      /\ e.kind = "dir" => ~ lost.opens /\ ~ lost.pruned
      /\ e.kind = "file" => lost.matches /\ lost.info = Nothing
      /\ e.kind \in {"dir", "file"}
  <2> HIDE DEF e
  <2>1. CASE e \in [kind : {"dir"}, name : STRING \ {""}, inside : {""}, pruned : BOOLEAN, opens : {TRUE}]
    <3>1. ~ e.pruned /\ e.kind = "dir"
      BY <1>2, <2>1 DEF e
    <3>2. lost = [e EXCEPT !.opens = FALSE]
      BY <3>1
    <3>3. /\ lost.kind = e.kind /\ lost.name = e.name /\ lost.inside = e.inside
          /\ lost.opens = FALSE /\ lost.pruned = e.pruned
      BY <2>1, <3>2
    <3> QED BY <3>1, <3>3
  <2>2. CASE e \in [kind : {"file"}, name : STRING, inside : STRING, matches : BOOLEAN, info : FileFacts]
    <3> HIDE DEF FileFacts
    <3>1. e.matches /\ e.kind = "file"
      BY <1>2, <2>2 DEF e
    <3>2. lost = [e EXCEPT !.info = Nothing]
      BY <3>1
    <3>3. /\ lost.kind = e.kind /\ lost.name = e.name /\ lost.inside = e.inside
          /\ lost.matches = e.matches /\ lost.info = Nothing
      BY <2>2, <3>2
    <3> QED BY <3>1, <3>3
  <2> QED BY <1>3, <2>1, <2>2 DEF EntryFacts
<1>5. /\ DOMAIN listing = 1..n /\ listing = [j \in 1..n |-> listing[j]]
      /\ \A j \in 1..n : listing[j] = IF j = i THEN lost ELSE all[j]
  BY <1>1, <1>2
<1> HIDE DEF other, lost, e
<1>6. listing \in Seq(T) /\ Len(listing) = n
  <2> HIDE DEF n
  <2>1. \A j \in 1..n : listing[j] \in T
    OBVIOUS
  <2>2. n \in Nat /\ listing = [j \in 1..n |-> listing[j]]
    BY <1>1, <1>5 DEF n
  <2> HIDE DEF T
  <2> QED BY <2>1, <2>2
<1> HIDE DEF T
<1> DEFINE shut == closed(listing, prunes)
           keep == {f \in Range(listing) : f.inside \notin shut}
           walk == visited(listing, prunes)
<1>7. walk = Kept(listing, keep)
  BY DEF visited
<1>8. shut = {listing[j].name : j \in {k \in 1..n : listing[k].kind = "dir"
                /\ (~listing[k].opens \/ (prunes /\ listing[k].pruned))}}
  BY <1>5 DEF closed
<1> HIDE DEF shut, keep, walk
<1>9. walk \in Seq(T) /\ Range(walk) = Range(listing) \intersect keep
  BY <1>6, <1>7, KeptIsOf
<1>10. \A f : f \in Range(walk) <=> f \in Range(listing) /\ f.inside \notin shut
  BY <1>9 DEF keep
<1>11. prunes => PrunedIn(w) \subseteq shut
  <2> SUFFICES ASSUME prunes, NEW j \in DOMAIN all, all[j].kind = "dir", all[j].pruned
               PROVE  all[j].name \in shut
    BY DEF PrunedIn
  <2>1. j \in 1..n /\ j # i
    BY <1>1, <1>2
  <2>2. listing[j] = all[j]
    BY <1>5, <2>1
  <2> QED BY <1>8, <2>1, <2>2
<1>12. scan(listing, prunes) \subseteq FoundIn(w, prunes)
  <2> SUFFICES ASSUME NEW f \in scan(listing, prunes) PROVE f \in FoundIn(w, prunes)
    OBVIOUS
  <2>1. f \in Range(walk) /\ f.kind = "file" /\ f.matches /\ f.info # Nothing /\ f.info.regular
    BY DEF scan, walk
  <2>2. PICK j \in 1..n : f = listing[j]
    BY <1>5, <1>10, <2>1 DEF Range
  <2>3. j # i
    BY <1>4, <1>5, <2>1, <2>2
  <2>4. f \in Range(all)
    BY <1>1, <1>5, <2>2, <2>3 DEF Range
  <2>5. prunes => f.inside \notin PrunedIn(w)
    BY <1>10, <1>11, <2>1
  <2> QED BY <2>1, <2>4, <2>5 DEF FoundIn
<1>13. lost \in Range(walk)
  <2>1. lost \in Range(listing)
    BY <1>3, <1>5 DEF Range
  <2>2. lost.inside \notin shut
    <3> SUFFICES ASSUME NEW j \in 1..n, listing[j].kind = "dir", listing[j].name = e.inside,
                        ~listing[j].opens \/ (prunes /\ listing[j].pruned)
                 PROVE  FALSE
      BY <1>4, <1>8
    <3>1. all[j].kind = "dir" /\ all[j].name = e.inside
      BY <1>4, <1>5 DEF e
    <3>2. e.inside # ""
      BY <1>1, <3>1, EntriesAre
    <3>3. e.kind = "file"
      BY <1>3, <3>2, EntriesAre
    <3>4. j # i
      BY <3>1, <3>3 DEF e
    <3>5. listing[j] = all[j]
      BY <1>5, <3>4
    <3>6. all[j].pruned
      BY <1>1, <3>1, <3>5, EntriesAre
    <3>7. all[j].name \in closed(all, TRUE)
      BY <1>1, <3>1, <3>6 DEF closed
    <3>8. e.inside \notin closed(all, TRUE)
      <4> DEFINE open == {f \in Range(all) : f.inside \notin closed(all, TRUE)}
      <4>1. visited(all, TRUE) = Kept(all, open)
        BY DEF visited
      <4> HIDE DEF open
      <4>2. Range(visited(all, TRUE)) = Range(all) \intersect open
        <5> HIDE DEF all
        <5> QED BY <1>1, <4>1, KeptIsOf
      <4> QED BY <1>2, <4>2 DEF e, open
    <3> QED BY <3>1, <3>7, <3>8
  <2> QED BY <1>10, <2>1, <2>2
<1>14. refused(lost, prunes)
  BY <1>4 DEF refused
<1>15. unreadableCount(listing, prunes) > 0
  <2> DEFINE out == {f \in Range(walk) : refused(f, prunes)}
             kept == Kept(walk, out)
  <2>1. unreadableCount(listing, prunes) = Len(kept)
    BY DEF unreadableCount, walk
  <2>2. lost \in Range(walk) \intersect out
    BY <1>13, <1>14
  <2> HIDE DEF out
  <2>3. kept \in Seq(T) /\ Range(kept) = Range(walk) \intersect out
    BY <1>9, KeptIsOf
  <2> HIDE DEF kept
  <2>4. Len(kept) \in Nat /\ Range(kept) = {kept[j] : j \in 1..Len(kept)}
    BY <2>3, ListIs
  <2>5. Len(kept) # 0
    BY <2>2, <2>3, <2>4
  <2> QED BY <2>1, <2>4, <2>5
<1> QED BY <1>12, <1>15
(* An answer that lists what it found, all of it or with the loss said.     *)
LEMMA ListingIsRight ==
  ASSUME NEW w \in been, check \in Finds \ {"procs.top"}, NEW found, NEW truth,
         NEW more \in SUBSET {Unseen},
         answer = Judged("ok", {Step(a, "ok") : a \in found} \union more),
         found \subseteq truth, Worth(w) = {Step(a, "ok") : a \in truth}, Nothing \notin truth,
         (AllWhole /\ found = truth) \/ Unseen \in more
  PROVE  RightAnswer
<1> DEFINE steps == {Step(a, "ok") : a \in found} \union more
<1>1. /\ Final(answer) = "ok" /\ answer.steps = steps
      /\ Named = {s.about : s \in steps} \ {Nothing}
  BY JudgedIs DEF Status
<1>2. \A a, s : Step(a, s).about = a /\ Step(a, s).status = s
  BY DEF Step
<1>3. Unseen \in more => Declined
  <2>1. Unseen \in more => Unseen \in answer.steps
    BY <1>1
  <2> QED BY <2>1, UnseenIsSaid
<1>4. Named \subseteq Abouts(w)
  <2> SUFFICES ASSUME NEW s \in steps, s.about # Nothing PROVE s.about \in Abouts(w)
    BY <1>1
  <2>1. PICK a \in found : s = Step(a, "ok")
    BY UnseenIsSaid
  <2>2. s \in Worth(w)
    BY <2>1
  <2> QED BY <2>2 DEF Abouts
<1>5. \A x \in Worth(w) : Heard(x)
  <2> SUFFICES ASSUME NEW x \in Worth(w), ~ Declined PROVE Heard(x)
    BY DEF Heard
  <2>1. found = truth
    BY <1>3
  <2>2. PICK a \in truth : x = Step(a, "ok")
    OBVIOUS
  <2>3. x \in steps /\ x.about = a /\ x.status = "ok"
    BY <1>2, <2>1, <2>2
  <2> HIDE DEF steps
  <2>4. x.about \in Named
    BY <1>1, <2>3
  <2> QED BY <1>1, <2>3, <2>4 DEF Heard, rank
<1> QED BY <1>1, <1>3, <1>4, <1>5, RightOfOne

(* A walk's answer lists the names of what it found. *)
LEMMA WalkedIsRight ==
  ASSUME NEW w \in been, check \in Finds \ {"procs.top"}, NEW found, NEW truth,
         NEW more \in SUBSET {Unseen},
         answer = Judged("ok", {Step(e.name, "ok") : e \in found} \union more),
         found \subseteq truth, Worth(w) = {Step(e.name, "ok") : e \in truth},
         \A e \in truth : e.name # Nothing,
         (AllWhole /\ found = truth) \/ Unseen \in more
  PROVE  RightAnswer
<1> DEFINE names(S) == {e.name : e \in S}
<1>1. \A S : {Step(e.name, "ok") : e \in S} = {Step(a, "ok") : a \in names(S)}
  OBVIOUS
<1>2. /\ answer = Judged("ok", {Step(a, "ok") : a \in names(found)} \union more)
      /\ Worth(w) = {Step(a, "ok") : a \in names(truth)}
  BY <1>1
<1>3. /\ names(found) \subseteq names(truth) /\ Nothing \notin names(truth)
      /\ (AllWhole /\ names(found) = names(truth)) \/ Unseen \in more
  OBVIOUS
<1> HIDE DEF names
<1> QED BY <1>2, <1>3, ListingIsRight

(* Every tree of a world is one a walk goes through, to names of files. *)
LEMMA TreeIsWalked ==
  ASSUME NEW w \in Hosts(check), check \in {"logsqueeze.candidates", "storage.stale"}
  PROVE  /\ WalkedHere(w)
         /\ \A P \in BOOLEAN : \A e \in FoundIn(w, P) : e.name # Nothing
<1>1. WalkedHere(w)
  BY DEF Hosts, DockerChecks, NetChecks, WalkedHere
<1>2. \A e \in Range(w.entries) : e.name # Nothing
  <2>1. Range(w.entries) \subseteq EntryFacts
    BY <1>1, ListIs DEF WalkedHere
  <2> QED BY <2>1, EntriesAre, ValuesAreSomething
<1> QED BY <1>1, <1>2 DEF FoundIn

(* logsqueeze.candidates: every log worth squeezing, or a word of what could*)
(* not be looked at.                                                        *)
LEMMA CandidatesAreRight ==
  ASSUME Inv, Answered, check = "logsqueeze.candidates"
  PROVE  RightAnswer
<1>1. Len(Script) = 2 /\ Script[1] = Ask("root") /\ Script[2] = Ask("listing")
  BY DEF Script
<1>2. /\ Len(seen) \in Nat /\ DOMAIN seen = 1..Len(seen) /\ Len(seen) <= 2 /\ Settled /\ GoesOn
  BY <1>1, AnsweredFrom
<1>3. Taken(1) /\ (Taken(2) \/ openable(Got(1)) # Bare("ok"))
  BY <1>1, <1>2 DEF Settled, Taken
<1>4. answer = CandidatesRun(Got(1), Got(2))
  BY AnsweredFrom DEF Run
<1>5. CASE openable(Got(1)) # Bare("ok")
  <2>1. answer \in {Bare("error"), Bare("unavailable")}
    BY <1>4, <1>5 DEF CandidatesRun, openable, Unavailable
  <2> QED BY <2>1, BareIsRight
<1>6. CASE openable(Got(1)) = Bare("ok")
  <2>1. seen[1].whole
    <3>1. PICK u \in been : u \in Hosts(check) /\ seen[1] \in Replies(Ask("root"), u, seen)
      BY <1>1, <1>3, ReadingIs
    <3>2. seen[1] \in TreeReplies("root", u) /\ Got(1) = seen[1].got
      BY <1>3, <3>1, RepliesAre DEF Ask, TreeAsks, Got
    <3>3. seen[1] \in {Whole(u.root), Torn("denied"), Torn("failed")}
      BY <3>2 DEF TreeReplies
    <3>4. Got(1) \notin {"denied", "failed"}
      <4>1. Bare("error") # Bare("ok") /\ Bare("unavailable") # Bare("ok")
        BY DEF Bare
      <4> QED BY <1>6, <4>1 DEF openable, Unavailable
    <3> QED BY <3>2, <3>3, <3>4 DEF Whole, Torn
  <2>2. Taken(2)
    BY <1>3, <1>6
  <2>3. PICK w \in been : w \in Hosts(check) /\ seen[2] \in Replies(Ask("listing"), w, seen)
    BY <1>1, <2>2, ReadingIs
  <2>4. seen[2] \in TreeReplies("listing", w) /\ Got(2) = seen[2].got
    BY <2>2, <2>3, RepliesAre DEF Ask, TreeAsks, Got
  <2>5. \/ seen[2].whole /\ Got(2) = w.entries
        \/ ~ seen[2].whole /\ (Got(2) = Nothing \/ Got(2) \in Refusing(w.entries))
    <3>1. \/ seen[2] = Whole(w.entries) \/ seen[2] = Torn(Nothing)
          \/ \E e \in Refusing(w.entries) : seen[2] = Torn(e)
      BY <2>4 DEF TreeReplies
    <3>2. \A g : Whole(g).whole /\ Whole(g).got = g /\ ~ Torn(g).whole /\ Torn(g).got = g
      BY DEF Whole, Torn
    <3> QED BY <2>4, <3>1, <3>2
  <2>6. WalkedHere(w) /\ \A P \in BOOLEAN : \A e \in FoundIn(w, P) : e.name # Nothing
    BY <2>3, TreeIsWalked
  <2> DEFINE entries == IF Got(2) = Nothing THEN <<>> ELSE Got(2)
             big(e) == e.info.size >= MinBytes
             found == {e \in scan(entries, FALSE) : bigEnough(e.info)}
             truth == {e \in FoundIn(w, FALSE) : big(e)}
             some == IF unreadableCount(entries, FALSE) > 0 THEN {Unseen} ELSE {}
             more == some \union rootRefused(Got(2))
  <2>7. answer = Judged("ok", {Step(e.name, "ok") : e \in found} \union more)
    <3>1. answer = Judged("ok", walkSteps(entries, FALSE, found) \union rootRefused(Got(2)))
      BY <1>4, <1>6 DEF CandidatesRun
    <3> HIDE DEF found, entries
    <3> QED BY <3>1 DEF walkSteps
  <2>8. more \in SUBSET {Unseen}
    BY DEF rootRefused
  <2>9. Worth(w) = {Step(e.name, "ok") : e \in truth}
    <3>1. CASE w.root = "dir"
      <4>1. Worth(w) = FilesIn(w, LAMBDA e : e.info.size >= MinBytes)
        BY <3>1 DEF Worth
      <4>2. FilesIn(w, LAMBDA e : e.info.size >= MinBytes) =
              {Step(e.name, "ok") : e \in {f \in Range(w.entries) :
                 f.kind = "file" /\ f.matches /\ f.info.regular /\ f.info.size >= MinBytes}}
        BY DEF FilesIn, Range
      <4>3. {f \in Range(w.entries) :
                 f.kind = "file" /\ f.matches /\ f.info.regular /\ f.info.size >= MinBytes} = truth
        BY DEF FoundIn
      <4> QED BY <4>1, <4>2, <4>3
    <3>2. CASE w.root # "dir"
      <4>1. Range(w.entries) = {}
        BY <2>6, <3>2 DEF WalkedHere, Range
      <4>2. truth = {}
        BY <4>1 DEF FoundIn
      <4>3. Worth(w) = {}
        BY <3>2 DEF Worth
      <4> QED BY <4>2, <4>3
    <3> QED BY <3>1, <3>2
  <2>10. (AllWhole /\ found = truth) \/ (found \subseteq truth /\ Unseen \in more)
    <3>1. CASE seen[2].whole /\ Got(2) = w.entries
      <4>1. w.entries # Nothing
        BY <2>6, NothingAssumption DEF WalkedHere
      <4>2. scan(entries, FALSE) = FoundIn(w, FALSE)
        BY <2>6, <3>1, <4>1, WholeWalk
      <4>3. found = truth
        BY <4>2 DEF bigEnough
      <4>4. AllWhole
        BY <1>2, <2>1, <3>1 DEF AllWhole
      <4> QED BY <4>3, <4>4
    <3>2. CASE Got(2) = Nothing
      <4>1. scan(<<>>, FALSE) = {}
        <5>1. <<>> \in Seq({})
          OBVIOUS
        <5>2. \A k : Range(Kept(<<>>, k)) = Range(<<>>) \intersect k
          BY <5>1, KeptIsOf
        <5>3. Range(<<>>) = {}
          BY DEF Range
        <5>4. Range(visited(<<>>, FALSE)) = {}
          BY <5>2, <5>3 DEF visited
        <5> QED BY <5>4 DEF scan
      <4>2. entries = <<>>
        BY <3>2
      <4>3. found = {}
        BY <4>1, <4>2
      <4>4. Unseen \in more
        BY <3>2 DEF rootRefused
      <4> QED BY <4>3, <4>4
    <3>3. CASE Got(2) # Nothing /\ Got(2) \in Refusing(w.entries)
      <4>1. scan(entries, FALSE) \subseteq FoundIn(w, FALSE) /\ unreadableCount(entries, FALSE) > 0
        BY <2>6, <3>3, RefusedWalk
      <4>2. found \subseteq truth
        BY <4>1 DEF bigEnough
      <4>3. Unseen \in more
        BY <4>1
      <4> QED BY <4>2, <4>3
    <3> QED BY <2>5, <3>1, <3>2, <3>3
  <2>11. check \in Finds /\ \A e \in truth : e.name # Nothing
    BY <2>6 DEF Finds
  <2> HIDE DEF found, truth, more
  <2> QED BY <2>7, <2>8, <2>9, <2>10, <2>11, WalkedIsRight
<1> QED BY <1>5, <1>6

(* The window that is asked for fits in an int64 of nanoseconds: past that  *)
(* the code wraps around, and looks for files of another age.               *)
WindowFits == Days \in Int => Days \in -Half .. Half - 1

(* Then the cutoff is so many days before today. *)
LEMMA WindowIsMeant ==
  ASSUME WindowFits, Days \in Int
  PROVE  cutoff(Now, Days) = Now - Days
<1>1. \A m \in Nat \ {0} : \A x \in 0..m - 1 : x % m = x
  OBVIOUS
<1>2. Half \in Nat \ {0} /\ Days \in -Half .. Half - 1 /\ Now \in Int
  BY ParamAssumption DEF WindowFits
<1>3. 2 * Half \in Nat \ {0} /\ Days + Half \in 0..(2 * Half) - 1
  BY <1>2
<1>4. (Days + Half) % (2 * Half) = Days + Half
  BY <1>1, <1>3
<1>5. wrap(Days) = Days
  BY <1>2, <1>4 DEF wrap
<1> QED BY <1>2, <1>5 DEF cutoff

(* The files of a tree that are as old as the code takes the window to be.  *)
StaleFiles(w) == {e \in FoundIn(w, TRUE) : e.info.mtime <= cutoff(Now, Days)}

(* An answer that lists all of them, or some and says so. *)
ListsStale(w, found, more) ==
  /\ answer = Judged("ok", {Step(e.name, "ok") : e \in found} \union more)
  /\ Days # Nothing /\ WalkedHere(w) /\ \A e \in StaleFiles(w) : e.name # Nothing
  /\ found \subseteq StaleFiles(w) /\ more \in SUBSET {Unseen}
  /\ (AllWhole /\ found = StaleFiles(w)) \/ Unseen \in more

(* storage.stale: every file that old, or a word of what could not be       *)
(* looked at.                                                               *)
LEMMA StaleSays ==
  ASSUME Inv, Answered, check = "storage.stale"
  PROVE  \/ answer \in {Bare("error"), Bare("unavailable")}
         \/ \E w \in been : \E found, more : ListsStale(w, found, more)
<1>1. Len(Script) = 3 /\ Script[1] = Ask("root") /\ Script[2] = Ask("open") /\ Script[3] = Ask("tree")
  BY DEF Script
<1>2. /\ Len(seen) \in Nat /\ DOMAIN seen = 1..Len(seen) /\ Len(seen) <= 3 /\ Settled /\ GoesOn
  BY <1>1, AnsweredFrom
<1>3. Bare("error") # Bare("ok") /\ Bare("unavailable") # Bare("ok")
  BY DEF Bare
<1>4. /\ Taken(1)
      /\ (Taken(3) /\ Taken(2)) \/ walkable(Got(1), Got(2)) # Bare("ok")
  <2>1. Taken(1) /\ (Len(seen) = 3 \/ walkable(Got(1), IF Taken(2) THEN Got(2) ELSE "opened") # Bare("ok"))
    BY <1>1, <1>2 DEF Settled, Taken
  <2>2. walkable(Got(1), "opened") # Bare("ok") => walkable(Got(1), Got(2)) # Bare("ok")
    BY <1>3 DEF walkable
  <2>3. Len(seen) = 3 => Taken(3) /\ Taken(2)
    BY <1>2 DEF Taken
  <2> QED BY <2>1, <2>2, <2>3
<1>5. answer = StaleRun(Days, Now, Got(1), Got(2), Got(3))
  BY AnsweredFrom DEF Run
<1>6. CASE Days = Nothing \/ walkable(Got(1), Got(2)) # Bare("ok")
  <2>1. answer \in {Bare("error"), Bare("unavailable")}
    BY <1>5, <1>6 DEF StaleRun, walkable, Unavailable
  <2> QED BY <2>1
<1>7. CASE Days # Nothing /\ walkable(Got(1), Got(2)) = Bare("ok")
  <2>1. seen[1].whole /\ seen[2].whole /\ Taken(3)
    <3>1. Taken(1) /\ Taken(2) /\ Taken(3)
      BY <1>4, <1>7
    <3>2. PICK u \in been : seen[1] \in Replies(Ask("root"), u, seen)
      BY <1>1, <3>1, ReadingIs
    <3>3. seen[1] \in TreeReplies("root", u) /\ Got(1) = seen[1].got /\ Got(2) = seen[2].got
      BY <3>1, <3>2, RepliesAre DEF Ask, TreeAsks, Got
    <3>4. seen[1] \in {Whole(u.root), Torn("denied"), Torn("failed")}
      BY <3>3 DEF TreeReplies
    <3>5. PICK v \in been : seen[2] \in Replies(Ask("open"), v, seen)
      BY <1>1, <3>1, ReadingIs
    <3>6. seen[2] \in TreeReplies("open", v)
      BY <3>5, RepliesAre DEF Ask, TreeAsks
    <3>7. seen[2] \in {Whole("opened"), Torn("denied"), Torn("failed")}
      BY <3>6 DEF TreeReplies
    <3>8. Got(1) \notin {"denied", "failed"} /\ Got(2) \notin {"denied", "failed"}
      BY <1>3, <1>7 DEF walkable, Unavailable, Refusal
    <3> QED BY <3>1, <3>3, <3>4, <3>7, <3>8 DEF Whole, Torn
  <2>2. PICK w \in been : w \in Hosts(check) /\ seen[3] \in Replies(Ask("tree"), w, seen)
    BY <1>1, <2>1, ReadingIs
  <2>3. seen[3] \in TreeReplies("tree", w) /\ Got(3) = seen[3].got
    BY <2>1, <2>2, RepliesAre DEF Ask, TreeAsks, Got
  <2>4. \/ seen[3].whole /\ Got(3) = w.entries
        \/ ~ seen[3].whole /\ Got(3) \in Refusing(w.entries)
    <3>1. seen[3] = Whole(w.entries) \/ \E e \in Refusing(w.entries) : seen[3] = Torn(e)
      BY <2>3 DEF TreeReplies
    <3>2. \A g : Whole(g).whole /\ Whole(g).got = g /\ ~ Torn(g).whole /\ Torn(g).got = g
      BY DEF Whole, Torn
    <3> QED BY <2>3, <3>1, <3>2
  <2>5. WalkedHere(w) /\ \A P \in BOOLEAN : \A e \in FoundIn(w, P) : e.name # Nothing
    BY <2>2, TreeIsWalked
  <2> DEFINE found == {e \in scan(Got(3), TRUE) : oldEnough(e.info, cutoff(Now, Days))}
             more == IF unreadableCount(Got(3), TRUE) > 0 THEN {Unseen} ELSE {}
  <2>6. answer = Judged("ok", {Step(e.name, "ok") : e \in found} \union more)
    <3>1. answer = Judged("ok", walkSteps(Got(3), TRUE, found))
      BY <1>5, <1>7 DEF StaleRun
    <3> HIDE DEF found
    <3> QED BY <3>1 DEF walkSteps
  <2>7. more \in SUBSET {Unseen}
    OBVIOUS
  <2>8. (AllWhole /\ found = StaleFiles(w)) \/ (found \subseteq StaleFiles(w) /\ Unseen \in more)
    <3>1. CASE seen[3].whole /\ Got(3) = w.entries
      <4>1. scan(Got(3), TRUE) = FoundIn(w, TRUE)
        BY <2>5, <3>1, WholeWalk
      <4>2. found = StaleFiles(w)
        BY <4>1 DEF oldEnough, StaleFiles
      <4>3. AllWhole
        BY <1>2, <2>1, <3>1 DEF AllWhole
      <4> QED BY <4>2, <4>3
    <3>2. CASE Got(3) \in Refusing(w.entries)
      <4>1. scan(Got(3), TRUE) \subseteq FoundIn(w, TRUE) /\ unreadableCount(Got(3), TRUE) > 0
        BY <2>5, <3>2, RefusedWalk
      <4>2. found \subseteq StaleFiles(w)
        BY <4>1 DEF oldEnough, StaleFiles
      <4>3. Unseen \in more
        BY <4>1
      <4> QED BY <4>2, <4>3
    <3> QED BY <2>4, <3>1, <3>2
  <2>9. \A e \in StaleFiles(w) : e.name # Nothing
    BY <2>5 DEF StaleFiles
  <2> HIDE DEF found, more
  <2>10. ListsStale(w, found, more)
    BY <1>7, <2>5, <2>6, <2>7, <2>8, <2>9 DEF ListsStale
  <2> QED BY <2>10
<1> QED BY <1>6, <1>7

(* When the window fits, those are the files that are meant. *)
LEMMA StaleIsRight ==
  ASSUME Inv, Answered, check = "storage.stale", WindowFits
  PROVE  RightAnswer
<1>1. CASE answer \in {Bare("error"), Bare("unavailable")}
  BY <1>1, BareIsRight
<1>2. CASE \E w \in been : \E found, more : ListsStale(w, found, more)
  <2>1. PICK w \in been : \E found, more : ListsStale(w, found, more)
    BY <1>2
  <2>2. PICK found, more : ListsStale(w, found, more)
    BY <2>1
  <2>3. cutoff(Now, Days) = Now - Days
    BY <2>2, WindowIsMeant, ParamAssumption DEF ListsStale
  <2> DEFINE truth == StaleFiles(w)
             at == Now - Days
  <2>4. Worth(w) = {Step(e.name, "ok") : e \in truth}
    <3>1. CASE w.root = "dir"
      <4> DEFINE old == {f \in Range(w.entries) :
                           /\ f.kind = "file" /\ f.matches /\ f.info.regular
                           /\ f.info.mtime <= at /\ f.inside \notin PrunedIn(w)}
      <4>1. Worth(w) = FilesIn(w, LAMBDA e : e.info.mtime <= Now - Days /\ e.inside \notin PrunedIn(w))
        BY <3>1 DEF Worth
      <4>2. FilesIn(w, LAMBDA e : e.info.mtime <= Now - Days /\ e.inside \notin PrunedIn(w)) =
              {Step(e.name, "ok") : e \in old}
        BY DEF FilesIn, Range
      <4>3. old = truth
        BY <2>3 DEF FoundIn, StaleFiles
      <4> QED BY <4>1, <4>2, <4>3
    <3>2. CASE w.root # "dir"
      <4>1. Range(w.entries) = {}
        BY <2>2, <3>2 DEF ListsStale, WalkedHere, Range
      <4>2. truth = {}
        BY <4>1 DEF FoundIn, StaleFiles
      <4>3. Worth(w) = {}
        BY <3>2 DEF Worth
      <4> QED BY <4>2, <4>3
    <3> QED BY <3>1, <3>2
  <2>5. check \in Finds
    BY DEF Finds
  <2>6. /\ answer = Judged("ok", {Step(e.name, "ok") : e \in found} \union more)
        /\ \A e \in truth : e.name # Nothing
        /\ found \subseteq truth /\ more \in SUBSET {Unseen}
        /\ (AllWhole /\ found = truth) \/ Unseen \in more
    BY <2>2 DEF ListsStale
  <2> HIDE DEF truth
  <2> QED BY <2>4, <2>5, <2>6, WalkedIsRight
<1> QED BY <1>1, <1>2, StaleSays

(* Whatever the window, the check pages nobody and admits what it missed.   *)
LEMMA StaleIsQuiet ==
  ASSUME Inv, Answered, check = "storage.stale"
  PROVE  NeverGreenBlind /\ NoFalseAlarm
<1>1. CASE answer \in {Bare("error"), Bare("unavailable")}
  BY <1>1, BareIsRight DEF RightAnswer
<1>2. CASE \E w \in been : \E found, more : ListsStale(w, found, more)
  <2>1. PICK w \in been : \E found, more : ListsStale(w, found, more)
    BY <1>2
  <2>2. PICK found, more : ListsStale(w, found, more)
    BY <2>1
  <2> DEFINE steps == {Step(e.name, "ok") : e \in found} \union more
  <2>3. answer = Judged("ok", steps) /\ (AllWhole \/ Unseen \in more)
    BY <2>2 DEF ListsStale
  <2>4. Unseen \in more => Unseen \in steps
    OBVIOUS
  <2> HIDE DEF steps
  <2>5. Final(answer) = "ok" /\ answer.steps = steps
    BY <2>3, JudgedIs DEF Status
  <2>6. AllWhole \/ Admits
    BY <2>3, <2>4, <2>5, UnseenIsSaid DEF Declined
  <2>7. Verdict \in {"ok", "error"}
    BY <2>5 DEF Verdict
  <2> QED BY <2>6, <2>7 DEF NeverGreenBlind, NoFalseAlarm
<1> QED BY <1>1, <1>2, StaleSays
(* storage.env: what is required and not there, and what is said twice or   *)
(* cannot be read.                                                          *)
LEMMA IssuesAre ==
  ASSUME NEW lines \in Seq(STRING)
  PROVE  Issues(lines) # {} <=> "bad" \in Range(lines) \/ Repeats(lines)
<1> DEFINE n == Len(lines)
<1>1. DOMAIN lines = 1..n /\ n \in Nat
  OBVIOUS
<1> HIDE DEF n
<1>2. \A i \in DOMAIN lines : \A j \in 1..(i - 1) : j \in DOMAIN lines /\ i # j
  <2> SUFFICES ASSUME NEW i \in 1..n, NEW j \in 1..(i - 1) PROVE j \in 1..n /\ i # j
    BY <1>1
  <2> QED BY <1>1
<1>3. \A i, j \in DOMAIN lines : i # j => i \in 1..(j - 1) \/ j \in 1..(i - 1)
  <2> SUFFICES ASSUME NEW i \in 1..n, NEW j \in 1..n, i # j
               PROVE  i \in 1..(j - 1) \/ j \in 1..(i - 1)
    BY <1>1
  <2> QED BY <1>1
<1>4. Issues(lines) # {} => "bad" \in Range(lines) \/ Repeats(lines)
  <2> SUFFICES ASSUME NEW i \in Issues(lines) PROVE "bad" \in Range(lines) \/ Repeats(lines)
    OBVIOUS
  <2>1. i \in DOMAIN lines
    BY DEF Issues
  <2>2. CASE lines[i] = "bad"
    BY <2>1, <2>2 DEF Range
  <2>3. CASE lines[i] # "" /\ \E j \in 1..(i - 1) : lines[j] = lines[i]
    BY <1>2, <2>1, <2>3 DEF Repeats
  <2> QED BY <2>2, <2>3 DEF Issues
<1>5. "bad" \in Range(lines) => Issues(lines) # {}
  <2> SUFFICES ASSUME NEW i \in DOMAIN lines, lines[i] = "bad" PROVE Issues(lines) # {}
    BY DEF Range
  <2> QED BY DEF Issues
<1>6. Repeats(lines) => Issues(lines) # {}
  <2> SUFFICES ASSUME NEW i \in DOMAIN lines, NEW j \in DOMAIN lines, i # j,
                      lines[i] = lines[j], lines[i] # ""
               PROVE  Issues(lines) # {}
    BY DEF Repeats
  <2>1. CASE j \in 1..(i - 1)
    <3>1. i \in Issues(lines)
      BY <2>1 DEF Issues
    <3> QED BY <3>1
  <2>2. CASE i \in 1..(j - 1)
    <3>1. j \in Issues(lines)
      BY <2>2 DEF Issues
    <3> QED BY <3>1
  <2> QED BY <1>3, <2>1, <2>2
<1> QED BY <1>4, <1>5, <1>6

(* What storage.env would have to say is a warning or worse. *)
LEMMA EnvBadIs ==
  ASSUME NEW w
  PROVE  \A x \in EnvBad(w) : x.status \in {"warn", "crit"}
<1>1. \A a, s : Bad(a, s) = (IF s = "ok" THEN {} ELSE {Step(a, s)}) /\ Step(a, s).status = s
  BY DEF Bad, Step
<1>2. \A a : \A s \in {"ok", "warn", "crit"} : \A x \in Bad(a, s) : x.status \in {"warn", "crit"}
  BY <1>1
<1>3. CASE w.root \notin {"file", "absent"}
  BY <1>3 DEF EnvBad
<1>4. CASE w.root \in {"file", "absent"} /\ (w.root = "absent" \/ w.text # "ok")
  <2>1. EnvBad(w) = Bad("", "crit")
    BY <1>4 DEF EnvBad
  <2> QED BY <1>2, <2>1
<1>5. CASE w.root \in {"file", "absent"} /\ ~ (w.root = "absent" \/ w.text # "ok")
  <2> DEFINE wrong == "bad" \in Range(w.lines) \/ Repeats(w.lines)
             missing == Required \ Range(w.lines)
  <2>1. EnvBad(w) = (UNION {Bad(k, "crit") : k \in missing})
                       \union Bad("", IF wrong THEN "warn" ELSE "ok")
    BY <1>5 DEF EnvBad
  <2>2. (IF wrong THEN "warn" ELSE "ok") \in {"ok", "warn", "crit"}
    OBVIOUS
  <2> HIDE DEF wrong, missing
  <2>3. SUFFICES ASSUME NEW x \in EnvBad(w) PROVE x.status \in {"warn", "crit"}
    OBVIOUS
  <2>4. CASE x \in Bad("", IF wrong THEN "warn" ELSE "ok")
    BY <1>2, <2>2, <2>4
  <2>5. CASE \E k \in missing : x \in Bad(k, "crit")
    BY <1>2, <2>5
  <2> QED BY <2>1, <2>4, <2>5
<1> QED BY <1>3, <1>4, <1>5

(* storage.env: what is required and missing, and what is said twice or is no line.*)
LEMMA EnvIsRight ==
  ASSUME Inv, Answered, check = "storage.env"
  PROVE  RightAnswer
<1>1. Len(Script) = 3 /\ Script[1] = Ask("root") /\ Script[2] = Ask("text") /\ Script[3] = Ask("reopen")
  BY DEF Script
<1>2. /\ Len(seen) \in Nat /\ DOMAIN seen = 1..Len(seen) /\ Len(seen) <= 3 /\ Settled /\ GoesOn
  BY <1>1, AnsweredFrom
<1>3. /\ Taken(1)
      /\ (Taken(2) /\ (Taken(3) \/ Got(2).how # "unread")) \/ readable(Got(1)) # Bare("ok")
  BY <1>1, <1>2 DEF Settled, Taken
<1>4. answer = EnvRun(Required, Got(1), Got(2), Got(3))
  BY AnsweredFrom DEF Run
<1>5. check \notin Finds \union Lists /\ \A w : Worth(w) = EnvBad(w)
  BY DEF Finds, Lists, Worth
<1>6. CASE readable(Got(1)) # Bare("ok")
  <2>1. answer \in {Bare("error"), Bare("unavailable")}
    BY <1>4, <1>6 DEF EnvRun, readable, Unavailable
  <2> QED BY <2>1, BareIsRight
<1>7. CASE readable(Got(1)) = Bare("ok")
  <2>1. Taken(2) /\ (Taken(3) \/ Got(2).how # "unread")
    BY <1>3, <1>7
  <2>2. PICK u \in been : u \in Hosts(check) /\ seen[1] \in Replies(Ask("root"), u, seen)
    BY <1>1, <1>3, ReadingIs
  <2>3. seen[1].whole /\ u.root \in {"file", "absent"}
    <3>1. seen[1] \in TreeReplies("root", u) /\ Got(1) = seen[1].got
      BY <1>3, <2>2, RepliesAre DEF Ask, TreeAsks, Got
    <3>2. seen[1] \in {Whole(u.root), Torn("denied"), Torn("failed")}
      BY <3>1 DEF TreeReplies
    <3>3. Got(1) \notin {"denied", "failed", "dir", "special"}
      <4>1. Bare("error") # Bare("ok") /\ Bare("unavailable") # Bare("ok")
        BY DEF Bare
      <4> QED BY <1>7, <4>1 DEF readable, Unavailable
    <3>4. u.root \in {"file", "dir", "special", "absent"}
      BY <2>2 DEF Hosts, DockerChecks, NetChecks
    <3> QED BY <3>1, <3>2, <3>3, <3>4 DEF Whole, Torn
  <2>4. PICK w \in been : w \in Hosts(check) /\ seen[2] \in Replies(Ask("text"), w, seen)
    BY <1>1, <2>1, ReadingIs
  <2>5. /\ w.root \in {"file", "absent"} /\ w.text \in {"ok", "absent", "denied", "unread"}
        /\ w.lines \in Seq(STRING) /\ (w.root = "absent" => w.text # "ok")
    <3>1. w.root \in {"file", "absent"}
      BY <2>3, AnsweredFrom DEF Alike
    <3> QED BY <2>4, <3>1 DEF Hosts, DockerChecks, NetChecks
  <2>6. \/ seen[2].whole /\ Got(2).how = w.text /\ (w.text = "ok" => Got(2).lines = w.lines)
        \/ ~ seen[2].whole /\ Got(2).how = "unread"
    <3>1. seen[2] \in TreeReplies("text", w) /\ Got(2) = seen[2].got
      BY <2>1, <2>4, RepliesAre DEF Ask, TreeAsks, Got
    <3> DEFINE told == [how |-> w.text, lines |-> IF w.text = "ok" THEN w.lines ELSE <<>>]
               lost == [how |-> "unread", lines |-> <<>>]
    <3>2. seen[2] = Whole(told) \/ seen[2] = Torn(lost)
      BY <3>1 DEF TreeReplies
    <3>3. \A g : Whole(g).whole /\ Whole(g).got = g /\ ~ Torn(g).whole /\ Torn(g).got = g
      BY DEF Whole, Torn
    <3>4. told.how = w.text /\ lost.how = "unread" /\ (w.text = "ok" => told.lines = w.lines)
      OBVIOUS
    <3> HIDE DEF told, lost
    <3> QED BY <3>1, <3>2, <3>3, <3>4
  <2>7. Got(2).how # "unread" /\ seen[2].whole => AllWhole
    <3>1. Got(2).how # "unread" => ~ Taken(3)
      BY <1>2 DEF GoesOn
    <3> QED BY <1>2, <2>3, <3>1 DEF AllWhole, Taken
  <2>8. CASE Got(2).how \in {"absent", "denied"}
    <3>1. answer = Judged("crit", {})
      BY <1>4, <1>7, <2>8 DEF EnvRun
    <3>2. w.text # "ok" /\ AllWhole
      BY <2>6, <2>7, <2>8
    <3>3. Worth(w) = Bad("", "crit")
      BY <1>5, <2>5, <3>2 DEF EnvBad
    <3> QED BY <1>5, <3>1, <3>2, <3>3, OneJudgementIsRight
  <2>9. CASE Got(2).how = "unread"
    <3>1. answer = unreadableEnv(Got(3))
      BY <1>4, <1>7, <2>9 DEF EnvRun
    <3>2. Taken(3)
      BY <2>1, <2>9
    <3>3. PICK v \in been : seen[3] \in Replies(Ask("reopen"), v, seen)
      BY <1>1, <3>2, ReadingIs
    <3>4. seen[3] \in TreeReplies("reopen", v) /\ Got(3) = seen[3].got
      BY <3>2, <3>3, RepliesAre DEF Ask, TreeAsks, Got
    <3>5. \/ seen[3].whole /\ Got(3) = "opened"
          \/ ~ seen[3].whole /\ Got(3) \in {"denied", "failed"}
      <4>1. seen[3] \in {Whole("opened"), Torn("denied"), Torn("failed")}
        BY <3>4 DEF TreeReplies
      <4>2. \A g : Whole(g).whole /\ Whole(g).got = g /\ ~ Torn(g).whole /\ Torn(g).got = g
        BY DEF Whole, Torn
      <4> QED BY <3>4, <4>1, <4>2
    <3>6. CASE Got(3) \in {"denied", "failed"}
      <4>1. answer \in {Bare("error"), Bare("unavailable")}
        BY <3>1, <3>6 DEF unreadableEnv, Unavailable
      <4> QED BY <4>1, BareIsRight
    <3>7. CASE seen[3].whole /\ Got(3) = "opened"
      <4>1. answer = Judged("crit", {})
        BY <3>1, <3>7 DEF unreadableEnv
      <4>2. Final(answer) = "crit"
        BY <4>1, JudgedIs DEF Status
      <4>3. CASE AllWhole
        <5>1. w.text # "ok"
          BY <1>2, <2>1, <2>6, <2>9, <4>3 DEF AllWhole, Taken
        <5>2. Worth(w) = Bad("", "crit")
          BY <1>5, <2>5, <5>1 DEF EnvBad
        <5> QED BY <1>5, <4>1, <4>3, <5>2, OneJudgementIsRight
      <4>4. CASE ~ AllWhole
        <5>1. \A x \in Worth(w) : x.status \in {"ok", "warn", "crit"}
          BY <1>5, EnvBadIs
        <5> QED BY <1>5, <4>2, <4>4, <5>1, TornIsHeard
      <4> QED BY <4>3, <4>4
    <3> QED BY <3>5, <3>6, <3>7
  <2>10. CASE seen[2].whole /\ w.text = "ok" /\ Got(2).how = "ok" /\ Got(2).lines = w.lines
    <3> DEFINE missing == Required \ Range(w.lines)
               wrong == "bad" \in Range(w.lines) \/ Repeats(w.lines)
               status == IF missing # {} THEN "crit" ELSE IF wrong THEN "warn" ELSE "ok"
               steps == {Step(k, "crit") : k \in missing} \union (IF wrong THEN {Step("", "warn")} ELSE {})
    <3>1. MissingRequired(Required, w.lines) = missing /\ (Issues(w.lines) # {} <=> wrong)
      <4>1. MissingRequired(Required, w.lines) = missing
        BY ParamAssumption DEF MissingRequired, Keys, Range
      <4>2. Issues(w.lines) # {} <=> wrong
        BY <2>5, IssuesAre
      <4> QED BY <4>1, <4>2
    <3> HIDE DEF missing, wrong
    <3>2. answer = Judged(status, steps)
      <4>1. answer = Judged(IF missing # {} THEN "crit"
                            ELSE IF Issues(w.lines) # {} THEN "warn" ELSE "ok",
                            {Step(k, "crit") : k \in missing}
                              \union (IF Issues(w.lines) # {} THEN {Step("", "warn")} ELSE {}))
        BY <1>4, <1>7, <2>10, <3>1 DEF EnvRun
      <4> QED BY <3>1, <4>1
    <3>3. Worth(w) = steps
      <4>1. w.root = "file"
        BY <2>5, <2>10
      <4>2. Worth(w) = (UNION {Bad(k, "crit") : k \in missing})
                          \union Bad("", IF wrong THEN "warn" ELSE "ok")
        BY <1>5, <2>10, <4>1 DEF EnvBad, missing, wrong
      <4>3. Bad("", IF wrong THEN "warn" ELSE "ok") = IF wrong THEN {Step("", "warn")} ELSE {}
        BY DEF Bad
      <4>4. UNION {Bad(k, "crit") : k \in missing} = {Step(k, "crit") : k \in missing}
        BY DEF Bad
      <4> QED BY <4>2, <4>3, <4>4
    <3>4. AllWhole
      BY <2>7, <2>10
    <3>5. Final(answer) = status /\ Named \subseteq {s.about : s \in steps}
      <4>1. status \in Status
        BY DEF Status
      <4> HIDE DEF status, steps
      <4> QED BY <3>2, <4>1, JudgedIs
    <3>6. /\ \A x \in steps : (x.status = "crit" /\ missing # {}) \/ (x.status = "warn" /\ wrong)
          /\ missing # {} => \E x \in steps : x.status = "crit"
          /\ wrong => \E x \in steps : x.status = "warn"
      <4>1. \A a, s : Step(a, s).status = s
        BY DEF Step
      <4>2. \A x \in steps : (x.status = "crit" /\ missing # {}) \/ (x.status = "warn" /\ wrong)
        BY <4>1
      <4>3. missing # {} => \E x \in steps : x.status = "crit"
        <5> SUFFICES ASSUME NEW k \in missing PROVE \E x \in steps : x.status = "crit"
          OBVIOUS
        <5>1. Step(k, "crit") \in steps
          OBVIOUS
        <5> QED BY <4>1, <5>1
      <4>4. wrong => \E x \in steps : x.status = "warn"
        <5> SUFFICES ASSUME wrong PROVE \E x \in steps : x.status = "warn"
          OBVIOUS
        <5>1. Step("", "warn") \in steps
          OBVIOUS
        <5> QED BY <4>1, <5>1
      <4> QED BY <4>2, <4>3, <4>4
    <3>7. /\ missing # {} => status = "crit"
          /\ missing = {} /\ wrong => status = "warn"
          /\ missing = {} /\ ~ wrong => status = "ok"
      OBVIOUS
    <3> HIDE DEF steps, status
    <3>8. \A x \in steps : rank(status) >= rank(x.status)
      <4>1. rank("warn") >= rank("warn") /\ rank("crit") >= rank("warn") /\ rank("crit") >= rank("crit")
        BY DEF rank
      <4> QED BY <3>6, <3>7, <4>1
    <3>9. status \in {"warn", "crit"} => \E x \in steps : rank(x.status) >= rank(status)
      <4>1. rank("warn") >= rank("warn") /\ rank("crit") >= rank("crit")
        BY DEF rank
      <4>2. CASE missing # {}
        BY <3>6, <3>7, <4>1, <4>2
      <4>3. CASE missing = {} /\ wrong
        BY <3>6, <3>7, <4>1, <4>3
      <4>4. CASE missing = {} /\ ~ wrong
        BY <3>7, <4>4
      <4> QED BY <4>2, <4>3, <4>4
    <3>10. \A x \in Worth(w) : Heard(x)
      BY <1>5, <3>3, <3>5, <3>8 DEF Heard
    <3>11. Named \subseteq Abouts(w)
      BY <3>3, <3>5 DEF Abouts
    <3> QED BY <3>3, <3>4, <3>5, <3>9, <3>10, <3>11, RightOfOne
  <2> QED BY <2>5, <2>6, <2>8, <2>9, <2>10
<1> QED BY <1>6, <1>7

(* How far down procs.top tells of the processes: as far as it is asked, and*)
(* no further than the fifth.                                               *)
LEMMA DepthIs ==
  ASSUME Begun, ~ topRefused(files.top)
  PROVE  /\ shown(topN(files.top)) \in Nat
         /\ shown(topN(files.top)) = IF files.top = Nothing \/ files.top > 5 THEN 5 ELSE files.top
<1>1. files.top \in Int \union {Nothing, NaN}
  BY StartsAssumption DEF Begun
<1>2. \A n \in Int : n # Nothing
  BY ValuesAreSomething
<1>3. CASE files.top = Nothing
  <2>1. shown(topN(files.top)) = 5
    BY <1>3 DEF shown, topN, DefaultTop, RankCap
  <2> QED BY <1>3, <2>1
<1>4. CASE files.top # Nothing
  <2>1. files.top \in Int /\ files.top >= 1
    BY <1>1, <1>4 DEF topRefused
  <2>2. shown(topN(files.top)) = IF files.top < 5 THEN files.top ELSE 5
    BY <1>4 DEF shown, topN, RankCap
  <2> QED BY <1>4, <2>1, <2>2
<1> QED BY <1>3, <1>4

(* A process that fewer than k others hold as much as is among the first k. *)
LEMMA LargestLead ==
  ASSUME NEW rows \in SUBSET Nat, IsFiniteSet(rows), NEW key, \A q \in rows : key[q] \in Nat,
         NEW k \in Nat, NEW p \in rows,
         Cardinality({q \in rows \ {p} : key[q] >= key[p]}) < k
  PROVE  p \in leaders(rows, key, k)
<1> DEFINE others == {q \in rows \ {p} : key[q] >= key[p]}
<1>1. ahead(rows, key, p) \subseteq others
  <2> SUFFICES ASSUME NEW q \in rows, key[q] > key[p] \/ (key[q] = key[p] /\ q < p)
               PROVE  q # p /\ key[q] >= key[p]
    BY DEF ahead
  <2>1. key[q] \in Nat /\ key[p] \in Nat /\ q \in Nat /\ p \in Nat
    OBVIOUS
  <2> QED BY <2>1
<1>2. IsFiniteSet(others)
  <2>1. others \subseteq rows
    OBVIOUS
  <2> HIDE DEF others
  <2> QED BY <2>1, FS_Subset
<1> HIDE DEF others
<1>3. IsFiniteSet(ahead(rows, key, p)) /\ Cardinality(ahead(rows, key, p)) <= Cardinality(others)
  BY <1>1, <1>2, FS_Subset
<1>4. Cardinality(ahead(rows, key, p)) \in Nat /\ Cardinality(others) \in Nat
  BY <1>2, <1>3, FS_CardinalityType
<1>5. Cardinality(ahead(rows, key, p)) < k
  BY <1>3, <1>4 DEF others
<1> QED BY <1>5 DEF leaders

(* procs.top: the largest processes there are, or a word of those that would*)
(* not be read.                                                             *)
LEMMA ProcessesAreRight ==
  ASSUME Inv, Answered, check = "procs.top"
  PROVE  RightAnswer
<1>1. Len(Script) = 2 /\ Script[1] = Ask("ticks") /\ Script[2] = Ask("procs")
  BY DEF Script
<1>2. /\ Len(seen) \in Nat /\ DOMAIN seen = 1..Len(seen) /\ Len(seen) <= 2 /\ Settled
  BY <1>1, AnsweredFrom
<1>3. topRefused(files.top) \/ (Taken(1) /\ (Taken(2) \/ Got(1).how # "ok"))
  BY <1>1, <1>2 DEF Settled, Taken
<1> DEFINE first == Got(1)
           second == Got(2)
           n == topN(files.top)
           fits == /\ ~ topRefused(files.top) /\ first.how = "ok" /\ second.how = "ok"
                   /\ readRows(second.rows) # {}
<1>4. answer = TopRun(files.top, first, second)
  BY AnsweredFrom DEF Run
<1> HIDE DEF first, second
<1>5. CASE ~ fits
  <2>1. answer \in {Bare("error"), Bare("unavailable")}
    BY <1>4, <1>5 DEF TopRun, takeFailed, Unavailable
  <2> QED BY <2>1, BareIsRight
<1>6. CASE fits
  <2>1. \A how, rows : Table(how, rows).how = how /\ Table(how, rows).rows = rows
    BY DEF Table
  <2>2. seen[1].whole /\ Taken(2)
    <3>1. PICK u \in been : seen[1] \in Replies(Ask("ticks"), u, seen)
      BY <1>1, <1>3, <1>6, ReadingIs
    <3>2. seen[1] \in TreeReplies("ticks", u) /\ Got(1) = seen[1].got
      BY <1>3, <1>6, <3>1, RepliesAre DEF Ask, TreeAsks, Got
    <3>3. \/ seen[1].whole
          \/ \E how \in {"absent", "denied", "failed"} : seen[1].got = Table(how, <<>>)
      <4>1. \A g : ~ Torn(g).whole /\ Torn(g).got = g
        BY DEF Torn
      <4>2. \/ seen[1] = [whole |-> "ticks" = "ticks" \/ u.hidden = {}, got |-> Table("ok", Processes(u))]
            \/ \E how \in {"absent", "denied", "failed"} : seen[1] = Torn(Table(how, <<>>))
        BY <3>2 DEF TreeReplies
      <4>3. CASE seen[1] = [whole |-> "ticks" = "ticks" \/ u.hidden = {}, got |-> Table("ok", Processes(u))]
        <5>1. seen[1].whole = ("ticks" = "ticks" \/ u.hidden = {})
          BY <4>3
        <5> QED BY <5>1
      <4>4. CASE \E how \in {"absent", "denied", "failed"} : seen[1] = Torn(Table(how, <<>>))
        BY <4>1, <4>4
      <4> QED BY <4>2, <4>3, <4>4
    <3> QED BY <1>3, <1>6, <2>1, <3>2, <3>3 DEF first
  <2>3. PICK w \in been : w \in Hosts(check) /\ seen[2] \in Replies(Ask("procs"), w, seen)
    BY <1>1, <2>2, ReadingIs
  <2>4. (seen[2].whole <=> w.hidden = {}) /\ Got(2).rows = Processes(w)
    <3>1. seen[2] \in TreeReplies("procs", w) /\ Got(2) = seen[2].got
      BY <2>2, <2>3, RepliesAre DEF Ask, TreeAsks, Got
    <3> DEFINE table == Table("ok", Processes(w))
               told == [whole |-> w.hidden = {}, got |-> table]
    <3>2. \/ seen[2] = [whole |-> "procs" = "ticks" \/ w.hidden = {}, got |-> table]
          \/ \E how \in {"absent", "denied", "failed"} : seen[2] = Torn(Table(how, <<>>))
      BY <3>1 DEF TreeReplies
    <3>3. ~ \E how \in {"absent", "denied", "failed"} : seen[2] = Torn(Table(how, <<>>))
      <4>1. \A g : Torn(g).got = g
        BY DEF Torn
      <4> QED BY <1>6, <2>1, <3>1, <4>1 DEF second
    <3>4. table.rows = Processes(w)
      BY <2>1
    <3> HIDE DEF table
    <3>5. seen[2] = [whole |-> "procs" = "ticks" \/ w.hidden = {}, got |-> table]
      BY <3>2, <3>3
    <3>6. seen[2].got = table /\ seen[2].whole = ("procs" = "ticks" \/ w.hidden = {})
      BY <3>5
    <3>7. ("procs" = "ticks" \/ w.hidden = {}) <=> w.hidden = {}
      OBVIOUS
    <3>8. seen[2].whole <=> w.hidden = {}
      BY <3>6, <3>7
    <3> QED BY <3>1, <3>4, <3>6, <3>8
  <2>5. /\ w.running \in SUBSET Nat /\ w.hidden \subseteq w.running /\ w.rss \in Seq(Nat)
        /\ w.running \subseteq DOMAIN w.rss
    BY <2>3 DEF Hosts, DockerChecks, NetChecks
  <2>6. /\ readRows(Processes(w)) = w.running \ w.hidden /\ unreadableRows(Processes(w)) = w.hidden
        /\ \A p \in w.running : Processes(w)[p].rss = w.rss[p]
    BY <2>5 DEF readRows, unreadableRows, Processes
  <2> DEFINE rows == w.running \ w.hidden
             bySize == [p \in rows |-> Processes(w)[p].rss]
             byUse == [p \in rows |-> used(first.rows, Processes(w)[p], p)]
             more == IF w.hidden # {} THEN {Unseen} ELSE {}
             steps == narrate(rows, bySize, n) \union narrate(rows, byUse, n) \union more
  <2>7. answer = Judged("ok", steps)
    <3>1. rankings(n, first.rows, Processes(w)) = steps
      BY <2>6 DEF rankings
    <3> HIDE DEF steps
    <3> QED BY <1>4, <1>6, <2>4, <3>1 DEF TopRun, second
  <2>8. \A a, s : Step(a, s).about = a /\ Step(a, s).status = s
    BY DEF Step
  <2>9. /\ Final(answer) = "ok" /\ answer.steps = steps
        /\ Named = {s.about : s \in steps} \ {Nothing}
    <3> HIDE DEF steps
    <3>1. check \in Finds
      BY DEF Finds
    <3> QED BY <2>7, <3>1, JudgedIs DEF Status
  <2>10. w.hidden # {} => Declined
    BY <2>9, UnseenIsSaid
  <2>11. w.hidden = {} => AllWhole
    BY <1>2, <2>2, <2>4 DEF AllWhole, Taken
  <2>12. Named \subseteq Abouts(w)
    <3> SUFFICES ASSUME NEW s \in steps, s.about # Nothing PROVE s.about \in rows
      BY <2>9 DEF Abouts
    <3>1. ASSUME NEW key, s \in narrate(rows, key, n)
          PROVE  s.about \in rows
      <4>1. Aside.about = Nothing
        BY DEF Aside, Step
      <4> HIDE DEF rows
      <4> QED BY <2>8, <3>1, <4>1 DEF narrate, leaders
    <3>2. s \notin more
      BY UnseenIsSaid
    <3> HIDE DEF rows, bySize, byUse, more
    <3> QED BY <3>1, <3>2
  <2>13. \A x \in Worth(w) : Heard(x)
    <3> DEFINE k == shown(n)
    <3>1. k \in Nat /\ Worth(w) = {Step(p, "ok") : p \in Largest(w, k)}
      BY <1>6, DepthIs DEF Worth, Inv
    <3> HIDE DEF n
    <3> SUFFICES ASSUME NEW p \in Largest(w, k), w.hidden = {} PROVE Heard(Step(p, "ok"))
      BY <2>10, <3>1 DEF Heard
    <3>2. p \in rows /\ rows = w.running /\ rows \in SUBSET Nat
      BY <2>5 DEF Largest
    <3>3. IsFiniteSet(rows)
      <4>1. Len(w.rss) \in Nat /\ rows \subseteq 1..Len(w.rss)
        BY <2>5
      <4>2. IsFiniteSet(1..Len(w.rss))
        BY <4>1, FS_Interval
      <4> HIDE DEF rows
      <4> QED BY ONLY <4>1, <4>2, FS_Subset
    <3>4. \A q \in rows : bySize[q] = w.rss[q] /\ bySize[q] \in Nat
      BY <2>5, <2>6, <3>2
    <3> HIDE DEF rows, bySize
    <3>5. {q \in rows \ {p} : bySize[q] >= bySize[p]} = {q \in w.running \ {p} : w.rss[q] >= w.rss[p]}
      BY <3>2, <3>4
    <3>6. p \in leaders(rows, bySize, k)
      BY <3>1, <3>2, <3>3, <3>4, <3>5, LargestLead DEF Largest
    <3>7. Step(p, "ok") \in steps
      BY <3>6 DEF narrate
    <3> HIDE DEF steps
    <3>8. p \in Named
      <4>1. p # Nothing
        BY <3>2, ValuesAreSomething
      <4> QED BY <2>8, <2>9, <3>7, <4>1
    <3> QED BY <2>8, <2>9, <3>8 DEF Heard, rank
  <2> HIDE DEF steps
  <2> QED BY <2>9, <2>10, <2>11, <2>12, <2>13, RightOfOne
<1> QED BY <1>5, <1>6

(***************************************************************************)
(* Every check, and the four properties                                    *)
(***************************************************************************)

(* Nothing is asked of an answer that is not there. *)
LEMMA UnansweredIsRight ==
  ASSUME ~ Answered
  PROVE  RightAnswer
BY DEF RightAnswer, NeverGreenBlind, FaultIsHeard, NoFalseAlarm, RightOneNamed

(* Every check's answer is right: storage.stale's for a window that fits.   *)
LEMMA EveryCheckIsRight ==
  ASSUME Inv, WindowFits \/ check # "storage.stale"
  PROVE  RightAnswer
<1>1. CASE ~ Answered
  BY <1>1, UnansweredIsRight
<1>2. CASE Answered
  <2>1. CASE check \in {"system.load", "system.memory", "system.thermal", "system.updates",
                        "system.uptime", "disk.usage", "disk.inodes"}
    BY <1>2, <2>1, LoadIsRight, MemoryIsRight, ThermalIsRight, UpdatesAreRight, UptimeIsRight,
       DiskIsRight
  <2>2. CASE check \in {"services.failed", "services.boot"}
    BY <1>2, <2>2, FailedIsRight, BootIsRight
  <2>3. CASE check \in DockerChecks
    BY <1>2, <2>3, RuntimeIsRight, DockerDiskIsRight, ContainersAreRight DEF DockerChecks
  <2>4. CASE check \in NetChecks
    BY <1>2, <2>4, LadderIsRight, InterfaceIsRight, ResolverIsRight, PingIsRight, DNSIsRight,
       HTTPSIsRight, TCPIsRight, SocketsAreRight, TraceIsRight DEF NetChecks
  <2>5. CASE check \in {"logsqueeze.candidates", "storage.stale", "storage.env", "procs.top"}
    BY <1>2, <2>5, CandidatesAreRight, StaleIsRight, EnvIsRight, ProcessesAreRight
  <2>6. check \in CheckName
    BY Bearings DEF Inv
  <2> QED BY <2>1, <2>2, <2>3, <2>4, <2>5, <2>6 DEF CheckName
<1> QED BY <1>1, <1>2

(* And what storage.stale owes whatever its window. *)
LEMMA EveryCheckIsQuiet ==
  ASSUME Inv
  PROVE  NeverGreenBlind /\ NoFalseAlarm
<1>1. CASE ~ Answered
  BY <1>1, UnansweredIsRight DEF RightAnswer
<1>2. CASE Answered /\ check = "storage.stale"
  BY <1>2, StaleIsQuiet
<1>3. CASE check # "storage.stale"
  BY <1>3, EveryCheckIsRight DEF RightAnswer
<1> QED BY <1>1, <1>2, <1>3

(* No green from a check that could not look (builtin/*.go, every Run): an  *)
(* ok that does not admit to having missed something rests on readings that *)
(* all came whole, whatever the host did between them, whatever the check.  *)
THEOREM GreenHasLooked == Spec => []NeverGreenBlind
<1>1. Inv => NeverGreenBlind
  BY EveryCheckIsQuiet
<1> QED BY <1>1, InvIsInvariant, PTL

(* Nobody is paged for nothing: a warn or a crit of whole readings was true,*)
(* at that severity, of a world the check looked at; of system.updates, true*)
(* of the file the notifier left there, however old, but for the layout that*)
(* ParseNotifierText is known to misread (Misread).                         *)
THEOREM AlarmsAreTrue == Spec => []NoFalseAlarm
<1>1. Inv => NoFalseAlarm
  BY EveryCheckIsQuiet
<1> QED BY <1>1, InvIsInvariant, PTL

(* What is wrong in every world a check looked at is heard, unless the check*)
(* says that it could not look: of storage.stale for a window that fits an  *)
(* int64 of nanoseconds (storage/stale.go), of the others whatever they are *)
(* asked.  Wrong is, of system.updates, what the notifier's file says if it *)
(* was that which answered (and not Misread), and else what apt says; what  *)
(* procs.top is to name is the largest processes, as many as are asked for  *)
(* and never more than five.                                                *)
THEOREM FaultsAreHeard ==
  Spec => [](WindowFits \/ check # "storage.stale" => FaultIsHeard)
<1>1. Inv => (WindowFits \/ check # "storage.stale" => FaultIsHeard)
  BY EveryCheckIsRight DEF RightAnswer
<1> QED BY <1>1, InvIsInvariant, PTL

(* Nobody is sent to the wrong place: what an answer names is at fault, or  *)
(* there, in a world the check looked at; of storage.stale and system.updates*)
(* as above, and of a process that procs.top names, that it is running.     *)
THEOREM NamesAreTrue ==
  Spec => [](WindowFits \/ check # "storage.stale" => RightOneNamed)
<1>1. Inv => (WindowFits \/ check # "storage.stale" => RightOneNamed)
  BY EveryCheckIsRight DEF RightAnswer
<1> QED BY <1>1, InvIsInvariant, PTL

=============================================================================
