------------------------------- MODULE Pep440 --------------------------------
(***************************************************************************)
(* internal/updater/pep440.go: which of two versions is the newer one.     *)
(* Groups has what the pattern finds in a spelling:                        *)
(*   epoch    <<>> or <<n>>                                                *)
(*   release  its numbers                                                  *)
(*   pre, post, dev   <<>>, <<letter>> or <<letter, n>>                    *)
(*   local    its segments, a number or a word; words come as their place  *)
(*            in the alphabet: [word |-> n]                                *)
(* or Invalid when it does not match.  A number too large for an int is    *)
(* Huge.                                                                   *)
(***************************************************************************)
EXTENDS Integers, Sequences, FiniteSetsExt

CONSTANTS Groups, Invalid, Huge

(* What the pattern can find in a spelling. *)
Digits == {Huge} \union Nat

ASSUME GroupsAssumption ==
  \A spelling \in DOMAIN Groups :
    LET v == Groups[spelling]
    IN  v # Invalid =>
          /\ v.epoch \in Seq(Digits) /\ v.release \in Seq(Digits)
          /\ \A s \in {v.pre, v.post, v.dev} : Len(s) = 2 => s[2] \in Digits
          /\ v.pre # <<>> => v.pre[1] \in {"a", "alpha", "b", "beta", "rc", "c", "pre", "preview"}
          /\ v.local \in Seq({Huge} \union [n : Nat] \union [word : Nat])

preRankDevOnly  == -1
preRankStable   == 3
localStringRank == -1

(* preNormalization and preRank *)
preRank(letter) ==
  CASE letter \in {"a", "alpha"}                  -> 0
    [] letter \in {"b", "beta"}                   -> 1
    [] letter \in {"rc", "c", "pre", "preview"}   -> 2

(* A letter alone has an implicit zero. *)
number(segment) == IF Len(segment) = 2 THEN segment[2] ELSE 0

(* All of the zeros, or none of them. *)
stripNothing(release) == release

stripTrailingZeros(release) ==
  LET last == Max({0} \union {i \in DOMAIN release : release[i] # 0})
  IN  SubSeq(release, 1, last)

localSegment(s) ==
  IF s = Huge THEN <<localStringRank, 0>>
  ELSE IF "word" \in DOMAIN s THEN <<localStringRank, s.word>> ELSE <<s.n, 0>>

inRange(v) ==
  /\ Huge \notin {v.epoch[i] : i \in DOMAIN v.epoch}
  /\ Huge \notin {v.release[i] : i \in DOMAIN v.release}
  /\ \A s \in {v.pre, v.post, v.dev} : s # <<>> => number(s) # Huge

parsePEP440(spelling) ==
  LET v == Groups[spelling]
  IN
  IF v = Invalid \/ ~inRange(v) THEN Invalid ELSE
    [epoch   |-> IF v.epoch = <<>> THEN 0 ELSE v.epoch[1],
     release |-> stripTrailingZeros(v.release),
     suffix  |->
       (IF v.pre # <<>> THEN <<preRank(v.pre[1]), number(v.pre)>>
        ELSE <<IF v.post = <<>> /\ v.dev # <<>> THEN preRankDevOnly ELSE preRankStable, 0>>)
       \o (IF v.post = <<>> THEN <<0, 0>> ELSE <<1, number(v.post)>>)
       \o (IF v.dev = <<>> THEN <<1, 0>> ELSE <<0, number(v.dev)>>),
     local   |-> [i \in DOMAIN v.local |-> localSegment(v.local[i])]]

cmpInt(a, b) == IF a < b THEN -1 ELSE IF a > b THEN 1 ELSE 0

(* Element by element with cmp, and then by length. *)
cmpSlice(a, b, cmp(_, _)) ==
  LET differ == {i \in DOMAIN a \intersect DOMAIN b : cmp(a[i], b[i]) # 0}
  IN  IF differ = {} THEN cmpInt(Len(a), Len(b))
      ELSE cmp(a[Min(differ)], b[Min(differ)])

cmpIntSlice(a, b) == cmpSlice(a, b, cmpInt)

(* No local segment is before any; that is what their lengths say. *)
compare440(a, b) ==
  cmpIntSlice(<<cmpInt(a.epoch, b.epoch), cmpIntSlice(a.release, b.release),
                cmpIntSlice(a.suffix, b.suffix),
                cmpSlice(a.local, b.local, cmpIntSlice)>>,
              <<0, 0, 0, 0>>)

IsNewer(remote, local) ==
  LET r == parsePEP440(remote)
      l == parsePEP440(local)
  IN  r # Invalid /\ l # Invalid /\ compare440(r, l) > 0
==============================================================================
