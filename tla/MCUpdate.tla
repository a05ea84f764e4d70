------------------------------- MODULE MCUpdate --------------------------------
(***************************************************************************)
(* `fleetfix update` for TLC: what is asked, ReleaseCheck, or what is done  *)
(* about it, Installer, while the other rests.  One process meets every    *)
(* pair of versions of a chain that has each kind of segment in each of its*)
(* spellings; two of all kinds share a cache while releases with and       *)
(* without their assets come and go.  Two more install.                    *)
(***************************************************************************)
EXTENDS ReleaseCheck, Installer, TLC

Numbers(release) ==
  [epoch |-> <<>>, release |-> release, pre |-> <<>>, post |-> <<>>, dev |-> <<>>,
   local |-> <<>>]

One == Numbers(<<1, 0>>)

MCGroups ==
  "1.0.dev"       :> [One EXCEPT !.dev = <<"dev">>] @@
  "1.0.dev0"      :> [One EXCEPT !.dev = <<"dev", 0>>] @@
  "1.0alpha1dev1" :> [One EXCEPT !.pre = <<"alpha", 1>>, !.dev = <<"dev", 1>>] @@
  "1.0a1"         :> [One EXCEPT !.pre = <<"a", 1>>] @@
  "1.0alpha1"     :> [One EXCEPT !.pre = <<"alpha", 1>>] @@
  "1.0a1.post1"   :> [One EXCEPT !.pre = <<"a", 1>>, !.post = <<"post", 1>>] @@
  "1.0b"          :> [One EXCEPT !.pre = <<"b">>] @@
  "1.0beta0"      :> [One EXCEPT !.pre = <<"beta", 0>>] @@
  "1.0c1"         :> [One EXCEPT !.pre = <<"c", 1>>] @@
  "1.0preview1"   :> [One EXCEPT !.pre = <<"preview", 1>>] @@
  "1.0rc2"        :> [One EXCEPT !.pre = <<"rc", 2>>] @@
  "1"             :> Numbers(<<1>>) @@
  "1.0"           :> One @@
  "1.0.0"         :> Numbers(<<1, 0, 0>>) @@
  "1.0+a"         :> [One EXCEPT !.local = <<[word |-> 1]>>] @@
  "1.0+b"         :> [One EXCEPT !.local = <<[word |-> 2]>>] @@
  "1.0+9"         :> [One EXCEPT !.local = <<[n |-> 9]>>] @@
  "1.0+9.a"       :> [One EXCEPT !.local = <<[n |-> 9], [word |-> 1]>>] @@
  "1.0-1.dev3"    :> [One EXCEPT !.post = <<"post", 1>>, !.dev = <<"dev", 3>>] @@
  "1.0-1"         :> [One EXCEPT !.post = <<"post", 1>>] @@
  "1.0rev1"       :> [One EXCEPT !.post = <<"rev", 1>>] @@
  "1.0.post10"    :> [One EXCEPT !.post = <<"post", 10>>] @@
  "1.0.1"         :> Numbers(<<1, 0, 1>>) @@
  "1.1"           :> Numbers(<<1, 1>>) @@
  "v1.1"          :> Numbers(<<1, 1>>) @@
  "1.2"           :> Numbers(<<1, 2>>) @@
  "1.9"           :> Numbers(<<1, 9>>) @@
  "1.10"          :> Numbers(<<1, 10>>) @@
  "1!0.1"         :> [Numbers(<<0, 1>>) EXCEPT !.epoch = <<1>>] @@
  "nightly"       :> Invalid @@
  "1.huge"        :> Numbers(<<1, Huge>>)

MCOrder ==
  <<{"1.0.dev", "1.0.dev0"}, {"1.0alpha1dev1"}, {"1.0a1", "1.0alpha1"}, {"1.0a1.post1"},
    {"1.0b", "1.0beta0"}, {"1.0c1", "1.0preview1"}, {"1.0rc2"}, {"1", "1.0", "1.0.0"},
    {"1.0+a"}, {"1.0+b"}, {"1.0+9"}, {"1.0+9.a"}, {"1.0-1.dev3"}, {"1.0-1", "1.0rev1"},
    {"1.0.post10"}, {"1.0.1"}, {"1.1", "v1.1"}, {"1.2"}, {"1.9"}, {"1.10"}, {"1!0.1"}>>

Spelled == DOMAIN MCGroups

(* A release of every version with what belongs to it; then one with two    *)
(* binaries, one without its checksum, one with an empty URL behind a good  *)
(* one, two without a tag, one without assets, one with something else for  *)
(* them, and one that names its checksum once more without a URL.           *)
Asset(name, url) == [name |-> name, url |-> url]
Good(v) == [tag |-> v, assets |-> <<Asset("binary", v), Asset("sum", v), Asset("other", v)>>]

Flawed ==
  "no sum"    :> [tag |-> "1.2", assets |-> <<Asset("binary", "1.2"), Asset("sum", Nothing)>>] @@
  "blank sum" :> [tag |-> "1.2", assets |-> Good("1.2").assets \o <<Asset("sum", Blank)>>] @@
  "no tag"    :> [tag |-> Nothing, assets |-> Good("1.2").assets] @@
  "blank tag" :> [tag |-> Blank, assets |-> Good("1.2").assets] @@
  "no assets" :> [tag |-> "1.2", assets |-> <<>>] @@
  "no list"   :> [tag |-> "1.2", assets |-> Nothing] @@
  "sum again" :> [tag |-> "1.2", assets |-> Good("1.2").assets \o <<Asset("sum", Nothing)>>]

MCReleases ==
  [v \in Spelled |-> Good(v)] @@ Flawed @@
  "twice" :> [tag |-> "1.1", assets |-> <<Asset("binary", "1.2")>> \o Good("1.1").assets]

Alone == {[p \in Process |-> IF p = q THEN "update" ELSE Nothing] : q \in Process}

Symm == Permutations(Process)

(* Nobody asks. *)
Resting == [p \in Process |-> Nothing]

MCStarts ==
  {[kinds |-> {Resting}, published |-> {"1.0"}, installed |-> {"1.0"}]} \union
  {[kinds |-> Alone, published |-> {r}, installed |-> Spelled] : r \in Spelled}
  \union {[kinds |-> Alone, published |-> {r}, installed |-> {"1.0"}] : r \in DOMAIN Flawed}
  \union {[kinds |-> [Process -> {"launch", "update", "apply"}],
           published |-> {"1.2", "twice"}, installed |-> {"1.0"}]}

MCJumps == {-1, 1}

-----------------------------------------------------------------------------
MCInit ==
  /\ Init /\ InstInit
  /\ kind # Resting => access = [u \in Updater |-> "none"]

MCNext ==
  \/ kind # Resting /\ Next /\ UNCHANGED instVars
  \/ kind = Resting /\ InstNext /\ UNCHANGED relVars

MCSpec == MCInit /\ [][MCNext]_<<relVars, instVars>>
==============================================================================
