------------------------------ MODULE Thresholds ------------------------------
(***************************************************************************)
(* The host's grading policy: the rules internal/threshold ships, what an  *)
(* operator's thresholds.yml may say about them, and how the fleet-wide    *)
(* file and the personal one become one policy and a list of warnings.     *)
(* Pure operators: config.Thresholds is the composition of the four.       *)
(*                                                                         *)
(* A bound is a whole number in the rule's unit (hundredths for a ratio) or*)
(* NaN, which YAML can spell.  A warning is a record of what it is about;  *)
(* their wording and their sorted order are left out.                      *)
(***************************************************************************)
EXTENDS CheckStatus, SequencesExt

CONSTANTS
  NaN,       (* a float that is not a number                     *)
  RuleId,    (* the names an operator may write                  *)
  Defaults   (* the shipped policy, a function from some of them *)

Bound == Int \union {NaN}
Rule  == [warn : Bound, crit : Bound]

ASSUME PolicyAssumption ==
  /\ NaN \notin Int
  /\ DOMAIN Defaults \subseteq RuleId
  /\ \A id \in DOMAIN Defaults :
       /\ Defaults[id] \in [warn : Int, crit : Int]
       /\ Defaults[id].warn <= Defaults[id].crit

-----------------------------------------------------------------------------
(* The ladder.  Every comparison with NaN is false, so NaN grades ok.       *)

AtLeast(v, bound) == v # NaN /\ bound # NaN /\ v >= bound

Grade(rule, v) ==
  IF AtLeast(v, rule.crit) THEN "crit" ELSE IF AtLeast(v, rule.warn) THEN "warn" ELSE "ok"

(* Rule.Check: the trip it returns, or none. *)
Check(set, id, v, subject) ==
  LET sev == Grade(set[id], v)
  IN  IF sev = "ok" THEN {}
      ELSE { [rule |-> id, severity |-> sev, subject |-> subject,
              bound |-> IF sev = "crit" THEN set[id].crit ELSE set[id].warn] }

(* Set.Grade: an id the policy does not have grades ok. *)
SetGrade(set, id, v) == IF id \in DOMAIN set THEN Grade(set[id], v) ELSE "ok"

Valid(rule) == rule.warn # NaN /\ rule.crit # NaN /\ rule.warn <= rule.crit

-----------------------------------------------------------------------------
(* A file: what reading it came to, and the document it held.  A document   *)
(* maps what is at its top to values; a value is a mapping of settings, a   *)
(* number, or something that is neither (null, text, a list).               *)

FileState == {"absent", "unreadable", "unparseable", "read"}
Setting   == {"warn", "crit", "other"}
Number(n) == [kind |-> "number", n |-> n]
Neither   == [kind |-> "neither"]
Mapping(f) == [kind |-> "map", of |-> f]

(* A function, and another where it says nothing. *)
Over(f, g) ==
  [x \in DOMAIN f \union DOMAIN g |-> IF x \in DOMAIN f THEN f[x] ELSE g[x]]

(* A merge in which a mapping replaces a mapping whole. *)
mergeWhole(base, over) == Over(over, base)

(* mergeMappings, two mappings deep: as deep as thresholds.yml goes. *)
mergeMappings(base, over) ==
  LET both(k) == k \in DOMAIN base /\ over[k].kind = "map" /\ base[k].kind = "map"
  IN  [k \in DOMAIN base \union DOMAIN over |->
         IF k \notin DOMAIN over THEN base[k]
         ELSE IF both(k) THEN Mapping(Over(over[k].of, base[k].of))
         ELSE over[k]]

(* Load: the layers lowest precedence first; one that fails contributes     *)
(* nothing and is warned about, one that is absent does neither.            *)
Contributes(file) == file.state = "read"

Load(system, user) ==
  LET doc(file) == IF Contributes(file) THEN file.doc ELSE <<>>
      bad(file) == file.state \in {"unreadable", "unparseable"}
  IN  [values   |-> mergeMappings(doc(system), doc(user)),
       warnings |-> {[layer |-> l] : l \in {x \in {"system", "user"} :
                       bad(IF x = "system" THEN system ELSE user)}}]

(* DescribeLayers: what doctor says of a layer. *)
DescribeLayer(file) == IF Contributes(file) THEN "in use" ELSE file.state

(* ParseOverrides, for the one key: the bounds it sets, and what is wrong.  *)
Bounds(value) ==
  IF value.kind # "map" THEN <<>>
  ELSE [s \in {x \in DOMAIN value.of \ {"other"} : value.of[x].kind = "number"} |->
          value.of[s].n]

Rejected(value) ==
  IF value.kind # "map" THEN {"mapping"}
  ELSE {x \in DOMAIN value.of : x = "other" \/ value.of[x].kind # "number"}

ParseOverrides(values) ==
  [overrides |-> [id \in {x \in DOMAIN values : Bounds(values[x]) # <<>>} |->
                    Bounds(values[id])],
   warnings  |-> UNION {{[id |-> id, setting |-> s] : s \in Rejected(values[id])} :
                          id \in DOMAIN values}]

(* One override on one shipped rule: only the bounds that were written.     *)
Override(rule, bounds) ==
  [warn |-> IF "warn" \in DOMAIN bounds THEN bounds.warn ELSE rule.warn,
   crit |-> IF "crit" \in DOMAIN bounds THEN bounds.crit ELSE rule.crit]

(* Merge that neither looks an id up nor validates what it makes of it. *)
MergeUnchecked(overrides) ==
  LET shipped(id) == IF id \in DOMAIN Defaults THEN Defaults[id] ELSE [warn |-> 0, crit |-> 0]
  IN  [set |-> Over([id \in DOMAIN overrides |-> Override(shipped(id), overrides[id])], Defaults),
       warnings |-> {}]

Merge(overrides) ==
  LET merged(id) == Override(Defaults[id], overrides[id])
      usable(id) == id \in DOMAIN Defaults /\ Valid(merged(id))
  IN  [set |-> [id \in DOMAIN Defaults |->
                  IF id \in DOMAIN overrides /\ usable(id) THEN merged(id)
                                                           ELSE Defaults[id]],
       warnings |-> {[id |-> id, setting |-> "rule"] :
                       id \in {x \in DOMAIN overrides : ~usable(x)}}]

Resolve(system, user) ==
  LET loaded == Load(system, user)
      parsed == ParseOverrides(loaded.values)
      merged == Merge(parsed.overrides)
  IN  [set      |-> merged.set,
       layers   |-> <<DescribeLayer(system), DescribeLayer(user)>>,
       warnings |-> loaded.warnings \union parsed.warnings \union merged.warnings]

(* Set.Describe marks the rules that are not as shipped. *)
Overridden(set) == {id \in DOMAIN set : set[id] # Defaults[id]}

=============================================================================
