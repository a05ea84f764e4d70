------------------------------ MODULE TreeChecks -------------------------------
(***************************************************************************)
(* The checks that read trees of files themselves: logsqueeze.candidates    *)
(* and storage.stale walk a directory, storage.env reads one file, procs.top*)
(* reads /proc twice.  What they were refused on the way is counted and     *)
(* said; only the root of a walk refuses the whole of it.                   *)
(***************************************************************************)
EXTENDS CheckAnswer

CONSTANTS
  Half,      (* days an int64 of nanoseconds holds, either way: 106751 *)
  MinBytes   (* the size a log must reach to be worth squeezing        *)

(* What asking about a path came to, when it is not a file or a directory.   *)
Refusal == {"absent", "denied", "failed"}

(* A walk visits entries.  A directory opens or does not; a file has a name  *)
(* that matters to the check or not, and a description unless that was       *)
(* refused.  inside is the directory it is in, "" for the root.              *)
Dir(name, inside, pruned, opens) ==
  [kind |-> "dir", name |-> name, inside |-> inside, pruned |-> pruned, opens |-> opens]
File(name, inside, matches, info) ==
  [kind |-> "file", name |-> name, inside |-> inside, matches |-> matches, info |-> info]

(* The entries the walk comes to: those whose directory it could enter.      *)
closed(entries, prunes) ==
  {entries[i].name : i \in {j \in DOMAIN entries :
     entries[j].kind = "dir" /\ (~entries[j].opens \/ (prunes /\ entries[j].pruned))}}

visited(entries, prunes) ==
  LET shut == closed(entries, prunes)
  IN  Kept(entries, {e \in Range(entries) : e.inside \notin shut})

(* A pruned directory is passed by before it is opened; a file is described  *)
(* only once its name matters.                                               *)
refused(e, prunes) ==
  \/ e.kind = "dir" /\ ~e.opens /\ ~(prunes /\ e.pruned)
  \/ e.kind = "file" /\ e.matches /\ e.info = Nothing

unreadableCount(entries, prunes) ==
  LET seen == visited(entries, prunes)
  IN  Len(Kept(seen, {e \in Range(seen) : refused(e, prunes)}))

(* The regular files it finds; which of them are worth a line is the check's.*)
scan(entries, prunes) ==
  {e \in Range(visited(entries, prunes)) :
     e.kind = "file" /\ e.matches /\ e.info # Nothing /\ e.info.regular}

(* walkSteps with the refusals swallowed, as v1 did. *)
walkStepsQuiet(entries, prunes, found) == {Step(e.name, "ok") : e \in found}

(* The files of a walk, and that a floor is one.  A file here is a row of    *)
(* data[], which is whole: the lines that tell of them stop at the tenth.    *)
walkSteps(entries, prunes, found) ==
  {Step(e.name, "ok") : e \in found}
    \union (IF unreadableCount(entries, prunes) > 0 THEN {Unseen} ELSE {})

-----------------------------------------------------------------------------
(* logsqueeze.candidates.  openable asks for a description of the root and   *)
(* does not list it; a root that will not be listed is one more refused      *)
(* entry, and an empty walk.                                                 *)

openable(stat) ==
  CASE stat \in {"absent", "denied"} -> Unavailable
    [] stat \in {"failed", "notdir"} -> Bare("error")
    [] OTHER -> Bare("ok")

(* listing is Nothing when the root would not be listed.                     *)
rootRefused(listing) ==
  IF listing = Nothing THEN {Unseen} ELSE {}

bigEnough(info) == info.size >= MinBytes

CandidatesRun(stat, listing) ==
  LET entries == IF listing = Nothing THEN <<>> ELSE listing
      found   == {e \in scan(entries, FALSE) : bigEnough(e.info)}
  IN  IF openable(stat) # Bare("ok") THEN openable(stat)
      ELSE Judged("ok", walkSteps(entries, FALSE, found)
                          \union rootRefused(listing))

-----------------------------------------------------------------------------
(* storage.stale.  The window is asked for in days and becomes an int64 of   *)
(* nanoseconds; a root an operator named and that is not there is an error.  *)

wrap(days) == ((days + Half) % (2 * Half)) - Half

cutoff(now, days) == now - wrap(days)

walkable(stat, open) ==
  CASE stat \in Refusal \union {"notdir"} -> Bare("error")
    [] stat \notin Refusal \union {"notdir"} /\ open = "denied" -> Unavailable
    [] OTHER -> IF open = "failed" THEN Bare("error") ELSE Bare("ok")

oldEnough(info, at) == info.mtime <= at

StaleRun(days, now, stat, open, listing) ==
  LET found == {e \in scan(listing, TRUE) : oldEnough(e.info, cutoff(now, days))}
  IN  CASE days = Nothing -> Bare("error")
        [] days # Nothing /\ walkable(stat, open) # Bare("ok") -> walkable(stat, open)
        [] OTHER -> Judged("ok", walkSteps(listing, TRUE, found))

-----------------------------------------------------------------------------
(* storage.env.  Asked three times of one path: what it is, what it holds,   *)
(* and, when it would not be read, whether it can be opened after all.       *)

readable(stat) ==
  CASE stat = "denied" -> Unavailable
    [] stat \in {"failed", "dir", "special"} -> Bare("error")
    [] OTHER -> Bare("ok")   (* a file, or nothing there *)

(* CheckEnvFile, of a text as its lines: a key, "bad", or blank; a duplicate *)
(* is a complaint and applied all the same.                                  *)
Keys(lines) == {lines[i] : i \in DOMAIN lines} \ {"bad", ""}

Issues(lines) ==
  {i \in DOMAIN lines :
     lines[i] = "bad" \/ (lines[i] # "" /\ \E j \in 1..(i - 1) : lines[j] = lines[i])}

MissingRequired(required, lines) == required \ Keys(lines)

(* The reopening tells a refusal from contents that are no text.             *)
unreadableEnv(reopen) ==
  CASE reopen = "denied" -> Unavailable
    [] reopen \in {"absent", "failed"} -> Bare("error")
    [] OTHER -> Judged("crit", {})

EnvRun(required, stat, read, reopen) ==
  LET missing == MissingRequired(required, read.lines)
  IN  CASE readable(stat) # Bare("ok") -> readable(stat)
        [] readable(stat) = Bare("ok") /\ read.how \in {"absent", "denied"} ->
             Judged("crit", {})
        [] readable(stat) = Bare("ok") /\ read.how = "unread" -> unreadableEnv(reopen)
        [] OTHER ->
             Judged(IF missing # {} THEN "crit"
                    ELSE IF Issues(read.lines) # {} THEN "warn" ELSE "ok",
                    {Step(k, "crit") : k \in missing}
                      \union (IF Issues(read.lines) # {} THEN {Step("", "warn")} ELSE {}))

-----------------------------------------------------------------------------
(* procs.top: every process's ticks, a pause, and everything again.  A       *)
(* process that is gone by then is not counted, one that refuses is; the     *)
(* first pass is there to subtract from, and its refusals are not said.      *)
(* The processes are told from the largest down, and again from the busiest, *)
(* as far down as was asked and never past the fifth.                        *)

DefaultTop == 10
RankCap    == 5

(* A depth that is no positive number is refused before anything is read.    *)
topRefused(param) == param # Nothing /\ (param # NaN => param < 1)

topN(param) == IF param = Nothing THEN DefaultTop ELSE param

shown(n) == IF n < RankCap THEN n ELSE RankCap

(* Ties go to the lower pid. *)
ahead(rows, key, p) == {q \in rows : key[q] > key[p] \/ (key[q] = key[p] /\ q < p)}

leaders(rows, key, k) == {p \in rows : Cardinality(ahead(rows, key, p)) < k}

(* A ranking of n with its lines: the rest of it is counted in one.          *)
narrate(rows, key, n) ==
  {Step(p, "ok") : p \in leaders(rows, key, shown(n))}
    \union (IF n > RankCap /\ Cardinality(rows) > RankCap THEN {Aside} ELSE {})

readRows(rows) == {p \in DOMAIN rows : rows[p].how = "ok"}

unreadableRows(rows) == DOMAIN rows \ readRows(rows)

takeFailed(how) ==
  IF how \in {"absent", "denied"} THEN Unavailable ELSE Bare("error")

(* What a process used in between: nothing, if the first pass missed it or   *)
(* its pid was another's then.                                               *)
used(first, row, p) ==
  IF p \in readRows(first) /\ row.ticks > first[p].ticks
    THEN row.ticks - first[p].ticks ELSE 0

(* A table is how the listing of /proc ended, and a row for each process.    *)
rankings(n, first, second) ==
  LET rows == readRows(second)
  IN  narrate(rows, [p \in rows |-> second[p].rss], n)
        \union narrate(rows, [p \in rows |-> used(first, second[p], p)], n)
        \union (IF unreadableRows(second) # {} THEN {Unseen} ELSE {})

TopRun(param, first, second) ==
  IF topRefused(param) THEN Bare("error")
  ELSE IF first.how # "ok" THEN takeFailed(first.how)
  ELSE IF second.how # "ok" THEN takeFailed(second.how)
  ELSE IF readRows(second.rows) = {} THEN Unavailable
  ELSE Judged("ok", rankings(topN(param), first.rows, second.rows))

=============================================================================
