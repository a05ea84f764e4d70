----------------------------- MODULE LogSqueeze ------------------------------
(***************************************************************************)
(* The first version's squeeze_log (modules/log_squeeze/gzip_inplace.py)   *)
(* with the record its audit logger keeps of it, beside one process that   *)
(* may open, append to and close the log at any time, and logrotate, which *)
(* may move it aside.  A file is the lines it holds; an open descriptor    *)
(* follows its file when the name changes, and "gone" is a file that is    *)
(* open and has no name left.  Squeezes follow one another.                *)
(***************************************************************************)
EXTENDS Naturals, Sequences, Functions

CONSTANTS
  NoFile,
  MaxLines,       (* bound: lines ever written to the log        *)
  MaxSqueezes,    (* bound: calls of squeeze_log                 *)
  MaxRotations,   (* bound: how often logrotate moves the log    *)
  MaxFaults       (* bound: failing calls and kills, together    *)

ASSUME LogSqueezeAssumption ==
  /\ {MaxLines, MaxSqueezes, MaxRotations, MaxFaults} \subseteq Nat
  /\ NoFile \notin Seq(Nat)

VARIABLES
  file,       (* what each name holds: <name>, the rotated one, <name>.gz *)
              (* and <name>.gz.partial                                    *)
  whole,      (* the gzip files that were closed, and so can be unpacked  *)
  fd,         (* where the writer's descriptor leads, "none" if closed    *)
  written,    (* lines written so far; line n is the n-th                 *)
  rotations,
  pc,         (* where squeeze_log is                                     *)
  src,        (* where the descriptor it reads from leads                 *)
  pos,        (* lines copied                                             *)
  record,     (* the trail of this squeeze: "none", "intent", "ok", "failed" *)
  input,      (* the lines of the log when this squeeze opened it         *)
  squeezes, faults

logVars     == <<fd, written, rotations>>
callVars    == <<whole, pc, src, pos, record, input, squeezes, faults>>
squeezeVars == <<file, logVars, callVars>>

(* The log is there with a line in it, as find_squeezable_logs saw it. *)
SqueezeInit ==
  /\ file = [n \in {"path", "rotated", "final", "partial"} |->
               IF n = "path" THEN <<1>> ELSE NoFile]
  /\ whole = {} /\ fd = "none" /\ written = 1 /\ rotations = 0
  /\ pc = "idle" /\ src = "none" /\ pos = 0 /\ record = "none"
  /\ input = {} /\ squeezes = 0 /\ faults = 0

-----------------------------------------------------------------------------
(* The processes beside it. *)

(* open("a"): the file is created when it is not there. *)
OpenLog ==
  /\ fd = "none" /\ written < MaxLines
  /\ fd' = "path"
  /\ file' = IF file["path"] = NoFile THEN [file EXCEPT !["path"] = <<>>] ELSE file
  /\ UNCHANGED <<written, rotations, callVars>>

AppendLog ==
  /\ fd # "none" /\ written < MaxLines
  /\ written' = written + 1
  /\ file' = IF fd = "gone" THEN file ELSE [file EXCEPT ![fd] = Append(@, written')]
  /\ UNCHANGED <<fd, rotations, callVars>>

CloseLog ==
  /\ fd # "none" /\ fd' = "none"
  /\ UNCHANGED <<file, written, rotations, callVars>>

(* A rename: descriptors stay with the file. *)
Follow(d) == IF d = "path" THEN "rotated" ELSE d

Rotate ==
  /\ rotations < MaxRotations
  /\ file["path"] # NoFile /\ file["rotated"] = NoFile
  /\ rotations' = rotations + 1
  /\ file' = [file EXCEPT !["rotated"] = file["path"], !["path"] = NoFile]
  /\ fd' = Follow(fd) /\ src' = Follow(src)
  /\ UNCHANGED <<written, whole, pc, pos, record, input, squeezes, faults>>

-----------------------------------------------------------------------------
(* squeeze_log. *)

Fault == faults < MaxFaults /\ faults' = faults + 1

(* The action's intent line; when it cannot be written nothing else is done. *)
Begin ==
  /\ pc = "idle" /\ squeezes < MaxSqueezes
  /\ squeezes' = squeezes + 1
  /\ \/ pc' = "look" /\ record' = "intent" /\ UNCHANGED faults
     \/ Fault /\ record' = "none" /\ UNCHANGED pc
  /\ input' = {} /\ pos' = 0
  /\ UNCHANGED <<file, logVars, whole, src>>

(* The result line closes the action; writing it may fail too. *)
Report(r) ==
  /\ pc' = "idle" /\ src' = "none"
  /\ \/ record' = r /\ UNCHANGED faults
     \/ Fault /\ UNCHANGED record

(* is_file and stat: not there, and the squeeze is refused. *)
Look ==
  /\ pc = "look"
  /\ \/ /\ file["path"] # NoFile
        /\ pc' = "lsof" /\ UNCHANGED <<src, record, faults>>
     \/ file["path"] = NoFile /\ Report("failed")
  /\ UNCHANGED <<file, logVars, whole, pos, input, squeezes>>

(* is_open_for_write: lsof names a writer, or is missing, or takes too long, *)
(* and the squeeze is refused; a failure of lsof that prints nothing counts  *)
(* as nobody.                                                                 *)
IsOpenForWrite ==
  /\ pc = "lsof"
  /\ \/ fd # "path" /\ pc' = "open" /\ UNCHANGED <<src, record, faults>>
     \/ Fault /\ pc' = "open" /\ UNCHANGED <<src, record>>
     \/ Report("failed")
  /\ UNCHANGED <<file, logVars, whole, pos, input, squeezes>>

(* path.open and gzip.open: what an earlier squeeze left half made is *)
(* truncated.                                                           *)
Open ==
  /\ pc = "open" /\ file["path"] # NoFile
  /\ pc' = "copy" /\ src' = "path" /\ pos' = 0
  /\ input' = Range(file["path"])
  /\ file' = [file EXCEPT !["partial"] = <<>>]
  /\ whole' = whole \ {"partial"}
  /\ UNCHANGED <<logVars, record, squeezes, faults>>

(* A single chunk, and on. *)
CopyOnce ==
  /\ pc = "copy"
  /\ pos' = 1
  /\ file' = [file EXCEPT !["partial"] = SubSeq(file[src], 1, IF file[src] = <<>> THEN 0 ELSE 1)]
  /\ pc' = "replace" /\ src' = "none"
  /\ whole' = whole \union {"partial"}
  /\ UNCHANGED <<logVars, record, input, squeezes, faults>>

(* copyfileobj, until a read finds the end; then the gzip file is closed. *)
Copy ==
  /\ pc = "copy"
  /\ IF pos < Len(file[src])
       THEN /\ pos' = pos + 1
            /\ file' = [file EXCEPT !["partial"] = Append(@, file[src][pos'])]
            /\ UNCHANGED <<whole, pc, src>>
       ELSE /\ pc' = "replace" /\ src' = "none"
            /\ whole' = whole \union {"partial"}
            /\ UNCHANGED <<file, pos>>
  /\ UNCHANGED <<logVars, record, input, squeezes, faults>>

(* os.replace. *)
Replace ==
  /\ pc = "replace"
  /\ pc' = "unlink"
  /\ file' = [file EXCEPT !["final"] = file["partial"], !["partial"] = NoFile]
  /\ whole' = IF "partial" \in whole THEN {"final"} ELSE {}
  /\ UNCHANGED <<logVars, src, pos, record, input, squeezes, faults>>

(* path.unlink: of the name, whatever file has it now. *)
Unlink ==
  /\ pc = "unlink" /\ file["path"] # NoFile
  /\ pc' = "size"
  /\ file' = [file EXCEPT !["path"] = NoFile]
  /\ fd' = IF fd = "path" THEN "gone" ELSE fd
  /\ UNCHANGED <<written, rotations, whole, src, pos, record, input, squeezes, faults>>

(* final.stat, after the except clause: its error leaves the action. *)
Succeed ==
  /\ pc = "size"
  /\ Report("ok") \/ (Fault /\ pc' = "idle" /\ src' = "none" /\ record' = "failed")
  /\ UNCHANGED <<file, logVars, whole, pos, input, squeezes>>

(* except OSError: from the open to the unlink; a name that is not there is *)
(* an error nobody had to cause.                                             *)
Fail ==
  /\ pc \in {"open", "copy", "replace", "unlink"}
  /\ \/ pc \in {"open", "unlink"} /\ file["path"] = NoFile /\ UNCHANGED faults
     \/ Fault
  /\ pc' = "failing" /\ src' = "none"
  /\ UNCHANGED <<file, logVars, whole, pos, record, input, squeezes>>

(* _safe_unlink, which may fail without a word, and the result. *)
CleanUp ==
  /\ pc = "failing"
  /\ \/ file' = [file EXCEPT !["partial"] = NoFile] /\ whole' = whole \ {"partial"}
     \/ UNCHANGED <<file, whole>>
  /\ Report("failed")
  /\ UNCHANGED <<logVars, pos, input, squeezes>>

(* The process dies; the next call is another process's. *)
Kill ==
  /\ pc # "idle" /\ Fault
  /\ pc' = "idle" /\ src' = "none"
  /\ UNCHANGED <<file, logVars, whole, pos, record, input, squeezes>>

-----------------------------------------------------------------------------
SqueezeNext ==
  \/ OpenLog \/ AppendLog \/ CloseLog \/ Rotate
  \/ Begin \/ Look \/ IsOpenForWrite \/ Open \/ Copy \/ Replace \/ Unlink
  \/ Succeed \/ Fail \/ CleanUp \/ Kill

-----------------------------------------------------------------------------
Lines(n) == IF file[n] = NoFile THEN {} ELSE Range(file[n])

Archived == IF "final" \in whole THEN Lines("final") ELSE {}

Kept == Lines("path") \union Lines("rotated") \union Archived

(* Whatever fails, dies, appends or rotates, and wherever: every line the   *)
(* log held when it was opened is still in the log, in the rotated file or  *)
(* in an archive that unpacks, and a squeeze that the trail calls ok has it *)
(* in the archive (squeeze_log's order of replace, unlink and result).       *)
InputSurvives ==
  /\ input \subseteq Kept
  /\ record = "ok" => input \subseteq Archived

=============================================================================
