---------------------------- MODULE LogRotation ----------------------------
(***************************************************************************)
(* The service logs of the hub and rotate-hub-logs, which cron runs every  *)
(* hour.  /data/logs is a tmpfs of fixed size with a directory per service *)
(* and a live .log in each.  A run copies a live log that has grown past   *)
(* RotateSize to an archive file, truncates the log and compresses the     *)
(* archive; it deletes expired .gz files, and at the end the oldest ones   *)
(* until they fit their budgets.  The services go on appending while it    *)
(* works, a write to a full tmpfs fails, an error ends the run at once,    *)
(* and the program may be killed at any step.                              *)
(*                                                                         *)
(* The text of a log is a set of lines, numbered in the order in which     *)
(* they were written, and a line has size one.                             *)
(***************************************************************************)
EXTENDS Integers, FiniteSets, SequencesExt

CONSTANTS
    Service,      \* the directories of /data/logs, in the order of ReadDir
    RotateSize,   \* -rotate-size
    MaxBytes,     \* -max-bytes
    TotalBytes,   \* -total-bytes
    Volume,       \* size= of the tmpfs
    MayBeKilled,  \* may the program be killed, and the hub lose power
    MaxLine       \* bound: lines written

ASSUME RotationAssumption ==
    /\ Service \in Seq(STRING)
    /\ {RotateSize, MaxBytes, TotalBytes, Volume, MaxLine} \subseteq Nat
    /\ MayBeKilled \in BOOLEAN

Services == {Service[i] : i \in DOMAIN Service}
Line == 1..MaxLine

VARIABLES
    live,     \* lines of each live log
    raw,      \* archive files left behind uncompressed, each a set of lines
    gz,       \* .gz files
    now,      \* the clock, which tells the modification times of .gz files apart
    cutoff,   \* .gz files older than this are expired (-retention-days before now)
    next,     \* the next line
    pc,       \* where the run is
    todo,     \* directories the run has still to visit, the current one first
    archive,  \* the archive file of the rotation at work
    ok,       \* the last run came to its end
    late,     \* history: lines written between the end of a copy and its truncation
    dropped   \* history: lines of expired or pruned .gz, and all lines before a reboot

files == <<live, raw, gz>>
clock == <<now, cutoff>>
run == <<pc, todo, archive, ok>>
history == <<late, dropped>>
vars == <<live, raw, gz, now, cutoff, next, pc, todo, archive, ok, late, dropped>>

Steps == {"rotate", "copy", "truncate", "gzip", "unlink", "expire", "prune", "budget"}

Gz == [dir : Services, lines : SUBSET Line, size : Nat, mod : Nat]

TypeOK ==
    /\ live \in [Services -> SUBSET Line]
    /\ raw \in Seq(SUBSET Line)
    /\ gz \subseteq Gz
    /\ now \in Nat /\ cutoff \in 0..now /\ next \in 1..(MaxLine + 1)
    /\ pc \in {"idle"} \cup Steps
    /\ todo \in Seq(Services) /\ (pc \in Steps \ {"prune", "budget"} => todo # <<>>)
    /\ archive \subseteq Line
    /\ ok \in BOOLEAN
    /\ late \subseteq Line /\ dropped \subseteq Line

-----------------------------------------------------------------------------
(* The directory the run is in, sizes, and the space that is left.         *)

dir == Head(todo)

(* the blocks of .gz files, each with its file; a line of a log is a block *)
Blocks(archives) == UNION {{f} \X (1..f.size) : f \in archives}

LiveTotal == Cardinality(UNION {{s} \X live[s] : s \in Services})
RawTotal == Cardinality(UNION {{i} \X raw[i] : i \in DOMAIN raw})
GzTotal(archives) == Cardinality(Blocks(archives))

Free == Volume - (LiveTotal + RawTotal + Cardinality(archive) + GzTotal(gz))
Full == Free <= 0

(* gzip at best compression: half the size, at least a block *)
Compressed(lines) == (Cardinality(lines) + 1) \div 2

GzLines(archives) == UNION {f.lines : f \in archives}

(* a .gz written now *)
NewGz(lines, size) == [dir |-> dir, lines |-> lines, size |-> size, mod |-> now]

(* an archive file no program will look at again *)
Stray == IF archive = {} THEN raw ELSE Append(raw, archive)

Oversized_ByOne(s) == Cardinality(live[s]) > RotateSize + 1
Oversized(s) == Cardinality(live[s]) > RotateSize

(* io.Copy has met the end of the live log *)
CopyDone_AnyError == live[dir] \subseteq archive \/ Full
CopyDone == live[dir] \subseteq archive

(* os.Truncate(path, 0) *)
Truncated_Not == live
Truncated == [live EXCEPT ![dir] = {}]

(* what is left of gz when the oldest go until base and the rest fit *)
Newest_OneMore(base, budget) ==
    LET since(t) == {f \in gz : f.mod >= t}
    IN  since(Min({now} \cup {t \in 0..now : base + GzTotal(since(t + 1)) <= budget}))
Newest(base, budget) ==
    LET since(t) == {f \in gz : f.mod >= t}
    IN  since(Min({now} \cup {t \in 0..now : base + GzTotal(since(t)) <= budget}))

(* the directory just done was the last *)
LastDir_OffByOne == todo = <<>>
LastDir == Len(todo) = 1

-----------------------------------------------------------------------------
Init ==
    /\ live = [s \in Services |-> {}] /\ raw = <<>> /\ gz = {}
    /\ now = 0 /\ cutoff = 0 /\ next = 1
    /\ pc = "idle" /\ todo = <<>> /\ archive = {} /\ ok = TRUE
    /\ late = {} /\ dropped = {}

(* The services and the power.                                             *)

WriteLine(s) ==
    /\ next <= MaxLine /\ ~Full
    /\ live' = [live EXCEPT ![s] = @ \cup {next}]
    /\ next' = next + 1
    /\ late' = IF pc = "truncate" /\ s = dir THEN late \cup {next} ELSE late
    /\ UNCHANGED <<raw, gz, clock, run, dropped>>

(* The run ends in an error, or is killed: the archive file stays.         *)
Abort ==
    /\ raw' = Stray /\ archive' = {}
    /\ pc' = "idle" /\ todo' = <<>> /\ ok' = FALSE

Killed ==
    /\ MayBeKilled /\ pc # "idle"
    /\ Abort
    /\ UNCHANGED <<live, gz, clock, next, history>>

(* a tmpfs does not outlive the power *)
Reboot ==
    /\ MayBeKilled
    /\ live' = [s \in Services |-> {}] /\ raw' = <<>> /\ gz' = {}
    /\ pc' = "idle" /\ todo' = <<>> /\ archive' = {} /\ ok' = TRUE
    /\ dropped' = 1..(next - 1)
    /\ UNCHANGED <<clock, next, late>>

-----------------------------------------------------------------------------
(* rotate-hub-logs                                                         *)

(* Between two runs any amount of time may have passed. *)
RunStart ==
    /\ pc = "idle" /\ Service # <<>>
    /\ pc' = "rotate" /\ todo' = Service
    /\ cutoff' \in cutoff..now
    /\ UNCHANGED <<files, now, next, archive, ok, history>>

Rotate ==
    /\ pc = "rotate"
    /\ pc' = IF Oversized(dir) THEN "copy" ELSE "expire"
    /\ UNCHANGED <<files, clock, next, todo, archive, ok, history>>

CopyLine ==
    /\ pc = "copy" /\ ~CopyDone /\ ~Full
    /\ \E l \in live[dir] \ archive :
         /\ \A k \in live[dir] \ archive : l <= k
         /\ archive' = archive \cup {l}
    /\ UNCHANGED <<files, clock, next, pc, todo, ok, history>>

CopyEnd ==
    /\ pc = "copy" /\ CopyDone
    /\ pc' = "truncate"
    /\ UNCHANGED <<files, clock, next, todo, archive, ok, history>>

CopyFails ==
    /\ pc = "copy" /\ ~CopyDone /\ Full
    /\ Abort
    /\ UNCHANGED <<live, gz, clock, next, history>>

Truncate ==
    /\ pc = "truncate"
    /\ live' = Truncated
    /\ pc' = "gzip"
    /\ UNCHANGED <<raw, gz, clock, next, todo, archive, ok, history>>

Gzip ==
    /\ pc = "gzip" /\ Compressed(archive) <= Free
    /\ gz' = gz \cup {NewGz(archive, Compressed(archive))}
    /\ now' = now + 1
    /\ pc' = "unlink"
    /\ UNCHANGED <<live, raw, cutoff, next, todo, archive, ok, history>>

(* a .gz that could be written only in part stays, next to the archive *)
GzipFails ==
    /\ pc = "gzip" /\ Compressed(archive) > Free
    /\ gz' = gz \cup (IF Full THEN {} ELSE {NewGz({}, Free)})
    /\ now' = now + 1
    /\ Abort
    /\ UNCHANGED <<live, cutoff, next, history>>

Unlink ==
    /\ pc = "unlink"
    /\ archive' = {} /\ pc' = "expire"
    /\ UNCHANGED <<files, clock, next, todo, ok, history>>

(* deleteExpiredGzip, and on to the next directory *)
Expire ==
    /\ pc = "expire"
    /\ gz' = {f \in gz : f.dir # dir \/ f.mod >= cutoff}
    /\ dropped' = dropped \cup (GzLines(gz) \ GzLines(gz'))
    /\ todo' = Tail(todo)
    /\ pc' = IF LastDir THEN "prune" ELSE "rotate"
    /\ UNCHANGED <<live, raw, clock, next, archive, ok, late>>

(* enforceMaxGzipArchives *)
Prune ==
    /\ pc = "prune"
    /\ gz' = Newest(0, MaxBytes)
    /\ dropped' = dropped \cup (GzLines(gz) \ GzLines(gz'))
    /\ pc' = "budget"
    /\ UNCHANGED <<live, raw, clock, next, todo, archive, ok, late>>

(* enforceMaxTotal: only .log and .gz count, and only .gz go *)
Budget ==
    /\ pc = "budget"
    /\ gz' = Newest(LiveTotal, TotalBytes)
    /\ dropped' = dropped \cup (GzLines(gz) \ GzLines(gz'))
    /\ pc' = "idle" /\ ok' = TRUE
    /\ UNCHANGED <<live, raw, clock, next, todo, archive, late>>

-----------------------------------------------------------------------------
Run ==
    \/ RunStart \/ Rotate \/ CopyLine \/ CopyEnd \/ CopyFails \/ Truncate
    \/ Gzip \/ GzipFails \/ Unlink \/ Expire \/ Prune \/ Budget

Next ==
    \/ \E s \in Services : WriteLine(s)
    \/ Killed \/ Reboot \/ Run

Spec == Init /\ [][Next]_vars /\ WF_vars(Run)

-----------------------------------------------------------------------------
(* Properties.                                                             *)

(***************************************************************************)
(* Rotation loses no line but those a service writes after the copy has    *)
(* met the end of the log and before the log is truncated: whatever fails  *)
(* and wherever the run is killed, every other line is in the live log, in *)
(* an archive or in a .gz, until its .gz expires or is pruned.             *)
(***************************************************************************)
OnlyLateLinesLost ==
    1..(next - 1) \subseteq
        (UNION {live[s] : s \in Services}) \cup (UNION {raw[i] : i \in DOMAIN raw})
        \cup archive \cup GzLines(gz) \cup late \cup dropped

(***************************************************************************)
(* A line is compressed at most once, however often runs are killed.       *)
(***************************************************************************)
CompressedOnce ==
    \A f, g \in gz : f # g => f.lines \cap g.lines = {}

(***************************************************************************)
(* After a run that came to its end the .gz files fit -max-bytes.          *)
(***************************************************************************)
ArchivesFit == pc = "idle" /\ ok => GzTotal(gz) <= MaxBytes

(***************************************************************************)
(* A live log that has grown past RotateSize is rotated by the next run,   *)
(* unless that run fails.                                                  *)
(***************************************************************************)
OversizedRotated ==
    \A s \in Services : Cardinality(live[s]) > RotateSize
                            ~> (Cardinality(live[s]) <= RotateSize \/ ~ok)

=============================================================================
