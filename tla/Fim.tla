---------------------------------- MODULE Fim ----------------------------------
(***************************************************************************)
(* File integrity monitoring of the C daemon (c/src/fim/engine.c): a        *)
(* baseline of hashes, kept in memory and in a file, and scans that compare *)
(* the files with it.                                                       *)
(*                                                                         *)
(* The daemon's loop scans and announces (c/src/main.c); fim_baseline_create *)
(* may be called between two scans.  Files change at any time, also between *)
(* two of those that a call hashes, and writes to the baseline file may     *)
(* fail, which the code does not look at.                                   *)
(***************************************************************************)
EXTENDS Naturals, Sequences

CONSTANTS Paths, Hashes,
          absent,        (* the content of a file that cannot be opened       *)
          torn,          (* the hash in a line that was written in part       *)
          MAX_FILES,     (* entries of baseline                         (256) *)
          MaxArguments,  (* bound on the paths of a call                      *)
          MaxEntries     (* bound on the entries written past the array's end *)

VARIABLES
    contents,        (* of the files that may be watched                     *)
    on_disk,         (* the lines of BASELINE_FILE                            *)
    baseline,
    pc,
    todo,            (* paths that fim_baseline_create has yet to hash       *)
    printed,         (* lines it has printed, flushed or not, or has last    *)
                     (* printed, or that fim_init has loaded since           *)
    scanned,         (* entries that fim_scan has gone through                *)
    changes,         (* its report                                           *)
    agreed,          (* history: what the last call for a path has hashed    *)
    touched,         (* history: files that have changed during the scan     *)
    rebaselined      (* history: a call has found the baseline in use        *)

files == <<contents, agreed, touched>>
memory == <<baseline, rebaselined>>
creation == <<on_disk, todo, printed>>
scan == <<scanned, changes>>
vars == <<pc, files, memory, creation, scan>>

Content == Hashes \cup {absent}

(* As many lines as the array holds. *)
Loaded(lines) == SubSeq(lines, 1, IF Len(lines) < MAX_FILES THEN Len(lines) ELSE MAX_FILES)

Init ==
    /\ contents \in [Paths -> Content]
    /\ agreed = [p \in Paths |-> absent]
    /\ touched = {}
    /\ on_disk = <<>>
    /\ baseline = <<>> /\ rebaselined = FALSE
    /\ pc = "idle"
    /\ todo = <<>> /\ printed = <<>>
    /\ scanned = 0 /\ changes = {}

(* Somebody writes or deletes a file. *)
Change(p) ==
    /\ \E c \in Content \ {contents[p]} : contents' = [contents EXCEPT ![p] = c]
    /\ touched' = IF pc = "scanning" THEN touched \cup {p} ELSE touched
    /\ UNCHANGED <<pc, agreed, memory, creation, scan>>

-----------------------------------------------------------------------------
(* fim_baseline_create *)

(* Lists of different paths. *)
Arguments ==
    {s \in UNION {[1 .. n -> Paths] : n \in 0 .. MaxArguments} :
        \A i, j \in DOMAIN s : s[i] = s[j] => i = j}

(* Mutant of Create: the file is opened to append to it. *)
CreateAppends ==
    /\ pc = "idle"
    /\ pc' = "creating"
    /\ todo' \in {Loaded(paths) : paths \in Arguments}
    /\ printed' = on_disk
    /\ rebaselined' = (rebaselined \/ baseline # <<>>)
    /\ UNCHANGED <<files, baseline, on_disk, scan>>

(* fopen empties the file; the loop ends after count paths, or MAX_FILES. *)
Create ==
    /\ pc = "idle"
    /\ pc' = "creating"
    /\ todo' \in {Loaded(paths) : paths \in Arguments}
    /\ on_disk' = <<>>
    /\ printed' = <<>>
    /\ rebaselined' = (rebaselined \/ baseline # <<>>)
    /\ UNCHANGED <<files, baseline, scan>>

(* Mutant of Remember: the hash of a known path is not renewed. *)
RememberFirst(p, h) ==
    baseline' = IF \E i \in DOMAIN baseline : baseline[i].path = p
                THEN baseline
                ELSE Append(baseline, [path |-> p, hash |-> h])

(* Past its end, the array is not checked; where the write does not end the *)
(* daemon (Restart), the entry is there.                                    *)
Remember(p, h) == baseline' = Append(baseline, [path |-> p, hash |-> h])

HashPath(p) ==
    /\ pc = "creating"
    /\ todo # <<>>
    /\ p = Head(todo)
    /\ Len(baseline) < MaxEntries
    /\ todo' = Tail(todo)
    /\ agreed' = [agreed EXCEPT ![p] = contents[p]]
    /\ IF contents[p] = absent
       THEN UNCHANGED <<printed, baseline>>
       ELSE /\ printed' = Append(printed, [path |-> p, hash |-> contents[p]])
            /\ Remember(p, contents[p])
    /\ UNCHANGED <<pc, contents, touched, rebaselined, on_disk, scan>>

(* Which m of the printed lines, in their order. *)
Kept(m) == {g \in [1 .. m -> DOMAIN printed] : \A i, j \in 1 .. m : i < j => g[i] < g[j]}

Cut(g, m, cut) ==
    [i \in 1 .. m |-> IF i \in cut THEN [printed[g[i]] EXCEPT !.hash = torn]
                      ELSE printed[g[i]]]

(* What becomes of the lines in the file.  A buffer that cannot be written, *)
(* as on a full disk, is lost, and a later one may still go out: any lines   *)
(* may be missing, and a hash may be cut or go on as another's.  A line with *)
(* half a path is left out: no file is called so, and scans find it deleted. *)
Flushed == UNION {{Cut(g, m, cut) : g \in Kept(m), cut \in SUBSET (1 .. m)} :
                  m \in 0 .. Len(printed)}

(* fclose writes what is left, and the call returns 0 whatever was written. *)
Close ==
    /\ pc = "creating"
    /\ todo = <<>>
    /\ pc' = "idle"
    /\ on_disk' \in Flushed
    /\ UNCHANGED <<files, memory, todo, printed, scan>>

-----------------------------------------------------------------------------
(* fim_scan, and what main makes of its report *)

BeginScan ==
    /\ pc = "idle"
    /\ pc' = "scanning"
    /\ scanned' = 0
    /\ changes' = {}
    /\ UNCHANGED <<files, memory, creation>>

(* Mutant of Verdict: a file is only reported once it is gone. *)
VerdictOnDeleted(e) ==
    IF contents[e.path] = absent THEN {[path |-> e.path, status |-> "deleted"]} ELSE {}

Verdict(e) ==
    IF contents[e.path] = absent THEN {[path |-> e.path, status |-> "deleted"]}
    ELSE IF contents[e.path] # e.hash THEN {[path |-> e.path, status |-> "modified"]}
    ELSE {}

ScanEntry ==
    /\ pc = "scanning"
    /\ scanned < Len(baseline)
    /\ scanned' = scanned + 1
    /\ changes' = changes \cup Verdict(baseline[scanned'])
    /\ UNCHANGED <<pc, files, memory, creation>>

(* main prints the modified files, not the deleted ones, and frees the report. *)
Announced == {c.path : c \in {d \in changes : d.status = "modified"}}

Announce ==
    /\ pc = "scanning"
    /\ scanned = Len(baseline)
    /\ pc' = "idle"
    /\ scanned' = 0
    /\ changes' = {}
    /\ touched' = {}
    /\ UNCHANGED <<contents, agreed, memory, creation>>

-----------------------------------------------------------------------------
(* The daemon has ended, by a signal or in mid-call, and is started again. *)
Restart ==
    /\ pc' = "idle"
    /\ on_disk' \in IF pc = "creating" THEN Flushed ELSE {on_disk}
    /\ todo' = <<>>
    /\ baseline' = Loaded(on_disk')
    /\ printed' = baseline'
    /\ rebaselined' = FALSE
    /\ scanned' = 0 /\ changes' = {}
    /\ touched' = {}
    /\ UNCHANGED <<contents, agreed>>

Next ==
    \/ Create \/ Close \/ BeginScan \/ ScanEntry \/ Announce \/ Restart
    \/ \E p \in Paths : Change(p) \/ HashPath(p)

Spec == Init /\ [][Next]_vars

-----------------------------------------------------------------------------
Watched(lines) == {lines[i].path : i \in DOMAIN lines}

(* A file of the last baseline whose content is not what it was, and that    *)
(* holds still during the scan, is announced, unless it is gone: a deleted   *)
(* file is never announced.  A baseline that could not be written counts     *)
(* until the daemon ends.                                                   *)
ChangesAreAnnounced ==
    [][Announce =>
         \A p \in Watched(printed) \ touched :
            contents[p] \notin {agreed[p], absent} => p \in Announced]_vars

(* A file that is announced has changed since the last call that hashed it,  *)
(* unless it changed during the scan, an earlier call has left another hash  *)
(* of it in memory, or fim_init has loaded half a hash of it.                *)
AlarmsAreExplained ==
    [][Announce =>
         \A p \in Announced :
            \/ p \in touched
            \/ contents[p] # agreed[p]
            \/ rebaselined
            \/ \E i \in DOMAIN printed : printed[i] = [path |-> p, hash |-> torn]]_vars

(* What a restart will find is the end of what the daemon has in memory, if  *)
(* all was written; and if not, its lines are lines of it, but for hashes    *)
(* that were cut.                                                           *)
FileIsEndOfMemory ==
    pc # "creating" =>
        /\ Len(printed) <= Len(baseline)
        /\ printed = SubSeq(baseline, Len(baseline) - Len(printed) + 1, Len(baseline))
        /\ \A i \in DOMAIN on_disk :
              \E j \in DOMAIN printed : /\ on_disk[i].path = printed[j].path
                                        /\ on_disk[i].hash \in {printed[j].hash, torn}
=============================================================================
