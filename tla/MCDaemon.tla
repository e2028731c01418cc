------------------------------ MODULE MCDaemon ------------------------------
(***************************************************************************)
(* Small instances of the engines of the C daemon: failed logins, files    *)
(* and the firewall.  They share no state, so a behaviour is one of one of *)
(* them, and "part" says whose.  Files, hashes and callers of the firewall *)
(* are interchangeable.                                                    *)
(***************************************************************************)
EXTENDS Hids, FiniteSets, TLC

CONSTANTS Paths, Hashes, absent, torn, MAX_FILES, MaxArguments, MaxEntries,
          Callers, Hosts, none, MaxRules, MaxCrashes

VARIABLES part,
          contents, on_disk, baseline, pc, todo, printed, scanned, changes,
          agreed, touched, rebaselined,
          chain, policy, hardened, at, ip, timed, orphans, crashes,
          raced, permanent, undermined, feigned, kept, half_locked

F == INSTANCE Fim
Wall == INSTANCE Firewall WITH Addresses <- Hosts

fim == <<contents, on_disk, baseline, pc, todo, printed, scanned, changes,
         agreed, touched, rebaselined>>
firewall == <<chain, policy, hardened, at, ip, timed, orphans, crashes,
              raced, permanent, undermined, feigned, kept, half_locked>>

(* The values that stand for no content and no address are no others; the   *)
(* bounds are numbers, and no infinity of callers sleeps at once.           *)
ASSUME DaemonAssumption ==
    /\ absent \notin Hashes /\ torn \notin Hashes /\ absent # torn
    /\ MAX_FILES \in Nat /\ MaxArguments \in Nat
    /\ none \notin Hosts /\ "established" \notin Hosts
    /\ IsFiniteSet(Callers)

MCInit ==
    /\ part \in {"hids", "fim", "firewall"}
    /\ Init
    /\ IF part = "fim" THEN F!Init
       ELSE F!Init /\ contents = [p \in Paths |-> absent]
    /\ Wall!Init

MCNext ==
    /\ UNCHANGED part
    /\ \/ part = "hids" /\ Next /\ UNCHANGED <<fim, firewall>>
       \/ part = "fim" /\ F!Next /\ UNCHANGED <<vars, firewall>>
       \/ part = "firewall" /\ Wall!Next /\ UNCHANGED <<vars, fim>>

MCSpec == MCInit /\ [][MCNext]_<<part, vars, fim, firewall>>

Symmetry == Permutations(Callers) \cup Permutations(Paths) \cup Permutations(Hashes)

(* What a restart finds on disk (fim/engine.c). *)
FileIsEndOfMemory == F!FileIsEndOfMemory

(* No scan passes over a file that differed throughout. *)
ChangesAreAnnounced == F!ChangesAreAnnounced

(* Why a scan announces a file. *)
AlarmsAreExplained == F!AlarmsAreExplained

(* How an address gets two rules (active_response/engine.c). *)
DuplicatesOnlyByRace == Wall!DuplicatesOnlyByRace

(* What ends a block for good. *)
PermanentBlockHolds == Wall!PermanentBlockHolds

(* What leaves a timed block without a timer. *)
TimedBlocksEnd == Wall!TimedBlocksEnd

(* What cuts established connections (active_response/posture.c). *)
EstablishedSurvive == Wall!EstablishedSurvive
=============================================================================
