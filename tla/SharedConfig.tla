---------------------------- MODULE SharedConfig ----------------------------
(***************************************************************************)
(* The configuration of the Go API (config.go, management.go, main.go):    *)
(* one *Config that every handler reads and writes without a lock.  A Go   *)
(* string is two words, the text and its length, which are stored and      *)
(* loaded one by one: handlers that overlap can leave or see the text of   *)
(* one value with the length of another.                                   *)
(*                                                                         *)
(* A word is the value it belongs to.  ProxyPort, ManagementPort, DBPath   *)
(* and the rest are set at the start and never again.                      *)
(***************************************************************************)
EXTENDS Naturals, FiniteSets

CONSTANTS Calls,       (* requests that change the configuration             *)
          Readers,     (* requests that show it                              *)
          Upstreams,   (* values of upstream_url                             *)
          Strays,      (* postures nobody knows, such as the dashboard's     *)
                       (* "attack"                                           *)
          None,        (* a field a body leaves out                          *)
          MaxRestarts  (* bound on the restarts of the API                   *)

VARIABLES
    cfg,        (* the words of UpstreamURL and Posture                      *)
    call,       (* where each change is                                      *)
    body,       (* the fields it sets                                        *)
    words,      (* words it has yet to store                                 *)
    reader,     (* where each reader is                                      *)
    shown,      (* the words of the posture it has loaded                    *)
    mixed,      (* history: fields two changes were storing at once          *)
    raced,      (* history: readers that met a change, or what one left      *)
    restarts

vars == <<cfg, call, body, words, reader, shown, mixed, raced, restarts>>
storing == <<cfg, call, body, words, mixed>>

Valid == {"monitor", "standard", "under_attack"}
Postures == Valid \cup Strays
Words == {"text", "length"}
Fields == {"upstream", "posture"}
Whole(v) == [w \in Words |-> v]

(* loadConfig: the posture of the last run is not remembered. *)
InitialConfig == [upstream |-> Whole("http://localhost:3000"), posture |-> Whole("monitor")]

NoBody == [upstream |-> None, posture |-> None]

Init ==
    /\ cfg = InitialConfig
    /\ call = [c \in Calls |-> "new"]
    /\ body = [c \in Calls |-> NoBody]
    /\ words = [c \in Calls |-> {}]
    /\ reader = [r \in Readers |-> "new"]
    /\ shown = [r \in Readers |-> Whole(None)]
    /\ mixed = {}
    /\ raced = {}
    /\ restarts = 0

Writing(f) == {c \in Calls : call[c] = f}

(* c goes on to store field f, or has none to store and answers. *)
StoreField(c, b, f) ==
    /\ body' = [body EXCEPT ![c] = b]
    /\ call' = [call EXCEPT ![c] = f]
    /\ words' = [words EXCEPT ![c] = IF f = "answer" THEN {} ELSE Words]
    /\ mixed' = IF f \in Fields /\ Writing(f) \ {c} # {} THEN mixed \cup {f} ELSE mixed
    /\ raced' = IF f = "posture" THEN raced \cup {r \in Readers : reader[r] = "loading"} ELSE raced

(* PUT /api/config: no check of what the fields say. *)
updateConfig(c) ==
    /\ call[c] = "new"
    /\ \E u \in Upstreams \cup {None}, p \in Postures \cup {None} :
           StoreField(c, [upstream |-> u, posture |-> p],
                      IF u # None THEN "upstream" ELSE IF p # None THEN "posture" ELSE "answer")
    /\ UNCHANGED <<cfg, reader, shown, restarts>>

(* PUT /api/posture: 400, and nothing done, for what is not in Valid. *)
setPosture(c) ==
    /\ call[c] = "new"
    /\ \E p \in Valid : StoreField(c, [NoBody EXCEPT !.posture = p], "posture")
    /\ UNCHANGED <<cfg, reader, shown, restarts>>

(* POST /api/mitigation-posture: the label of a known posture stands for    *)
(* it, and any other string for itself.                                     *)
setMitigationPosture(c) ==
    /\ call[c] = "new"
    /\ \E p \in Postures : StoreField(c, [NoBody EXCEPT !.posture = p], "posture")
    /\ UNCHANGED <<cfg, reader, shown, restarts>>

(* One word of the assignment under way. *)
StoreWord(c, w) ==
    /\ w \in words[c]
    /\ LET f == IF call[c] = "upstream" THEN "upstream" ELSE "posture"
       IN cfg' = [cfg EXCEPT ![f][w] = body[c][f]]
    /\ words' = [words EXCEPT ![c] = @ \ {w}]
    /\ UNCHANGED <<call, body, reader, shown, mixed, raced, restarts>>

(* After UpstreamURL comes Posture, if the body has it. *)
NextField(c) ==
    /\ call[c] = "upstream" /\ words[c] = {}
    /\ StoreField(c, body[c], IF body[c].posture # None THEN "posture" ELSE "answer")
    /\ UNCHANGED <<cfg, reader, shown, restarts>>

(* Mutant of Answer: the posture is left to a goroutine. *)
AnswerFirst(c) ==
    /\ call[c] \in {"posture", "answer"}
    /\ call' = [call EXCEPT ![c] = "done"]
    /\ UNCHANGED <<cfg, body, words, reader, shown, mixed, raced, restarts>>

Answer(c) ==
    /\ call[c] \in {"posture", "answer"} /\ words[c] = {}
    /\ call' = [call EXCEPT ![c] = "done"]
    /\ UNCHANGED <<cfg, body, words, reader, shown, mixed, raced, restarts>>

(* getConfig, getPosture, and every tick of streamTelemetry. *)
getPosture(r) ==
    /\ reader[r] = "new"
    /\ reader' = [reader EXCEPT ![r] = "loading"]
    /\ raced' = IF Writing("posture") # {} \/ "posture" \in mixed THEN raced \cup {r} ELSE raced
    /\ UNCHANGED <<storing, shown, restarts>>

LoadWord(r, w) ==
    /\ reader[r] = "loading" /\ shown[r][w] = None
    /\ shown' = [shown EXCEPT ![r][w] = cfg.posture[w]]
    /\ reader' = [reader EXCEPT ![r] = IF \A v \in Words \ {w} : shown[r][v] # None
                                       THEN "shown" ELSE "loading"]
    /\ UNCHANGED <<storing, raced, restarts>>

(* main: the process is started again with what loadConfig says. *)
Restart ==
    /\ restarts < MaxRestarts
    /\ restarts' = restarts + 1
    /\ cfg' = InitialConfig
    /\ call' = [c \in Calls |-> IF call[c] = "new" THEN "new" ELSE "done"]
    /\ words' = [c \in Calls |-> {}]
    /\ reader' = [r \in Readers |-> IF reader[r] = "loading" THEN "lost" ELSE reader[r]]
    /\ mixed' = {}
    /\ UNCHANGED <<body, shown, raced>>

Next ==
    \/ \E c \in Calls : \/ updateConfig(c) \/ setPosture(c) \/ setMitigationPosture(c)
                        \/ (\E w \in Words : StoreWord(c, w)) \/ NextField(c) \/ Answer(c)
    \/ \E r \in Readers : getPosture(r) \/ \E w \in Words : LoadWord(r, w)
    \/ Restart

Spec == Init /\ [][Next]_vars

-----------------------------------------------------------------------------
(* Changes that follow one another leave whole strings.  A field that is    *)
(* not being stored has the text and the length of one value, unless two    *)
(* changes have overlapped since the start (then it can stay torn for       *)
(* good); and a posture is shown torn only if it was read while a change    *)
(* stored it, or after two had overlapped.                                  *)
StringsTearOnlyByOverlap ==
    /\ \A f \in Fields :
           cfg[f].text # cfg[f].length => Writing(f) # {} \/ f \in mixed
    /\ \A r \in Readers :
           reader[r] = "shown" /\ shown[r].text # shown[r].length => r \in raced
=============================================================================
