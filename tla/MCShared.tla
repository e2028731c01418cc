------------------------------ MODULE MCShared ------------------------------
(***************************************************************************)
(* Small instances of the structures the handlers of the Go API share: the *)
(* fleet manager, the two event hubs and the configuration.  They have     *)
(* nothing in common, so a behaviour is one of one of them, and "part"     *)
(* says whose.                                                             *)
(***************************************************************************)
EXTENDS Fleet, FiniteSets, Functions, Sequences

CONSTANTS Conns, Events, Capacity, Sockets, Broadcasts, None,
          Calls, Upstreams, Strays, MaxRestarts

VARIABLES part,
          clients, conn, id, ch, event, pending, got, owed, dropped, rivals,
          listed, handler, sock, writer, walk, visits, cur, crashed, overlapped,
          cfg, call, body, words, reader, shown, mixed, raced, restarts

Sse == INSTANCE SseHub
Ws == INSTANCE WebSocketHub
Cfg == INSTANCE SharedConfig

(* None stands for no client and no connection, and channels hold events. *)
ASSUME SharedAssumption ==
    /\ None \notin Conns /\ None \notin Sockets
    /\ IsFiniteSet(Conns)

sse == <<clients, conn, id, ch, event, pending, got, owed, dropped, rivals>>
websocket == <<listed, handler, sock, writer, walk, visits, cur, crashed, overlapped>>
config == <<cfg, call, body, words, reader, shown, mixed, raced, restarts>>
mcvars == <<part, vars, sse, websocket, config>>

MCInit ==
    /\ part \in {"fleet", "sse", "websocket", "config"}
    /\ Init /\ Sse!Init /\ Ws!Init /\ Cfg!Init

MCNext ==
    /\ UNCHANGED part
    /\ \/ part = "fleet" /\ Next /\ UNCHANGED <<sse, websocket, config>>
       \/ part = "sse" /\ Sse!Next /\ UNCHANGED <<vars, websocket, config>>
       \/ part = "websocket" /\ Ws!Next /\ UNCHANGED <<vars, sse, config>>
       \/ part = "config" /\ Cfg!Next /\ UNCHANGED <<vars, sse, websocket>>

MCSpec == MCInit /\ [][MCNext]_mcvars /\ Ws!Fairness

(* Who misses an event (sse.go). *)
OpenClientsHear == Sse!OpenClientsHear

(* When the process dies of its own map (websocket.go). *)
CrashNeedsTwoBroadcasts == Ws!CrashNeedsTwoBroadcasts

(* Connections in the map, and the handlers that take them out.  *)
ListedWhileServed == Ws!ListedWhileServed

(* Handlers that wait for a broadcast. *)
HandlersGetTheLock == Ws!HandlersGetTheLock

(* Strings stored and loaded word by word (config.go). *)
StringsTearOnlyByOverlap == Cfg!StringsTearOnlyByOverlap
=============================================================================
