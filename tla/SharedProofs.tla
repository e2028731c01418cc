---------------------------- MODULE SharedProofs ----------------------------
(* Proofs about what the handlers of the Go API share in memory: the fleet   *)
(* manager, the event hubs and the configuration, for any numbers of agents, *)
(* clients, connections, events, changes and readers.  MCShared brings the   *)
(* four together under names of their own; each theorem is about one of      *)
(* them, by itself.                                                          *)
EXTENDS MCShared, FiniteSetTheorems, TLAPS

(* The fleet manager. *)

(* An agent that is offline, replaced or not, had been silent for more than  *)
(* the limit when the pruner last ran.                                       *)
OfflineLong ==
    \A a \in 1 .. made : heap[a].status = "offline" => heap[a].seen + Limit < pruned

(* A status that has been read as offline and not been answered for by a     *)
(* last_seen yet still has its cause in the agent it was read from, or a     *)
(* heartbeat has come since.                                                 *)
CauseRemains ==
    \A r \in Readers :
        /\ view[r].from <= now
        /\ view[r].at = "status" =>
              /\ view[r].agent \in 1 .. made
              /\ view[r].status = "offline" =>
                     \/ heap[view[r].agent].seen + Limit < pruned
                     \/ heap[view[r].agent].seen >= view[r].from

FleetInv == TypeOK /\ OfflineIfSilent /\ OfflineLong /\ CauseRemains /\ OfflineIsShownWithCause

-----------------------------------------------------------------------------
LEMMA NothingIsView == Nothing \in View
BY FleetAssumption DEF Nothing, View

(* What TypeOK says of each agent and each request, in plain terms. *)
LEMMA Shapes ==
  ASSUME TypeOK
  PROVE  /\ made \in Nat /\ made <= MaxRegistrations
         /\ now \in Nat /\ pruned \in Nat /\ pruned <= now /\ Limit \in Nat
         /\ \A i \in Ids : agents[i] \in 0 .. made
         /\ \A a \in 1 .. made : a \in Agents
         /\ \A a \in Agents : heap[a] \in Agent /\ heap[a].seen \in Nat
         /\ \A r \in Readers : /\ view[r] \in View
                               /\ view[r].seen \in Nat /\ view[r].from \in Nat
<1> USE FleetAssumption DEF TypeOK
<1>1. made \in Nat /\ made <= MaxRegistrations /\ now \in Nat /\ pruned \in Nat /\ pruned <= now
  OBVIOUS
<1>2. \A a \in 1 .. made : a \in Agents
  BY <1>1 DEF Agents
<1>3. \A a \in Agents : heap[a] \in Agent /\ heap[a].seen \in Nat
  BY DEF Agent
<1>4. \A r \in Readers : view[r] \in View /\ view[r].seen \in Nat /\ view[r].from \in Nat
  BY DEF View
<1> QED BY <1>1, <1>2, <1>3, <1>4

LEMMA FleetInitially == Init => FleetInv
<1> SUFFICES ASSUME Init PROVE FleetInv
  OBVIOUS
<1> USE FleetAssumption
<1>1. heap \in [Agents -> Agent]
  BY DEF Init, Agent
<1>2. view \in [Readers -> View]
  BY NothingIsView DEF Init
<1>3. TypeOK
  <2>1. /\ agents \in [Ids -> 0 .. made] /\ made \in 0 .. MaxRegistrations
        /\ todo \in [Readers -> SUBSET (1 .. made)]
    BY DEF Init
  <2>2. now \in 0 .. MaxTime /\ pruned \in 0 .. now
    BY DEF Init
  <2>3. due \in BOOLEAN
    BY Zenon DEF Init
  <2> QED BY <1>1, <1>2, <2>1, <2>2, <2>3 DEF TypeOK
<1>4. OfflineIfSilent /\ OfflineLong
  BY DEF Init, OfflineIfSilent, OfflineLong
<1>5. CauseRemains /\ OfflineIsShownWithCause
  BY DEF Init, CauseRemains, OfflineIsShownWithCause, Nothing
<1> QED BY <1>3, <1>4, <1>5 DEF FleetInv

(* The clock, the pruner and the requests that change agents. *)
LEMMA TickKeeps ==
  ASSUME FleetInv, Tick PROVE FleetInv'
<1> USE FleetAssumption DEF FleetInv, Tick, registry, answers
<1>1. TypeOK'
  BY DEF TypeOK
<1>2. now' = now + 1 /\ now \in Nat /\ \A r \in Readers : view[r].from \in Nat
  BY Shapes
<1>3. (OfflineIfSilent /\ OfflineLong /\ OfflineIsShownWithCause)'
  BY DEF OfflineIfSilent, OfflineLong, OfflineIsShownWithCause
<1>4. CauseRemains'
  BY <1>2 DEF CauseRemains
<1> QED BY <1>1, <1>3, <1>4

LEMMA PrunerKeeps ==
  ASSUME FleetInv, StartPruner PROVE FleetInv'
<1> USE DEF FleetInv, answers
<1>1. /\ pruned' = now /\ pruned \in Nat /\ now \in Nat /\ pruned <= now /\ Limit \in Nat
      /\ UNCHANGED <<agents, made, now, todo, view>>
  BY Shapes DEF StartPruner
<1>2. \A a \in Agents : /\ heap'[a].seen = heap[a].seen /\ heap[a].seen \in Nat
                        /\ heap'[a] \in Agent
                        /\ a \in Registered /\ Silent(a) => heap'[a].status = "offline"
                        /\ ~(a \in Registered /\ Silent(a)) => heap'[a].status = heap[a].status
  BY Shapes DEF StartPruner, Agent
<1>3. \A i \in Ids : agents[i] # 0 => agents[i] \in Registered /\ agents[i] \in 1 .. made
  BY Shapes DEF Registered
<1>4. \A a \in 1 .. made : a \in Agents
  BY Shapes
<1>5. TypeOK'
  <2>1. heap' \in [Agents -> Agent]
    BY <1>2 DEF StartPruner
  <2>2. due' \in BOOLEAN
    BY DEF StartPruner
  <2>3. pruned' \in 0 .. now'
    BY <1>1
  <2> QED BY <1>1, <2>1, <2>2, <2>3 DEF TypeOK
<1>6. OfflineIfSilent'
  BY <1>1, <1>2, <1>3, <1>4 DEF OfflineIfSilent, Silent
<1>7. OfflineLong'
  BY <1>1, <1>2, <1>4 DEF OfflineLong, Silent
<1>8. CauseRemains'
  BY <1>1, <1>2, <1>4 DEF CauseRemains
<1>9. OfflineIsShownWithCause'
  <2> \A r \in Readers : view[r].seen \in Nat /\ view[r].from \in Nat
    BY Shapes
  <2> QED BY <1>1 DEF OfflineIsShownWithCause
<1> QED BY <1>5, <1>6, <1>7, <1>8, <1>9

LEMMA RegisterKeeps ==
  ASSUME FleetInv, NEW r \in Readers, NEW i \in Ids, Register(r, i) PROVE FleetInv'
<1> USE DEF FleetInv, clock
<1>1. /\ made' = made + 1 /\ made \in Nat /\ made + 1 \in Agents
      /\ now \in Nat /\ pruned \in Nat /\ pruned <= now /\ Limit \in Nat
      /\ UNCHANGED <<now, due, pruned, view>>
  BY Shapes, FleetAssumption DEF Register, Agents
<1>2. /\ heap' \in [Agents -> Agent]
      /\ heap'[made + 1].status = "active" /\ heap'[made + 1].seen = now
      /\ \A a \in 1 .. made : heap'[a] = heap[a]
  <2>1. [status |-> "active", seen |-> now, commands |-> 0] \in Agent
    BY FleetAssumption DEF TypeOK, Agent
  <2> QED BY <1>1, <2>1 DEF TypeOK, Register, Agents
<1>3. /\ agents' \in [Ids -> 0 .. made'] /\ agents'[i] = made + 1
      /\ \A j \in Ids : j # i => agents'[j] = agents[j] /\ agents[j] \in 0 .. made
  BY <1>1 DEF TypeOK, Register
<1>4. TypeOK'
  <2>1. made' \in 0 .. MaxRegistrations
    BY <1>1 DEF Agents
  <2>2. todo' \in [Readers -> SUBSET (1 .. made')]
    BY <1>1 DEF TypeOK, Register
  <2> QED BY <1>1, <1>2, <1>3, <2>1, <2>2 DEF TypeOK
<1>5. OfflineIfSilent'
  BY <1>1, <1>2, <1>3 DEF OfflineIfSilent
<1>6. OfflineLong'
  BY <1>1, <1>2 DEF OfflineLong
<1>7. CauseRemains'
  BY <1>1, <1>2 DEF CauseRemains
<1>8. OfflineIsShownWithCause'
  BY <1>1 DEF OfflineIsShownWithCause
<1> QED BY <1>4, <1>5, <1>6, <1>7, <1>8

LEMMA HeartbeatKeeps ==
  ASSUME FleetInv, NEW i \in Ids, Heartbeat(i) PROVE FleetInv'
<1> USE DEF FleetInv, clock, answers
<1>1. /\ agents[i] \in 1 .. made /\ agents[i] \in Agents
      /\ now \in Nat /\ pruned \in Nat /\ pruned <= now /\ Limit \in Nat
      /\ UNCHANGED <<agents, made, now, due, pruned, todo, view>>
  BY Shapes DEF Heartbeat
<1>2. /\ heap' \in [Agents -> Agent]
      /\ heap'[agents[i]].status = "active" /\ heap'[agents[i]].seen = now
      /\ \A a \in Agents : a # agents[i] => heap'[a] = heap[a]
  BY <1>1, FleetAssumption DEF TypeOK, Heartbeat, Agent
<1>3. \A a \in 1 .. made : a \in Agents
  BY Shapes
<1>4. TypeOK'
  BY <1>1, <1>2 DEF TypeOK
<1>5. OfflineIfSilent'
  <2> SUFFICES ASSUME NEW j \in Ids, agents[j] # 0
               PROVE  heap'[agents[j]].status = "offline" <=> heap'[agents[j]].seen + Limit < pruned
    BY <1>1 DEF OfflineIfSilent
  <2>1. CASE agents[j] = agents[i]
    BY <1>1, <1>2, <2>1
  <2>2. CASE agents[j] # agents[i]
    <3>1. agents[j] \in Agents
      BY <1>3, Shapes
    <3> QED BY <1>2, <2>2, <3>1 DEF OfflineIfSilent
  <2> QED BY <2>1, <2>2
<1>6. OfflineLong'
  BY <1>1, <1>2, <1>3 DEF OfflineLong
<1>7. CauseRemains'
  BY <1>1, <1>2, <1>3 DEF CauseRemains
<1>8. OfflineIsShownWithCause'
  BY <1>1 DEF OfflineIsShownWithCause
<1> QED BY <1>4, <1>5, <1>6, <1>7, <1>8

LEMMA CommandKeeps ==
  ASSUME FleetInv, NEW i \in Ids, SendCommand(i) PROVE FleetInv'
<1> USE DEF FleetInv, clock, answers
<1>1. /\ agents[i] \in Agents /\ heap[agents[i]].commands + 1 \in 0 .. MaxCommands
      /\ UNCHANGED <<agents, made, now, due, pruned, todo, view>>
  BY Shapes, FleetAssumption DEF SendCommand, Agent
<1>2. /\ heap' \in [Agents -> Agent]
      /\ \A a \in Agents : heap'[a].status = heap[a].status /\ heap'[a].seen = heap[a].seen
  BY <1>1 DEF TypeOK, SendCommand, Agent
<1>3. /\ \A a \in 1 .. made : a \in Agents
      /\ \A j \in Ids : agents[j] # 0 => agents[j] \in Agents
  BY Shapes
<1>4. TypeOK'
  BY <1>1, <1>2 DEF TypeOK
<1>5. (OfflineIfSilent /\ OfflineLong)'
  BY <1>1, <1>2, <1>3 DEF OfflineIfSilent, OfflineLong
<1>6. (CauseRemains /\ OfflineIsShownWithCause)'
  BY <1>1, <1>2, <1>3 DEF CauseRemains, OfflineIsShownWithCause
<1> QED BY <1>4, <1>5, <1>6

(* The answers that are encoded without the lock. *)
LEMMA AnswerKeeps ==
  ASSUME FleetInv, NEW r \in Readers,
         List(r) \/ EncodeStatus(r) \/ EncodeSeen(r) \/ Answered(r)
  PROVE  FleetInv'
<1> USE DEF FleetInv, registry, clock
<1>1. UNCHANGED <<agents, heap, made, now, due, pruned>>
  BY DEF List, EncodeStatus, EncodeSeen, Answered
<1>2. (OfflineIfSilent /\ OfflineLong)'
  BY <1>1 DEF OfflineIfSilent, OfflineLong
<1>3. ASSUME todo' \in [Readers -> SUBSET (1 .. made)], view' \in [Readers -> View] PROVE TypeOK'
  BY <1>1, <1>3 DEF TypeOK
<1>4. CASE List(r)
  <2>1. UNCHANGED view /\ todo' \in [Readers -> SUBSET (1 .. made)]
    BY <1>4, Shapes DEF List, TypeOK, Registered
  <2>2. (CauseRemains /\ OfflineIsShownWithCause)'
    BY <1>1, <2>1 DEF CauseRemains, OfflineIsShownWithCause
  <2> QED BY <1>2, <1>3, <2>1, <2>2 DEF TypeOK
<1>5. CASE EncodeStatus(r)
  <2>1. PICK a \in todo[r] :
            /\ todo' = [todo EXCEPT ![r] = @ \ {a}]
            /\ view' = [view EXCEPT ![r] = [at |-> "status", agent |-> a, status |-> heap[a].status,
                                            seen |-> 0, from |-> now]]
    BY <1>5 DEF EncodeStatus
  <2>2. a \in 1 .. made /\ a \in Agents
    BY Shapes DEF TypeOK
  <2>3. [at |-> "status", agent |-> a, status |-> heap[a].status, seen |-> 0, from |-> now] \in View
    BY <2>2, FleetAssumption DEF TypeOK, Agents, Agent, View
  <2>4. todo' \in [Readers -> SUBSET (1 .. made)] /\ view' \in [Readers -> View]
    BY <2>1, <2>3 DEF TypeOK
  <2>5. \A q \in Readers : q # r => view'[q] = view[q]
    BY <2>1 DEF TypeOK
  <2>6. /\ view'[r].at = "status" /\ view'[r].agent = a /\ view'[r].status = heap[a].status
        /\ view'[r].from = now
    BY <2>1 DEF TypeOK
  <2>7. now \in Nat
    BY Shapes
  <2>8. CauseRemains'
    BY <1>1, <2>2, <2>5, <2>6, <2>7 DEF CauseRemains, OfflineLong
  <2>9. OfflineIsShownWithCause'
    BY <1>1, <2>5, <2>6 DEF OfflineIsShownWithCause
  <2> QED BY <1>2, <1>3, <2>4, <2>8, <2>9
<1>6. CASE EncodeSeen(r)
  <2>1. view[r].agent \in 1 .. made /\ view[r].agent \in Agents
    BY <1>6, Shapes DEF EncodeSeen, CauseRemains
  <2>2. view'[r] = [view[r] EXCEPT !.at = "shown", !.seen = heap[view[r].agent].seen]
    BY <1>6 DEF EncodeSeen, TypeOK
  <2>3. \A q \in Readers : q # r => view'[q] = view[q]
    BY <1>6 DEF EncodeSeen, TypeOK
  <2>4. view'[r] \in View
    <3>1. heap[view[r].agent].seen \in 0 .. MaxTime
      BY <2>1 DEF TypeOK, Agent
    <3>2. view[r] \in View
      BY Shapes
    <3> QED BY <2>2, <3>1, <3>2 DEF View
  <2>5. todo' \in [Readers -> SUBSET (1 .. made)] /\ view' \in [Readers -> View]
    BY <1>6, <2>4 DEF EncodeSeen, TypeOK
  <2>6. /\ view'[r].at = "shown" /\ view'[r].status = view[r].status
        /\ view'[r].from = view[r].from /\ view'[r].seen = heap[view[r].agent].seen
    BY <2>2, Shapes DEF View
  <2>7. CauseRemains'
    BY <1>1, <2>3, <2>6 DEF CauseRemains
  <2>8. OfflineIsShownWithCause'
    BY <1>1, <1>6, <2>3, <2>6 DEF EncodeSeen, CauseRemains, OfflineIsShownWithCause
  <2> QED BY <1>2, <1>3, <2>5, <2>7, <2>8
<1>7. CASE Answered(r)
  <2>1. UNCHANGED todo /\ view' = [view EXCEPT ![r] = Nothing]
    BY <1>7 DEF Answered
  <2>2. todo' \in [Readers -> SUBSET (1 .. made)] /\ view' \in [Readers -> View]
    BY <2>1, NothingIsView DEF TypeOK
  <2>3. view'[r] = Nothing /\ \A q \in Readers : q # r => view'[q] = view[q]
    BY <2>1 DEF TypeOK
  <2>4. now \in Nat
    BY Shapes
  <2>5. (CauseRemains /\ OfflineIsShownWithCause)'
    BY <1>1, <2>3, <2>4 DEF Nothing, CauseRemains, OfflineIsShownWithCause
  <2> QED BY <1>2, <1>3, <2>2, <2>5
<1> QED BY <1>4, <1>5, <1>6, <1>7

LEMMA StutterKeeps == FleetInv /\ UNCHANGED vars => FleetInv'
BY DEF FleetInv, TypeOK, vars, OfflineIfSilent, OfflineLong, CauseRemains,
       OfflineIsShownWithCause

LEMMA FleetInvariance == Spec => []FleetInv
<1>1. FleetInv /\ [Next]_vars => FleetInv'
  BY TickKeeps, PrunerKeeps, RegisterKeeps, HeartbeatKeeps, CommandKeeps, AnswerKeeps, StutterKeeps
     DEF Next, ServeHTTP
<1> QED BY FleetInitially, <1>1, PTL DEF Spec

(* The registry and what requests have read of it keep their shape: no       *)
(* request is left with a pointer that no registration made.                 *)
THEOREM TypeCorrect == Spec => []TypeOK
BY FleetInvariance, PTL DEF FleetInv

(* An agent is offline exactly if it was silent for too long when the pruner *)
(* last ran, whatever heartbeats and registrations race with it.             *)
THEOREM OfflineExactly == Spec => []OfflineIfSilent
BY FleetInvariance, PTL DEF FleetInv

(* An answer that shows an agent offline shows why, or a heartbeat came      *)
(* between its two reads.                                                    *)
THEOREM OfflineShown == Spec => []OfflineIsShownWithCause
BY FleetInvariance, PTL DEF FleetInv

-----------------------------------------------------------------------------
(* The WebSocket hub. *)

(* Broadcasts that are on their walk of the map.                             *)
Walking == {"next", "writing", "deleting"}

WsTypes ==
    /\ listed \subseteq Sockets
    /\ handler \in [Sockets -> {"new", "upgraded", "entering", "reading", "leaving",
                               "removing", "gone"}]
    /\ sock \in [Sockets -> {"open", "stuck", "broken", "closed"}]
    /\ writer \in Sockets \cup {None}
    /\ walk \in [Broadcasts -> {"new", "waiting", "start", "next", "writing", "deleting", "done"}]
    /\ visits \in [Broadcasts -> SUBSET Sockets]
    /\ cur \in [Broadcasts -> Sockets \cup {None}]

(* Whoever changes the map has announced itself and found no reader.         *)
WriterAlone ==
    \A c \in Sockets : handler[c] \in {"entering", "removing"} => writer = c /\ Ws!Reading = {}

(* A broadcast that deletes a connection has closed it.                      *)
DeletedIsClosed ==
    \A b \in Broadcasts :
        /\ walk[b] \in {"writing", "deleting"} => cur[b] \in Sockets
        /\ walk[b] = "deleting" => sock[cur[b]] = "closed"

(* Two broadcasts on their walks at once have been seen to be.               *)
TwoOverlap ==
    \A b, d \in Broadcasts : b # d /\ walk[b] \in Walking /\ walk[d] \in Walking => overlapped

WsInv ==
    /\ WsTypes /\ WriterAlone /\ DeletedIsClosed /\ TwoOverlap
    /\ CrashNeedsTwoBroadcasts /\ ListedWhileServed

LEMMA WsInitially == Ws!Init => WsInv
BY DEF Ws!Init, WsInv, WsTypes, WriterAlone, DeletedIsClosed, TwoOverlap, Walking, Ws!Reading,
       CrashNeedsTwoBroadcasts, Ws!CrashNeedsTwoBroadcasts, ListedWhileServed, Ws!ListedWhileServed

(* Handlers and peers.  A handler changes the map while nobody walks it, so  *)
(* that its accesses collide with none.                                      *)
LEMMA HandlerKeeps ==
  ASSUME WsInv, NEW c \in Sockets, Ws!Serve(c) \/ Ws!Peer(c)
  PROVE  WsInv'
<1> USE SharedAssumption
    DEF WsInv, WsTypes, Ws!Handle, Ws!Serve, Ws!Peer, Ws!Upgrade, Ws!Announce, Ws!BeginEnter,
        Ws!EndEnter, Ws!ReadFails, Ws!BeginRemove, Ws!EndRemove, Ws!Unlock
<1>1. WsTypes'
  OBVIOUS
<1>2. WriterAlone'
  BY DEF WriterAlone, Ws!Reading, Ws!Lock
<1>3. DeletedIsClosed'
  BY DEF DeletedIsClosed
<1>4. TwoOverlap'
  BY DEF TwoOverlap, Walking
<1>5. CrashNeedsTwoBroadcasts'
  BY DEF CrashNeedsTwoBroadcasts, Ws!CrashNeedsTwoBroadcasts, Ws!Lock, Ws!Touch, Ws!Reading,
         Ws!Deleting
<1>6. ListedWhileServed'
  BY DEF ListedWhileServed, Ws!ListedWhileServed
<1> QED BY <1>1, <1>2, <1>3, <1>4, <1>5, <1>6

(* Broadcasts.  What a write or a deletion collides with is another walk.    *)
LEMMA BroadcastKeeps ==
  ASSUME WsInv, NEW b \in Broadcasts, Ws!RLock(b) \/ Ws!Walk(b)
  PROVE  WsInv'
<1> USE SharedAssumption DEF Ws!Step, WsInv, WsTypes
<1>1. CASE Ws!RLock(b) \/ Ws!Begin(b)
  <2> USE DEF Ws!RLock, Ws!Begin
  <2>1. WsTypes'
    BY <1>1
  <2>2. WriterAlone' /\ DeletedIsClosed'
    BY <1>1 DEF WriterAlone, Ws!Reading, DeletedIsClosed
  <2>3. TwoOverlap'
    <3>1. CASE Ws!RLock(b)
      BY <3>1 DEF TwoOverlap, Walking
    <3>2. CASE Ws!Begin(b)
      <4>1. overlapped => overlapped'
        BY <3>2, Zenon
      <4>2. ASSUME NEW d \in Broadcasts, d # b, walk[d] \in Walking PROVE overlapped'
        <5>1. d \in Ws!Reading \ {b} /\ walk[d] # "start"
          BY <4>2 DEF Ws!Reading, Walking
        <5> QED BY <3>2, <5>1, Zenon
      <4>3. \A d \in Broadcasts : d # b => walk'[d] = walk[d]
        BY <3>2
      <4> QED BY <4>1, <4>2, <4>3 DEF TwoOverlap
    <3> QED BY <1>1, <3>1, <3>2
  <2>4. CrashNeedsTwoBroadcasts' /\ ListedWhileServed'
    BY <1>1 DEF CrashNeedsTwoBroadcasts, Ws!CrashNeedsTwoBroadcasts, ListedWhileServed,
           Ws!ListedWhileServed
  <2> QED BY <2>1, <2>2, <2>3, <2>4
<1>2. ASSUME NEW c \in Sockets, Ws!Write(b, c) PROVE WsInv'
  <2> USE DEF Ws!Write
  <2>1. WsTypes'
    BY <1>2
  <2>2. WriterAlone' /\ DeletedIsClosed'
    BY <1>2 DEF WriterAlone, Ws!Reading, DeletedIsClosed
  <2>3. TwoOverlap'
    BY <1>2 DEF TwoOverlap, Walking
  <2>4. CrashNeedsTwoBroadcasts'
    BY <1>2 DEF CrashNeedsTwoBroadcasts, Ws!CrashNeedsTwoBroadcasts, Ws!Touch, Ws!Deleting,
           Ws!Changing, WriterAlone, Ws!Reading, TwoOverlap, Walking
  <2>5. ListedWhileServed'
    BY <1>2 DEF ListedWhileServed, Ws!ListedWhileServed
  <2> QED BY <2>1, <2>2, <2>3, <2>4, <2>5
<1>3. CASE Ws!WriteFails(b)
  <2> USE DEF Ws!WriteFails
  <2>1. WsTypes'
    BY <1>3
  <2>2. WriterAlone' /\ DeletedIsClosed'
    BY <1>3 DEF WriterAlone, Ws!Reading, DeletedIsClosed
  <2>3. TwoOverlap'
    BY <1>3 DEF TwoOverlap, Walking
  <2>4. CrashNeedsTwoBroadcasts'
    BY <1>3 DEF CrashNeedsTwoBroadcasts, Ws!CrashNeedsTwoBroadcasts, Ws!Touch, Ws!Deleting,
           Ws!Changing, WriterAlone, Ws!Reading, TwoOverlap, Walking
  <2>5. ListedWhileServed'
    BY <1>3 DEF ListedWhileServed, Ws!ListedWhileServed
  <2> QED BY <2>1, <2>2, <2>3, <2>4, <2>5
<1>4. CASE Ws!Written(b) \/ Ws!Deleted(b) \/ Ws!End(b)
  <2> USE DEF Ws!Written, Ws!Deleted, Ws!End
  <2>1. WsTypes'
    BY <1>4
  <2>2. WriterAlone' /\ DeletedIsClosed'
    BY <1>4 DEF WriterAlone, Ws!Reading, DeletedIsClosed
  <2>3. TwoOverlap'
    BY <1>4 DEF TwoOverlap, Walking
  <2>4. CrashNeedsTwoBroadcasts'
    BY <1>4 DEF CrashNeedsTwoBroadcasts, Ws!CrashNeedsTwoBroadcasts
  <2>5. ListedWhileServed'
    BY <1>4 DEF ListedWhileServed, Ws!ListedWhileServed, DeletedIsClosed
  <2> QED BY <2>1, <2>2, <2>3, <2>4, <2>5
<1> QED BY <1>1, <1>2, <1>3, <1>4 DEF Ws!Walk

LEMMA WsInductive == WsInv /\ [Ws!Next]_(Ws!vars) => WsInv'
<1> SUFFICES ASSUME WsInv, [Ws!Next]_(Ws!vars) PROVE WsInv'
  OBVIOUS
<1>1. CASE UNCHANGED Ws!vars
  BY <1>1 DEF Ws!vars, WsInv, WsTypes, WriterAlone, DeletedIsClosed, TwoOverlap, Walking,
         Ws!Reading,
       CrashNeedsTwoBroadcasts, Ws!CrashNeedsTwoBroadcasts, ListedWhileServed, Ws!ListedWhileServed
<1>2. CASE Ws!Next
  BY <1>2, HandlerKeeps, BroadcastKeeps DEF Ws!Next
<1> QED BY <1>1, <1>2

LEMMA WsInvariance == Ws!Spec => []WsInv
BY WsInitially, WsInductive, PTL DEF Ws!Spec

(* The process dies of its own map only after two broadcasts have been       *)
(* under way at once, for any number of connections and broadcasts.          *)
THEOREM CrashCharacterised == Ws!Spec => []CrashNeedsTwoBroadcasts
BY WsInvariance, PTL DEF WsInv

(* A connection in the map has a handler that will take it out, and one that *)
(* a broadcast has taken out is closed.                                      *)
THEOREM ConnectionsServed == Ws!Spec => []ListedWhileServed
BY WsInvariance, PTL DEF WsInv

-----------------------------------------------------------------------------
(* The configuration. *)

Values == Upstreams \cup Cfg!Postures \cup {None, "http://localhost:3000"}
Bodies == [upstream : Values, posture : Values]

CfgTypes ==
    /\ cfg \in [upstream : [Cfg!Words -> Values], posture : [Cfg!Words -> Values]]
    /\ call \in [Calls -> {"new", "upstream", "posture", "answer", "done"}]
    /\ body \in [Calls -> Bodies]
    /\ words \in [Calls -> SUBSET Cfg!Words]
    /\ \A c \in Calls : words[c] # {} => call[c] \in Cfg!Fields
    /\ reader \in [Readers -> {"new", "loading", "shown", "lost"}]
    /\ shown \in [Readers -> [Cfg!Words -> Values]]

(* A field that changes have never overlapped on is whole or has one change  *)
(* under way, which has stored the words it is past.                         *)
StoringAlone ==
    \A f \in Cfg!Fields : f \notin mixed =>
        /\ \A c, d \in Calls : call[c] = f /\ call[d] = f => c = d
        /\ (\A c \in Calls : call[c] # f) => cfg[f].text = cfg[f].length
        /\ \A c \in Calls : call[c] = f => \A w \in Cfg!Words \ words[c] : cfg[f][w] = body[c][f]

(* A reader that has met no change has loaded words that are still there.    *)
ReadingAlone ==
    \A r \in Readers :
        /\ reader[r] = "new" => shown[r].text = None /\ shown[r].length = None
        /\ reader[r] = "loading" /\ r \notin raced =>
               /\ \A c \in Calls : call[c] # "posture"
               /\ "posture" \notin mixed
               /\ \A w \in Cfg!Words : shown[r][w] \in {None, cfg.posture[w]}
        /\ reader[r] = "shown" /\ shown[r].text # shown[r].length => r \in raced

CfgInv == CfgTypes /\ StoringAlone /\ ReadingAlone

LEMMA CfgInitially == Cfg!Init => CfgInv
BY DEF Cfg!Init, Cfg!InitialConfig, Cfg!Whole, Cfg!NoBody, Cfg!Words, Cfg!Fields,
       Cfg!Postures, Cfg!Valid,
       CfgInv, CfgTypes, Values, Bodies, StoringAlone, ReadingAlone

(* A change that goes on to field f of its body, or to its answer.           *)
LEMMA StoreFieldKeeps ==
  ASSUME CfgInv, NEW c \in Calls, NEW b \in Bodies, NEW f \in {"upstream", "posture", "answer"},
         words[c] = {}, call[c] \in {"new", "upstream"}, f # call[c],
         call[c] = "upstream" => b = body[c],
         Cfg!StoreField(c, b, f), UNCHANGED <<cfg, reader, shown, restarts>>
  PROVE  CfgInv'
<1> USE DEF CfgInv, Cfg!StoreField
<1>1. CfgTypes'
  BY DEF CfgTypes, Cfg!Fields
<1>2. StoringAlone'
  <2> SUFFICES ASSUME NEW g \in Cfg!Fields, g \notin mixed'
               PROVE  /\ \A d, e \in Calls : call'[d] = g /\ call'[e] = g => d = e
                      /\ (\A d \in Calls : call'[d] # g) => cfg[g].text = cfg[g].length
                      /\ \A d \in Calls : call'[d] = g =>
                             \A w \in Cfg!Words \ words'[d] : cfg[g][w] = body'[d][g]
    BY DEF StoringAlone
  <2>1. g \notin mixed
    OBVIOUS
  <2>2. \A d \in Calls : d # c => call'[d] = call[d] /\ words'[d] = words[d] /\ body'[d] = body[d]
    BY DEF CfgTypes
  <2>3. call'[c] = f /\ body'[c] = b /\ (f # "answer" => words'[c] = Cfg!Words)
    BY DEF CfgTypes
  <2>4. CASE g = f
    <3>1. \A d \in Calls : d # c => call[d] # g
      BY <2>4 DEF Cfg!Writing
    <3> QED BY <2>2, <2>3, <2>4, <3>1 DEF Cfg!Fields
  <2>5. CASE g # f
    <3>1. call[c] = g => cfg[g].text = cfg[g].length
      BY <2>1 DEF StoringAlone, Cfg!Words
    <3> QED BY <2>1, <2>2, <2>3, <2>5, <3>1 DEF StoringAlone
  <2> QED BY <2>4, <2>5
<1>3. ReadingAlone'
  BY DEF ReadingAlone, CfgTypes, Cfg!Fields, Cfg!Writing
<1> QED BY <1>1, <1>2, <1>3

LEMMA ChangeKeeps ==
  ASSUME CfgInv, NEW c \in Calls,
         Cfg!updateConfig(c) \/ Cfg!setPosture(c) \/ Cfg!setMitigationPosture(c) \/ Cfg!NextField(c)
  PROVE  CfgInv'
<1> USE DEF CfgInv
<1>1. call[c] = "new" => words[c] = {}
  BY DEF CfgTypes, Cfg!Fields
<1>2. CASE Cfg!updateConfig(c)
  <2>1. PICK u \in Upstreams \cup {None}, p \in Cfg!Postures \cup {None} :
            Cfg!StoreField(c, [upstream |-> u, posture |-> p],
                           IF u # None THEN "upstream" ELSE IF p # None THEN "posture" ELSE "answer")
    BY <1>2 DEF Cfg!updateConfig
  <2>2. [upstream |-> u, posture |-> p] \in Bodies
    BY DEF Bodies, Values
  <2> QED BY <1>1, <1>2, <2>1, <2>2, StoreFieldKeeps DEF Cfg!updateConfig
<1>3. CASE Cfg!setPosture(c) \/ Cfg!setMitigationPosture(c)
  <2>1. PICK p \in Cfg!Postures : Cfg!StoreField(c, [Cfg!NoBody EXCEPT !.posture = p], "posture")
    BY <1>3 DEF Cfg!setPosture, Cfg!setMitigationPosture, Cfg!Postures
  <2>2. [Cfg!NoBody EXCEPT !.posture = p] \in Bodies
    BY DEF Bodies, Values, Cfg!NoBody
  <2> QED BY <1>1, <1>3, <2>1, <2>2, StoreFieldKeeps DEF Cfg!setPosture, Cfg!setMitigationPosture
<1>4. CASE Cfg!NextField(c)
  BY <1>4, StoreFieldKeeps DEF Cfg!NextField, CfgTypes
<1> QED BY <1>2, <1>3, <1>4

LEMMA StoreWordKeeps ==
  ASSUME CfgInv, NEW c \in Calls, NEW w \in Cfg!Words, Cfg!StoreWord(c, w)
  PROVE  CfgInv'
<1> USE DEF CfgInv, Cfg!StoreWord
<1>1. PICK f \in Cfg!Fields : call[c] = f /\ cfg' = [cfg EXCEPT ![f][w] = body[c][f]]
  BY DEF CfgTypes, Cfg!Fields
<1>2. /\ \A g \in Cfg!Fields, v \in Cfg!Words :
             cfg'[g][v] = IF g = f /\ v = w THEN body[c][f] ELSE cfg[g][v]
      /\ cfg' \in [upstream : [Cfg!Words -> Values], posture : [Cfg!Words -> Values]]
  <2>1. body[c][f] \in Values
    BY <1>1 DEF CfgTypes, Bodies, Cfg!Fields
  <2>2. CASE f = "upstream"
    <3>1. cfg' = [cfg EXCEPT !.upstream = [cfg.upstream EXCEPT ![w] = body[c][f]]]
      BY <1>1, <2>2
    <3>2. [cfg.upstream EXCEPT ![w] = body[c][f]] \in [Cfg!Words -> Values]
      BY <2>1 DEF CfgTypes
    <3>3. /\ cfg'.upstream = [cfg.upstream EXCEPT ![w] = body[c][f]] /\ cfg'.posture = cfg.posture
          /\ cfg' \in [upstream : [Cfg!Words -> Values], posture : [Cfg!Words -> Values]]
      BY <3>1, <3>2 DEF CfgTypes
    <3>4. \A v \in Cfg!Words : cfg'.upstream[v] = IF v = w THEN body[c][f] ELSE cfg.upstream[v]
      BY <3>3 DEF CfgTypes
    <3> QED BY <2>2, <3>3, <3>4 DEF Cfg!Fields
  <2>3. CASE f = "posture"
    <3>1. cfg' = [cfg EXCEPT !.posture = [cfg.posture EXCEPT ![w] = body[c][f]]]
      BY <1>1, <2>3
    <3>2. [cfg.posture EXCEPT ![w] = body[c][f]] \in [Cfg!Words -> Values]
      BY <2>1 DEF CfgTypes
    <3> QED BY <2>3, <3>1, <3>2 DEF CfgTypes, Cfg!Fields
  <2> QED BY <2>2, <2>3 DEF Cfg!Fields
<1>3. /\ words' \in [Calls -> SUBSET Cfg!Words]
      /\ \A d \in Calls : words'[d] = IF d = c THEN words[c] \ {w} ELSE words[d]
  BY DEF CfgTypes
<1>4. CfgTypes'
  BY <1>2, <1>3 DEF CfgTypes
<1>5. StoringAlone'
  BY <1>1, <1>2, <1>3 DEF StoringAlone, Cfg!Words
<1>6. ReadingAlone'
  BY <1>1, <1>2 DEF ReadingAlone, Cfg!Fields
<1> QED BY <1>4, <1>5, <1>6

LEMMA PutKeeps ==
  ASSUME CfgInv, NEW c \in Calls, Cfg!Answer(c)
  PROVE  CfgInv'
<1> USE DEF CfgInv, Cfg!Answer
<1>1. CfgTypes'
  BY DEF CfgTypes
<1>2. StoringAlone'
  BY DEF CfgTypes, StoringAlone, Cfg!Words, Cfg!Fields
<1>3. ReadingAlone'
  BY DEF CfgTypes, ReadingAlone
<1> QED BY <1>1, <1>2, <1>3

LEMMA ReaderKeeps ==
  ASSUME CfgInv, NEW r \in Readers, Cfg!getPosture(r) \/ \E w \in Cfg!Words : Cfg!LoadWord(r, w)
  PROVE  CfgInv'
<1> USE DEF CfgInv, Cfg!storing
<1>1. CASE Cfg!getPosture(r)
  <2> USE DEF Cfg!getPosture
  <2>1. CfgTypes' /\ StoringAlone'
    BY <1>1 DEF CfgTypes, StoringAlone
  <2>2. ReadingAlone'
    BY <1>1 DEF CfgTypes, ReadingAlone, Cfg!Words, Cfg!Writing
  <2> QED BY <2>1, <2>2
<1>2. ASSUME NEW w \in Cfg!Words, Cfg!LoadWord(r, w) PROVE CfgInv'
  <2> USE DEF Cfg!LoadWord
  <2>1. CfgTypes' /\ StoringAlone'
    BY <1>2 DEF CfgTypes, StoringAlone
  <2>2. cfg.posture.text = cfg.posture.length \/ reader[r] # "loading" \/ r \in raced
    BY <1>2 DEF StoringAlone, ReadingAlone, Cfg!Fields
  <2>3. ReadingAlone'
    BY <1>2, <2>2 DEF CfgTypes, ReadingAlone, Cfg!Words
  <2> QED BY <2>1, <2>3
<1> QED BY <1>1, <1>2

LEMMA RestartKeeps ==
  ASSUME CfgInv, Cfg!Restart
  PROVE  CfgInv'
<1> USE DEF CfgInv, Cfg!Restart
<1>1. CfgTypes'
  BY DEF CfgTypes, Cfg!InitialConfig, Cfg!Whole, Values, Cfg!Postures, Cfg!Valid
<1>2. StoringAlone'
  BY DEF CfgTypes, StoringAlone, Cfg!InitialConfig, Cfg!Whole, Cfg!Words, Cfg!Fields
<1>3. ReadingAlone'
  BY DEF CfgTypes, ReadingAlone
<1> QED BY <1>1, <1>2, <1>3

LEMMA CfgInductive == CfgInv /\ [Cfg!Next]_(Cfg!vars) => CfgInv'
<1> SUFFICES ASSUME CfgInv, [Cfg!Next]_(Cfg!vars) PROVE CfgInv'
  OBVIOUS
<1>1. CASE UNCHANGED Cfg!vars
  BY <1>1 DEF Cfg!vars, CfgInv, CfgTypes, StoringAlone, ReadingAlone
<1>2. CASE Cfg!Next
  BY <1>2, ChangeKeeps, StoreWordKeeps, PutKeeps, ReaderKeeps, RestartKeeps DEF Cfg!Next
<1> QED BY <1>1, <1>2

LEMMA CfgInvariance == Cfg!Spec => []CfgInv
BY CfgInitially, CfgInductive, PTL DEF Cfg!Spec

(* A field is torn only while it is stored or after two changes overlapped on*)
(* it, and shown torn only to a reader that met one of the two.              *)
THEOREM TearingCharacterised == Cfg!Spec => []StringsTearOnlyByOverlap
<1>1. CfgInv => StringsTearOnlyByOverlap
  BY DEF CfgInv, StoringAlone, ReadingAlone, StringsTearOnlyByOverlap,
         Cfg!StringsTearOnlyByOverlap, Cfg!Writing
<1> QED BY <1>1, CfgInvariance, PTL

-----------------------------------------------------------------------------
(* The server-sent events. *)

SseTypes ==
    /\ clients \in [Sse!Names -> Conns \cup {None}]
    /\ conn \in [Conns -> {"new", "named", "open", "gone"}]
    /\ id \in [Conns -> Sse!Names]
    /\ ch \in [Conns -> Seq(Events)]
    /\ event \in [Events -> {"new", "sending", "done"}]
    /\ pending \in [Events -> SUBSET Conns]
    /\ got \in [Conns -> SUBSET Events]
    /\ owed \in [Conns -> SUBSET Events]
    /\ dropped \in [Conns -> SUBSET Events]
    /\ rivals \subseteq Conns

(* Open clients that have one name are rivals, and one that is not is in the *)
(* map under its name.                                                       *)
NamesKept ==
    \A c \in Conns : conn[c] = "open" /\ c \notin rivals =>
        /\ clients[id[c]] = c
        /\ \A d \in Conns : conn[d] = "open" /\ id[d] = id[c] => d = c

Heard(c, e) == e \in got[c] \/ e \in Range(ch[c]) \/ e \in dropped[c]

(* An event is owed from the start of its broadcast, and the client is among *)
(* those it has yet to be sent to until it has heard it.                     *)
OwedIsUnderWay ==
    /\ \A c \in Conns : conn[c] \in {"new", "named"} => owed[c] = {}
    /\ \A c \in Conns : conn[c] = "open" /\ c \notin rivals =>
           \A e \in owed[c] : event[e] # "new" /\ (c \in pending[e] \/ Heard(c, e))
    /\ \A e \in Events : event[e] = "done" => pending[e] = {}

SseInv == SseTypes /\ NamesKept /\ OwedIsUnderWay

(* What Head and Tail leave of a channel, and what Append adds.              *)
LEMMA TailRange ==
  ASSUME NEW S, NEW s \in Seq(S), s # <<>>, NEW x \in Range(s)
  PROVE  x = Head(s) \/ x \in Range(Tail(s))
<1>1. PICK i \in 1 .. Len(s) : x = s[i]
  BY DEF Range
<1>2. CASE i = 1
  BY <1>1, <1>2
<1>3. CASE i # 1
  <2>1. i - 1 \in 1 .. Len(Tail(s)) /\ Tail(s)[i - 1] = s[i]
    BY <1>3
  <2>2. DOMAIN Tail(s) = 1 .. Len(Tail(s))
    BY <1>3
  <2> QED BY <1>1, <2>1, <2>2 DEF Range
<1> QED BY <1>2, <1>3

LEMMA AppendRange ==
  ASSUME NEW S, NEW s \in Seq(S), NEW e \in S
  PROVE  Range(Append(s, e)) = Range(s) \cup {e}
<1>1. /\ DOMAIN Append(s, e) = 1 .. Len(s) + 1 /\ DOMAIN s = 1 .. Len(s) /\ Len(s) \in Nat
      /\ \A i \in 1 .. Len(s) : Append(s, e)[i] = s[i]
      /\ Append(s, e)[Len(s) + 1] = e
  OBVIOUS
<1> QED BY <1>1 DEF Range

(* What SseHub takes from the modules it extends is what they define.        *)
LEMMA SameOperators ==
  /\ \A S : Sse!Cardinality(S) = Cardinality(S)
  /\ \A f : Sse!Range(f) = Range(f)
<1>1. \A S : Sse!Cardinality(S) = Cardinality(S)
  BY DEF Sse!Cardinality, Cardinality
<1>2. \A f : Sse!Range(f) = Range(f)
  BY DEF Sse!Range, Range
<1> QED BY <1>1, <1>2

(* A number of clients is a name.                                            *)
LEMMA NamesAreNumbers ==
  /\ 0 \in Sse!Names
  /\ \A S \in SUBSET Conns : Cardinality(S) \in Sse!Names
<1>1. Cardinality(Conns) \in Nat
  BY SharedAssumption, FS_CardinalityType
<1>2. ASSUME NEW S \in SUBSET Conns
      PROVE  Cardinality(S) \in Nat /\ Cardinality(S) <= Cardinality(Conns)
  BY SharedAssumption, FS_Subset, FS_CardinalityType
<1>3. Sse!Names = 0 .. Cardinality(Conns)
  BY SameOperators DEF Sse!Names
<1> QED BY <1>1, <1>2, <1>3

(* A client that is open and has no rival is in the map.                     *)
LEMMA ListedClients ==
  ASSUME SseInv
  PROVE  /\ Sse!Listed \subseteq Conns
         /\ \A c \in Conns : conn[c] = "open" /\ c \notin rivals => c \in Sse!Listed
<1>1. Sse!Listed = Range(clients) \ {None}
  BY SameOperators DEF Sse!Listed
<1>2. Sse!Listed \subseteq Conns
  BY <1>1 DEF SseInv, SseTypes, Range
<1>3. ASSUME NEW c \in Conns, conn[c] = "open", c \notin rivals PROVE c \in Sse!Listed
  <2>1. id[c] \in DOMAIN clients /\ clients[id[c]] = c /\ c # None
    BY <1>3, SharedAssumption DEF SseInv, SseTypes, NamesKept
  <2> QED BY <1>1, <2>1 DEF Range
<1> QED BY <1>2, <1>3

LEMMA SseInitially == Sse!Init => SseInv
BY NamesAreNumbers DEF Sse!Init, SseInv, SseTypes, NamesKept, OwedIsUnderWay

(* Clients come, receive and go.  Who leaves takes out its own name, which is*)
(* that of no other client but a rival.                                      *)
LEMMA ClientKeeps ==
  ASSUME SseInv, NEW c \in Conns, Sse!ServeHTTP(c)
  PROVE  SseInv'
<1> USE SharedAssumption DEF SseInv, Sse!history, Sse!Move
<1>1. CASE Sse!Name(c)
  <2> USE DEF Sse!Name
  <2>1. Cardinality(Sse!Listed) \in Sse!Names
    BY ListedClients, NamesAreNumbers, SameOperators
  <2>2. SseTypes'
    <3>1. id' \in [Conns -> Sse!Names]
      <4>1. id' = [id EXCEPT ![c] = Cardinality(Sse!Listed)]
        BY <1>1, SameOperators
      <4> QED BY <2>1, <4>1 DEF SseTypes
    <3>2. conn' \in [Conns -> {"new", "named", "open", "gone"}]
      BY <1>1 DEF SseTypes
    <3> QED BY <1>1, <3>1, <3>2 DEF SseTypes
  <2>3. NamesKept'
    BY <1>1 DEF SseTypes, NamesKept
  <2>4. OwedIsUnderWay'
    BY <1>1 DEF SseTypes, OwedIsUnderWay, Heard
  <2> QED BY <2>2, <2>3, <2>4
<1>2. CASE Sse!Enter(c)
  <2> USE DEF Sse!Enter
  <2>1. rivals \subseteq rivals' /\ rivals' \subseteq Conns
    BY <1>2 DEF SseTypes, Sse!Open
  <2>2. SseTypes'
    BY <1>2, <2>1 DEF SseTypes
  <2>3. NamesKept'
    BY <1>2 DEF SseTypes, NamesKept, Sse!Open
  <2>4. OwedIsUnderWay'
    BY <1>2, <2>1 DEF SseTypes, OwedIsUnderWay, Heard
  <2> QED BY <2>2, <2>3, <2>4
<1>3. CASE Sse!Receive(c)
  <2> USE DEF Sse!Receive
  <2>1. SseTypes'
    BY <1>3 DEF SseTypes
  <2>2. NamesKept'
    BY <1>3 DEF SseTypes, NamesKept
  <2>3. \A d \in Conns, e \in Events : Heard(d, e) => Heard(d, e)'
    BY <1>3, TailRange DEF SseTypes, Heard
  <2>4. OwedIsUnderWay'
    BY <1>3, <2>3 DEF SseTypes, OwedIsUnderWay
  <2> QED BY <2>1, <2>2, <2>4
<1>4. CASE Sse!Leave(c)
  <2> USE DEF Sse!Leave
  <2>1. SseTypes'
    BY <1>4 DEF SseTypes
  <2>2. NamesKept'
    BY <1>4 DEF SseTypes, NamesKept
  <2>3. OwedIsUnderWay'
    BY <1>4 DEF SseTypes, OwedIsUnderWay, Heard
  <2> QED BY <2>1, <2>2, <2>3
<1> QED BY <1>1, <1>2, <1>3, <1>4 DEF Sse!ServeHTTP

(* Broadcasts.  A walk begins with every open client that has no rival.      *)
LEMMA EventKeeps ==
  ASSUME SseInv, NEW e \in Events, Sse!Broadcast(e)
  PROVE  SseInv'
<1> USE SharedAssumption DEF SseInv, Sse!history
<1>1. CASE Sse!Begin(e)
  <2> USE DEF Sse!Begin
  <2>1. \A c \in Conns : conn[c] = "open" /\ c \notin rivals => c \in Sse!Listed
    BY ListedClients
  <2>2. Sse!Listed \subseteq Conns
    BY ListedClients
  <2>3. SseTypes'
    BY <1>1, <2>2 DEF SseTypes, Sse!Open
  <2>4. NamesKept'
    BY <1>1 DEF NamesKept
  <2>5. OwedIsUnderWay'
    BY <1>1, <2>1 DEF SseTypes, OwedIsUnderWay, Heard, Sse!Open
  <2> QED BY <2>3, <2>4, <2>5
<1>2. ASSUME NEW c \in Conns, Sse!Send(e, c) PROVE SseInv'
  <2> USE DEF Sse!Send
  <2>1. \/ dropped' = dropped /\ ch' = [ch EXCEPT ![c] = Append(ch[c], e)]
        \/ ch' = ch /\ dropped' = [dropped EXCEPT ![c] = dropped[c] \cup {e}]
    BY <1>2
  <2>2. ch[c] \in Seq(Events) /\ Append(ch[c], e) \in Seq(Events)
    BY DEF SseTypes
  <2>3. SseTypes'
    <3>1. CASE dropped' = dropped /\ ch' = [ch EXCEPT ![c] = Append(ch[c], e)]
      <4>1. ch' \in [Conns -> Seq(Events)]
        BY <2>2, <3>1 DEF SseTypes
      <4> QED BY <1>2, <3>1, <4>1 DEF SseTypes
    <3>2. CASE ch' = ch /\ dropped' = [dropped EXCEPT ![c] = dropped[c] \cup {e}]
      <4>1. dropped' \in [Conns -> SUBSET Events]
        BY <3>2 DEF SseTypes
      <4> QED BY <1>2, <3>2, <4>1 DEF SseTypes
    <3> QED BY <2>1, <3>1, <3>2
  <2>4. NamesKept'
    BY <1>2 DEF NamesKept
  <2>5. Heard(c, e)' /\ \A d \in Conns, f \in Events : Heard(d, f) => Heard(d, f)'
    <3>1. UNCHANGED got
      BY <1>2
    <3>2. CASE dropped' = dropped /\ ch' = [ch EXCEPT ![c] = Append(ch[c], e)]
      <4>1. Range(Append(ch[c], e)) = Range(ch[c]) \cup {e}
        BY <2>2, AppendRange
      <4> QED BY <3>1, <3>2, <4>1 DEF SseTypes, Heard
    <3>3. CASE ch' = ch /\ dropped' = [dropped EXCEPT ![c] = dropped[c] \cup {e}]
      BY <3>1, <3>3 DEF SseTypes, Heard
    <3> QED BY <2>1, <3>2, <3>3
  <2>6. OwedIsUnderWay'
    BY <1>2, <2>5 DEF SseTypes, OwedIsUnderWay
  <2> QED BY <2>3, <2>4, <2>6
<1>3. CASE Sse!End(e)
  BY <1>3 DEF Sse!End, SseTypes, NamesKept, OwedIsUnderWay, Heard
<1> QED BY <1>1, <1>2, <1>3 DEF Sse!Broadcast

LEMMA SseInductive == SseInv /\ [Sse!Next]_(Sse!vars) => SseInv'
<1> SUFFICES ASSUME SseInv, [Sse!Next]_(Sse!vars) PROVE SseInv'
  OBVIOUS
<1>1. CASE UNCHANGED Sse!vars
  BY <1>1 DEF Sse!vars, Sse!history, SseInv, SseTypes, NamesKept, OwedIsUnderWay, Heard
<1>2. CASE Sse!Next
  BY <1>2, ClientKeeps, EventKeeps DEF Sse!Next
<1> QED BY <1>1, <1>2

LEMMA SseInvariance == Sse!Spec => []SseInv
BY SseInitially, SseInductive, PTL DEF Sse!Spec

(* A client that was open when an event was broadcast is sent it, but for a  *)
(* full channel or a rival, for any number of clients and events.            *)
THEOREM MissingCharacterised == Sse!Spec => []OpenClientsHear
<1>1. SseInv => OpenClientsHear
  BY SameOperators DEF SseInv, SseTypes, OwedIsUnderWay, Heard, OpenClientsHear,
         Sse!OpenClientsHear, Sse!Open, Sse!Sent
<1> QED BY <1>1, SseInvariance, PTL
=============================================================================
