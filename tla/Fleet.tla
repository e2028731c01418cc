------------------------------- MODULE Fleet -------------------------------
(***************************************************************************)
(* The fleet manager of the Go API (internal/agents/handler.go): a map     *)
(* from ids to pointers under an RWMutex, and a pruner that marks silent   *)
(* agents offline.  The HTTP handler encodes what the pointers lead to     *)
(* after it has given up the lock, field by field, while heartbeats and    *)
(* the pruner write there.  Whatever runs under the lock is one step.      *)
(*                                                                         *)
(* An *Agent is the number of the registration that made it.  Name, IP and *)
(* Version decide nothing; a Command is one more on its agent's list, and  *)
(* the list a registering body brings is taken to be empty.                *)
(***************************************************************************)
EXTENDS Naturals

CONSTANTS Ids,              (* agent ids; "" draws one that is not taken      *)
          Readers,          (* HTTP requests                                  *)
          Limit,            (* 5 minutes                                      *)
          Period,           (* 1 minute, the pruner's ticker                  *)
          MaxTime,          (* bound on the clock                             *)
          MaxRegistrations, (* bound on the registrations                     *)
          MaxCommands       (* bound on the commands of an agent              *)

ASSUME FleetAssumption ==
    /\ Limit \in Nat /\ Period \in Nat \ {0}
    /\ MaxTime \in Nat /\ MaxRegistrations \in Nat /\ MaxCommands \in Nat

VARIABLES
    agents,     (* fm.agents: the agent of each id, 0 for none               *)
    heap,       (* Status, LastSeen and the number of Commands of each agent *)
    made,       (* registrations so far                                      *)
    now,        (* the clock                                                 *)
    due,        (* a tick is in the ticker's channel                         *)
    pruned,     (* history: when the pruner last ran                         *)
    todo,       (* agents a request has yet to encode                        *)
    view        (* what each request has read of the agent it is at          *)

vars == <<agents, heap, made, now, due, pruned, todo, view>>
registry == <<agents, heap, made>>
clock == <<now, due, pruned>>
answers == <<todo, view>>

Agents == 1 .. MaxRegistrations
Agent == [status : {"active", "offline"}, seen : 0 .. MaxTime, commands : 0 .. MaxCommands]
View == [at : {"idle", "status", "shown"}, agent : 0 .. MaxRegistrations,
         status : {"active", "offline"}, seen : 0 .. MaxTime, from : 0 .. MaxTime]
Registered == {agents[i] : i \in Ids} \ {0}
Nothing == [at |-> "idle", agent |-> 0, status |-> "active", seen |-> 0, from |-> 0]

Init ==
    /\ agents = [i \in Ids |-> 0]
    /\ heap = [a \in Agents |-> [status |-> "active", seen |-> 0, commands |-> 0]]
    /\ made = 0
    /\ now = 0 /\ due = FALSE /\ pruned = 0
    /\ todo = [r \in Readers |-> {}]
    /\ view = [r \in Readers |-> Nothing]

(* The ticker keeps one tick for a pruner that is late, and drops the rest. *)
Tick ==
    /\ now < MaxTime
    /\ now' = now + 1
    /\ due' = (due \/ (now + 1) % Period = 0)
    /\ UNCHANGED <<registry, answers, pruned>>

(* Mutant of Silent: an agent is given up as soon as the limit is reached. *)
SilentAtLimit(a) == heap[a].seen + Limit <= now

(* time.Since(agent.LastSeen) > 5*time.Minute *)
Silent(a) == heap[a].seen + Limit < now

StartPruner ==
    /\ due
    /\ due' = FALSE
    /\ pruned' = now
    /\ heap' = [a \in Agents |->
                   IF a \in Registered /\ Silent(a)
                   THEN [heap[a] EXCEPT !.status = "offline"] ELSE heap[a]]
    /\ UNCHANGED <<agents, made, now, answers>>

(* POST: a registration of an id that is taken replaces its agent, and the  *)
(* commands of the old one with it.  The answer is encoded without a lock.  *)
Register(r, i) ==
    /\ todo[r] = {} /\ view[r] = Nothing
    /\ made < MaxRegistrations
    /\ made' = made + 1
    /\ agents' = [agents EXCEPT ![i] = made + 1]
    /\ heap' = [heap EXCEPT ![made + 1] = [status |-> "active", seen |-> now, commands |-> 0]]
    /\ todo' = [todo EXCEPT ![r] = {made + 1}]
    /\ UNCHANGED <<clock, view>>

(* Mutant of Heartbeat: the time is taken and the status is left. *)
HeartbeatKeepsStatus(i) ==
    /\ agents[i] # 0
    /\ heap' = [heap EXCEPT ![agents[i]].seen = now]
    /\ UNCHANGED <<agents, made, clock, answers>>

(* False, and nothing is done, for an id that is not registered. *)
Heartbeat(i) ==
    /\ agents[i] # 0
    /\ heap' = [heap EXCEPT ![agents[i]].seen = now, ![agents[i]].status = "active"]
    /\ UNCHANGED <<agents, made, clock, answers>>

SendCommand(i) ==
    /\ agents[i] # 0
    /\ heap[agents[i]].commands < MaxCommands
    /\ heap' = [heap EXCEPT ![agents[i]].commands = @ + 1]
    /\ UNCHANGED <<agents, made, clock, answers>>

(* GET (and ListAgents): the pointers are copied under the read lock. *)
List(r) ==
    /\ todo[r] = {} /\ view[r] = Nothing
    /\ todo' = [todo EXCEPT ![r] = Registered]
    /\ UNCHANGED <<registry, clock, view>>

(* Encode reads Status, and then LastSeen, of one agent after another. *)
EncodeStatus(r) ==
    /\ view[r].at # "status"
    /\ \E a \in todo[r] :
           /\ todo' = [todo EXCEPT ![r] = @ \ {a}]
           /\ view' = [view EXCEPT ![r] = [at |-> "status", agent |-> a, status |-> heap[a].status,
                                           seen |-> 0, from |-> now]]
    /\ UNCHANGED <<registry, clock>>

EncodeSeen(r) ==
    /\ view[r].at = "status"
    /\ view' = [view EXCEPT ![r].at = "shown", ![r].seen = heap[view[r].agent].seen]
    /\ UNCHANGED <<registry, clock, todo>>

Answered(r) ==
    /\ view[r].at = "shown" /\ todo[r] = {}
    /\ view' = [view EXCEPT ![r] = Nothing]
    /\ UNCHANGED <<registry, clock, todo>>

ServeHTTP(r) ==
    \/ List(r) \/ (\E i \in Ids : Register(r, i))
    \/ EncodeStatus(r) \/ EncodeSeen(r) \/ Answered(r)

Next ==
    \/ Tick \/ StartPruner
    \/ \E i \in Ids : Heartbeat(i) \/ SendCommand(i)
    \/ \E r \in Readers : ServeHTTP(r)

Spec == Init /\ [][Next]_vars

-----------------------------------------------------------------------------
TypeOK ==
    /\ agents \in [Ids -> 0 .. made]
    /\ heap \in [Agents -> Agent]
    /\ made \in 0 .. MaxRegistrations
    /\ now \in 0 .. MaxTime /\ due \in BOOLEAN /\ pruned \in 0 .. now
    /\ todo \in [Readers -> SUBSET (1 .. made)]
    /\ view \in [Readers -> View]

(* An agent is offline exactly if it had been silent for more than the      *)
(* limit when the pruner last ran: however late the pruner gets the lock,   *)
(* and whatever heartbeats and registrations race with it, an agent that    *)
(* has been heard from since is active, and one that has not is not spared. *)
OfflineIfSilent ==
    \A i \in Ids :
        agents[i] # 0 =>
            (heap[agents[i]].status = "offline" <=> heap[agents[i]].seen + Limit < pruned)

(* An answer that shows an agent as offline shows a last_seen past the      *)
(* limit with it, or one that is newer than the moment the status was read: *)
(* a heartbeat between the two reads is the only way to a contradiction.    *)
OfflineIsShownWithCause ==
    \A r \in Readers :
        view[r].at = "shown" /\ view[r].status = "offline" =>
            view[r].seen + Limit < pruned \/ view[r].seen >= view[r].from
=============================================================================
