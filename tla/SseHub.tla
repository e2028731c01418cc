------------------------------- MODULE SseHub -------------------------------
(***************************************************************************)
(* The server-sent events of the Go API (internal/ws/sse.go).  ServeHTTP   *)
(* names its client by the number of clients, which it reads before it     *)
(* takes the lock, so two clients can have one name: the later takes the   *)
(* place of the earlier in the map, and whoever leaves first removes the   *)
(* other.  Broadcast holds the read lock and never waits for a channel: a  *)
(* client that is Capacity events behind misses the next one.              *)
(*                                                                         *)
(* An event is the call of Broadcast that sends it.                        *)
(***************************************************************************)
EXTENDS Naturals, Sequences, FiniteSets, Functions

CONSTANTS Conns,      (* calls of ServeHTTP                                  *)
          Events,     (* calls of Broadcast                                  *)
          None,       (* no client under a name                              *)
          Capacity    (* 10, the buffer of a client's channel                *)

VARIABLES
    clients,   (* h.clients                                                  *)
    conn,      (* where each ServeHTTP is                                    *)
    id,        (* the name it has drawn                                      *)
    ch,        (* its channel                                                *)
    event,     (* where each Broadcast is                                    *)
    pending,   (* clients it has yet to send to                              *)
    got,       (* history: what each client has been sent                    *)
    owed,      (* history: events broadcast since each client entered        *)
    dropped,   (* history: events that found each client's channel full      *)
    rivals     (* history: clients whose name another open client had too    *)

vars == <<clients, conn, id, ch, event, pending, got, owed, dropped, rivals>>
history == <<owed, dropped, rivals>>

Names == 0 .. Cardinality(Conns)
Listed == Range(clients) \ {None}
Open == {c \in Conns : conn[c] = "open"}
Sent == {e \in Events : event[e] = "done"}

Init ==
    /\ clients = [i \in Names |-> None]
    /\ conn = [c \in Conns |-> "new"]
    /\ id = [c \in Conns |-> 0]
    /\ ch = [c \in Conns |-> <<>>]
    /\ event = [e \in Events |-> "new"]
    /\ pending = [e \in Events |-> {}]
    /\ got = [c \in Conns |-> {}]
    /\ owed = [c \in Conns |-> {}]
    /\ dropped = [c \in Conns |-> {}]
    /\ rivals = {}

Move(c, from, to) == conn[c] = from /\ conn' = [conn EXCEPT ![c] = to]

(* h.mu.Lock() is granted when no Broadcast holds the read lock. *)
Lock == \A e \in Events : event[e] # "sending"

-----------------------------------------------------------------------------
(* ServeHTTP.  len(h.clients) is read without the lock; a write it races    *)
(* with leaves it the number before or after.                               *)
Name(c) ==
    /\ Move(c, "new", "named")
    /\ id' = [id EXCEPT ![c] = Cardinality(Listed)]
    /\ UNCHANGED <<clients, ch, event, pending, got, history>>

Enter(c) ==
    /\ Lock
    /\ Move(c, "named", "open")
    /\ clients' = [clients EXCEPT ![id[c]] = c]
    /\ LET namesakes == {d \in Open : id[d] = id[c]}
       IN rivals' = IF namesakes = {} THEN rivals ELSE rivals \cup namesakes \cup {c}
    /\ UNCHANGED <<id, ch, event, pending, got, owed, dropped>>

Receive(c) ==
    /\ conn[c] = "open" /\ ch[c] # <<>>
    /\ got' = [got EXCEPT ![c] = @ \cup {Head(ch[c])}]
    /\ ch' = [ch EXCEPT ![c] = Tail(@)]
    /\ UNCHANGED <<clients, conn, id, event, pending, history>>

(* r.Context() is done: the deferred delete waits for the lock and removes  *)
(* whoever has the name by then.  select takes any case that is ready, so   *)
(* the channel need not be empty; what is in it is lost.                    *)
Leave(c) ==
    /\ Lock
    /\ Move(c, "open", "gone")
    /\ clients' = [clients EXCEPT ![id[c]] = None]
    /\ ch' = [ch EXCEPT ![c] = <<>>]
    /\ got' = [got EXCEPT ![c] = {}]
    /\ owed' = [owed EXCEPT ![c] = {}]
    /\ dropped' = [dropped EXCEPT ![c] = {}]
    /\ UNCHANGED <<id, event, pending, rivals>>

-----------------------------------------------------------------------------
(* Broadcast.  The map may be walked in any order. *)
Begin(e) ==
    /\ event[e] = "new"
    /\ event' = [event EXCEPT ![e] = "sending"]
    /\ pending' = [pending EXCEPT ![e] = Listed]
    /\ owed' = [c \in Conns |-> IF c \in Open THEN owed[c] \cup {e} ELSE owed[c]]
    /\ UNCHANGED <<clients, conn, id, ch, got, dropped, rivals>>

(* Mutant of Send: a client whose channel is full ends the walk. *)
SendStopsWhenFull(e, c) ==
    /\ event[e] = "sending" /\ c \in pending[e]
    /\ IF Len(ch[c]) < Capacity
       THEN /\ ch' = [ch EXCEPT ![c] = Append(@, e)]
            /\ pending' = [pending EXCEPT ![e] = @ \ {c}]
            /\ UNCHANGED dropped
       ELSE /\ dropped' = [dropped EXCEPT ![c] = @ \cup {e}]
            /\ pending' = [pending EXCEPT ![e] = {}]
            /\ UNCHANGED ch
    /\ UNCHANGED <<clients, conn, id, event, got, owed, rivals>>

Send(e, c) ==
    /\ event[e] = "sending" /\ c \in pending[e]
    /\ pending' = [pending EXCEPT ![e] = @ \ {c}]
    /\ \/ /\ Len(ch[c]) < Capacity
          /\ ch' = [ch EXCEPT ![c] = Append(@, e)]
          /\ UNCHANGED dropped
       \/ /\ Len(ch[c]) >= Capacity
          /\ dropped' = [dropped EXCEPT ![c] = @ \cup {e}]
          /\ UNCHANGED ch
    /\ UNCHANGED <<clients, conn, id, event, got, owed, rivals>>

End(e) ==
    /\ event[e] = "sending" /\ pending[e] = {}
    /\ event' = [event EXCEPT ![e] = "done"]
    /\ UNCHANGED <<clients, conn, id, ch, pending, got, history>>

ServeHTTP(c) == Name(c) \/ Enter(c) \/ Receive(c) \/ Leave(c)
Broadcast(e) == Begin(e) \/ (\E c \in Conns : Send(e, c)) \/ End(e)

Next == (\E c \in Conns : ServeHTTP(c)) \/ (\E e \in Events : Broadcast(e))

Spec == Init /\ [][Next]_vars

-----------------------------------------------------------------------------
(* A client that was open when an event was broadcast is sent it, unless    *)
(* its channel was full or another client had its name while it was open: a *)
(* name drawn twice and a slow reader are the only ways to miss one.        *)
OpenClientsHear ==
    \A c \in Open : \A e \in owed[c] \cap Sent :
        \/ e \in got[c] \cup Range(ch[c]) \cup dropped[c]
        \/ c \in rivals
=============================================================================
