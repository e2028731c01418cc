---------------------------- MODULE WebSocketHub ----------------------------
(***************************************************************************)
(* The WebSocket hub of the Go API (internal/api/websocket.go).  A handler *)
(* enters its connection in the map of clients, reads until that fails and *)
(* takes it out; BroadcastIncident walks the map under the read lock,      *)
(* writes to each connection without a deadline, and closes and deletes    *)
(* those that fail, still under the read lock.                             *)
(*                                                                         *)
(* Go's RWMutex: a writer that waits keeps new readers out, and the        *)
(* readers that came meanwhile go before the next writer.  Go's map: a     *)
(* write that overlaps another access may end the process, and so may two  *)
(* writes to one connection (gorilla/websocket).                           *)
(***************************************************************************)
EXTENDS FiniteSets

CONSTANTS Sockets,     (* connections, each with its handler                 *)
          Broadcasts,  (* calls of BroadcastIncident                         *)
          None         (* no handler waits, or no connection is written to   *)

VARIABLES
    listed,     (* hub.clients                                               *)
    handler,    (* where the handler of each connection is                   *)
    sock,       (* what has become of the connection                         *)
    writer,     (* the handler that has announced itself to hub.mu           *)
    walk,       (* where each broadcast is                                   *)
    visits,     (* connections it has yet to write to                        *)
    cur,        (* the one it is at                                          *)
    crashed,    (* the process has died                                      *)
    overlapped  (* history: two broadcasts have been under way at once       *)

vars == <<listed, handler, sock, writer, walk, visits, cur, crashed, overlapped>>

Init ==
    /\ listed = {}
    /\ handler = [c \in Sockets |-> "new"]
    /\ sock = [c \in Sockets |-> "open"]
    /\ writer = None
    /\ walk = [b \in Broadcasts |-> "new"]
    /\ visits = [b \in Broadcasts |-> {}]
    /\ cur = [b \in Broadcasts |-> None]
    /\ crashed = FALSE
    /\ overlapped = FALSE

Handle(c, from, to) == ~crashed /\ handler[c] = from /\ handler' = [handler EXCEPT ![c] = to]
Step(b, from, to) == ~crashed /\ walk[b] = from /\ walk' = [walk EXCEPT ![b] = to]

(* Broadcasts that hold the read lock, and accesses to the map under way. *)
Reading == {b \in Broadcasts : walk[b] \in {"start", "next", "writing", "deleting"}}
Deleting == {b \in Broadcasts : walk[b] = "deleting"}
Changing == {c \in Sockets : handler[c] \in {"entering", "removing"}}

(* An access of the map that overlaps a write may be noticed: the process   *)
(* ends.  Or it is not, and nothing else is taken to go wrong.              *)
Touch(others) == crashed' \in IF others = {} THEN {FALSE} ELSE BOOLEAN

-----------------------------------------------------------------------------
(* hub.mu.Lock(), the change of the map and hub.mu.Unlock(). *)

Announce(c) ==
    /\ ~crashed
    /\ handler[c] \in {"upgraded", "leaving"} /\ writer = None
    /\ writer' = c
    /\ UNCHANGED <<listed, handler, sock, walk, visits, cur, crashed, overlapped>>

(* Mutant of Lock: the map is changed without waiting for the readers. *)
LockAtOnce(c) == writer = c

Lock(c) == writer = c /\ Reading = {}

(* Unlock lets in every broadcast that has come meanwhile. *)
Unlock ==
    /\ writer' = None
    /\ walk' = [b \in Broadcasts |-> IF walk[b] = "waiting" THEN "start" ELSE walk[b]]

(* handleWebSocket *)

Upgrade(c) ==
    /\ Handle(c, "new", "upgraded")
    /\ UNCHANGED <<listed, sock, writer, walk, visits, cur, crashed, overlapped>>

BeginEnter(c) ==
    /\ Lock(c)
    /\ Handle(c, "upgraded", "entering")
    /\ Touch(Deleting)
    /\ UNCHANGED <<listed, sock, writer, walk, visits, cur, overlapped>>

EndEnter(c) ==
    /\ Handle(c, "entering", "reading")
    /\ listed' = listed \cup {c}
    /\ Unlock
    /\ UNCHANGED <<sock, visits, cur, crashed, overlapped>>

(* ReadMessage fails once the connection is broken or closed. *)
ReadFails(c) ==
    /\ sock[c] \in {"broken", "closed"}
    /\ Handle(c, "reading", "leaving")
    /\ UNCHANGED <<listed, sock, writer, walk, visits, cur, crashed, overlapped>>

BeginRemove(c) ==
    /\ Lock(c)
    /\ Handle(c, "leaving", "removing")
    /\ Touch(Deleting)
    /\ UNCHANGED <<listed, sock, writer, walk, visits, cur, overlapped>>

EndRemove(c) ==
    /\ Handle(c, "removing", "gone")
    /\ listed' = listed \ {c}
    /\ sock' = [sock EXCEPT ![c] = "closed"]
    /\ Unlock
    /\ UNCHANGED <<visits, cur, crashed, overlapped>>

-----------------------------------------------------------------------------
(* BroadcastIncident *)

(* RLock is granted unless a handler has announced itself. *)
RLock(b) ==
    /\ Step(b, "new", IF writer = None THEN "start" ELSE "waiting")
    /\ UNCHANGED <<listed, handler, sock, writer, visits, cur, crashed, overlapped>>

(* The walk visits what is in the map then, and skips what is deleted       *)
(* before it gets there.                                                    *)
Begin(b) ==
    /\ Step(b, "start", "next")
    /\ visits' = [visits EXCEPT ![b] = listed]
    /\ overlapped' = (overlapped \/ \E d \in Reading \ {b} : walk[d] # "start")
    /\ UNCHANGED <<listed, handler, sock, writer, cur, crashed>>

Write(b, c) ==
    /\ c \in visits[b] \cap listed
    /\ Step(b, "next", "writing")
    /\ cur' = [cur EXCEPT ![b] = c]
    /\ visits' = [visits EXCEPT ![b] = @ \ {c}]
    /\ Touch(Deleting \cup Changing \cup {d \in Broadcasts : walk[d] = "writing" /\ cur[d] = c})
    /\ UNCHANGED <<listed, handler, sock, writer, overlapped>>

(* Until the peer reads, or its connection breaks, the write goes on. *)
Written(b) ==
    /\ Step(b, "writing", "next")
    /\ sock[cur[b]] = "open"
    /\ UNCHANGED <<listed, handler, sock, writer, visits, cur, crashed, overlapped>>

(* Mutant of WriteFails: the connection is taken out and left open. *)
WriteFailsKeepsOpen(b) ==
    /\ Step(b, "writing", "deleting")
    /\ sock[cur[b]] \in {"broken", "closed"}
    /\ Touch((Deleting \ {b}) \cup Changing)
    /\ UNCHANGED <<listed, handler, sock, writer, visits, cur, overlapped>>

(* Mutant of WriteFails: the delete waits for hub.mu.Lock(). *)
WriteFailsTakesLock(b) ==
    /\ Step(b, "writing", "deleting")
    /\ sock[cur[b]] \in {"broken", "closed"}
    /\ Reading = {}
    /\ sock' = [sock EXCEPT ![cur[b]] = "closed"]
    /\ UNCHANGED <<listed, handler, writer, visits, cur, crashed, overlapped>>

(* conn.Close(), and the delete begins under the read lock. *)
WriteFails(b) ==
    /\ Step(b, "writing", "deleting")
    /\ sock[cur[b]] \in {"broken", "closed"}
    /\ sock' = [sock EXCEPT ![cur[b]] = "closed"]
    /\ Touch((Deleting \ {b}) \cup Changing)
    /\ UNCHANGED <<listed, handler, writer, visits, cur, overlapped>>

Deleted(b) ==
    /\ Step(b, "deleting", "next")
    /\ listed' = listed \ {cur[b]}
    /\ UNCHANGED <<handler, sock, writer, visits, cur, crashed, overlapped>>

(* The walk is over: RUnlock. *)
End(b) ==
    /\ visits[b] \cap listed = {}
    /\ Step(b, "next", "done")
    /\ cur' = [cur EXCEPT ![b] = None]
    /\ UNCHANGED <<listed, handler, sock, writer, visits, crashed, overlapped>>

-----------------------------------------------------------------------------
(* The peer stops reading, or its connection breaks. *)
Peer(c) ==
    /\ ~crashed /\ handler[c] # "new"
    /\ \/ sock[c] = "open" /\ sock' = [sock EXCEPT ![c] = "stuck"]
       \/ sock[c] \in {"open", "stuck"} /\ sock' = [sock EXCEPT ![c] = "broken"]
    /\ UNCHANGED <<listed, handler, writer, walk, visits, cur, crashed, overlapped>>

Serve(c) == \/ Upgrade(c) \/ Announce(c) \/ BeginEnter(c) \/ EndEnter(c)
            \/ ReadFails(c) \/ BeginRemove(c) \/ EndRemove(c)

Walk(b) == \/ Begin(b) \/ (\E c \in Sockets : Write(b, c)) \/ Written(b)
           \/ WriteFails(b) \/ Deleted(b) \/ End(b)

Next ==
    \/ \E c \in Sockets : Serve(c) \/ Peer(c)
    \/ \E b \in Broadcasts : RLock(b) \/ Walk(b)

Spec == Init /\ [][Next]_vars

(* Goroutines that can go on do.  Nobody need connect or broadcast.         *)
Fairness ==
    /\ \A c \in Sockets : WF_vars(handler[c] # "new" /\ Serve(c))
    /\ \A b \in Broadcasts : WF_vars(Walk(b))

FairSpec == Spec /\ Fairness

-----------------------------------------------------------------------------
(* Handlers that come and go never collide on the map with a broadcast: the *)
(* process dies of it only if two broadcasts have been under way at once.   *)
CrashNeedsTwoBroadcasts == crashed => overlapped

(* A connection that is in the map has a handler that will take it out, and *)
(* one that a broadcast has taken out is closed, so that its handler ends:  *)
(* nobody waits on a connection that hears nothing any more.                *)
ListedWhileServed ==
    \A c \in Sockets :
        /\ c \in listed => handler[c] \in {"reading", "leaving", "removing"}
        /\ handler[c] = "reading" /\ c \notin listed => sock[c] = "closed"

(* A handler that wants to enter or leave the map does so in the end,       *)
(* unless the process has died or a peer that does not read holds up a      *)
(* broadcast, and with it the read lock.                                    *)
HandlersGetTheLock ==
    \A c \in Sockets :
        handler[c] \in {"upgraded", "leaving"} ~>
            \/ handler[c] \notin {"upgraded", "leaving"}
            \/ crashed
            \/ \E d \in Sockets : sock[d] = "stuck"
=============================================================================
