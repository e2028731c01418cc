---------------------------- MODULE RateLimiter ----------------------------
(***************************************************************************)
(* krsna-rate-limiter: one token bucket per key.  DashMap's entry guard    *)
(* makes allow one step per key.  Tokens are counted in integer units, so  *)
(* that a refill is exact: a token is Cost units and a tick of the clock   *)
(* earns Refill of them (requests_per_minute / 60 tokens per second).      *)
(***************************************************************************)
EXTENDS Integers

CONSTANTS Keys,
          Burst,      (* burst_size, in tokens                               *)
          Cost,       (* units of a token                                    *)
          Refill,     (* units earned per tick                               *)
          Absent,     (* the key has no bucket                               *)
          MaxTime     (* bound on the clock                                  *)

ASSUME LimiterAssumption ==
    /\ Burst \in Nat /\ Refill \in Nat /\ MaxTime \in Nat
    /\ Cost \in Nat \ {0}
    /\ Absent \notin [tokens : Nat, last_refill : Nat]

VARIABLES
    now,
    buckets,    (* of each key, Absent or its tokens and last_refill         *)
    window,     (* history: when the window we watch began, and how often    *)
                (* the key has been admitted in it                           *)
    since_full  (* history: the same, from when its bucket was last full     *)

vars == <<now, buckets, window, since_full>>

Bucket == [tokens : Nat, last_refill : Nat]
Ledger == [start : Nat, admitted : Nat]

MaxTokens == Burst * Cost

Capped(units) == IF units <= MaxTokens THEN units ELSE MaxTokens

FromNow == [start |-> now, admitted |-> 0]

Init ==
    /\ now = 0
    /\ buckets = [k \in Keys |-> Absent]
    /\ window = [k \in Keys |-> [start |-> 0, admitted |-> 0]]
    /\ since_full = [k \in Keys |-> [start |-> 0, admitted |-> 0]]

-----------------------------------------------------------------------------
(* entry(key).or_insert_with(...): a new bucket is full. *)
Entry(k) == IF buckets[k] = Absent
            THEN [tokens |-> MaxTokens, last_refill |-> now]
            ELSE buckets[k]

(* Mutant of Refilled: the cap on the burst is forgotten. *)
RefilledUncapped(k) == Entry(k).tokens + (now - Entry(k).last_refill) * Refill

Refilled(k) == Capped(Entry(k).tokens + (now - Entry(k).last_refill) * Refill)

(* The ledger of a key whose bucket the refill has filled starts again. *)
SinceFull(k) == IF Refilled(k) = MaxTokens THEN FromNow ELSE since_full[k]

Store(k, units) ==
    buckets' = [buckets EXCEPT ![k] = [tokens |-> units, last_refill |-> now]]

Admit(k) ==
    /\ Refilled(k) >= Cost
    /\ Store(k, Refilled(k) - Cost)
    /\ window' = [window EXCEPT ![k].admitted = @ + 1]
    /\ since_full' = [since_full EXCEPT
                        ![k] = [SinceFull(k) EXCEPT !.admitted = @ + 1]]
    /\ UNCHANGED now

(* Mutant of Deny: a request that is refused keeps what it has earned but   *)
(* not the instant it was refilled.                                         *)
DenyKeepsInstant(k) ==
    /\ Refilled(k) < Cost
    /\ buckets' = [buckets EXCEPT ![k] = [Entry(k) EXCEPT !.tokens = Refilled(k)]]
    /\ since_full' = [since_full EXCEPT ![k] = SinceFull(k)]
    /\ UNCHANGED <<now, window>>

Deny(k) ==
    /\ Refilled(k) < Cost
    /\ Store(k, Refilled(k))
    /\ since_full' = [since_full EXCEPT ![k] = SinceFull(k)]
    /\ UNCHANGED <<now, window>>

Allow(k) == Admit(k) \/ Deny(k)

(* The next bucket of the key is a full one, so both ledgers start again. *)
Reset(k) ==
    /\ buckets' = [buckets EXCEPT ![k] = Absent]
    /\ window' = [window EXCEPT ![k] = FromNow]
    /\ since_full' = [since_full EXCEPT ![k] = FromNow]
    /\ UNCHANGED now

-----------------------------------------------------------------------------
(* We may begin to watch a key at any time: only history changes. *)
Watch(k) ==
    /\ window' = [window EXCEPT ![k] = FromNow]
    /\ UNCHANGED <<now, buckets, since_full>>

Tick ==
    /\ now < MaxTime
    /\ now' = now + 1
    /\ UNCHANGED <<buckets, window, since_full>>

Next == (\E k \in Keys : Allow(k) \/ Reset(k) \/ Watch(k)) \/ Tick

Spec == Init /\ [][Next]_vars

-----------------------------------------------------------------------------
TypeOK ==
    /\ now \in Nat
    /\ buckets \in [Keys -> Bucket \cup {Absent}]
    /\ window \in [Keys -> Ledger]
    /\ since_full \in [Keys -> Ledger]

(* In any stretch of time without a reset, however it is chosen, a key is   *)
(* admitted at most burst_size times and once more per token earned in it,  *)
(* whatever other keys and earlier requests did.                            *)
AdmissionsBounded ==
    \A k \in Keys :
        window[k].admitted * Cost <= MaxTokens + (now - window[k].start) * Refill

(* No key is charged more than it used: what is left in its bucket is what  *)
(* it has earned since the bucket was last full, less the admitted          *)
(* requests.  A refused request costs nothing.                              *)
NothingOvercharged ==
    \A k \in Keys :
        buckets[k] # Absent =>
            buckets[k].tokens + since_full[k].admitted * Cost =
                MaxTokens + (buckets[k].last_refill - since_full[k].start) * Refill

(* The inductive invariant behind AdmissionsBounded.  A window that began   *)
(* after the last refill has admitted nothing yet; one that began before it *)
(* has admitted no more than the bucket had and has earned.                 *)
WindowOK(k) ==
    /\ window[k].start <= now
    /\ buckets[k] = Absent => window[k].admitted = 0
    /\ buckets[k] # Absent =>
          /\ buckets[k].tokens <= MaxTokens
          /\ buckets[k].last_refill <= now
          /\ \/ /\ buckets[k].last_refill < window[k].start
                /\ window[k].admitted = 0
             \/ /\ window[k].start <= buckets[k].last_refill
                /\ buckets[k].tokens + window[k].admitted * Cost <=
                     MaxTokens + (buckets[k].last_refill - window[k].start) * Refill

WindowInv == \A k \in Keys : WindowOK(k)

(* The part of it the other ledger needs. *)
FullInv ==
    \A k \in Keys :
        /\ since_full[k].start <= now
        /\ buckets[k] # Absent => since_full[k].start <= buckets[k].last_refill
=============================================================================
