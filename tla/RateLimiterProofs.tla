-------------------------- MODULE RateLimiterProofs --------------------------
(* Proofs about the token bucket limiter. *)
EXTENDS RateLimiter, TLAPS

LEMMA MaxTokensType == MaxTokens \in Nat
  BY LimiterAssumption DEF MaxTokens

(* What a refill leaves in a bucket: never more than a full one. *)
LEMMA RefilledType ==
  ASSUME TypeOK, WindowInv, NEW k \in Keys
  PROVE  /\ Entry(k) \in Bucket
         /\ Entry(k).last_refill <= now
         /\ Refilled(k) \in Nat
         /\ Refilled(k) <= MaxTokens
         /\ Refilled(k) <= Entry(k).tokens + (now - Entry(k).last_refill) * Refill
         /\ Refilled(k) # MaxTokens =>
              Refilled(k) = Entry(k).tokens + (now - Entry(k).last_refill) * Refill
<1>1. Entry(k) \in Bucket /\ Entry(k).last_refill <= now
  BY MaxTokensType DEF TypeOK, WindowInv, WindowOK, Entry, Bucket
<1> DEFINE age == now - Entry(k).last_refill
<1>2. age \in Nat
  BY <1>1 DEF TypeOK, Bucket
<1>3. age * Refill \in Nat
  BY <1>2, LimiterAssumption
<1>. QED
  BY <1>1, <1>3, MaxTokensType DEF Refilled, Capped, Bucket

LEMMA TypeInductive == TypeOK /\ WindowInv /\ [Next]_vars => TypeOK'
<1> SUFFICES ASSUME TypeOK, WindowInv, [Next]_vars
             PROVE  TypeOK'
  OBVIOUS
<1> USE LimiterAssumption DEF TypeOK, Bucket, Ledger, FromNow
<1>1. ASSUME NEW k \in Keys, Admit(k)
      PROVE  TypeOK'
  <2>1. Refilled(k) - Cost \in Nat
    BY <1>1, RefilledType DEF Admit
  <2>2. SinceFull(k) \in Ledger
    BY DEF SinceFull
  <2>. QED
    BY <1>1, <2>1, <2>2 DEF Admit, Store
<1>2. ASSUME NEW k \in Keys, Deny(k)
      PROVE  TypeOK'
  <2>1. Refilled(k) \in Nat
    BY RefilledType
  <2>2. SinceFull(k) \in Ledger
    BY DEF SinceFull
  <2>. QED
    BY <1>2, <2>1, <2>2 DEF Deny, Store
<1>3. ASSUME NEW k \in Keys, Reset(k) \/ Watch(k)
      PROVE  TypeOK'
  <2>1. FromNow \in Ledger
    OBVIOUS
  <2> HIDE DEF FromNow, Ledger
  <2>2. CASE Reset(k)
    BY <2>1, <2>2 DEF Reset
  <2>3. CASE Watch(k)
    BY <2>1, <2>3 DEF Watch
  <2>. QED
    BY <1>3, <2>2, <2>3
<1>4. CASE Tick
  BY <1>4 DEF Tick
<1>5. CASE UNCHANGED vars
  BY <1>5 DEF vars
<1>. QED
  BY <1>1, <1>2, <1>3, <1>4, <1>5 DEF Next, Allow

(* A request of k, admitted or not, takes `taken` units from the refilled   *)
(* bucket and adds to the window what it takes.                             *)
LEMMA AllowKeepsWindow ==
  ASSUME TypeOK, WindowInv, NEW k \in Keys,
         NEW n \in {0, 1},
         Refilled(k) >= n * Cost,
         Store(k, Refilled(k) - n * Cost),
         window' = [window EXCEPT ![k].admitted = @ + n],
         now' = now
  PROVE  WindowInv'
<1> USE LimiterAssumption, MaxTokensType DEF Bucket, Ledger
<1> DEFINE e == Entry(k)
           w == window[k]
<1>1. w.start \in Nat /\ w.admitted \in Nat /\ w.start <= now /\ now \in Nat
  BY DEF TypeOK, WindowInv, WindowOK
<1>2. /\ buckets' = [buckets EXCEPT ![k] = [tokens |-> Refilled(k) - n * Cost,
                                            last_refill |-> now]]
      /\ window'[k] = [start |-> w.start, admitted |-> w.admitted + n]
  BY DEF Store, TypeOK
<1>3. Refilled(k) \in Nat /\ Refilled(k) <= MaxTokens
  BY RefilledType
<1>4. Refilled(k) + w.admitted * Cost <= MaxTokens + (now - w.start) * Refill
  <2>1. CASE w.admitted = 0
    <3>1. (now - w.start) * Refill \in Nat
      BY <1>1
    <3>. QED
      BY <2>1, <3>1, <1>3
  <2>2. CASE w.admitted # 0
    <3>1. /\ buckets[k] # Absent /\ e = buckets[k]
          /\ e.tokens + w.admitted * Cost <= MaxTokens + (e.last_refill - w.start) * Refill
      BY <2>2, <1>1 DEF WindowInv, WindowOK, Entry
    <3>2. Refilled(k) <= e.tokens + (now - e.last_refill) * Refill
      BY RefilledType
    <3>3. e.tokens \in Nat /\ e.last_refill \in Nat
      BY RefilledType
    <3>4. (now - e.last_refill) * Refill + (e.last_refill - w.start) * Refill
             = (now - w.start) * Refill
      BY <3>3, <1>1
    <3>5. /\ w.admitted * Cost \in Int
          /\ (now - e.last_refill) * Refill \in Int
          /\ (e.last_refill - w.start) * Refill \in Int
          /\ (now - w.start) * Refill \in Int
      BY <3>3, <1>1
    <3>. QED
      BY <3>1, <3>2, <3>3, <3>4, <3>5, <1>3
  <2>. QED
    BY <2>1, <2>2
<1>5. (Refilled(k) - n * Cost) + (w.admitted + n) * Cost = Refilled(k) + w.admitted * Cost
  BY <1>1, <1>3
<1>6. /\ window'[k].start = w.start
      /\ window'[k].admitted = w.admitted + n
      /\ buckets'[k] # Absent
      /\ buckets'[k].tokens = Refilled(k) - n * Cost
      /\ buckets'[k].last_refill = now
  <2>1. Refilled(k) - n * Cost \in Nat
    BY <1>3
  <2>2. [tokens |-> Refilled(k) - n * Cost, last_refill |-> now] \in Bucket
    BY <1>1, <2>1
  <2>3. buckets'[k] = [tokens |-> Refilled(k) - n * Cost, last_refill |-> now]
    BY <1>2 DEF TypeOK
  <2>. QED
    BY <1>2, <2>2, <2>3
<1>7. Refilled(k) - n * Cost <= MaxTokens
  BY <1>3
<1>8. \A j \in Keys \ {k} : buckets'[j] = buckets[j] /\ window'[j] = window[j]
  BY <1>2 DEF TypeOK
<1>9. WindowOK(k)'
  <2>1. /\ window'[k].start <= now'
        /\ buckets'[k].tokens <= MaxTokens
        /\ buckets'[k].tokens + window'[k].admitted * Cost <=
              MaxTokens + (buckets'[k].last_refill - window'[k].start) * Refill
    BY <1>1, <1>4, <1>5, <1>6, <1>7
  <2>. QED
    BY <1>1, <1>6, <2>1 DEF WindowOK
<1>. QED
  BY <1>8, <1>9 DEF WindowInv, WindowOK

LEMMA WindowInductive == TypeOK /\ WindowInv /\ [Next]_vars => WindowInv'
<1> SUFFICES ASSUME TypeOK, WindowInv, [Next]_vars
             PROVE  WindowInv'
  OBVIOUS
<1> USE LimiterAssumption, MaxTokensType DEF Bucket, Ledger, FromNow
<1>1. ASSUME NEW k \in Keys, Admit(k)
      PROVE  WindowInv'
  <2>1. /\ Refilled(k) >= 1 * Cost
        /\ Refilled(k) - 1 * Cost = Refilled(k) - Cost
    BY <1>1, RefilledType DEF Admit
  <2>. QED
    BY <1>1, <2>1, AllowKeepsWindow DEF Admit
<1>2. ASSUME NEW k \in Keys, Deny(k)
      PROVE  WindowInv'
  <2>1. Refilled(k) \in Nat
    BY RefilledType
  <2>2. Refilled(k) >= 0 * Cost /\ Refilled(k) - 0 * Cost = Refilled(k)
    BY <2>1
  <2>3. window' = [window EXCEPT ![k].admitted = @ + 0]
    BY <1>2 DEF Deny, TypeOK
  <2>. QED
    BY <1>2, <2>2, <2>3, AllowKeepsWindow DEF Deny
<1>3. ASSUME NEW k \in Keys, Reset(k)
      PROVE  WindowInv'
  BY <1>3 DEF Reset, TypeOK, WindowInv, WindowOK
<1>4. ASSUME NEW k \in Keys, Watch(k)
      PROVE  WindowInv'
  BY <1>4 DEF Watch, TypeOK, WindowInv, WindowOK
<1>5. CASE Tick
  BY <1>5 DEF Tick, TypeOK, WindowInv, WindowOK
<1>6. CASE UNCHANGED vars
  BY <1>6 DEF vars, WindowInv, WindowOK
<1>. QED
  BY <1>1, <1>2, <1>3, <1>4, <1>5, <1>6 DEF Next, Allow

LEMMA WindowBounds == TypeOK /\ WindowInv => AdmissionsBounded
<1> SUFFICES ASSUME TypeOK, WindowInv, NEW k \in Keys
             PROVE  window[k].admitted * Cost <= MaxTokens + (now - window[k].start) * Refill
  BY DEF AdmissionsBounded
<1> USE LimiterAssumption, MaxTokensType DEF Bucket, Ledger
<1> DEFINE w == window[k]
           b == buckets[k]
<1>1. /\ w.start \in Nat /\ w.admitted \in Nat /\ now \in Nat /\ w.start <= now
      /\ (now - w.start) * Refill \in Nat
  BY DEF TypeOK, WindowInv, WindowOK
<1>2. CASE w.admitted = 0
  BY <1>1, <1>2
<1>3. CASE w.admitted # 0
  <2>1. /\ b \in Bucket /\ b.last_refill <= now
        /\ b.tokens + w.admitted * Cost <= MaxTokens + (b.last_refill - w.start) * Refill
    BY <1>1, <1>3 DEF TypeOK, WindowInv, WindowOK
  <2>2. b.last_refill \in Nat /\ b.tokens \in Nat /\ now - b.last_refill \in Nat
    BY <1>1, <2>1
  <2>3. (now - b.last_refill) * Refill \in Nat
    BY <2>2
  <2>4. (b.last_refill - w.start) * Refill + (now - b.last_refill) * Refill
          = (now - w.start) * Refill
    BY <1>1, <2>2
  <2>5. w.admitted * Cost \in Int /\ (b.last_refill - w.start) * Refill \in Int
    BY <1>1, <2>2
  <2>. QED
    BY <1>1, <2>1, <2>2, <2>3, <2>4, <2>5
<1>. QED
  BY <1>2, <1>3

-----------------------------------------------------------------------------
(* What a request takes from the refilled bucket, its ledger is charged with, *)
(* whether or not the refill has filled the bucket and so begun it again.   *)
LEMMA AllowKeepsLedger ==
  ASSUME TypeOK, WindowInv, FullInv, NothingOvercharged,
         NEW k \in Keys, NEW n \in {0, 1},
         Refilled(k) >= n * Cost,
         Store(k, Refilled(k) - n * Cost),
         since_full' = [since_full EXCEPT
                          ![k] = [SinceFull(k) EXCEPT !.admitted = @ + n]],
         now' = now
  PROVE  FullInv' /\ NothingOvercharged'
<1> USE LimiterAssumption, MaxTokensType DEF Bucket, Ledger
<1> DEFINE e == Entry(k)
           s == SinceFull(k)
<1>1. /\ now \in Nat
      /\ Refilled(k) \in Nat /\ Refilled(k) <= MaxTokens
      /\ e \in Bucket /\ e.last_refill <= now
  BY RefilledType DEF TypeOK
<1>2. /\ s \in Ledger /\ s.start <= now
      /\ Refilled(k) + s.admitted * Cost = MaxTokens + (now - s.start) * Refill
  <2>1. CASE Refilled(k) = MaxTokens
    <3>1. s = [start |-> now, admitted |-> 0]
      BY <2>1 DEF SinceFull, FromNow
    <3>2. s.start = now /\ s.admitted = 0 /\ s \in Ledger
      BY <3>1, <1>1
    <3>. QED
      BY <2>1, <3>2, <1>1
  <2>2. CASE Refilled(k) # MaxTokens
    <3>1. s = since_full[k] /\ s \in Ledger /\ s.start <= now
      BY <2>2 DEF SinceFull, TypeOK, FullInv
    <3>2. Refilled(k) = e.tokens + (now - e.last_refill) * Refill
      BY <2>2, RefilledType
    <3>3. buckets[k] # Absent
      <4> SUFFICES ASSUME buckets[k] = Absent PROVE FALSE
        OBVIOUS
      <4>1. e.tokens = MaxTokens /\ e.last_refill = now
        BY DEF Entry
      <4>. QED
        BY <4>1, <3>2, <2>2, <1>1
    <3>4. /\ e.last_refill >= s.start
          /\ e.tokens + s.admitted * Cost = MaxTokens + (e.last_refill - s.start) * Refill
      BY <3>1, <3>3 DEF Entry, NothingOvercharged, FullInv
    <3>5. e.tokens \in Nat /\ e.last_refill \in Nat /\ s.start \in Nat /\ s.admitted \in Nat
      BY <1>1, <3>1
    <3>6. (now - e.last_refill) * Refill + (e.last_refill - s.start) * Refill
             = (now - s.start) * Refill
      BY <1>1, <3>5
    <3>7. /\ s.admitted * Cost \in Int
          /\ (now - e.last_refill) * Refill \in Int
          /\ (e.last_refill - s.start) * Refill \in Int
          /\ (now - s.start) * Refill \in Int
      BY <1>1, <3>5
    <3>8. Refilled(k) + s.admitted * Cost = MaxTokens + (now - s.start) * Refill
      <4> DEFINE refilled == Refilled(k)
                 held == e.tokens
                 charged == s.admitted * Cost
                 earned == (now - e.last_refill) * Refill
                 before == (e.last_refill - s.start) * Refill
                 since == (now - s.start) * Refill
      <4>1. /\ refilled \in Int /\ held \in Int /\ charged \in Int
            /\ earned \in Int /\ before \in Int /\ since \in Int
        BY <1>1, <3>5, <3>7
      <4>2. refilled = held + earned /\ held + charged = MaxTokens + before
        BY <3>2, <3>4
      <4>3. earned + before = since
        BY <3>6
      <4> HIDE DEF refilled, held, charged, earned, before, since
      <4>4. refilled + charged = MaxTokens + since
        BY <4>1, <4>2, <4>3
      <4>. QED
        BY <4>4 DEF refilled, charged, since
    <3>. QED
      BY <3>1, <3>8
  <2>. QED
    BY <2>1, <2>2
<1>3. /\ since_full'[k].start = s.start
      /\ since_full'[k].admitted = s.admitted + n
  BY <1>2 DEF TypeOK
<1>4. /\ buckets'[k].tokens = Refilled(k) - n * Cost
      /\ buckets'[k].last_refill = now
  BY DEF Store, TypeOK
<1>5. \A j \in Keys \ {k} : buckets'[j] = buckets[j] /\ since_full'[j] = since_full[j]
  BY DEF Store, TypeOK
<1>6. (Refilled(k) - n * Cost) + (s.admitted + n) * Cost = Refilled(k) + s.admitted * Cost
  BY <1>1, <1>2
<1>7. FullInv'
  BY <1>1, <1>2, <1>3, <1>4, <1>5 DEF FullInv
<1>8. buckets'[k].tokens + since_full'[k].admitted * Cost =
         MaxTokens + (buckets'[k].last_refill - since_full'[k].start) * Refill
  BY <1>2, <1>3, <1>4, <1>6
<1>. QED
  BY <1>5, <1>7, <1>8 DEF NothingOvercharged

LEMMA LedgerInductive ==
  TypeOK /\ WindowInv /\ FullInv /\ NothingOvercharged /\ [Next]_vars
     => FullInv' /\ NothingOvercharged'
<1> SUFFICES ASSUME TypeOK, WindowInv, FullInv, NothingOvercharged, [Next]_vars
             PROVE  FullInv' /\ NothingOvercharged'
  OBVIOUS
<1> USE LimiterAssumption, MaxTokensType DEF Bucket, Ledger
<1>1. ASSUME NEW k \in Keys, Admit(k)
      PROVE  FullInv' /\ NothingOvercharged'
  <2>1. /\ Refilled(k) >= 1 * Cost
        /\ Refilled(k) - 1 * Cost = Refilled(k) - Cost
    BY <1>1, RefilledType DEF Admit
  <2>. QED
    BY <1>1, <2>1, AllowKeepsLedger DEF Admit
<1>2. ASSUME NEW k \in Keys, Deny(k)
      PROVE  FullInv' /\ NothingOvercharged'
  <2>1. Refilled(k) \in Nat
    BY RefilledType
  <2>2. Refilled(k) >= 0 * Cost /\ Refilled(k) - 0 * Cost = Refilled(k)
    BY <2>1
  <2>3. SinceFull(k) \in Ledger
    BY DEF SinceFull, FromNow, TypeOK
  <2>4. [SinceFull(k) EXCEPT !.admitted = @ + 0] = SinceFull(k)
    BY <2>3
  <2>5. since_full' = [since_full EXCEPT
                         ![k] = [SinceFull(k) EXCEPT !.admitted = @ + 0]]
    BY <1>2, <2>4 DEF Deny
  <2>. QED
    BY <1>2, <2>2, <2>5, AllowKeepsLedger DEF Deny
<1>3. ASSUME NEW k \in Keys, Reset(k)
      PROVE  FullInv' /\ NothingOvercharged'
  BY <1>3 DEF Reset, FromNow, TypeOK, FullInv, NothingOvercharged
<1>4. ASSUME NEW k \in Keys, Watch(k)
      PROVE  FullInv' /\ NothingOvercharged'
  BY <1>4 DEF Watch, FullInv, NothingOvercharged
<1>5. CASE Tick
  BY <1>5 DEF Tick, TypeOK, FullInv, NothingOvercharged
<1>6. CASE UNCHANGED vars
  BY <1>6 DEF vars, FullInv, NothingOvercharged
<1>. QED
  BY <1>1, <1>2, <1>3, <1>4, <1>5, <1>6 DEF Next, Allow

-----------------------------------------------------------------------------
LEMMA Invariance == Spec => [](TypeOK /\ WindowInv)
<1>1. Init => TypeOK /\ WindowInv
  BY LimiterAssumption DEF Init, TypeOK, Ledger, WindowInv, WindowOK
<1>. QED
  BY <1>1, TypeInductive, WindowInductive, PTL DEF Spec

LEMMA LedgerInvariance == Spec => [](FullInv /\ NothingOvercharged)
<1>1. Init => FullInv /\ NothingOvercharged
  BY DEF Init, FullInv, NothingOvercharged
<1>. QED
  BY <1>1, Invariance, LedgerInductive, PTL DEF Spec

(* Tokens never go below zero, for any burst, rate and keys. *)
THEOREM TypeCorrect == Spec => []TypeOK
  BY Invariance, PTL

(* A key is never admitted more often than its burst and its rate allow, in *)
(* any window, for any burst, rate and keys.                                *)
THEOREM RateBound == Spec => []AdmissionsBounded
  BY Invariance, WindowBounds, PTL

(* What a bucket holds is what it has earned since it was last full, less    *)
(* what was admitted since: refused requests cost nothing, for any burst,   *)
(* rate and keys.                                                           *)
THEOREM ChargesExact == Spec => []NothingOvercharged
  BY LedgerInvariance, PTL
=============================================================================
