--------------------------- MODULE SupervisorProofs ---------------------------
(* Proofs about the desktop application's supervision of its backends, for *)
(* any backends, retries, requests and attempts to quit.                   *)
EXTENDS Supervisor, TLAPS

(* Before the application is ready there is nothing. *)
NothingYet ==
    app = "loading" =>
        \A b \in Backends : children[b] = <<>> /\ timers[b] = 0

(* Where no restart was hasty, at most one thing of a backend is unfinished: *)
(* its latest child, or one retry.                                           *)
OneLife ==
    \A b \in Backends \ hasty :
        /\ timers[b] \in {0, 1}
        /\ \A i \in DOMAIN children[b] :
              children[b][i] # "gone" => i = Len(children[b]) /\ timers[b] = 0

(* What StartsBounded bounds, with the retries used since the last request. *)
Allowance == [r \in Nat |-> r * (1 + MAX_RETRIES)]

Budget ==
    \A b \in Backends :
        Len(children[b]) + timers[b] <= 1 + Allowance[requests[b]] + backendRetries[b]

IInv == TypeOK /\ NothingYet /\ OneLife /\ OthersAreStopped /\ Budget

LEMMA AllowanceGrows ==
  ASSUME NEW r \in Nat
  PROVE  /\ Allowance[r] \in Nat
         /\ Allowance[r + 1] = Allowance[r] + 1 + MAX_RETRIES
         /\ Allowance[0] = 0
BY SupervisorAssumption DEF Allowance

LEMMA Numbers ==
  ASSUME TypeOK, NEW b \in Backends
  PROVE  /\ Len(children[b]) \in Nat /\ timers[b] \in Nat /\ requests[b] \in Nat
         /\ backendRetries[b] \in Nat /\ backendRetries[b] <= MAX_RETRIES
         /\ Allowance[requests[b]] \in Nat
         /\ Allowance[requests[b] + 1] = Allowance[requests[b]] + 1 + MAX_RETRIES
<1>1. requests[b] \in Nat
  BY SupervisorAssumption DEF TypeOK
<1>2. Len(children[b]) \in Nat /\ timers[b] \in Nat
  BY DEF TypeOK
<1>3. backendRetries[b] \in Nat /\ backendRetries[b] <= MAX_RETRIES
  BY SupervisorAssumption DEF TypeOK
<1> QED BY <1>1, <1>2, <1>3, AllowanceGrows

LEMMA ToldKeepsType ==
  ASSUME NEW cs \in Seq(ChildState)
  PROVE  /\ LatestTold(cs) \in Seq(ChildState)
         /\ Len(LatestTold(cs)) = Len(cs)
         /\ DOMAIN LatestTold(cs) = DOMAIN cs
         /\ \A i \in DOMAIN cs : LatestTold(cs)[i] = cs[i] \/ i = Len(cs)
         /\ \A i \in DOMAIN cs : LatestTold(cs)[i] \in Untold => i # Len(cs)
         /\ \A i \in DOMAIN cs : cs[i] = "gone" => LatestTold(cs)[i] = "gone"
BY DEF LatestTold, ChildState, Alive, Untold

LEMMA StartedKeepsType ==
  ASSUME NEW b \in Backends, NEW cs \in Seq(ChildState)
  PROVE  /\ Started(b, cs) \in Seq(ChildState)
         /\ Len(Started(b, cs)) \in Len(cs) .. Len(cs) + 1
         /\ \A i \in DOMAIN Started(b, cs) :
               \/ i \in DOMAIN cs /\ Started(b, cs)[i] = cs[i]
               \/ i = Len(Started(b, cs))
BY DEF Started, ChildState, Alive, Untold

LEMMA ReplacedKeepsType ==
  ASSUME NEW cs \in Seq(ChildState), NEW i \in DOMAIN cs, NEW s \in ChildState
  PROVE  /\ [cs EXCEPT ![i] = s] \in Seq(ChildState)
         /\ Len([cs EXCEPT ![i] = s]) = Len(cs)
         /\ DOMAIN [cs EXCEPT ![i] = s] = DOMAIN cs
OBVIOUS

LEMMA Initially == Init => IInv
BY SupervisorAssumption, AllowanceGrows
   DEF Init, IInv, TypeOK, AppState, NothingYet, OneLife, OthersAreStopped, Budget

-----------------------------------------------------------------------------
(* Each kind of step. *)

LEMMA ReadyKeeps ==
  ASSUME IInv, Ready
  PROVE  IInv'
<1> USE SupervisorAssumption DEF IInv, Ready, history
<1>1. \A b \in Backends : /\ children'[b] \in Seq(ChildState)
                          /\ Len(children'[b]) <= 1
                          /\ DOMAIN children'[b] = 1 .. Len(children'[b])
  BY StartedKeepsType DEF NothingYet, TypeOK
<1>2. TypeOK'
  BY <1>1 DEF TypeOK, AppState
<1>3. OneLife'
  BY <1>1 DEF OneLife, NothingYet
<1>4. Budget'
  BY <1>1, Numbers DEF Budget, NothingYet
<1> QED BY <1>2, <1>3, <1>4 DEF NothingYet, OthersAreStopped

LEMMA RestartKeeps ==
  ASSUME IInv, NEW b \in Backends, RestartBackend(b)
  PROVE  IInv'
<1> USE SupervisorAssumption DEF IInv, RestartBackend
<1> DEFINE told == LatestTold(children[b])
<1>1. told \in Seq(ChildState) /\ Len(told) = Len(children[b])
  BY ToldKeepsType DEF TypeOK
<1>2. /\ children'[b] \in Seq(ChildState)
      /\ Len(children'[b]) \in Len(children[b]) .. Len(children[b]) + 1
  BY <1>1, StartedKeepsType DEF TypeOK
<1>3. TypeOK'
  BY <1>2 DEF TypeOK, AppState
<1>4. OneLife'
  <2> SUFFICES ASSUME ~Unfinished(b)
               PROVE  \A i \in DOMAIN children'[b] :
                         children'[b][i] # "gone" => i = Len(children'[b]) /\ timers[b] = 0
    BY DEF OneLife, TypeOK
  <2>1. timers[b] = 0 /\ \A i \in DOMAIN children[b] : children[b][i] = "gone"
    BY DEF Unfinished, TypeOK
  <2>2. \A i \in DOMAIN told : told[i] = "gone"
    BY <2>1, ToldKeepsType DEF TypeOK
  <2> QED BY <1>1, <2>1, <2>2, StartedKeepsType DEF TypeOK
<1>5. Budget'
  <2>1. Allowance[requests'[b]] = Allowance[requests[b]] + 1 + MAX_RETRIES
    BY Numbers DEF TypeOK
  <2>2. \A c \in Backends \ {b} :
           /\ children'[c] = children[c] /\ timers'[c] = timers[c]
           /\ requests'[c] = requests[c] /\ backendRetries'[c] = backendRetries[c]
    BY DEF TypeOK
  <2>3. timers'[b] = timers[b] /\ backendRetries'[b] = 0
    BY DEF TypeOK
  <2>4. Len(children'[b]) + timers[b] <= 1 + (Allowance[requests[b]] + 1 + MAX_RETRIES)
    <3> DEFINE n == Len(children[b])  m == Len(children'[b])  t == timers[b]
               a == Allowance[requests[b]]  r == backendRetries[b]
    <3>1. /\ n \in Nat /\ m \in n .. n + 1 /\ t \in Nat /\ a \in Nat
          /\ r \in Nat /\ r <= MAX_RETRIES /\ n + t <= 1 + a + r
      BY <1>2, Numbers DEF Budget
    <3>2. m + t <= 1 + (a + 1 + MAX_RETRIES)
      <4> HIDE DEF n, m, t, a, r
      <4> QED BY <3>1
    <3> QED BY <3>2
  <2>5. /\ Allowance[requests[b]] + 1 + MAX_RETRIES \in Nat
        /\ \A a \in Nat : 1 + a = 1 + a + 0
    BY Numbers
  <2>6. Len(children'[b]) + timers'[b] <= 1 + Allowance[requests'[b]] + backendRetries'[b]
    BY <2>1, <2>3, <2>4, <2>5
  <2> QED BY <2>2, <2>6 DEF Budget
<1>6. NothingYet' /\ OthersAreStopped'
  BY DEF NothingYet, OthersAreStopped
<1> QED BY <1>3, <1>4, <1>5, <1>6

LEMMA CallbackKeeps ==
  ASSUME IInv, NEW b \in Backends, NEW i \in DOMAIN children[b], ExitCallback(b, i)
  PROVE  IInv'
<1> USE SupervisorAssumption DEF IInv, ExitCallback, RetriesLeft, ScheduleRetry, history
<1>1. /\ children' = [children EXCEPT ![b] = [children[b] EXCEPT ![i] = "gone"]]
      /\ children'[b] \in Seq(ChildState)
      /\ Len(children'[b]) = Len(children[b])
      /\ DOMAIN children'[b] = DOMAIN children[b]
  BY ReplacedKeepsType DEF TypeOK, ChildState
<1>2. \/ UNCHANGED <<backendRetries, timers>>
      \/ /\ backendRetries' = [backendRetries EXCEPT ![b] = backendRetries[b] + 1]
         /\ timers' = [timers EXCEPT ![b] = timers[b] + 1]
         /\ backendRetries[b] + 1 \in 0 .. MAX_RETRIES
         /\ timers[b] + 1 \in Nat
  BY DEF TypeOK
<1>3. TypeOK'
  BY <1>1, <1>2 DEF TypeOK
<1>4. OneLife'
  BY <1>1 DEF OneLife, TypeOK
<1>5. OthersAreStopped'
  BY <1>1 DEF OthersAreStopped, TypeOK, Untold
<1>6. Budget'
  <2>1. Len(children'[b]) + timers'[b] <= 1 + Allowance[requests[b]] + backendRetries'[b]
    <3>1. Len(children[b]) + timers[b] <= 1 + Allowance[requests[b]] + backendRetries[b]
      BY DEF Budget
    <3>2. \/ timers'[b] = timers[b] /\ backendRetries'[b] = backendRetries[b]
          \/ timers'[b] = timers[b] + 1 /\ backendRetries'[b] = backendRetries[b] + 1
      BY <1>2 DEF TypeOK
    <3> DEFINE n == Len(children[b])  t == timers[b]
               a == Allowance[requests[b]]  r == backendRetries[b]
    <3>3. n \in Nat /\ t \in Nat /\ a \in Nat /\ r \in Nat /\ n + t <= 1 + a + r
      BY <3>1, Numbers
    <3>4. n + (t + 1) <= 1 + a + (r + 1)
      <4> HIDE DEF n, t, a, r
      <4> QED BY <3>3
    <3> QED BY <1>1, <3>1, <3>2, <3>4
  <2>2. \A c \in Backends \ {b} :
           /\ children'[c] = children[c] /\ timers'[c] = timers[c]
           /\ backendRetries'[c] = backendRetries[c]
    BY <1>1, <1>2 DEF TypeOK
  <2> QED BY <2>1, <2>2, Numbers DEF Budget
<1> QED BY <1>3, <1>4, <1>5, <1>6 DEF NothingYet, EventLoop

LEMMA RetryKeeps ==
  ASSUME IInv, NEW b \in Backends, Retry(b)
  PROVE  IInv'
<1> USE SupervisorAssumption DEF IInv, Retry
<1>1. /\ children'[b] \in Seq(ChildState)
      /\ Len(children'[b]) \in Len(children[b]) .. Len(children[b]) + 1
  BY StartedKeepsType DEF TypeOK
<1>2. TypeOK'
  BY <1>1 DEF TypeOK
<1>3. OneLife'
  BY <1>1, StartedKeepsType DEF OneLife, TypeOK
<1>4. OthersAreStopped'
  BY DEF OthersAreStopped, EventLoop, TypeOK
<1>5. Budget'
  <2>1. timers'[b] = timers[b] - 1
    BY DEF TypeOK
  <2>2. \A c \in Backends \ {b} : children'[c] = children[c] /\ timers'[c] = timers[c]
    BY DEF TypeOK
  <2>3. Len(children[b]) + timers[b] <= 1 + Allowance[requests[b]] + backendRetries[b]
    BY DEF Budget
  <2>4. Len(children'[b]) + timers'[b] <= 1 + Allowance[requests[b]] + backendRetries[b]
    <3>1. /\ Len(children[b]) \in Nat /\ Len(children'[b]) \in Nat /\ timers[b] \in Nat
          /\ Allowance[requests[b]] \in Nat /\ backendRetries[b] \in Nat
      BY <1>1, Numbers
    <3>2. Len(children'[b]) <= Len(children[b]) + 1
      BY <1>1, <3>1
    <3> DEFINE n == Len(children[b])  m == Len(children'[b])  t == timers[b]
               a == Allowance[requests[b]]  r == backendRetries[b]
    <3>3. /\ n \in Nat /\ m \in Nat /\ t \in Nat /\ a \in Nat /\ r \in Nat
          /\ n + t <= 1 + a + r /\ m <= n + 1
      BY <2>3, <3>1, <3>2
    <3>4. m + (t - 1) <= 1 + a + r
      <4> HIDE DEF n, m, t, a, r
      <4> QED BY <3>3
    <3> QED BY <2>1, <3>4
  <2> QED BY <2>2, <2>4 DEF Budget
<1> QED BY <1>2, <1>3, <1>4, <1>5 DEF NothingYet, EventLoop

LEMMA StopAllKeeps ==
  ASSUME IInv, QuitPrevented \/ Quit
  PROVE  IInv'
<1> USE SupervisorAssumption DEF IInv, QuitPrevented, Quit, StopAll, history
<1>1. \A b \in Backends :
        /\ children'[b] \in Seq(ChildState)
        /\ Len(children'[b]) = Len(children[b])
        /\ DOMAIN children'[b] = DOMAIN children[b]
        /\ \A i \in DOMAIN children[b] :
              /\ children[b][i] = "gone" => children'[b][i] = "gone"
              /\ children'[b][i] \in Untold => i # Len(children[b])
  BY ToldKeepsType DEF TypeOK
<1>2. TypeOK'
  BY <1>1 DEF TypeOK, AppState
<1>3. OneLife'
  BY <1>1 DEF OneLife
<1>4. OthersAreStopped'
  <2>1. \A b \in Backends \ hasty : \A i \in DOMAIN children[b] : children'[b][i] \notin Untold
    BY <1>1 DEF OneLife, Untold
  <2> QED BY <1>1, <2>1 DEF OthersAreStopped
<1>5. Budget'
  BY <1>1 DEF Budget
<1> QED BY <1>2, <1>3, <1>4, <1>5 DEF NothingYet

LEMMA ChildKeeps ==
  ASSUME IInv, NEW b \in Backends, NEW i \in DOMAIN children[b], ChildStep(b, i)
  PROVE  IInv'
<1> USE DEF IInv, history
<1>1. PICK to \in ChildState \ {"gone"} :
        /\ children' = [children EXCEPT ![b][i] = to]
        /\ children[b][i] # "gone"
        /\ to \in Untold => children[b][i] \in Untold
  BY DEF ChildStep, Listen, Overflow, Fail, ExitCleanly, Becomes, ChildState, Alive, Untold
<1>2. UNCHANGED <<app, backendRetries, timers, requests, quits, hasty, late>>
  BY DEF ChildStep, Listen, Overflow, Fail, ExitCleanly, Becomes
<1>3. /\ children' = [children EXCEPT ![b] = [children[b] EXCEPT ![i] = to]]
      /\ children'[b] \in Seq(ChildState)
      /\ Len(children'[b]) = Len(children[b])
      /\ DOMAIN children'[b] = DOMAIN children[b]
  BY <1>1, ReplacedKeepsType DEF TypeOK
<1>4. TypeOK'
  BY <1>2, <1>3 DEF TypeOK
<1>5. OneLife'
  BY <1>1, <1>2, <1>3 DEF OneLife, TypeOK
<1>6. OthersAreStopped'
  BY <1>1, <1>2, <1>3 DEF OthersAreStopped, TypeOK
<1>7. Budget'
  BY <1>2, <1>3 DEF Budget, TypeOK
<1>8. NothingYet'
  BY <1>1, <1>2 DEF NothingYet
<1> QED BY <1>4, <1>5, <1>6, <1>7, <1>8

LEMMA StepKeeps == IInv /\ [Next]_vars => IInv'
<1> SUFFICES ASSUME IInv, [Next]_vars
             PROVE  IInv'
  OBVIOUS
<1>1. CASE ShowWindow
  BY <1>1 DEF ShowWindow, history, IInv, TypeOK, AppState, NothingYet, OneLife, OthersAreStopped, Budget
<1>2. CASE End
  <2>1. TypeOK'
    BY <1>2 DEF End, history, IInv, TypeOK, AppState
  <2>2. OneLife' /\ OthersAreStopped' /\ NothingYet'
    BY <1>2 DEF End, history, IInv, TypeOK, NothingYet, OneLife, OthersAreStopped
  <2>3. Budget'
    <3>1. \A b \in Backends : timers'[b] = 0
      BY <1>2 DEF End
    <3> QED BY <1>2, <3>1, Numbers DEF End, IInv, Budget
  <2> QED BY <2>1, <2>2, <2>3 DEF IInv
<1>3. CASE UNCHANGED vars
  BY <1>3 DEF vars, IInv, TypeOK, NothingYet, OneLife, OthersAreStopped, Budget
<1> QED
  BY <1>1, <1>2, <1>3, ReadyKeeps, StopAllKeeps, RestartKeeps, CallbackKeeps, RetryKeeps, ChildKeeps
     DEF Next, Callbacks

LEMMA Invariance == Spec => []IInv
BY Initially, StepKeeps, PTL DEF Spec

-----------------------------------------------------------------------------
(* Children, timers and counters always have their types, and no backend is *)
(* given more than MAX_RETRIES retries between two requests.                *)
THEOREM TypeCorrect == Spec => []TypeOK
BY Invariance, PTL DEF IInv

(* Without a hasty restart, no child is ever out of the application's reach. *)
THEOREM ChildrenInReach == Spec => []OnlyHastyRestartsLoseChildren
<1>1. IInv => OnlyHastyRestartsLoseChildren
  BY DEF IInv, TypeOK, OneLife, OnlyHastyRestartsLoseChildren, Untold
<1> QED BY <1>1, Invariance, PTL

(* The application leaves no other child running untold behind. *)
THEOREM StoppedAtQuit == Spec => []OthersAreStopped
BY Invariance, PTL DEF IInv

(* No backend is started more often than the requests and retries allow. *)
THEOREM StartsLimited == Spec => []StartsBounded
<1>1. IInv => StartsBounded
  <2> SUFFICES ASSUME IInv, NEW b \in Backends
               PROVE  Len(children[b]) + timers[b] <= (1 + requests[b]) * (1 + MAX_RETRIES)
    BY DEF StartsBounded
  <2>1. Allowance[requests[b] + 1] = (requests[b] + 1) * (1 + MAX_RETRIES)
    BY Numbers DEF IInv, Allowance
  <2>2. 1 + requests[b] = requests[b] + 1
    BY Numbers DEF IInv
  <2>3. Len(children[b]) + timers[b] <= 1 + Allowance[requests[b]] + backendRetries[b]
    BY DEF IInv, Budget
  <2>4. Len(children[b]) + timers[b] <= Allowance[requests[b] + 1]
    <3> DEFINE n == Len(children[b])  t == timers[b]
               a == Allowance[requests[b]]  r == backendRetries[b]
               m == MAX_RETRIES
    <3>1. /\ n \in Nat /\ t \in Nat /\ a \in Nat /\ r \in Nat /\ m \in Nat
          /\ r <= m /\ n + t <= 1 + a + r
      BY <2>3, Numbers, SupervisorAssumption DEF IInv
    <3>2. n + t <= a + 1 + m
      <4> HIDE DEF n, t, a, r, m
      <4> QED BY <3>1
    <3>3. Allowance[requests[b] + 1] = a + 1 + m
      BY Numbers DEF IInv
    <3> QED BY <3>2, <3>3
  <2> QED BY <2>1, <2>2, <2>4
<1> QED BY <1>1, Invariance, PTL
=============================================================================
