---------------------------- MODULE DaemonProofs ----------------------------
(***************************************************************************)
(* Proofs about the engines of the C daemon, each by itself: the detection *)
(* of failed logins, for any addresses, sizes of the two arrays and length *)
(* of the log; the firewall, for any callers and addresses; and the files, *)
(* for any paths, contents and size of the array.                          *)
(***************************************************************************)
EXTENDS MCDaemon, FiniteSetTheorems, SequenceTheorems, TLAPS

(* Failed logins. *)

(* The count of an entry covers the failures of this scan, and is nothing   *)
(* else where no earlier scan has counted; one that has come to the         *)
(* threshold has been listed as soon as this scan met its address.          *)
Counted(i) ==
    LET a == suspicious_ips[i].ip  n == suspicious_ips[i].failure_count IN
    /\ failures[a] <= n
    /\ a \notin earlier => n = failures[a]
    /\ n >= Threshold /\ failures[a] > 0 => IsListed(a) \/ Len(listed) = MAX_LISTED

CountInv == \A i \in DOMAIN suspicious_ips : Counted(i)

(* Only a full table passes an address over. *)
UnknownInv ==
    \A a \in Addresses : Unknown(a) => Len(suspicious_ips) = MAX_IPS \/ failures[a] = 0

(* A listed address has an entry, and its count says why it is listed. *)
ListInv ==
    \A a \in Addresses :
        IsListed(a) =>
            /\ failures[a] > 0
            /\ \E i \in DOMAIN suspicious_ips :
                  Known(a, i) /\ suspicious_ips[i].failure_count >= Threshold

IInv == TypeOK /\ CountInv /\ UnknownInv /\ ListInv

LEMMA Initially == Init => IInv
<1> SUFFICES ASSUME Init
             PROVE  IInv
  OBVIOUS
<1>1. /\ DOMAIN suspicious_ips = {} /\ Len(suspicious_ips) = 0
      /\ suspicious_ips \in Seq(SuspiciousIp)
  BY DEF Init
<1>2. /\ DOMAIN listed = {} /\ Len(listed) = 0
      /\ listed \in Seq(Addresses) /\ unread \in Seq(Addresses)
  BY DEF Init
<1>3. \A a \in Addresses : failures[a] = 0
  BY DEF Init
<1>4. /\ failures \in [Addresses -> 0 .. Threshold]
      /\ scanning \in BOOLEAN /\ earlier \subseteq Addresses
  <2>1. failures \in [Addresses -> 0 .. Threshold]
    BY DEF Init, Threshold
  <2>2. scanning \in BOOLEAN /\ earlier \subseteq Addresses
    BY DEF Init
  <2> QED BY <2>1, <2>2
<1>5. TypeOK
  BY <1>1, <1>2, <1>4, HidsAssumption DEF TypeOK
<1>6. \A a \in Addresses : ~IsListed(a)
  BY <1>2 DEF IsListed
<1> QED BY <1>1, <1>3, <1>5, <1>6 DEF IInv, CountInv, UnknownInv, ListInv

LEMMA Entries ==
  ASSUME TypeOK
  PROVE  /\ DOMAIN suspicious_ips = 1 .. Len(suspicious_ips)
         /\ \A i \in DOMAIN suspicious_ips :
               /\ suspicious_ips[i] \in SuspiciousIp
               /\ suspicious_ips[i].ip \in Addresses
               /\ suspicious_ips[i].failure_count \in 0 .. Threshold
<1>1. \A i \in DOMAIN suspicious_ips : suspicious_ips[i] \in SuspiciousIp
  BY DEF TypeOK
<1> QED BY <1>1 DEF TypeOK, SuspiciousIp

LEMMA PlusOne ==
  ASSUME NEW n \in 0 .. Threshold
  PROVE  Plus1(n) \in 1 .. Threshold /\ (n < Threshold => Plus1(n) = n + 1)
                                     /\ (n >= Threshold => Plus1(n) = Threshold)
BY DEF Plus1, Threshold

(* Listing keeps what is listed; it adds the address at the threshold. *)
LEMMA ListingAdds ==
  ASSUME TypeOK, NEW a \in Addresses, NEW n \in 0 .. Threshold, listed' = Listing(a, n)
  PROVE  /\ listed' \in Seq(Addresses) /\ Len(listed') <= MAX_LISTED
         /\ \A c \in Addresses : IsListed(c) => IsListed(c)'
         /\ \A c \in Addresses : IsListed(c)' => IsListed(c) \/ (c = a /\ n >= Threshold)
         /\ Len(listed) = MAX_LISTED => Len(listed') = MAX_LISTED
         /\ n >= Threshold => IsListed(a)' \/ Len(listed') = MAX_LISTED
<1> USE HidsAssumption DEF TypeOK, Listing, IsListed
<1>1. CASE listed' = listed
  BY <1>1 DEF Threshold
<1>2. CASE /\ listed' = Append(listed, a)
           /\ n >= Threshold /\ Len(listed) < MAX_LISTED
  <2>1. /\ listed' \in Seq(Addresses) /\ Len(listed') = Len(listed) + 1
        /\ DOMAIN listed' = 1 .. Len(listed) + 1
        /\ \A j \in DOMAIN listed : j \in DOMAIN listed' /\ listed'[j] = listed[j]
        /\ listed'[Len(listed) + 1] = a
        /\ DOMAIN listed = 1 .. Len(listed)
    BY <1>2
  <2>2. \A c \in Addresses : IsListed(c) => IsListed(c)'
    BY <2>1
  <2>3. \A c \in Addresses : IsListed(c)' => IsListed(c) \/ c = a
    BY <2>1
  <2>4. IsListed(a)'
    BY <2>1
  <2>5. Len(listed') <= MAX_LISTED /\ Len(listed) # MAX_LISTED
    <3>1. Len(listed) \in Nat /\ MAX_LISTED \in Nat
      OBVIOUS
    <3>2. Len(listed') = Len(listed) + 1 /\ Len(listed) < MAX_LISTED
      BY <1>2, <2>1
    <3> HIDE DEF TypeOK, Listing, IsListed
    <3> QED BY <3>1, <3>2
  <2> QED BY <1>2, <2>1, <2>2, <2>3, <2>4, <2>5
<1> QED BY <1>1, <1>2

LEMMA KnownKeeps ==
  ASSUME IInv, NEW a \in Addresses, NEW i \in DOMAIN suspicious_ips, LineOfKnown(a, i)
  PROVE  IInv'
<1> DEFINE n == suspicious_ips[i].failure_count
<1> USE DEF IInv, LineOfKnown, NextLine
<1>1. /\ suspicious_ips[i].ip = a /\ n \in 0 .. Threshold
      /\ failures[a] \in 0 .. Threshold
  BY Entries DEF Known, TypeOK
<1>2. /\ suspicious_ips' = [suspicious_ips EXCEPT ![i] = [ip |-> a, failure_count |-> Plus1(n)]]
      /\ suspicious_ips' \in Seq(SuspiciousIp)
      /\ Len(suspicious_ips') = Len(suspicious_ips)
      /\ DOMAIN suspicious_ips' = DOMAIN suspicious_ips
      /\ \A k \in DOMAIN suspicious_ips : suspicious_ips'[k].ip = suspicious_ips[k].ip
      /\ \A k \in DOMAIN suspicious_ips \ {i} : suspicious_ips'[k] = suspicious_ips[k]
      /\ suspicious_ips'[i].failure_count = Plus1(n)
  <2>1. suspicious_ips[i] = [ip |-> a, failure_count |-> n]
    BY <1>1, Entries DEF SuspiciousIp
  <2>2. suspicious_ips' = [suspicious_ips EXCEPT ![i] = [ip |-> a, failure_count |-> Plus1(n)]]
    <3>1. [suspicious_ips[i] EXCEPT !.failure_count = Plus1(suspicious_ips[i].failure_count)]
             = [ip |-> a, failure_count |-> Plus1(n)]
      BY <2>1
    <3>2. suspicious_ips' = [suspicious_ips EXCEPT ![i] =
             [suspicious_ips[i] EXCEPT !.failure_count = Plus1(suspicious_ips[i].failure_count)]]
      BY DEF CountKnown
    <3> QED BY <3>1, <3>2
  <2>3. [ip |-> a, failure_count |-> Plus1(n)] \in SuspiciousIp
    BY <1>1, PlusOne DEF SuspiciousIp, Threshold
  <2> QED BY <1>1, <2>2, <2>3 DEF TypeOK
<1>3. /\ failures' = [failures EXCEPT ![a] = Plus1(failures[a])]
      /\ \A c \in Addresses \ {a} : failures'[c] = failures[c]
      /\ failures'[a] = Plus1(failures[a])
  BY DEF TypeOK
<1>4. /\ listed' \in Seq(Addresses) /\ Len(listed') <= MAX_LISTED
      /\ \A c \in Addresses : IsListed(c) => IsListed(c)'
      /\ \A c \in Addresses : IsListed(c)' => IsListed(c) \/ (c = a /\ Plus1(n) >= Threshold)
      /\ Len(listed) = MAX_LISTED => Len(listed') = MAX_LISTED
      /\ Plus1(n) >= Threshold => IsListed(a)' \/ Len(listed') = MAX_LISTED
  <2>1. Plus1(n) \in 0 .. Threshold
    BY <1>1, PlusOne DEF Threshold
  <2> QED BY <2>1, ListingAdds
<1>5. TypeOK'
  <2>1. failures' \in [Addresses -> 0 .. Threshold]
    BY <1>1, <1>3, PlusOne DEF TypeOK, Threshold
  <2>2. unread' \in Seq(Addresses)
    BY DEF TypeOK
  <2> QED BY <1>2, <1>4, <2>1, <2>2 DEF TypeOK
<1>6. CountInv'
  <2> SUFFICES ASSUME NEW k \in DOMAIN suspicious_ips
               PROVE  LET c == suspicious_ips[k].ip  m == suspicious_ips'[k].failure_count IN
                      /\ failures'[c] <= m
                      /\ c \notin earlier => m = failures'[c]
                      /\ m >= Threshold /\ failures'[c] > 0 => IsListed(c)' \/ Len(listed') = MAX_LISTED
    BY <1>2 DEF CountInv, Counted
  <2>1. CASE k = i
    <3>1. failures[a] <= n /\ (a \notin earlier => n = failures[a])
      BY <1>1 DEF CountInv, Counted
    <3>2. Plus1(failures[a]) <= Plus1(n)
      BY <1>1, <3>1 DEF Plus1, Threshold
    <3> QED BY <2>1, <1>1, <1>2, <1>3, <1>4, <3>1, <3>2
  <2>2. CASE k # i
    <3>1. suspicious_ips[k].ip \in Addresses \ {a}
      BY <2>2, <1>1, Entries DEF TypeOK
    <3> QED BY <2>2, <3>1, <1>2, <1>3, <1>4 DEF CountInv, Counted
  <2> QED BY <2>1, <2>2
<1>7. UnknownInv'
  <2>1. \A c \in Addresses : Unknown(c)' => Unknown(c) /\ c # a
    BY <1>1, <1>2 DEF Unknown, Known
  <2> QED BY <2>1, <1>2, <1>3 DEF UnknownInv
<1>8. ListInv'
  <2> SUFFICES ASSUME NEW c \in Addresses, IsListed(c)'
               PROVE  /\ failures'[c] > 0
                      /\ \E k \in DOMAIN suspicious_ips' :
                            Known(c, k)' /\ suspicious_ips'[k].failure_count >= Threshold
    BY DEF ListInv
  <2>1. failures'[a] > 0
    BY <1>1, <1>3, PlusOne DEF Threshold
  <2>2. CASE c = a /\ Plus1(n) >= Threshold
    BY <2>1, <2>2, <1>1, <1>2 DEF Known
  <2>3. CASE IsListed(c)
    <3>1. PICK k \in DOMAIN suspicious_ips :
             Known(c, k) /\ suspicious_ips[k].failure_count >= Threshold
      BY <2>3 DEF ListInv
    <3>2. suspicious_ips'[k].failure_count >= Threshold
      BY <3>1, <1>1, <1>2, PlusOne DEF Threshold
    <3> QED BY <2>1, <2>3, <3>1, <3>2, <1>2, <1>3 DEF ListInv, Known
  <2> QED BY <2>2, <2>3, <1>4
<1> QED BY <1>5, <1>6, <1>7, <1>8

LEMMA NewKeeps ==
  ASSUME IInv, NEW a \in Addresses, LineOfNew(a)
  PROVE  IInv'
<1> DEFINE e == [ip |-> a, failure_count |-> 1]
           last == Len(suspicious_ips) + 1
<1> USE DEF IInv, LineOfNew, NextLine
<1>1. /\ suspicious_ips' = Append(suspicious_ips, e) /\ e \in SuspiciousIp
      /\ Len(suspicious_ips) \in Nat /\ Len(suspicious_ips) < MAX_IPS
  BY DEF Add, Plus1, Threshold, SuspiciousIp, TypeOK
<1>2. /\ suspicious_ips' \in Seq(SuspiciousIp)
      /\ Len(suspicious_ips') = last
      /\ DOMAIN suspicious_ips' = 1 .. last /\ DOMAIN suspicious_ips = 1 .. last - 1
      /\ \A k \in DOMAIN suspicious_ips : suspicious_ips'[k] = suspicious_ips[k]
      /\ suspicious_ips'[last] = e
  BY <1>1 DEF TypeOK
<1>3. /\ \A c \in Addresses \ {a} : failures'[c] = failures[c]
      /\ failures[a] = 0 /\ failures'[a] = 1
      /\ failures' \in [Addresses -> 0 .. Threshold]
  <2>1. failures[a] = 0
    BY <1>1 DEF UnknownInv
  <2> QED BY <2>1 DEF TypeOK, Plus1, Threshold
<1>4. listed' = listed
  BY DEF Listing, Plus1, Threshold
<1>5. \A k \in DOMAIN suspicious_ips : suspicious_ips[k].ip \in Addresses \ {a}
  BY Entries DEF Unknown, Known
<1>6. TypeOK'
  <2>1. unread' \in Seq(Addresses)
    BY DEF TypeOK
  <2>2. Len(suspicious_ips') <= MAX_IPS
    BY <1>1, <1>2, HidsAssumption
  <2>3. \A i, j \in DOMAIN suspicious_ips' :
           suspicious_ips'[i].ip = suspicious_ips'[j].ip => i = j
    BY <1>1, <1>2, <1>5 DEF TypeOK
  <2> QED BY <1>2, <1>3, <1>4, <2>1, <2>2, <2>3 DEF TypeOK
<1>7. CountInv'
  <2> SUFFICES ASSUME NEW k \in DOMAIN suspicious_ips'
               PROVE  Counted(k)'
    BY DEF CountInv
  <2>1. earlier' = earlier
    OBVIOUS
  <2>2. CASE k = last
    BY <2>1, <2>2, <1>2, <1>3 DEF Counted, Threshold
  <2>3. CASE k \in DOMAIN suspicious_ips
    <3>1. suspicious_ips'[k] = suspicious_ips[k] /\ suspicious_ips[k].ip \in Addresses \ {a}
      BY <2>3, <1>2, <1>5
    <3>2. failures'[suspicious_ips[k].ip] = failures[suspicious_ips[k].ip]
      BY <3>1, <1>3
    <3>3. Counted(k)
      BY <2>3 DEF CountInv
    <3> HIDE DEF IInv, LineOfNew, NextLine
    <3> QED BY <2>1, <3>1, <3>2, <3>3, <1>4 DEF Counted, IsListed
  <2> QED BY <2>2, <2>3, <1>1, <1>2
<1>8. UnknownInv'
  <2>1. \A c \in Addresses : Unknown(c)' => Unknown(c) /\ c # a
    BY <1>1, <1>2 DEF Unknown, Known
  <2> QED BY <2>1, <1>1, <1>3 DEF UnknownInv
<1>9. ListInv'
  <2>1. \A c \in Addresses : IsListed(c)' => IsListed(c) /\ c # a
    BY <1>3, <1>4 DEF ListInv, IsListed
  <2>2. \A c \in Addresses : \A k \in DOMAIN suspicious_ips : Known(c, k) => Known(c, k)'
    BY <1>1, <1>2 DEF Known
  <2> QED BY <2>1, <2>2, <1>1, <1>2, <1>3 DEF ListInv
<1> QED BY <1>6, <1>7, <1>8, <1>9

LEMMA IgnoredKeeps ==
  ASSUME IInv, NEW a \in Addresses, LineOfIgnored(a)
  PROVE  IInv'
<1> USE DEF IInv, LineOfIgnored, NextLine
<1>1. /\ \A c \in Addresses \ {a} : failures'[c] = failures[c]
      /\ failures' \in [Addresses -> 0 .. Threshold]
      /\ failures'[a] > 0
  <2>1. failures[a] \in 0 .. Threshold
    BY DEF TypeOK
  <2>2. Plus1(failures[a]) \in 1 .. Threshold
    BY <2>1, PlusOne
  <2> QED BY <2>2 DEF TypeOK, Threshold
<1>2. TypeOK' /\ Len(suspicious_ips) = MAX_IPS
  BY <1>1, HidsAssumption DEF TypeOK
<1>3. \A k \in DOMAIN suspicious_ips : suspicious_ips[k].ip \in Addresses \ {a}
  BY Entries DEF Unknown, Known
<1>4. CountInv'
  BY <1>1, <1>3 DEF CountInv, Counted, IsListed
<1>5. UnknownInv'
  BY <1>2 DEF UnknownInv
<1>6. ListInv'
  BY <1>1 DEF ListInv, IsListed, Known
<1> QED BY <1>2, <1>4, <1>5, <1>6

LEMMA ReadKeeps ==
  ASSUME IInv, ReadLog
  PROVE  IInv'
<1> USE DEF IInv, ReadLog
<1>1. TypeOK'
  BY HidsAssumption DEF TypeOK, Logs, Threshold
<1>2. \A c \in Addresses : failures'[c] = 0 /\ ~IsListed(c)'
  BY DEF IsListed
<1>3. CountInv'
  <2> SUFFICES ASSUME NEW k \in DOMAIN suspicious_ips
               PROVE  LET c == suspicious_ips[k].ip  m == suspicious_ips[k].failure_count IN
                      0 <= m /\ (c \notin earlier' => m = 0)
    BY <1>2, Entries DEF CountInv, Counted
  <2>1. /\ suspicious_ips[k].ip \in Addresses
        /\ suspicious_ips[k].failure_count \in 0 .. Threshold
        /\ failures[suspicious_ips[k].ip] \in 0 .. Threshold
    BY Entries DEF TypeOK
  <2> QED BY <2>1 DEF CountInv, Counted, Threshold
<1> QED BY <1>1, <1>2, <1>3 DEF UnknownInv, ListInv

LEMMA StepKeeps == IInv /\ [Next]_vars => IInv'
<1> SUFFICES ASSUME IInv, [Next]_vars
             PROVE  IInv'
  OBVIOUS
<1>1. CASE UNCHANGED vars \/ EndScan
  <2>1. /\ UNCHANGED <<unread, suspicious_ips, listed, failures, earlier>>
        /\ scanning' \in BOOLEAN
    BY <1>1 DEF EndScan, vars, IInv, TypeOK
  <2>2. TypeOK'
    BY <2>1 DEF IInv, TypeOK
  <2>3. CountInv'
    BY <2>1 DEF IInv, CountInv, Counted, IsListed
  <2>4. UnknownInv'
    BY <2>1 DEF IInv, UnknownInv, Unknown, Known
  <2>5. ListInv'
    BY <2>1 DEF IInv, ListInv, IsListed, Known
  <2> QED BY <2>2, <2>3, <2>4, <2>5 DEF IInv
<1>2. CASE Restart
  <2>1. Init'
    BY <1>2 DEF Restart, Init
  <2> QED BY <2>1, Initially, PTL
<1> QED BY <1>1, <1>2, ReadKeeps, KnownKeeps, NewKeeps, IgnoredKeeps DEF Next, Line

LEMMA Invariance == Spec => []IInv
BY Initially, StepKeeps, PTL DEF Spec

-----------------------------------------------------------------------------
(* Indices stay in their arrays, and no address has two entries. *)
THEOREM TypeCorrect == Spec => []TypeOK
BY Invariance, PTL DEF IInv

(* No size of the arrays but a full one makes a scan miss an attacker. *)
THEOREM NoAttackerMissed == Spec => []AttackersAreListed
<1>1. IInv => AttackersAreListed
  BY HidsAssumption DEF IInv, TypeOK, CountInv, Counted, UnknownInv, AttackersAreListed, Unknown, Known, Threshold
<1> QED BY <1>1, Invariance, PTL

(* Whoever is listed without three failures in the log owes it to earlier scans. *)
THEOREM NobodyListedWithoutCause == Spec => []ListedIsExplained
<1>1. IInv => ListedIsExplained
  BY DEF IInv, TypeOK, CountInv, Counted, ListInv, ListedIsExplained, Known, Threshold
<1> QED BY <1>1, Invariance, PTL

-----------------------------------------------------------------------------
Rules == Hosts \cup {"established"}

LEMMA LeastNumber ==
  ASSUME NEW S, S \subseteq Nat, S # {}
  PROVE  \E n \in S : \A i \in S : n <= i
<1> DEFINE Less == {ss \in Nat \X Nat : ss[1] < ss[2]}
<1>1. IsWellFoundedOn(Less, Nat)
  BY NatLessThanWellFounded DEF OpToRel
<1> HIDE DEF Less
<1>2. \E n \in S : \A i \in S : ~ (<<i, n>> \in Less)
  BY <1>1, WFMin, Zenon
<1>3. PICK n \in S : \A i \in S : ~ (<<i, n>> \in Less)
  BY <1>2
<1>4. ASSUME NEW i \in S PROVE n <= i
  <2>1. ~ (<<i, n>> \in Less) /\ i \in Nat /\ n \in Nat
    BY <1>3
  <2> QED BY <2>1 DEF Less
<1> QED BY <1>4

(* What iptables -D takes out is the first rule of its address.             *)
LEMMA FirstRemoved ==
  ASSUME NEW s \in Seq(Rules), NEW a, \E i \in DOMAIN s : s[i] = a
  PROVE  /\ Wall!RemoveFirst(s, a) \in Seq(Rules)
         /\ Len(Wall!RemoveFirst(s, a)) = Len(s) - 1
         /\ \E k \in 1 .. Len(s) :
               /\ s[k] = a
               /\ \A i \in 1 .. Len(s) - 1 :
                     Wall!RemoveFirst(s, a)[i] = IF i < k THEN s[i] ELSE s[i + 1]
<1> DEFINE I == {i \in 1 .. Len(s) : s[i] = a}
           m == Wall!Min(I)
           before == SubSeq(s, 1, m - 1)
           after == SubSeq(s, m + 1, Len(s))
<1>1. I # {} /\ I \in SUBSET Nat /\ DOMAIN s = 1 .. Len(s) /\ Len(s) \in Nat
  OBVIOUS
<1>2. \E n \in I : \A i \in I : n <= i
  <2> HIDE DEF I
  <2> QED BY <1>1, LeastNumber
<1>3. m \in I
  BY <1>2 DEF Wall!Min
<1>4. Wall!RemoveFirst(s, a) = before \o after
  BY <1>1 DEF Wall!RemoveFirst, Wall!RemoveAt, Wall!SelectInSeq
<1> HIDE DEF m
<1>5. m \in 1 .. Len(s) /\ s[m] = a
  BY <1>3
<1>6. \A i \in 1 .. Len(s) : s[i] \in Rules
  OBVIOUS
<1>7. /\ before \in Seq(Rules) /\ Len(before) = m - 1
      /\ \A i \in 1 .. m - 1 : before[i] = s[i]
  BY <1>1, <1>5, <1>6
<1>8. /\ after \in Seq(Rules) /\ Len(after) = Len(s) - m
      /\ \A i \in 1 .. Len(s) - m : after[i] = s[m + i]
  <2>1. m + 1 \in Int /\ Len(s) \in Int /\ \A i \in m + 1 .. Len(s) : s[i] \in Rules
    BY <1>1, <1>5, <1>6
  <2>2. /\ after \in Seq(Rules)
        /\ Len(after) = IF m + 1 <= Len(s) THEN Len(s) - (m + 1) + 1 ELSE 0
        /\ \A i \in 1 .. Len(s) - (m + 1) + 1 : after[i] = s[(m + 1) + i - 1]
    <3> HIDE DEF Rules
    <3> QED BY <2>1, SubSeqProperties
  <2>3. \A i \in 1 .. Len(s) - m : i \in 1 .. Len(s) - (m + 1) + 1 /\ (m + 1) + i - 1 = m + i
    BY <1>1, <1>5
  <2>4. Len(after) = Len(s) - m
    <3> DEFINE l == Len(after)
    <3>1. l = IF m + 1 <= Len(s) THEN Len(s) - (m + 1) + 1 ELSE 0
      BY <2>2
    <3>2. m \in Nat /\ 1 <= m /\ m <= Len(s) /\ Len(s) \in Nat
      BY <1>1, <1>5
    <3> HIDE DEF l, I
    <3>3. l = Len(s) - m
      BY <3>1, <3>2
    <3> QED BY <3>3 DEF l
  <2> QED BY <2>2, <2>3, <2>4
<1> HIDE DEF before, after
<1>9. /\ before \o after \in Seq(Rules) /\ Len(before \o after) = Len(s) - 1
      /\ \A i \in 1 .. Len(s) - 1 :
            (before \o after)[i] = IF i < m THEN s[i] ELSE s[i + 1]
  <2>1. /\ before \o after \in Seq(Rules)
        /\ Len(before \o after) = Len(before) + Len(after)
    BY <1>7, <1>8, ConcatProperties
  <2>2. \A i \in 1 .. Len(before) + Len(after) :
           (before \o after)[i] = IF i <= Len(before) THEN before[i] ELSE after[i - Len(before)]
    BY <1>7, <1>8, ConcatProperties
  <2>3. Len(before) + Len(after) = Len(s) - 1
    BY <1>1, <1>5, <1>7, <1>8
  <2>4. ASSUME NEW i \in 1 .. Len(s) - 1
        PROVE  (before \o after)[i] = IF i < m THEN s[i] ELSE s[i + 1]
    <3>1. CASE i < m
      BY <1>1, <1>5, <1>7, <2>2, <2>3, <3>1
    <3>2. CASE ~(i < m)
      <4>1. i - (m - 1) \in 1 .. Len(s) - m /\ m + (i - (m - 1)) = i + 1
        BY <1>1, <1>5, <3>2
      <4>2. (before \o after)[i] = after[i - (m - 1)]
        BY <1>1, <1>5, <1>7, <2>2, <2>3, <3>2
      <4> QED BY <1>8, <3>2, <4>1, <4>2
    <3> QED BY <3>1, <3>2
  <2> QED BY <2>1, <2>3, <2>4
<1> QED BY <1>4, <1>5, <1>9

(* The rules of an address, and how many they are.                           *)
RulesOf(s, a) == {i \in DOMAIN s : s[i] = a}
Number(s, a) == Cardinality(RulesOf(s, a))

LEMMA NumberType ==
  ASSUME NEW s \in Seq(Rules), NEW a
  PROVE  /\ IsFiniteSet(RulesOf(s, a))
         /\ Number(s, a) \in Nat
         /\ Number(s, a) = 0 <=> \A i \in DOMAIN s : s[i] # a
<1>1. Len(s) \in Nat /\ DOMAIN s = 1 .. Len(s)
  OBVIOUS
<1>2. IsFiniteSet(1 .. Len(s))
  BY <1>1, FS_Interval
<1>3. RulesOf(s, a) \subseteq 1 .. Len(s)
  BY <1>1 DEF RulesOf
<1>4. IsFiniteSet(RulesOf(s, a))
  BY <1>2, <1>3, FS_Subset
<1>5. Number(s, a) \in Nat /\ (Number(s, a) = 0 <=> RulesOf(s, a) = {})
  BY <1>4, FS_CardinalityType, FS_EmptySet DEF Number
<1> QED BY <1>4, <1>5 DEF RulesOf

LEMMA NumberAppended ==
  ASSUME NEW s \in Seq(Rules), NEW x \in Rules, NEW a
  PROVE  Number(Append(s, x), a) = IF x = a THEN Number(s, a) + 1 ELSE Number(s, a)
<1>1. /\ Len(s) \in Nat /\ DOMAIN s = 1 .. Len(s)
      /\ DOMAIN Append(s, x) = 1 .. Len(s) + 1
      /\ \A i \in 1 .. Len(s) : Append(s, x)[i] = s[i]
      /\ Append(s, x)[Len(s) + 1] = x
  OBVIOUS
<1>2. IsFiniteSet(RulesOf(s, a)) /\ Len(s) + 1 \notin RulesOf(s, a)
  <2>1. Len(s) + 1 \notin 1 .. Len(s)
    BY <1>1
  <2>2. RulesOf(s, a) \subseteq 1 .. Len(s)
    BY <1>1 DEF RulesOf
  <2> QED BY <2>1, <2>2, NumberType
<1>3. CASE x = a
  <2>1. RulesOf(Append(s, x), a) = RulesOf(s, a) \cup {Len(s) + 1}
    BY <1>1, <1>3 DEF RulesOf
  <2> QED BY <1>2, <1>3, <2>1, FS_AddElement DEF Number
<1>4. CASE x # a
  <2>1. RulesOf(Append(s, x), a) = RulesOf(s, a)
    BY <1>1, <1>4 DEF RulesOf
  <2> QED BY <1>4, <2>1 DEF Number
<1> QED BY <1>3, <1>4

LEMMA NumberRemoved ==
  ASSUME NEW s \in Seq(Rules), NEW a, \E i \in DOMAIN s : s[i] = a, NEW b
  PROVE  Number(Wall!RemoveFirst(s, a), b) =
            IF b = a THEN Number(s, b) - 1 ELSE Number(s, b)
<1> DEFINE t == Wall!RemoveFirst(s, a)
<1>1. t \in Seq(Rules) /\ Len(t) = Len(s) - 1 /\ Len(s) \in Nat
  BY FirstRemoved
<1>2. PICK k \in 1 .. Len(s) :
         /\ s[k] = a
         /\ \A i \in 1 .. Len(s) - 1 : t[i] = IF i < k THEN s[i] ELSE s[i + 1]
  BY FirstRemoved
<1> HIDE DEF t
<1> DEFINE old == RulesOf(s, b) \ {k}
           new == RulesOf(t, b)
           f == [i \in new |-> IF i < k THEN i ELSE i + 1]
<1>3. DOMAIN t = 1 .. Len(s) - 1 /\ DOMAIN s = 1 .. Len(s)
  BY <1>1
<1>4. ASSUME NEW i \in new PROVE f[i] \in old
  BY <1>1, <1>2, <1>3 DEF RulesOf
<1>5. ASSUME NEW i \in new, NEW j \in new, f[i] = f[j] PROVE i = j
  BY <1>1, <1>2, <1>3, <1>5 DEF RulesOf
<1>6. ASSUME NEW j \in old PROVE \E i \in new : f[i] = j
  <2>1. j \in 1 .. Len(s) /\ s[j] = b /\ j # k
    BY <1>3 DEF RulesOf
  <2>2. CASE j < k
    <3>1. j \in new
      BY <1>1, <1>2, <1>3, <2>1, <2>2 DEF RulesOf
    <3> QED BY <2>2, <3>1
  <2>3. CASE j > k
    <3>1. j - 1 \in new /\ ~(j - 1 < k) /\ (j - 1) + 1 = j
      BY <1>1, <1>2, <1>3, <2>1, <2>3 DEF RulesOf
    <3> QED BY <3>1
  <2> QED BY <1>1, <2>1, <2>2, <2>3
<1>7. f \in Bijection(new, old)
  <2> HIDE DEF old, new
  <2>1. f \in [new -> old]
    BY <1>4
  <2> HIDE DEF f
  <2> QED BY <1>5, <1>6, <2>1 DEF Bijection, Injection, Surjection, IsInjective
<1>8. Cardinality(old) = Cardinality(new)
  <2>1. IsFiniteSet(new)
    BY <1>1, NumberType
  <2> HIDE DEF old, new
  <2> QED BY <1>7, <2>1, FS_Bijection DEF ExistsBijection
<1>9. Cardinality(old) = IF k \in RulesOf(s, b) THEN Number(s, b) - 1 ELSE Number(s, b)
  BY NumberType, FS_RemoveElement DEF Number
<1>10. k \in RulesOf(s, b) <=> b = a
  BY <1>2, <1>3 DEF RulesOf
<1> QED BY <1>8, <1>9, <1>10 DEF Number, t

-----------------------------------------------------------------------------
(* The firewall. *)

Places == {"idle", "check", "add", "arm", "asleep", "accept"}

WallTypes ==
    /\ chain \in Seq(Rules)
    /\ at \in [Callers -> Places]
    /\ ip \in [Callers -> Hosts \cup {none}]
    /\ timed \in [Callers -> BOOLEAN]
    /\ orphans \in [Hosts -> Nat]
    /\ \A c \in Callers : at[c] \in {"check", "add", "arm", "asleep"} => ip[c] \in Hosts

(* Where there was no race an address has one rule, and none while a caller  *)
(* is about to add it, who is the only one.                                  *)
OneAdder ==
    \A a \in Hosts \ raced :
        /\ Wall!Count(a) <= 1
        /\ \A c \in Callers : ip[c] = a /\ at[c] = "add" =>
              /\ Wall!Count(a) = 0
              /\ \A d \in Callers : ip[d] = a /\ at[d] = "add" => d = c

(* A block for good that has a rule and that nothing has undermined stands,  *)
(* and no timer of its address runs or is about to be started.               *)
NoTimer ==
    \A a \in (permanent \cap Hosts) \ (undermined \cup feigned) :
        /\ Wall!Blocked(a)
        /\ orphans[a] = 0
        /\ \A c \in Callers : ip[c] = a =>
              /\ at[c] \notin {"arm", "asleep"}
              /\ ~ (timed[c] /\ at[c] = "add")

PermanentAreHosts == permanent \subseteq Hosts

WallInv ==
    /\ WallTypes /\ OneAdder /\ NoTimer /\ PermanentAreHosts
    /\ TimedBlocksEnd /\ EstablishedSurvive

LEMMA SameCardinality == \A S : Wall!Cardinality(S) = Cardinality(S)
BY DEF Wall!Cardinality, Cardinality

LEMMA ChainFacts ==
  ASSUME WallTypes
  PROVE  \A a : /\ Wall!Count(a) = Number(chain, a) /\ Wall!Count(a) \in Nat
                /\ Wall!Blocked(a) <=> Wall!Count(a) > 0
<1>1. ASSUME NEW a PROVE Wall!Count(a) = Number(chain, a)
  BY SameCardinality DEF Wall!Count, Number, RulesOf
<1>2. ASSUME NEW a PROVE Wall!Blocked(a) <=> Number(chain, a) > 0
  BY NumberType DEF WallTypes, Wall!Blocked
<1>3. ASSUME NEW a PROVE Number(chain, a) \in Nat
  BY NumberType DEF WallTypes
<1> QED BY <1>1, <1>2, <1>3

LEMMA ChainFactsNext ==
  ASSUME WallTypes'
  PROVE  \A a : Wall!Count(a)' \in Nat /\ (Wall!Blocked(a)' <=> Wall!Count(a)' > 0)
<1>1. ASSUME NEW a PROVE Wall!Count(a)' = Number(chain', a)
  BY SameCardinality DEF Wall!Count, Number, RulesOf
<1>2. ASSUME NEW a PROVE Wall!Blocked(a)' <=> Number(chain', a) > 0
  BY NumberType DEF WallTypes, Wall!Blocked
<1>3. ASSUME NEW a PROVE Number(chain', a) \in Nat
  BY NumberType DEF WallTypes
<1> QED BY <1>1, <1>2, <1>3

(* What the three ways to change the chain do to the number of rules.        *)
LEMMA ChainKept ==
  ASSUME chain' = chain
  PROVE  \A a : Wall!Count(a)' = Wall!Count(a) /\ Wall!Blocked(a)' = Wall!Blocked(a)
BY DEF Wall!Count, Wall!Blocked

LEMMA ChainGrown ==
  ASSUME WallTypes, WallTypes', NEW x \in Rules, chain' = Append(chain, x)
  PROVE  \A a : Wall!Count(a)' = IF a = x THEN Wall!Count(a) + 1 ELSE Wall!Count(a)
<1>1. \A a : Wall!Count(a)' = Number(chain', a)
  BY SameCardinality DEF Wall!Count, Number, RulesOf
<1> QED BY <1>1, ChainFacts, NumberAppended DEF WallTypes

LEMMA ChainCut ==
  ASSUME WallTypes, NEW x \in Rules, chain' = Wall!RemoveFirst(chain, x)
  PROVE  /\ chain' \in Seq(Rules)
         /\ \A a : Wall!Count(a)' = IF a = x /\ Wall!Count(a) > 0 THEN Wall!Count(a) - 1
                                                               ELSE Wall!Count(a)
<1>1. \A a : Wall!Count(a)' = Number(chain', a)
  BY SameCardinality DEF Wall!Count, Number, RulesOf
<1>2. CASE Wall!Blocked(x)
  <2>1. \E i \in DOMAIN chain : chain[i] = x
    BY <1>2 DEF Wall!Blocked
  <2>2. chain \in Seq(Rules)
    BY DEF WallTypes
  <2>3. chain' \in Seq(Rules)
    BY <2>1, <2>2, FirstRemoved
  <2>4. \A a : Number(chain', a) = IF a = x THEN Number(chain, a) - 1 ELSE Number(chain, a)
    BY <2>1, <2>2, NumberRemoved
  <2> QED BY <1>1, <1>2, <2>3, <2>4, ChainFacts
<1>3. CASE ~ Wall!Blocked(x)
  <2>1. ~ \E i \in 1 .. Len(chain) : chain[i] = x
    BY <1>3 DEF Wall!Blocked, WallTypes
  <2>2. chain' = chain
    BY <2>1 DEF Wall!RemoveFirst
  <2> QED BY <1>3, <2>2, ChainFacts, ChainKept DEF WallTypes
<1> QED BY <1>2, <1>3

LEMMA SleepersFinite ==
  ASSUME WallTypes, NEW a \in Hosts
  PROVE  /\ IsFiniteSet(Wall!Sleeping(a))
         /\ Wall!Pending(a) = Cardinality(Wall!Sleeping(a)) + orphans[a]
         /\ Cardinality(Wall!Sleeping(a)) \in Nat /\ Wall!Pending(a) \in Nat
         /\ Wall!Pending(a) = 0 <=> orphans[a] = 0 /\ Wall!Sleeping(a) = {}
<1>1. Wall!Sleeping(a) \subseteq Callers
  BY DEF Wall!Sleeping
<1>2. IsFiniteSet(Wall!Sleeping(a))
  BY <1>1, DaemonAssumption, FS_Subset
<1>3. /\ Cardinality(Wall!Sleeping(a)) \in Nat
      /\ Cardinality(Wall!Sleeping(a)) = 0 <=> Wall!Sleeping(a) = {}
  BY <1>2, FS_CardinalityType, FS_EmptySet
<1>4. Wall!Pending(a) = Cardinality(Wall!Sleeping(a)) + orphans[a]
  BY SameCardinality DEF Wall!Pending
<1>5. orphans[a] \in Nat
  BY DEF WallTypes
<1> QED BY <1>2, <1>3, <1>4, <1>5

LEMMA WallInitially == Wall!Init => WallInv
<1> SUFFICES ASSUME Wall!Init PROVE WallInv
  OBVIOUS
<1>1. WallTypes
  BY DaemonAssumption DEF Wall!Init, WallTypes, Places
<1>2. \A a : Wall!Count(a) = 0
  <2>1. \A a : ~ Wall!Blocked(a)
    BY DEF Wall!Init, Wall!Blocked
  <2> QED BY <1>1, <2>1, ChainFacts
<1>3. TimedBlocksEnd
  BY <1>1, <1>2, SleepersFinite DEF TimedBlocksEnd, Wall!TimedBlocksEnd
<1> QED BY <1>1, <1>2, <1>3 DEF Wall!Init, WallInv, OneAdder, NoTimer, PermanentAreHosts, EstablishedSurvive, Wall!EstablishedSurvive

-----------------------------------------------------------------------------
(* A step of c moves no other caller. *)
Others(c) ==
    \A d \in Callers \ {c} : at'[d] = at[d] /\ ip'[d] = ip[d] /\ timed'[d] = timed[d]

Awake(c) == at[c] \notin {"arm", "asleep"}

(* The timers of each address stay when who moves has none before or after. *)
LEMMA TimersKept ==
  ASSUME WallTypes, WallTypes', NEW c \in Callers, Others(c),
         Awake(c), Awake(c)', orphans' = orphans
  PROVE  /\ \A a \in Hosts : Wall!Sleeping(a)' = Wall!Sleeping(a)
         /\ \A a \in Hosts : Wall!Pending(a)' = Wall!Pending(a)
<1>1. \A a \in Hosts : Wall!Sleeping(a)' = Wall!Sleeping(a)
  BY DEF Wall!Sleeping, Others, Awake
<1> QED BY <1>1, SameCardinality DEF Wall!Pending

LEMMA TimerStarted ==
  ASSUME WallTypes, WallTypes', NEW c \in Callers, Others(c),
         Awake(c), ~ Awake(c)', ip'[c] = ip[c], orphans' = orphans, ip[c] \in Hosts
  PROVE  \A a \in Hosts : Wall!Pending(a)' =
            IF a = ip[c] THEN Wall!Pending(a) + 1 ELSE Wall!Pending(a)
<1> SUFFICES ASSUME NEW a \in Hosts
             PROVE  Wall!Pending(a)' = IF a = ip[c] THEN Wall!Pending(a) + 1 ELSE Wall!Pending(a)
  OBVIOUS
<1>1. /\ Wall!Pending(a) = Cardinality(Wall!Sleeping(a)) + orphans[a]
      /\ Wall!Pending(a)' = Cardinality(Wall!Sleeping(a)') + orphans[a]
      /\ Cardinality(Wall!Sleeping(a)) \in Nat /\ orphans[a] \in Nat
      /\ IsFiniteSet(Wall!Sleeping(a))
  <2>1. Wall!Pending(a)' = Cardinality(Wall!Sleeping(a)') + orphans'[a]
    BY SameCardinality DEF Wall!Pending
  <2> QED BY <2>1, SleepersFinite DEF WallTypes
<1>2. CASE a = ip[c]
  <2>1. Wall!Sleeping(a)' = Wall!Sleeping(a) \cup {c} /\ c \notin Wall!Sleeping(a)
    BY <1>2 DEF Wall!Sleeping, Others, Awake, WallTypes
  <2>2. Cardinality(Wall!Sleeping(a)') = Cardinality(Wall!Sleeping(a)) + 1
    BY <1>1, <2>1, FS_AddElement
  <2> QED BY <1>1, <1>2, <2>2
<1>3. CASE a # ip[c]
  <2>1. Wall!Sleeping(a)' = Wall!Sleeping(a)
    BY <1>3 DEF Wall!Sleeping, Others, Awake
  <2> QED BY <1>1, <1>3, <2>1
<1> QED BY <1>2, <1>3

LEMMA TimerEnded ==
  ASSUME WallTypes, WallTypes', NEW c \in Callers, Others(c),
         ~ Awake(c), Awake(c)', orphans' = orphans
  PROVE  \A a \in Hosts : Wall!Pending(a)' =
            IF a = ip[c] THEN Wall!Pending(a) - 1 ELSE Wall!Pending(a)
<1> SUFFICES ASSUME NEW a \in Hosts
             PROVE  Wall!Pending(a)' = IF a = ip[c] THEN Wall!Pending(a) - 1 ELSE Wall!Pending(a)
  OBVIOUS
<1>1. /\ Wall!Pending(a) = Cardinality(Wall!Sleeping(a)) + orphans[a]
      /\ Wall!Pending(a)' = Cardinality(Wall!Sleeping(a)') + orphans[a]
      /\ Cardinality(Wall!Sleeping(a)) \in Nat /\ orphans[a] \in Nat
      /\ IsFiniteSet(Wall!Sleeping(a))
  <2>1. Wall!Pending(a)' = Cardinality(Wall!Sleeping(a)') + orphans'[a]
    BY SameCardinality DEF Wall!Pending
  <2> QED BY <2>1, SleepersFinite DEF WallTypes
<1>2. CASE a = ip[c]
  <2>1. Wall!Sleeping(a)' = Wall!Sleeping(a) \ {c} /\ c \in Wall!Sleeping(a)
    BY <1>2 DEF Wall!Sleeping, Others, Awake, WallTypes
  <2>2. Cardinality(Wall!Sleeping(a)') = Cardinality(Wall!Sleeping(a)) - 1
    BY <1>1, <2>1, FS_RemoveElement
  <2> QED BY <1>1, <1>2, <2>2
<1>3. CASE a # ip[c]
  <2>1. Wall!Sleeping(a)' = Wall!Sleeping(a)
    BY <1>3 DEF Wall!Sleeping, Others, Awake
  <2> QED BY <1>1, <1>3, <2>1
<1> QED BY <1>2, <1>3

(* Steps that change nothing but where a caller without a timer is, and what *)
(* is remembered: block_ip up to its rule, and the lockdown but for its rule.*)
LEMMA QuietKeeps ==
  ASSUME WallInv, WallTypes', NEW c \in Callers, Others(c), Awake(c), Awake(c)',
         chain' = chain, orphans' = orphans, kept' = kept,
         policy' = policy \/ at'[c] = "accept",
         at[c] = "accept" => half_locked',
         half_locked => half_locked'
  PROVE  TimedBlocksEnd' /\ EstablishedSurvive'
<1>1. TimedBlocksEnd'
  <2>1. \A a \in Hosts : Wall!Count(a)' = Wall!Count(a) /\ Wall!Pending(a)' = Wall!Pending(a)
    BY ChainKept, TimersKept DEF WallInv
  <2> QED BY <2>1 DEF WallInv, TimedBlocksEnd, Wall!TimedBlocksEnd
<1>2. EstablishedSurvive'
  <2>1. Wall!Blocked("established")' = Wall!Blocked("established")
    BY ChainKept
  <2> QED BY <2>1 DEF WallInv, EstablishedSurvive, Wall!EstablishedSurvive, Others, Places, WallTypes
<1> QED BY <1>1, <1>2

(* A call that ends in a block for good: it stands, unless its command was   *)
(* killed, and if a timer of its address is under way, it counts as          *)
(* undermined.                                                               *)
LEMMA SuccessKeeps ==
  ASSUME WallInv, WallTypes', NEW c \in Callers, ip[c] \in Hosts, Awake(c),
         Wall!Return(c), Wall!Succeed(c, ip[c]), orphans' = orphans,
         \A a \in Hosts : Wall!Blocked(a) => Wall!Blocked(a)'
  PROVE  NoTimer' /\ PermanentAreHosts'
<1> USE DaemonAssumption DEF Wall!Return, Awake
<1>1. WallTypes
  BY DEF WallInv
<1>2. PermanentAreHosts'
  BY DEF WallInv, PermanentAreHosts, Wall!Succeed
<1>3. ASSUME NEW a \in Hosts, a \in permanent', a \notin undermined', a \notin feigned',
             a # ip[c]
      PROVE  a \in permanent /\ a \notin undermined /\ a \notin feigned
  BY <1>3 DEF Wall!Succeed
<1>4. ASSUME ip[c] \notin undermined'
      PROVE  /\ orphans[ip[c]] = 0 /\ Wall!Sleeping(ip[c]) = {}
             /\ ~ \E d \in Callers \ {c} : ip[d] = ip[c] /\ timed[d] /\ at[d] = "add"
  <2>1. /\ Wall!Pending(ip[c]) = 0
        /\ ~ \E d \in Callers \ {c} : ip[d] = ip[c] /\ timed[d] /\ at[d] = "add"
    BY <1>1, <1>4, SleepersFinite DEF Wall!Succeed
  <2> QED BY <1>1, <2>1, SleepersFinite
<1>5. ASSUME NEW a \in Hosts, a \in permanent', a \notin undermined', a \notin feigned'
      PROVE  /\ Wall!Blocked(a)'
             /\ orphans'[a] = 0
             /\ \A d \in Callers : ip'[d] = a =>
                   /\ at'[d] \notin {"arm", "asleep"}
                   /\ ~ (timed'[d] /\ at'[d] = "add")
  <2>1. CASE a = ip[c]
    <3>1. a \in Wall!ToSet(chain')
      BY <1>5, <2>1 DEF Wall!Succeed
    <3>2. Wall!Blocked(a)'
      BY <3>1 DEF Wall!ToSet, Wall!Blocked
    <3> QED BY <1>1, <1>4, <1>5, <2>1, <3>2 DEF Wall!Sleeping, WallTypes
  <2>2. CASE a # ip[c]
    BY <1>1, <1>3, <1>5, <2>2 DEF WallInv, NoTimer, WallTypes
  <2> QED BY <2>1, <2>2
<1> QED BY <1>2, <1>5 DEF NoTimer

(* block_ip, up to iptables -A. *)
LEMMA CheckKeeps ==
  ASSUME WallInv, NEW c \in Callers,
         \/ Wall!CheckFound(c) \/ Wall!CheckNotFound(c) \/ Wall!CheckFails(c)
         \/ \E a \in Hosts, t \in BOOLEAN : Wall!BlockIp(c, a, t)
  PROVE  WallInv'
<1> USE DaemonAssumption DEF Wall!kernel, Wall!calls, Wall!history, Wall!Goto, Wall!Return, Awake, Others
<1>1. WallTypes /\ at[c] \in {"idle", "check"} /\ chain' = chain
  BY DEF WallInv, Wall!CheckFound, Wall!CheckNotFound, Wall!CheckFails, Wall!BlockIp
<1>2. \A a : /\ Wall!Count(a)' = Wall!Count(a) /\ Wall!Blocked(a)' = Wall!Blocked(a)
             /\ Wall!Count(a) \in Nat /\ (Wall!Blocked(a) <=> Wall!Count(a) > 0)
  BY <1>1, ChainKept, ChainFacts
<1>3. WallTypes'
  <2> USE <1>1 DEF WallTypes, Places
  <2>1. CASE Wall!CheckFound(c)
    BY <2>1 DEF Wall!CheckFound
  <2>2. CASE Wall!CheckNotFound(c)
    BY <2>2 DEF Wall!CheckNotFound
  <2>3. CASE Wall!CheckFails(c)
    BY <2>3 DEF Wall!CheckFails
  <2>4. ASSUME NEW a \in Hosts, NEW t \in BOOLEAN, Wall!BlockIp(c, a, t) PROVE WallTypes'
    BY <2>4 DEF Wall!BlockIp
  <2> QED BY <2>1, <2>2, <2>3, <2>4
<1>4. TimedBlocksEnd' /\ EstablishedSurvive'
  <2>1. /\ Others(c) /\ Awake(c) /\ Awake(c)'
        /\ orphans' = orphans /\ kept' = kept /\ policy' = policy /\ half_locked' = half_locked
    BY DEF WallInv, WallTypes, Wall!CheckFound, Wall!CheckNotFound, Wall!CheckFails, Wall!BlockIp
  <2> QED BY <1>1, <1>3, <2>1, QuietKeeps
<1>5. CASE Wall!CheckFound(c)
  <2> USE <1>5 DEF Wall!CheckFound
  <2>1. OneAdder'
    BY <1>1, <1>2 DEF WallInv, OneAdder, WallTypes
  <2>2. ip[c] \in Hosts
    BY DEF WallInv, WallTypes
  <2>3. NoTimer' /\ PermanentAreHosts'
    <3>1. CASE timed[c]
      BY <1>1, <1>2, <3>1 DEF WallInv, NoTimer, PermanentAreHosts, WallTypes
    <3>2. CASE ~ timed[c]
      BY <1>1, <1>2, <1>3, <2>2, <3>2, SuccessKeeps DEF WallInv
    <3> QED BY <3>1, <3>2
  <2> QED BY <1>3, <1>4, <2>1, <2>3 DEF WallInv
<1>6. CASE Wall!CheckNotFound(c)
  <2> USE <1>6 DEF Wall!CheckNotFound, Wall!AboutToAdd
  <2>1. OneAdder'
    BY <1>1, <1>2 DEF WallInv, OneAdder, WallTypes
  <2>2. NoTimer' /\ PermanentAreHosts'
    BY <1>1, <1>2 DEF WallInv, NoTimer, PermanentAreHosts, WallTypes
  <2> QED BY <1>3, <1>4, <2>1, <2>2 DEF WallInv
<1>7. CASE Wall!CheckFails(c)
  <2> USE <1>7 DEF Wall!CheckFails
  <2>1. OneAdder'
    BY <1>1, <1>2 DEF WallInv, OneAdder, WallTypes
  <2>2. NoTimer' /\ PermanentAreHosts'
    BY <1>1, <1>2 DEF WallInv, NoTimer, PermanentAreHosts, WallTypes
  <2> QED BY <1>3, <1>4, <2>1, <2>2 DEF WallInv
<1>8. ASSUME NEW a \in Hosts, NEW t \in BOOLEAN, Wall!BlockIp(c, a, t) PROVE WallInv'
  <2> USE <1>8 DEF Wall!BlockIp
  <2>1. OneAdder'
    BY <1>1, <1>2 DEF WallInv, OneAdder, WallTypes
  <2>2. NoTimer' /\ PermanentAreHosts'
    BY <1>1, <1>2 DEF WallInv, NoTimer, PermanentAreHosts, WallTypes
  <2> QED BY <1>3, <1>4, <2>1, <2>2 DEF WallInv
<1> QED BY <1>5, <1>6, <1>7, <1>8

LEMMA AddKeeps ==
  ASSUME WallInv, NEW c \in Callers, Wall!Add(c)
  PROVE  WallInv'
<1> USE DaemonAssumption DEF Wall!calls, Wall!Goto, Wall!Return, Awake, Others, Wall!Add
<1>1. WallTypes /\ at[c] = "add" /\ ip[c] \in Hosts /\ ip[c] \in Rules /\ ip[c] # "established"
  BY DEF WallInv, WallTypes, Rules
<1>2. WallTypes'
  <2>1. chain' \in Seq(Rules)
    <3>1. chain \in Seq(Rules) /\ Append(chain, ip[c]) \in Seq(Rules)
      BY <1>1 DEF WallTypes
    <3> QED BY <3>1
  <2> QED BY <1>1, <2>1 DEF WallTypes, Places
<1>3. PICK x \in Hosts : x = ip[c]
  BY <1>1
<1>4. /\ \A a : /\ a # x => Wall!Count(a)' = Wall!Count(a)
                /\ Wall!Count(a) \in Nat /\ (Wall!Blocked(a) <=> Wall!Count(a) > 0)
                /\ Wall!Count(a)' \in Nat /\ (Wall!Blocked(a)' <=> Wall!Count(a)' > 0)
      /\ \/ Wall!Count(x)' = Wall!Count(x) + 1 /\ chain' # chain
         \/ Wall!Count(x)' = Wall!Count(x)
  <2>1. /\ \A a : a # x => Wall!Count(a)' = Wall!Count(a)
        /\ \/ Wall!Count(x)' = Wall!Count(x) + 1 /\ chain' # chain
           \/ Wall!Count(x)' = Wall!Count(x)
    <3>1. CASE chain' = chain
      BY <3>1, ChainKept
    <3>2. CASE chain' # chain
      <4>1. chain' = Append(chain, x) /\ x \in Rules
        BY <1>1, <1>3, <3>2
      <4> QED BY <1>1, <1>2, <3>2, <4>1, ChainGrown
    <3> QED BY <3>1, <3>2
  <2>2. \A a : /\ Wall!Count(a)' \in Nat /\ (Wall!Blocked(a)' <=> Wall!Count(a)' > 0)
    BY <1>2, ChainFactsNext
  <2> QED BY <1>1, <2>1, <2>2, ChainFacts
<1>5. OneAdder'
  <2> SUFFICES ASSUME NEW a \in Hosts, a \notin raced
               PROVE  /\ Wall!Count(a)' <= 1
                      /\ \A d \in Callers : ip'[d] = a /\ at'[d] = "add" =>
                            /\ Wall!Count(a)' = 0
                            /\ \A e \in Callers : ip'[e] = a /\ at'[e] = "add" => e = d
    BY DEF OneAdder
  <2>1. /\ Wall!Count(a) <= 1
        /\ \A d \in Callers : ip[d] = a /\ at[d] = "add" =>
              /\ Wall!Count(a) = 0
              /\ \A e \in Callers : ip[e] = a /\ at[e] = "add" => e = d
    BY DEF WallInv, OneAdder
  <2>2. \A d \in Callers : at'[d] = "add" => d # c /\ at[d] = "add" /\ ip'[d] = ip[d]
    BY <1>1 DEF WallTypes
  <2>3. CASE a = x
    <3>1. Wall!Count(a) = 0 /\ \A d \in Callers : ip[d] = a /\ at[d] = "add" => d = c
      BY <1>1, <1>3, <2>1, <2>3
    <3> QED BY <1>3, <1>4, <2>2, <2>3, <3>1
  <2>4. CASE a # x
    BY <1>4, <2>1, <2>2, <2>4
  <2> QED BY <2>3, <2>4
<1>6. EstablishedSurvive'
  BY <1>1, <1>3, <1>4 DEF WallInv, EstablishedSurvive, Wall!EstablishedSurvive, WallTypes
<1>7. Others(c) /\ Awake(c) /\ orphans' = orphans
  BY <1>1 DEF WallTypes
<1>8. NoTimer' /\ PermanentAreHosts' /\ TimedBlocksEnd'
  <2>1. CASE timed[c]
    <3>1. at'[c] = "arm" /\ ip' = ip /\ kept' = kept
      BY <1>1, <1>3, <2>1 DEF WallTypes
    <3>2. \A a \in Hosts : Wall!Pending(a)' =
             IF a = x THEN Wall!Pending(a) + 1 ELSE Wall!Pending(a)
      BY <1>1, <1>3, <1>2, <1>7, <3>1, TimerStarted
    <3>3. TimedBlocksEnd'
      BY <1>1, <1>3, <1>4, <3>1, <3>2, SleepersFinite DEF WallInv, TimedBlocksEnd, Wall!TimedBlocksEnd
    <3> QED BY <1>1, <1>3, <1>4, <2>1, <3>3 DEF WallInv, NoTimer, PermanentAreHosts, WallTypes
  <2>2. CASE ~ timed[c]
    <3>1. /\ at'[c] = "idle"
          /\ kept' = IF chain' = chain THEN kept ELSE kept \cup {ip[c]}
      BY <1>1, <1>3, <2>2 DEF WallTypes
    <3>2. \A a \in Hosts : Wall!Pending(a)' = Wall!Pending(a)
      BY <1>1, <1>3, <1>2, <1>7, <3>1, TimersKept
    <3>3. TimedBlocksEnd'
      BY <1>1, <1>3, <1>4, <3>1, <3>2 DEF WallInv, TimedBlocksEnd, Wall!TimedBlocksEnd
    <3>4. Wall!Return(c) /\ Wall!Succeed(c, ip[c]) /\ Awake(c)
      BY <1>1, <2>2
    <3>5. \A a \in Hosts : Wall!Blocked(a) => Wall!Blocked(a)'
      BY <1>4
    <3>6. NoTimer' /\ PermanentAreHosts'
      BY <1>1, <1>2, <1>7, <3>4, <3>5, SuccessKeeps
    <3> QED BY <3>3, <3>6
  <2> QED BY <2>1, <2>2
<1> QED BY <1>2, <1>5, <1>6, <1>8 DEF WallInv

(* No step of these changes a rule: a timer is started, or is not. *)
LEMMA ArmKeeps ==
  ASSUME WallInv, NEW c \in Callers, Wall!AddFails(c) \/ Wall!Arm(c) \/ Wall!ArmFails(c)
  PROVE  WallInv'
<1> USE DaemonAssumption DEF Wall!kernel, Wall!calls, Wall!history, Wall!Goto, Wall!Return, Awake, Others
<1>1. WallTypes /\ ip[c] \in Hosts /\ chain' = chain
  BY DEF WallInv, WallTypes, Wall!AddFails, Wall!Arm, Wall!ArmFails
<1>2. \A a : /\ Wall!Count(a)' = Wall!Count(a) /\ Wall!Blocked(a)' = Wall!Blocked(a)
             /\ Wall!Count(a) \in Nat /\ (Wall!Blocked(a) <=> Wall!Count(a) > 0)
  BY <1>1, ChainKept, ChainFacts
<1>3. CASE Wall!AddFails(c)
  <2> USE <1>3 DEF Wall!AddFails
  <2>1. WallTypes'
    BY <1>1 DEF WallTypes, Places
  <2>2. OneAdder' /\ PermanentAreHosts'
    BY <1>1, <1>2 DEF WallInv, OneAdder, PermanentAreHosts, WallTypes
  <2>3. NoTimer'
    BY <1>1, <1>2 DEF WallInv, NoTimer, WallTypes
  <2>4. EstablishedSurvive'
    BY <1>1, <1>2 DEF WallInv, EstablishedSurvive, Wall!EstablishedSurvive, WallTypes
  <2>5. TimedBlocksEnd'
    <3>1. CASE timed[c]
      <4>1. \A a \in Hosts : Wall!Pending(a)' =
               IF a = ip[c] THEN Wall!Pending(a) + 1 ELSE Wall!Pending(a)
        BY <1>1, <2>1, <3>1, TimerStarted DEF WallTypes
      <4> QED BY <1>1, <1>2, <4>1, SleepersFinite DEF WallInv, TimedBlocksEnd, Wall!TimedBlocksEnd
    <3>2. CASE ~ timed[c]
      <4>1. \A a \in Hosts : Wall!Pending(a)' = Wall!Pending(a)
        BY <1>1, <2>1, <3>2, TimersKept DEF WallTypes
      <4> QED BY <1>1, <1>2, <4>1 DEF WallInv, TimedBlocksEnd, Wall!TimedBlocksEnd
    <3> QED BY <3>1, <3>2
  <2> QED BY <2>1, <2>2, <2>3, <2>4, <2>5 DEF WallInv
<1>4. CASE Wall!Arm(c)
  <2> USE <1>4 DEF Wall!Arm
  <2>1. WallTypes'
    BY <1>1 DEF WallTypes, Places
  <2>2. OneAdder' /\ PermanentAreHosts'
    BY <1>1, <1>2 DEF WallInv, OneAdder, PermanentAreHosts, WallTypes
  <2>3. NoTimer'
    BY <1>1, <1>2 DEF WallInv, NoTimer, WallTypes
  <2>4. EstablishedSurvive'
    BY <1>1, <1>2 DEF WallInv, EstablishedSurvive, Wall!EstablishedSurvive, WallTypes
  <2>5. \A a \in Hosts : Wall!Sleeping(a)' = Wall!Sleeping(a)
    BY <1>1 DEF Wall!Sleeping, WallTypes
  <2>6. TimedBlocksEnd'
    BY <1>2, <2>5, SameCardinality DEF WallInv, TimedBlocksEnd, Wall!TimedBlocksEnd, Wall!Pending
  <2> QED BY <2>1, <2>2, <2>3, <2>4, <2>6 DEF WallInv
<1>5. CASE Wall!ArmFails(c)
  <2> USE <1>5 DEF Wall!ArmFails
  <2>1. WallTypes'
    BY <1>1 DEF WallTypes, Places
  <2>2. OneAdder' /\ PermanentAreHosts'
    BY <1>1, <1>2 DEF WallInv, OneAdder, PermanentAreHosts, WallTypes
  <2>3. NoTimer'
    BY <1>1, <1>2 DEF WallInv, NoTimer, WallTypes
  <2>4. EstablishedSurvive'
    BY <1>1, <1>2 DEF WallInv, EstablishedSurvive, Wall!EstablishedSurvive, WallTypes
  <2>5. \A a \in Hosts : Wall!Pending(a)' =
           IF a = ip[c] THEN Wall!Pending(a) - 1 ELSE Wall!Pending(a)
    <3>1. Others(c) /\ ~ Awake(c) /\ Awake(c)' /\ orphans' = orphans
      BY <1>1 DEF WallTypes
    <3> QED BY <1>1, <2>1, <3>1, TimerEnded
  <2>6. TimedBlocksEnd'
    <3> SUFFICES ASSUME NEW a \in Hosts, a \notin kept'
                 PROVE  Wall!Count(a)' <= Wall!Pending(a)'
      BY DEF TimedBlocksEnd, Wall!TimedBlocksEnd
    <3>1. CASE a = ip[c]
      <4>1. Wall!Count(a)' = 0
        BY <1>2, <3>1
      <4>2. Wall!Pending(a)' \in Nat
        <5>1. c \in Wall!Sleeping(a)
          BY <3>1 DEF Wall!Sleeping
        <5>2. Wall!Pending(a) \in Nat \ {0}
          BY <1>1, <5>1, SleepersFinite
        <5> QED BY <2>5, <3>1, <5>2
      <4> QED BY <4>1, <4>2
    <3>2. CASE a # ip[c]
      <4>1. a \notin kept
        OBVIOUS
      <4> QED BY <1>2, <2>5, <3>2, <4>1 DEF WallInv, TimedBlocksEnd, Wall!TimedBlocksEnd
    <3> QED BY <3>1, <3>2
  <2> QED BY <2>1, <2>2, <2>3, <2>4, <2>6 DEF WallInv
<1> QED BY <1>3, <1>4, <1>5

(* iptables -D, and the same command of a timer. *)
LEMMA DeleteFacts ==
  ASSUME WallTypes, NEW a \in Hosts, Wall!Expire(a)
  PROVE  /\ chain' \in Seq(Rules)
         /\ Wall!Blocked("established")' = Wall!Blocked("established")
         /\ \A b \in Hosts : /\ Wall!Count(b) \in Nat /\ Wall!Count(b)' \in Nat
                             /\ Wall!Count(b)' <= Wall!Count(b)
                             /\ b # a => Wall!Count(b)' = Wall!Count(b)
         /\ \A b \in Hosts \ {a} : /\ Wall!Blocked(b)' = Wall!Blocked(b)
                                   /\ b \in kept' <=> b \in kept
         /\ \/ a \in kept'
            \/ Wall!Count(a)' = 0
            \/ a \notin kept /\ Wall!Count(a)' = Wall!Count(a) - 1
<1>1. CASE Wall!Delete(a)
  <2>1. a \in Rules /\ chain' = Wall!RemoveFirst(chain, a)
    BY <1>1 DEF Wall!Delete, Rules
  <2>2. /\ chain' \in Seq(Rules)
        /\ \A b : Wall!Count(b)' = IF b = a /\ Wall!Count(b) > 0 THEN Wall!Count(b) - 1
                                                              ELSE Wall!Count(b)
    BY <2>1, ChainCut
  <2>3. \A b : Wall!Count(b) \in Nat /\ (Wall!Blocked(b) <=> Wall!Count(b) > 0)
    BY ChainFacts
  <2>4. \A b : Wall!Blocked(b)' <=> Wall!Count(b)' > 0
    <3>1. ASSUME NEW b PROVE Wall!Count(b)' = Number(chain', b)
      BY SameCardinality DEF Wall!Count, Number, RulesOf
    <3>2. ASSUME NEW b PROVE Wall!Blocked(b)' <=> Number(chain', b) > 0
      BY <2>2, NumberType DEF Wall!Blocked
    <3> QED BY <3>1, <3>2
  <2>5. \A b : Wall!Blocked(b)' \in BOOLEAN /\ Wall!Blocked(b) \in BOOLEAN
    BY DEF Wall!Blocked
  <2>6. \A b : b # a => Wall!Count(b)' = Wall!Count(b) /\ Wall!Blocked(b)' = Wall!Blocked(b)
    BY <2>2, <2>3, <2>4, <2>5
  <2>7. a # "established"
    BY DaemonAssumption
  <2>8. kept' = IF Wall!Count(a) <= 1 THEN kept \ {a} ELSE kept
    BY <1>1 DEF Wall!Delete
  <2>9. \/ a \in kept'
        \/ Wall!Count(a)' = 0
        \/ a \notin kept /\ Wall!Count(a)' = Wall!Count(a) - 1
    <3>1. /\ Wall!Count(a) \in Nat
          /\ Wall!Count(a)' = IF Wall!Count(a) > 0 THEN Wall!Count(a) - 1 ELSE Wall!Count(a)
      BY <2>2, <2>3
    <3> DEFINE n == Wall!Count(a)
               m == Wall!Count(a)'
    <3>2. /\ n \in Nat /\ m = IF n > 0 THEN n - 1 ELSE n
          /\ kept' = IF n <= 1 THEN kept \ {a} ELSE kept
      BY <3>1, <2>8
    <3> HIDE DEF n, m
    <3>3. n <= 1 => m = 0
      BY <3>2
    <3>4. ~ (n <= 1) => kept' = kept /\ m = n - 1
      BY <3>2
    <3> QED BY <3>3, <3>4 DEF n, m
  <2>10. \A b : Wall!Count(b)' \in Nat /\ Wall!Count(b)' <= Wall!Count(b)
    BY <2>2, <2>3
  <2> QED BY <2>2, <2>3, <2>6, <2>7, <2>8, <2>9, <2>10
<1>2. CASE Wall!Blocked(a) /\ kept' = kept \cup {a} /\ UNCHANGED chain
  <2>1. \A b : /\ Wall!Count(b)' = Wall!Count(b) /\ Wall!Blocked(b)' = Wall!Blocked(b)
               /\ Wall!Count(b) \in Nat
    BY <1>2, ChainKept, ChainFacts
  <2>2. chain' \in Seq(Rules) /\ a \in kept' /\ \A b \in Hosts \ {a} : b \in kept' <=> b \in kept
    BY <1>2 DEF WallTypes
  <2>3. \A b \in Hosts : /\ Wall!Count(b) \in Nat /\ Wall!Count(b)' \in Nat
                         /\ Wall!Count(b)' <= Wall!Count(b)
    BY <2>1
  <2> QED BY <2>1, <2>2, <2>3
<1> QED BY <1>1, <1>2 DEF Wall!Expire

(* A rule of a goes, or its timer does in vain, and nobody gets on with a    *)
(* call.                                                                     *)
LEMMA CutKeeps ==
  ASSUME WallInv, WallTypes', NEW a \in Hosts, Wall!Expire(a),
         raced' = raced, policy' = policy, half_locked' = half_locked,
         \A c \in Callers : at'[c] # "idle" =>
            at'[c] = at[c] /\ ip'[c] = ip[c] /\ timed'[c] = timed[c],
         \A c \in Callers : at[c] = "accept" => at'[c] = "accept",
         permanent' \subseteq permanent,
         \A b \in (permanent' \cap Hosts) \ (undermined' \cup feigned') :
            b \notin undermined \cup feigned /\ b # a /\ orphans'[b] = orphans[b],
         \A b \in Hosts : /\ Wall!Pending(b) \in Nat /\ Wall!Pending(b)' \in Nat
                          /\ b # a => Wall!Pending(b)' = Wall!Pending(b)
                          /\ Wall!Pending(b)' >= Wall!Pending(b) - 1
  PROVE  WallInv'
<1>1. WallTypes
  BY DEF WallInv
<1>2. /\ Wall!Blocked("established")' = Wall!Blocked("established")
      /\ \A b \in Hosts : /\ Wall!Count(b) \in Nat /\ Wall!Count(b)' \in Nat
                          /\ Wall!Count(b)' <= Wall!Count(b)
                          /\ b # a => Wall!Count(b)' = Wall!Count(b)
      /\ \A b \in Hosts \ {a} : /\ Wall!Blocked(b)' = Wall!Blocked(b)
                                /\ b \in kept' <=> b \in kept
      /\ \/ a \in kept'
         \/ Wall!Count(a)' = 0
         \/ a \notin kept /\ Wall!Count(a)' = Wall!Count(a) - 1
  BY <1>1, DeleteFacts
<1>3. OneAdder'
  <2> SUFFICES ASSUME NEW b \in Hosts, b \notin raced
               PROVE  /\ Wall!Count(b)' <= 1
                      /\ \A d \in Callers : ip'[d] = b /\ at'[d] = "add" =>
                            /\ Wall!Count(b)' = 0
                            /\ \A e \in Callers : ip'[e] = b /\ at'[e] = "add" => e = d
    BY DEF OneAdder
  <2>1. /\ Wall!Count(b) <= 1
        /\ \A d \in Callers : ip[d] = b /\ at[d] = "add" =>
              /\ Wall!Count(b) = 0
              /\ \A e \in Callers : ip[e] = b /\ at[e] = "add" => e = d
    BY DEF WallInv, OneAdder
  <2>2. \A d \in Callers : at'[d] = "add" => at[d] = "add" /\ ip'[d] = ip[d]
    OBVIOUS
  <2>3. Wall!Count(b) \in Nat /\ Wall!Count(b)' \in Nat /\ Wall!Count(b)' <= Wall!Count(b)
    BY <1>2
  <2>4. Wall!Count(b)' <= 1 /\ (Wall!Count(b) = 0 => Wall!Count(b)' = 0)
    BY <2>1, <2>3
  <2> QED BY <2>1, <2>2, <2>4
<1>4. NoTimer' /\ PermanentAreHosts'
  <2> SUFFICES ASSUME NEW b \in Hosts, b \in permanent', b \notin undermined',
                      b \notin feigned'
               PROVE  /\ Wall!Blocked(b)'
                      /\ orphans'[b] = 0
                      /\ \A c \in Callers : ip'[c] = b =>
                            /\ at'[c] \notin {"arm", "asleep"}
                            /\ ~ (timed'[c] /\ at'[c] = "add")
    BY DEF WallInv, NoTimer, PermanentAreHosts
  <2>1. b \in permanent /\ b \notin undermined \cup feigned /\ b # a /\ orphans'[b] = orphans[b]
    OBVIOUS
  <2>2. /\ Wall!Blocked(b) /\ orphans[b] = 0
        /\ \A c \in Callers : ip[c] = b =>
              /\ at[c] \notin {"arm", "asleep"}
              /\ ~ (timed[c] /\ at[c] = "add")
    BY <2>1 DEF WallInv, NoTimer
  <2>3. Wall!Blocked(b)'
    BY <1>2, <2>1, <2>2
  <2> QED BY <2>1, <2>2, <2>3
<1>5. EstablishedSurvive'
  BY <1>2 DEF WallInv, EstablishedSurvive, Wall!EstablishedSurvive
<1>6. TimedBlocksEnd'
  <2> SUFFICES ASSUME NEW b \in Hosts, b \notin kept'
               PROVE  Wall!Count(b)' <= Wall!Pending(b)'
    BY DEF TimedBlocksEnd, Wall!TimedBlocksEnd
  <2>1. b \notin kept => Wall!Count(b) <= Wall!Pending(b)
    BY DEF WallInv, TimedBlocksEnd, Wall!TimedBlocksEnd
  <2>2. /\ Wall!Count(b) \in Nat /\ Wall!Count(b)' \in Nat
        /\ Wall!Pending(b) \in Nat /\ Wall!Pending(b)' \in Nat
        /\ Wall!Pending(b)' >= Wall!Pending(b) - 1
    BY <1>2
  <2>3. CASE b = a
    <3>1. \/ Wall!Count(b)' = 0
          \/ b \notin kept /\ Wall!Count(b)' = Wall!Count(b) - 1
      BY <1>2, <2>3
    <3> QED BY <2>1, <2>2, <3>1
  <2>4. CASE b # a
    <3>1. /\ b \notin kept /\ Wall!Count(b)' = Wall!Count(b)
          /\ Wall!Pending(b)' = Wall!Pending(b)
      BY <1>2, <2>4
    <3> QED BY <2>1, <3>1
  <2> QED BY <2>3, <2>4
<1> QED BY <1>3, <1>4, <1>5, <1>6 DEF WallInv

LEMMA WakeKeeps ==
  ASSUME WallInv, NEW c \in Callers, Wall!Wake(c)
  PROVE  WallInv'
<1> USE DaemonAssumption DEF Wall!Return, Wall!Wake
<1> DEFINE a == ip[c]
<1>1. WallTypes /\ a \in Hosts /\ Wall!Expire(a) /\ at[c] = "asleep"
  BY DEF WallInv, WallTypes
<1>2. WallTypes'
  BY <1>1, DeleteFacts DEF WallTypes, Places
<1>3. a \notin permanent \/ a \in undermined \cup feigned
  BY <1>1 DEF WallInv, NoTimer
<1>4. \A b \in Hosts : /\ Wall!Pending(b)' = IF b = a THEN Wall!Pending(b) - 1 ELSE Wall!Pending(b)
                       /\ Wall!Pending(b) \in Nat /\ Wall!Pending(b)' \in Nat
  <2>1. Others(c) /\ ~ Awake(c) /\ Awake(c)' /\ orphans' = orphans
    BY <1>1 DEF WallTypes, Others, Awake
  <2>2. \A b \in Hosts : Wall!Pending(b)' = IF b = a THEN Wall!Pending(b) - 1 ELSE Wall!Pending(b)
    BY <1>1, <1>2, <2>1, TimerEnded
  <2>3. ASSUME NEW b \in Hosts PROVE Wall!Pending(b) \in Nat /\ (b = a => Wall!Pending(b) # 0)
    <3>1. b = a => c \in Wall!Sleeping(b)
      BY <1>1 DEF Wall!Sleeping
    <3> QED BY <1>1, <3>1, SleepersFinite
  <2> QED BY <2>2, <2>3
<1>5. \E b \in Hosts : b = a
  BY <1>1
<1>6. PICK b \in Hosts : b = a
  BY <1>5
<1>7. Wall!Expire(b)
  BY <1>1, <1>6
<1>8. \A d \in Hosts : /\ Wall!Pending(d) \in Nat /\ Wall!Pending(d)' \in Nat
                       /\ d # b => Wall!Pending(d)' = Wall!Pending(d)
                       /\ Wall!Pending(d)' >= Wall!Pending(d) - 1
  BY <1>4, <1>6
<1>9. /\ \A d \in Callers : at'[d] # "idle" =>
            at'[d] = at[d] /\ ip'[d] = ip[d] /\ timed'[d] = timed[d]
      /\ \A d \in Callers : at[d] = "accept" => at'[d] = "accept"
  BY <1>1 DEF WallTypes
<1>10. \A d \in (permanent' \cap Hosts) \ (undermined' \cup feigned') :
          d \notin undermined \cup feigned /\ d # b /\ orphans'[d] = orphans[d]
  BY <1>3, <1>6
<1> QED BY <1>2, <1>7, <1>8, <1>9, <1>10, CutKeeps

LEMMA WakeOrphanKeeps ==
  ASSUME WallInv, NEW a \in Hosts, Wall!WakeOrphan(a)
  PROVE  WallInv'
<1> USE DEF Wall!calls, Wall!WakeOrphan
<1>1. WallTypes /\ Wall!Expire(a) /\ orphans[a] \in Nat \ {0}
  BY DEF WallInv, WallTypes
<1>2. WallTypes'
  BY <1>1, DeleteFacts DEF WallTypes
<1>3. a \notin permanent \/ a \in undermined \cup feigned
  BY <1>1 DEF WallInv, NoTimer
<1>4. \A b \in Hosts : /\ Wall!Pending(b) \in Nat /\ Wall!Pending(b)' \in Nat
                       /\ b # a => Wall!Pending(b)' = Wall!Pending(b)
                       /\ Wall!Pending(b)' >= Wall!Pending(b) - 1
  <2> SUFFICES ASSUME NEW b \in Hosts
               PROVE  /\ Wall!Pending(b) \in Nat /\ Wall!Pending(b)' \in Nat
                      /\ b # a => Wall!Pending(b)' = Wall!Pending(b)
                      /\ Wall!Pending(b)' >= Wall!Pending(b) - 1
    OBVIOUS
  <2>1. Wall!Sleeping(b)' = Wall!Sleeping(b)
    BY DEF Wall!Sleeping
  <2>2. Wall!Pending(b)' = Cardinality(Wall!Sleeping(b)) + orphans'[b]
    BY <2>1, SameCardinality DEF Wall!Pending
  <2>3. /\ Wall!Pending(b) = Cardinality(Wall!Sleeping(b)) + orphans[b]
        /\ Cardinality(Wall!Sleeping(b)) \in Nat
    BY <1>1, SleepersFinite
  <2>4. /\ orphans'[b] = IF b = a THEN orphans[b] - 1 ELSE orphans[b]
        /\ orphans[b] \in Nat /\ orphans'[b] \in Nat
    BY <1>1, <1>2 DEF WallTypes
  <2> QED BY <2>2, <2>3, <2>4
<1>5. \A d \in (permanent' \cap Hosts) \ (undermined' \cup feigned') :
          d \notin undermined \cup feigned /\ d # a /\ orphans'[d] = orphans[d]
  BY <1>1, <1>3 DEF WallTypes
<1> QED BY <1>1, <1>2, <1>4, <1>5, CutKeeps

LEMMA UnblockKeeps ==
  ASSUME WallInv, NEW c \in Callers, NEW a \in Hosts, Wall!UnblockIp(c, a)
  PROVE  WallInv'
<1> USE DEF Wall!calls, Wall!UnblockIp
<1>1. CASE UNCHANGED <<chain, kept>>
  <2>1. \A b : Wall!Count(b)' = Wall!Count(b) /\ Wall!Blocked(b)' = Wall!Blocked(b)
    BY <1>1, ChainKept
  <2>2. WallTypes' /\ PermanentAreHosts'
    BY <1>1 DEF WallInv, WallTypes, PermanentAreHosts
  <2>3. OneAdder' /\ NoTimer'
    BY <2>1 DEF WallInv, OneAdder, NoTimer
  <2>4. TimedBlocksEnd' /\ EstablishedSurvive'
    BY <1>1, <2>1 DEF WallInv, TimedBlocksEnd, Wall!TimedBlocksEnd, Wall!Pending, Wall!Sleeping,
                      EstablishedSurvive, Wall!EstablishedSurvive
  <2> QED BY <2>2, <2>3, <2>4 DEF WallInv
<1>2. CASE Wall!Delete(a)
  <2>1. WallTypes /\ Wall!Expire(a)
    BY <1>2 DEF WallInv, Wall!Expire
  <2>2. WallTypes'
    BY <2>1, DeleteFacts DEF WallTypes
  <2>3. \A b \in Hosts : /\ Wall!Pending(b) \in Nat /\ Wall!Pending(b)' \in Nat
                         /\ b # a => Wall!Pending(b)' = Wall!Pending(b)
                         /\ Wall!Pending(b)' >= Wall!Pending(b) - 1
    <3>1. \A b \in Hosts : Wall!Pending(b) \in Nat
      BY <2>1, SleepersFinite
    <3>2. \A b \in Hosts : Wall!Pending(b)' = Wall!Pending(b)
      BY DEF Wall!Pending, Wall!Sleeping
    <3> QED BY <3>1, <3>2
  <2>4. \A d \in (permanent' \cap Hosts) \ (undermined' \cup feigned') :
            d \notin undermined \cup feigned /\ d # a /\ orphans'[d] = orphans[d]
    OBVIOUS
  <2> QED BY <2>1, <2>2, <2>3, <2>4, CutKeeps
<1> QED BY <1>1, <1>2

(* The lockdown adds no rule of an address, and what it restores is none.    *)
LEMMA LockdownKeeps ==
  ASSUME WallInv, NEW c \in Callers,
         \/ Wall!LockdownPosture(c) \/ Wall!AcceptFails(c) \/ Wall!RestorePosture(c)
  PROVE  WallInv'
<1> USE DEF Wall!kernel, Wall!calls, Wall!history, Wall!Goto, Wall!Return, Awake, Others
<1>1. WallTypes /\ chain' = chain
  BY DEF WallInv, Wall!LockdownPosture, Wall!AcceptFails, Wall!RestorePosture
<1>2. \A a : Wall!Count(a)' = Wall!Count(a) /\ Wall!Blocked(a)' = Wall!Blocked(a)
  BY <1>1, ChainKept
<1>3. CASE Wall!LockdownPosture(c)
  <2> USE <1>3 DEF Wall!LockdownPosture
  <2>1. WallTypes'
    BY <1>1 DEF WallTypes, Places
  <2>2. OneAdder' /\ NoTimer' /\ PermanentAreHosts'
    BY <1>1, <1>2 DEF WallInv, OneAdder, NoTimer, PermanentAreHosts, WallTypes
  <2>3. TimedBlocksEnd' /\ EstablishedSurvive'
    <3>1. /\ Awake(c) /\ Awake(c)' /\ Others(c) /\ at'[c] = "accept" /\ at[c] # "accept"
          /\ orphans' = orphans /\ kept' = kept /\ half_locked' = half_locked
      BY <1>1 DEF WallTypes
    <3> QED BY <1>1, <2>1, <3>1, QuietKeeps
  <2> QED BY <2>1, <2>2, <2>3 DEF WallInv
<1>4. CASE Wall!AcceptFails(c)
  <2> USE <1>4, DaemonAssumption DEF Wall!AcceptFails
  <2>1. WallTypes'
    BY <1>1 DEF WallTypes, Places
  <2>2. OneAdder' /\ NoTimer' /\ PermanentAreHosts'
    BY <1>1, <1>2 DEF WallInv, OneAdder, NoTimer, PermanentAreHosts, WallTypes
  <2>3. TimedBlocksEnd' /\ EstablishedSurvive'
    <3>1. /\ Awake(c) /\ Awake(c)' /\ Others(c) /\ policy' = policy
          /\ orphans' = orphans /\ kept' = kept /\ half_locked'
      BY <1>1 DEF WallTypes
    <3> QED BY <1>1, <2>1, <3>1, QuietKeeps
  <2> QED BY <2>1, <2>2, <2>3 DEF WallInv
<1>5. CASE Wall!RestorePosture(c)
  <2> USE <1>5 DEF Wall!RestorePosture
  <2>1. WallTypes'
    BY <1>1 DEF WallTypes
  <2>2. OneAdder' /\ NoTimer' /\ PermanentAreHosts'
    BY <1>1, <1>2 DEF WallInv, OneAdder, NoTimer, PermanentAreHosts
  <2>3. TimedBlocksEnd'
    BY <1>2 DEF WallInv, TimedBlocksEnd, Wall!TimedBlocksEnd, Wall!Pending, Wall!Sleeping
  <2>4. EstablishedSurvive'
    BY <1>2 DEF WallInv, EstablishedSurvive, Wall!EstablishedSurvive
  <2> QED BY <2>1, <2>2, <2>3, <2>4 DEF WallInv
<1> QED BY <1>3, <1>4, <1>5

LEMMA AcceptKeeps ==
  ASSUME WallInv, NEW c \in Callers, Wall!AcceptEstablished(c)
  PROVE  WallInv'
<1> USE DaemonAssumption DEF Wall!history, Wall!Return, Awake, Others, Wall!AcceptEstablished
<1>1. WallTypes /\ "established" \in Rules /\ at[c] = "accept"
  BY DEF WallInv, Rules
<1>2. WallTypes'
  <2>1. chain' \in Seq(Rules)
    BY <1>1 DEF WallTypes
  <2> QED BY <1>1, <2>1 DEF WallTypes, Places
<1>3. /\ \A a \in Hosts : Wall!Count(a)' = Wall!Count(a) /\ Wall!Blocked(a)' = Wall!Blocked(a)
      /\ Wall!Blocked("established")'
  <2>1. \A a : Wall!Count(a)' = IF a = "established" THEN Wall!Count(a) + 1 ELSE Wall!Count(a)
    BY <1>1, <1>2, ChainGrown
  <2>2. \A a : Wall!Count(a) \in Nat /\ (Wall!Blocked(a) <=> Wall!Count(a) > 0)
    BY <1>1, ChainFacts
  <2>3. \A a : Wall!Blocked(a)' <=> Wall!Count(a)' > 0
    BY <1>2, ChainFactsNext
  <2>4. \A a : Wall!Blocked(a)' \in BOOLEAN /\ Wall!Blocked(a) \in BOOLEAN
    BY DEF Wall!Blocked
  <2> QED BY <2>1, <2>2, <2>3, <2>4
<1>4. OneAdder' /\ NoTimer' /\ PermanentAreHosts'
  BY <1>1, <1>3 DEF WallInv, OneAdder, NoTimer, PermanentAreHosts, WallTypes
<1>5. TimedBlocksEnd'
  <2>1. \A a \in Hosts : Wall!Pending(a)' = Wall!Pending(a)
    BY <1>1, <1>2, TimersKept DEF WallTypes
  <2> QED BY <1>3, <2>1 DEF WallInv, TimedBlocksEnd, Wall!TimedBlocksEnd
<1>6. EstablishedSurvive'
  BY <1>3 DEF EstablishedSurvive, Wall!EstablishedSurvive
<1> QED BY <1>2, <1>4, <1>5, <1>6 DEF WallInv

(* The daemon ends: the shells that sleep are nobody's, and a timer that was *)
(* about to be started is not.                                               *)
LEMMA CrashKeeps ==
  ASSUME WallInv, Wall!Crash
  PROVE  WallInv'
<1> USE DaemonAssumption DEF Wall!kernel, Wall!Crash
<1>1. WallTypes /\ chain' = chain /\ \A c \in Callers : at'[c] = "idle" /\ ip'[c] = none
  BY DEF WallInv
<1>2. \A a : /\ Wall!Count(a)' = Wall!Count(a) /\ Wall!Blocked(a)' = Wall!Blocked(a)
             /\ Wall!Count(a) \in Nat
  BY <1>1, ChainKept, ChainFacts
<1> DEFINE Asleep(a) == {c \in Callers : ip[c] = a /\ at[c] = "asleep"}
<1>3. ASSUME NEW a \in Hosts
      PROVE  /\ Cardinality(Asleep(a)) \in Nat
             /\ Cardinality(Asleep(a)) = 0 <=> Asleep(a) = {}
             /\ orphans'[a] = orphans[a] + Cardinality(Asleep(a))
  <2>1. IsFiniteSet(Asleep(a))
    BY FS_Subset
  <2>2. orphans'[a] = orphans[a] + Cardinality(Asleep(a))
    BY SameCardinality
  <2> QED BY <2>1, <2>2, FS_CardinalityType, FS_EmptySet
<1>4. WallTypes'
  <2>1. orphans' \in [Hosts -> Nat]
    <3>1. ASSUME NEW a \in Hosts PROVE orphans'[a] \in Nat
      <4>1. orphans[a] \in Nat
        BY <1>1 DEF WallTypes
      <4>2. /\ Cardinality(Asleep(a)) \in Nat
            /\ orphans'[a] = orphans[a] + Cardinality(Asleep(a))
        BY <1>3
      <4> HIDE DEF Asleep
      <4> QED BY <4>1, <4>2
    <3>2. orphans' = [a \in Hosts |-> orphans'[a]]
      OBVIOUS
    <3> QED BY <3>1, <3>2
  <2> QED BY <1>1, <2>1 DEF WallTypes, Places
<1>5. OneAdder' /\ PermanentAreHosts'
  BY <1>1, <1>2 DEF WallInv, OneAdder, PermanentAreHosts
<1>6. NoTimer'
  <2> SUFFICES ASSUME NEW a \in Hosts, a \in permanent, a \notin undermined \cup feigned
               PROVE  Wall!Blocked(a)' /\ orphans'[a] = 0
    BY <1>1 DEF NoTimer
  <2>1. Wall!Blocked(a) /\ orphans[a] = 0 /\ Asleep(a) = {}
    BY DEF WallInv, NoTimer
  <2> QED BY <1>2, <1>3, <2>1
<1>7. EstablishedSurvive'
  BY <1>1, <1>2 DEF WallInv, EstablishedSurvive, Wall!EstablishedSurvive
<1>8. TimedBlocksEnd'
  <2> SUFFICES ASSUME NEW a \in Hosts, a \notin kept'
               PROVE  Wall!Count(a)' <= Wall!Pending(a)'
    BY DEF TimedBlocksEnd, Wall!TimedBlocksEnd
  <2>1. a \notin kept /\ \A c \in Callers : ~ (ip[c] = a /\ at[c] = "arm")
    OBVIOUS
  <2>2. Wall!Sleeping(a) = Asleep(a)
    BY <2>1 DEF Wall!Sleeping
  <2>3. Wall!Pending(a) = orphans'[a] /\ orphans'[a] \in Nat
    <3>1. Wall!Pending(a) = Cardinality(Asleep(a)) + orphans[a]
      BY <1>1, <2>2, SleepersFinite
    <3>2. orphans[a] \in Nat
      BY <1>1 DEF WallTypes
    <3>3. /\ Cardinality(Asleep(a)) \in Nat
          /\ orphans'[a] = orphans[a] + Cardinality(Asleep(a))
      BY <1>3
    <3> HIDE DEF Asleep
    <3> QED BY <3>1, <3>2, <3>3
  <2>4. Wall!Sleeping(a)' = {}
    BY <1>1 DEF Wall!Sleeping
  <2>5. Wall!Pending(a)' = orphans'[a]
    <3>1. Wall!Pending(a)' = Cardinality(Wall!Sleeping(a)') + orphans'[a]
      BY SameCardinality DEF Wall!Pending
    <3> QED BY <2>3, <2>4, <3>1, FS_EmptySet
  <2>6. Wall!Count(a) <= Wall!Pending(a)
    BY <2>1 DEF WallInv, TimedBlocksEnd, Wall!TimedBlocksEnd
  <2> QED BY <1>2, <2>3, <2>5, <2>6
<1> QED BY <1>4, <1>5, <1>6, <1>7, <1>8 DEF WallInv

LEMMA WallStutter ==
  ASSUME WallInv, UNCHANGED Wall!vars
  PROVE  WallInv'
<1> USE DEF Wall!vars, Wall!kernel, Wall!calls, Wall!history
<1>1. \A a : Wall!Count(a)' = Wall!Count(a) /\ Wall!Blocked(a)' = Wall!Blocked(a)
  BY ChainKept
<1>2. WallTypes' /\ PermanentAreHosts'
  BY DEF WallInv, WallTypes, PermanentAreHosts
<1>3. OneAdder' /\ NoTimer'
  BY <1>1 DEF WallInv, OneAdder, NoTimer
<1>4. TimedBlocksEnd'
  BY <1>1 DEF WallInv, TimedBlocksEnd, Wall!TimedBlocksEnd, Wall!Pending, Wall!Sleeping
<1>5. EstablishedSurvive'
  BY <1>1 DEF WallInv, EstablishedSurvive, Wall!EstablishedSurvive
<1> QED BY <1>2, <1>3, <1>4, <1>5 DEF WallInv

LEMMA WallInductive == WallInv /\ [Wall!Next]_(Wall!vars) => WallInv'
<1> SUFFICES ASSUME WallInv, Wall!Next \/ UNCHANGED Wall!vars PROVE WallInv'
  OBVIOUS
<1>1. ASSUME NEW c \in Callers, Wall!Step(c) PROVE WallInv'
  BY <1>1, CheckKeeps, AddKeeps, ArmKeeps, WakeKeeps, UnblockKeeps, LockdownKeeps, AcceptKeeps
     DEF Wall!Step
<1> QED BY <1>1, WakeOrphanKeeps, CrashKeeps, WallStutter DEF Wall!Next

LEMMA WallInvariance == Wall!Spec => []WallInv
BY WallInitially, WallInductive, PTL DEF Wall!Spec

LEMMA WallConsequences == WallInv => DuplicatesOnlyByRace /\ PermanentBlockHolds
<1> SUFFICES ASSUME WallInv PROVE DuplicatesOnlyByRace /\ PermanentBlockHolds
  OBVIOUS
<1>1. \A a \in Hosts : Wall!Count(a) \in Nat
  BY ChainFacts DEF WallInv
<1>2. DuplicatesOnlyByRace
  BY <1>1 DEF WallInv, OneAdder, DuplicatesOnlyByRace, Wall!DuplicatesOnlyByRace
<1>3. PermanentBlockHolds
  BY DEF WallInv, NoTimer, PermanentAreHosts, PermanentBlockHolds, Wall!PermanentBlockHolds
<1> QED BY <1>2, <1>3

(* Two rules of an address come only from two callers who have both found it *)
(* without one, or from a look that iptables could not take: block_ip looks  *)
(* and adds in two commands.                                                 *)
THEOREM DuplicatesCharacterised == Wall!Spec => []DuplicatesOnlyByRace
BY WallInvariance, WallConsequences, PTL

(* A block for good stands until unblock_ip, unless a timed block of its     *)
(* address was under way, or could not see its rule (block_ip's timers       *)
(* delete by address, whoever has added the rule), or it was never there:    *)
(* the command that should have seen or added its rule was killed.           *)
THEOREM BlocksForGoodHold == Wall!Spec => []PermanentBlockHolds
BY WallInvariance, WallConsequences, PTL

(* An address has no more rules than timers that will delete them, unless    *)
(* it is kept: blocked for good, or its timer lost with the daemon or to a   *)
(* command that failed or was killed.                                        *)
THEOREM TimersMatchRules == Wall!Spec => []TimedBlocksEnd
BY WallInvariance, PTL DEF WallInv

(* A chain that lockdown_posture has closed lets established connections     *)
(* through, unless the lockdown is half-way or has ended there.              *)
THEOREM LockdownLetsEstablished == Wall!Spec => []EstablishedSurvive
BY WallInvariance, PTL DEF WallInv

-----------------------------------------------------------------------------
(* The files. *)

Lines == [path : Paths, hash : Hashes \cup {torn}]

EndOf(s, l) ==
    /\ Len(s) <= Len(l)
    /\ \A i \in 1 .. Len(s) : s[i] = l[Len(l) - Len(s) + i]

FimTypes ==
    /\ contents \in [Paths -> F!Content]
    /\ pc \in {"idle", "creating", "scanning"}
    /\ on_disk \in Seq(Lines) /\ baseline \in Seq(Lines) /\ printed \in Seq(Lines)
    /\ todo \in Seq(Paths)

(* Each line of s is one of l, but for its hash, which may be cut. *)
LinesOf(s, l) ==
    \A i \in 1 .. Len(s) :
        \E j \in 1 .. Len(l) : s[i].path = l[j].path /\ s[i].hash \in {l[j].hash, torn}

(* What a call prints is what it remembers, and a restart has room for it.   *)
FimInv ==
    /\ FimTypes
    /\ EndOf(printed, baseline) /\ Len(printed) <= MAX_FILES /\ Len(on_disk) <= MAX_FILES
    /\ pc # "creating" => LinesOf(on_disk, printed)
    /\ pc = "creating" => Len(printed) + Len(todo) <= MAX_FILES

LEMMA EndIsSubSeq ==
  ASSUME NEW l \in Seq(Lines), NEW s \in Seq(Lines), EndOf(s, l)
  PROVE  s = SubSeq(l, Len(l) - Len(s) + 1, Len(l))
<1> DEFINE m == Len(l) - Len(s) + 1
           t == SubSeq(l, m, Len(l))
<1>1. /\ Len(l) \in Nat /\ Len(s) \in Nat /\ m \in Nat /\ m >= 1 /\ m <= Len(l) + 1
      /\ Len(l) - m + 1 = Len(s)
  BY DEF EndOf
<1>2. \A i \in m .. Len(l) : l[i] \in Lines
  BY <1>1
<1>3. /\ t \in Seq(Lines)
      /\ Len(t) = IF m <= Len(l) THEN Len(l) - m + 1 ELSE 0
      /\ \A i \in 1 .. Len(l) - m + 1 : t[i] = l[m + i - 1]
  <2> HIDE DEF Lines, m
  <2> QED BY <1>1, <1>2, SubSeqProperties
<1> HIDE DEF t
<1>4. Len(t) = Len(s)
  BY <1>1, <1>3
<1>5. ASSUME NEW i \in 1 .. Len(s)
      PROVE  t[i] = s[i]
  <2>1. i \in 1 .. Len(l) - m + 1 /\ m + i - 1 = Len(l) - Len(s) + i
    BY <1>1
  <2>2. s[i] = l[Len(l) - Len(s) + i]
    BY DEF EndOf
  <2>3. t[i] = l[m + i - 1]
    BY <1>3, <2>1
  <2>4. l[m + i - 1] = l[Len(l) - Len(s) + i]
    BY <2>1
  <2> HIDE DEF m
  <2> QED BY <2>2, <2>3, <2>4
<1>6. s = t
  BY <1>3, <1>4, <1>5, SeqEqual
<1> QED BY <1>6 DEF t

(* What fits into the array is loaded as it is. *)
LEMMA LoadedShape ==
  ASSUME NEW S, NEW s \in Seq(S)
  PROVE  /\ F!Loaded(s) \in Seq(S)
         /\ Len(F!Loaded(s)) <= MAX_FILES
         /\ Len(F!Loaded(s)) <= Len(s) /\ \A i \in 1 .. Len(F!Loaded(s)) : F!Loaded(s)[i] = s[i]
         /\ Len(s) <= MAX_FILES => F!Loaded(s) = s
<1> DEFINE n == IF Len(s) < MAX_FILES THEN Len(s) ELSE MAX_FILES
<1>1. n \in Nat /\ n <= Len(s) /\ n <= MAX_FILES /\ Len(s) \in Nat
  BY DaemonAssumption
<1>2. F!Loaded(s) = SubSeq(s, 1, n)
  BY DEF F!Loaded
<1>3. Len(s) <= MAX_FILES => n = Len(s)
  BY <1>1, DaemonAssumption
<1> HIDE DEF n
<1>4. \A i \in 1 .. n : s[i] \in S
  BY <1>1
<1>5. /\ SubSeq(s, 1, n) \in Seq(S) /\ Len(SubSeq(s, 1, n)) = n
      /\ \A i \in 1 .. n : SubSeq(s, 1, n)[i] = s[i]
  BY <1>1, <1>4, SubSeqProperties
<1>6. SubSeq(s, 1, Len(s)) = s
  BY SubSeqFull
<1> QED BY <1>1, <1>2, <1>3, <1>5, <1>6

LEMMA LineOf ==
  ASSUME NEW s \in Seq(Lines), NEW i \in 1 .. Len(s)
  PROVE  s[i] \in Lines /\ s[i].path \in Paths /\ s[i].hash \in Hashes \cup {torn}
<1>1. s[i] \in Lines
  <2> HIDE DEF Lines
  <2> QED OBVIOUS
<1> QED BY <1>1 DEF Lines

(* A file has no more lines than were printed, and each is one of them. *)
LEMMA FlushedShape ==
  ASSUME FimTypes, NEW s \in F!Flushed
  PROVE  /\ s \in Seq(Lines) /\ Len(s) <= Len(printed)
         /\ LinesOf(s, printed)
<1>1. PICK m \in 0 .. Len(printed) :
         s \in {F!Cut(g, m, cut) : g \in F!Kept(m), cut \in SUBSET (1 .. m)}
  BY DEF F!Flushed
<1>2. PICK g \in F!Kept(m), cut \in SUBSET (1 .. m) : s = F!Cut(g, m, cut)
  BY <1>1
<1>3. m \in Nat /\ m <= Len(printed) /\ \A i \in 1 .. m : g[i] \in 1 .. Len(printed)
  BY DEF FimTypes, F!Kept
<1>4. \A i \in 1 .. m : printed[g[i]] \in Lines
  BY <1>3, LineOf DEF FimTypes
<1>5. \A i \in 1 .. m : /\ s[i] \in Lines /\ s[i].path = printed[g[i]].path
                        /\ s[i].hash \in {printed[g[i]].hash, torn}
  <2> SUFFICES ASSUME NEW i \in 1 .. m
               PROVE  /\ s[i] \in Lines /\ s[i].path = printed[g[i]].path
                      /\ s[i].hash \in {printed[g[i]].hash, torn}
    OBVIOUS
  <2>1. s[i] = IF i \in cut THEN [printed[g[i]] EXCEPT !.hash = torn] ELSE printed[g[i]]
    BY <1>2 DEF F!Cut
  <2> QED BY <1>4, <2>1 DEF Lines
<1>6. s \in [1 .. m -> Lines]
  <2>1. s = [i \in 1 .. m |-> s[i]]
    BY <1>2 DEF F!Cut
  <2> QED BY <1>5, <2>1
<1>7. s \in Seq(Lines) /\ Len(s) = m
  BY <1>3, <1>6
<1> QED BY <1>3, <1>5, <1>7 DEF LinesOf

LEMMA FimInitially == F!Init => FimInv
BY DaemonAssumption DEF F!Init, FimInv, FimTypes, EndOf, LinesOf

LEMMA CreateKeeps ==
  ASSUME FimInv, F!Create
  PROVE  FimInv'
<1> USE DEF F!files, F!scan, F!Create
<1>1. PICK s \in F!Arguments : todo' = F!Loaded(s)
  OBVIOUS
<1>2. s \in Seq(Paths)
  <2>1. PICK n \in 0 .. MaxArguments : s \in [1 .. n -> Paths]
    BY DEF F!Arguments
  <2> QED BY <2>1, DaemonAssumption
<1>3. todo' \in Seq(Paths) /\ Len(todo') <= MAX_FILES
  BY <1>1, <1>2, LoadedShape
<1> QED BY <1>3, DaemonAssumption DEF FimInv, FimTypes, EndOf

LEMMA HashKeeps ==
  ASSUME FimInv, NEW p \in Paths, F!HashPath(p)
  PROVE  FimInv'
<1> USE DEF F!HashPath, F!scan
<1>1. /\ FimTypes /\ pc = "creating" /\ pc' = "creating"
      /\ EndOf(printed, baseline) /\ Len(printed) + Len(todo) <= MAX_FILES
  BY DEF FimInv
<1>2. todo' \in Seq(Paths) /\ Len(todo') = Len(todo) - 1
  BY <1>1 DEF FimTypes
<1>3. CASE contents[p] = absent
  BY <1>1, <1>2, <1>3, DaemonAssumption DEF FimInv, FimTypes, EndOf
<1>4. CASE contents[p] # absent
  <2> DEFINE e == [path |-> p, hash |-> contents[p]]
  <2>1. e \in Lines
    BY <1>1, <1>4 DEF FimTypes, F!Content, Lines
  <2>2. printed' = Append(printed, e) /\ baseline' = Append(baseline, e)
    BY <1>4 DEF F!Remember
  <2> HIDE DEF e
  <2>3. /\ printed \in Seq(Lines) /\ baseline \in Seq(Lines)
        /\ Len(printed) \in Nat /\ Len(baseline) \in Nat
    BY <1>1 DEF FimTypes
  <2>4. /\ printed' \in Seq(Lines) /\ baseline' \in Seq(Lines)
        /\ Len(printed') = Len(printed) + 1 /\ Len(baseline') = Len(baseline) + 1
        /\ \A i \in 1 .. Len(printed) : printed'[i] = printed[i]
        /\ \A i \in 1 .. Len(baseline) : baseline'[i] = baseline[i]
        /\ printed'[Len(printed) + 1] = e /\ baseline'[Len(baseline) + 1] = e
    BY <2>1, <2>2, <2>3
  <2>5. EndOf(printed', baseline')
    <3> SUFFICES ASSUME NEW i \in 1 .. Len(printed')
                 PROVE  printed'[i] = baseline'[Len(baseline') - Len(printed') + i]
      BY <1>1, <2>3, <2>4 DEF EndOf
    <3>1. CASE i = Len(printed) + 1
      BY <2>3, <2>4, <3>1
    <3>2. CASE i # Len(printed) + 1
      <4>1. i \in 1 .. Len(printed) /\ Len(baseline) - Len(printed) + i \in 1 .. Len(baseline)
        BY <1>1, <2>3, <2>4, <3>2 DEF EndOf
      <4>2. Len(baseline') - Len(printed') + i = Len(baseline) - Len(printed) + i
        BY <2>3, <2>4
      <4> QED BY <1>1, <2>4, <4>1, <4>2 DEF EndOf
    <3> QED BY <3>1, <3>2
  <2>6. Len(printed') + Len(todo') <= MAX_FILES
    BY <1>1, <1>2, <2>3, <2>4, DaemonAssumption DEF FimTypes
  <2>7. Len(printed') <= MAX_FILES /\ Len(on_disk') <= MAX_FILES
    BY <1>1, <1>2, <2>3, <2>4, <2>6, DaemonAssumption DEF FimInv, FimTypes
  <2> QED BY <1>1, <1>2, <2>4, <2>5, <2>6, <2>7 DEF FimInv, FimTypes
<1> QED BY <1>3, <1>4

LEMMA CloseKeeps ==
  ASSUME FimInv, F!Close
  PROVE  FimInv'
<1> USE DEF F!Close, F!files, F!memory, F!scan
<1>1. FimTypes /\ Len(printed) <= MAX_FILES /\ Len(printed) \in Nat
  BY DEF FimInv, FimTypes
<1>2. on_disk' \in Seq(Lines) /\ Len(on_disk') <= Len(printed) /\ LinesOf(on_disk', printed)
  BY <1>1, FlushedShape
<1>3. Len(on_disk') <= MAX_FILES
  BY <1>1, <1>2, DaemonAssumption
<1> QED BY <1>1, <1>2, <1>3 DEF FimInv, FimTypes, EndOf, LinesOf

LEMMA FimRestartKeeps ==
  ASSUME FimInv, F!Restart
  PROVE  FimInv'
<1> USE DEF F!Restart
<1>1. on_disk' \in Seq(Lines) /\ Len(on_disk') <= MAX_FILES
  <2>1. CASE pc = "creating"
    <3>1. on_disk' \in Seq(Lines) /\ Len(on_disk') <= Len(printed)
      BY <2>1, FlushedShape DEF FimInv
    <3> QED BY <2>1, <3>1, DaemonAssumption DEF FimInv, FimTypes
  <2>2. CASE pc # "creating"
    BY <2>2 DEF FimInv, FimTypes
  <2> QED BY <2>1, <2>2
<1>2. baseline' = on_disk' /\ printed' = on_disk'
  BY <1>1, LoadedShape
<1>3. EndOf(printed', baseline') /\ LinesOf(on_disk', printed')
  BY <1>1, <1>2 DEF EndOf, LinesOf
<1> QED BY <1>1, <1>2, <1>3 DEF FimInv, FimTypes

LEMMA FimInductive == FimInv /\ [F!Next]_(F!vars) => FimInv'
<1> SUFFICES ASSUME FimInv, [F!Next]_(F!vars) PROVE FimInv'
  OBVIOUS
<1>1. ASSUME F!BeginScan \/ F!ScanEntry \/ F!Announce \/ \E p \in Paths : F!Change(p)
      PROVE  FimInv'
  BY <1>1 DEF F!BeginScan, F!ScanEntry, F!Announce, F!Change, F!files, F!memory, F!creation, F!scan,
              F!Content, FimInv, FimTypes, EndOf, LinesOf
<1>2. CASE UNCHANGED F!vars
  BY <1>2 DEF F!vars, F!files, F!memory, F!creation, F!scan, FimInv, FimTypes, EndOf, LinesOf
<1> QED BY <1>1, <1>2, CreateKeeps, HashKeeps, CloseKeeps, FimRestartKeeps DEF F!Next

LEMMA FimConsequence == FimInv => FileIsEndOfMemory
<1> SUFFICES ASSUME FimInv, pc # "creating"
             PROVE  /\ Len(printed) <= Len(baseline)
                    /\ printed = SubSeq(baseline, Len(baseline) - Len(printed) + 1, Len(baseline))
                    /\ \A i \in DOMAIN on_disk :
                          \E j \in DOMAIN printed :
                             /\ on_disk[i].path = printed[j].path
                             /\ on_disk[i].hash \in {printed[j].hash, torn}
  BY DEF FileIsEndOfMemory, F!FileIsEndOfMemory
<1>1. /\ EndOf(printed, baseline) /\ LinesOf(on_disk, printed)
      /\ printed \in Seq(Lines) /\ baseline \in Seq(Lines) /\ on_disk \in Seq(Lines)
  BY DEF FimInv, FimTypes
<1>2. printed = SubSeq(baseline, Len(baseline) - Len(printed) + 1, Len(baseline))
  BY <1>1, EndIsSubSeq
<1>3. DOMAIN on_disk = 1 .. Len(on_disk) /\ DOMAIN printed = 1 .. Len(printed)
  BY <1>1
<1> QED BY <1>1, <1>2, <1>3 DEF EndOf, LinesOf

(* What a restart loads are lines of the end of what the daemon has in       *)
(* memory, all of them if the disk took them, and there is room for them:    *)
(* fim_baseline_create prints what it remembers, in the same order.          *)
THEOREM RestartFindsMemory == F!Spec => []FileIsEndOfMemory
BY FimInitially, FimInductive, FimConsequence, PTL DEF F!Spec


-----------------------------------------------------------------------------
(* Every line holds what the last call for its path has hashed, or half of it. *)
Truthful(lines) == \A i \in 1 .. Len(lines) : lines[i].hash \in {agreed[lines[i].path], torn}

(* A call hashes a path once, and so what it has printed stays true. *)
CallInv ==
    /\ agreed \in [Paths -> F!Content]
    /\ Truthful(on_disk) /\ Truthful(printed)
    /\ pc = "creating" =>
        /\ on_disk = <<>>
        /\ \A i, j \in 1 .. Len(todo) : todo[i] = todo[j] => i = j
        /\ \A i \in 1 .. Len(printed), j \in 1 .. Len(todo) : printed[i].path # todo[j]

(* Memory is what was printed until a call adds to a baseline in use. *)
SameInv == ~rebaselined => baseline = printed

(* The report of a scan is what its entries show, but for files that change. *)
ReportInv ==
    pc = "scanning" =>
        /\ scanned \in Nat /\ scanned <= Len(baseline)
        /\ \A i \in 1 .. scanned : baseline[i].path \in touched \/ F!Verdict(baseline[i]) \subseteq changes
        /\ \A c \in changes :
               c.path \in touched \/ \E i \in 1 .. scanned : c \in F!Verdict(baseline[i])

ScanInv == FimInv /\ CallInv /\ SameInv /\ ReportInv

LEMMA ScanInitially == F!Init => ScanInv
<1> SUFFICES ASSUME F!Init PROVE ScanInv
  OBVIOUS
<1>1. FimInv
  BY FimInitially
<1>2. CallInv /\ SameInv /\ ReportInv
  BY DEF F!Init, F!Content, CallInv, SameInv, ReportInv, Truthful
<1> QED BY <1>1, <1>2 DEF ScanInv

(* A call empties the file, and has each of its paths once before it.       *)
LEMMA CreateKeepsScan ==
  ASSUME ScanInv, F!Create
  PROVE  CallInv' /\ SameInv' /\ ReportInv'
<1> USE DEF F!Create, F!files, F!scan
<1>1. FimTypes /\ CallInv /\ SameInv
  BY DEF ScanInv, FimInv
<1>2. PICK s \in F!Arguments : todo' = F!Loaded(s)
  OBVIOUS
<1>3. s \in Seq(Paths) /\ \A i, j \in 1 .. Len(s) : s[i] = s[j] => i = j
  <2>1. PICK n \in 0 .. MaxArguments : s \in [1 .. n -> Paths]
    BY DEF F!Arguments
  <2>2. \A i, j \in DOMAIN s : s[i] = s[j] => i = j
    BY DEF F!Arguments
  <2> QED BY <2>1, <2>2, DaemonAssumption
<1>4. \A i, j \in 1 .. Len(todo') : todo'[i] = todo'[j] => i = j
  <2>1. /\ Len(todo') \in Nat /\ Len(s) \in Nat /\ Len(todo') <= Len(s)
        /\ \A i \in 1 .. Len(todo') : todo'[i] = s[i]
    BY <1>2, <1>3, LoadedShape
  <2> QED BY <1>3, <2>1
<1>5. CallInv'
  BY <1>1, <1>4 DEF CallInv, Truthful
<1>6. SameInv'
  BY <1>1 DEF SameInv
<1> QED BY <1>5, <1>6 DEF ReportInv

(* What a file holds is printed, remembered and agreed upon at once.        *)
LEMMA HashKeepsScan ==
  ASSUME ScanInv, NEW p \in Paths, F!HashPath(p)
  PROVE  CallInv' /\ SameInv' /\ ReportInv'
<1> USE DEF F!HashPath, F!scan
<1>1. FimTypes /\ CallInv /\ SameInv /\ pc = "creating" /\ pc' = "creating"
  BY DEF ScanInv, FimInv
<1>2. /\ todo \in Seq(Paths) /\ todo # <<>> /\ p = todo[1] /\ Len(todo) \in Nat
      /\ todo' \in Seq(Paths) /\ Len(todo') = Len(todo) - 1
      /\ \A i \in 1 .. Len(todo') : todo'[i] = todo[i + 1]
  BY <1>1 DEF FimTypes
<1>3. \A i \in 1 .. Len(todo') : todo'[i] # p
  BY <1>1, <1>2 DEF CallInv
<1>4. /\ printed \in Seq(Lines) /\ Len(printed) \in Nat
      /\ \A i \in 1 .. Len(printed) : printed[i].path \in Paths /\ printed[i].path # p
  BY <1>1, <1>2, LineOf DEF FimTypes, CallInv
<1>5. agreed' \in [Paths -> F!Content] /\ agreed'[p] = contents[p]
      /\ \A x \in Paths : x # p => agreed'[x] = agreed[x]
  BY <1>1 DEF FimTypes, CallInv
<1>6. on_disk = <<>> /\ on_disk' = <<>>
  BY <1>1 DEF CallInv
<1>7. \A i, j \in 1 .. Len(todo') : todo'[i] = todo'[j] => i = j
  BY <1>1, <1>2 DEF CallInv
<1>8. \A i \in 1 .. Len(printed), j \in 1 .. Len(todo') : printed[i].path # todo'[j]
  BY <1>1, <1>2 DEF CallInv
<1>9. \A i \in 1 .. Len(printed) : printed[i].hash \in {agreed'[printed[i].path], torn}
  BY <1>1, <1>4, <1>5 DEF CallInv, Truthful
<1>10. CASE contents[p] = absent
  <2>1. printed' = printed /\ baseline' = baseline /\ rebaselined' = rebaselined
    BY <1>10
  <2>2. CallInv'
    BY <1>1, <1>5, <1>6, <1>7, <1>8, <1>9, <2>1 DEF CallInv, Truthful
  <2> QED BY <1>1, <2>1, <2>2 DEF SameInv, ReportInv
<1>11. CASE contents[p] # absent
  <2>1. PICK e : e = [path |-> p, hash |-> contents[p]]
    OBVIOUS
  <2>2. printed' = Append(printed, e) /\ baseline' = Append(baseline, e)
    BY <1>11, <2>1 DEF F!Remember
  <2>3. e \in Lines
    BY <1>1, <1>11, <2>1 DEF FimTypes, F!Content, Lines
  <2>4. /\ Len(printed') = Len(printed) + 1 /\ printed'[Len(printed) + 1] = e
        /\ \A i \in 1 .. Len(printed) : printed'[i] = printed[i]
    BY <1>4, <2>2, <2>3
  <2>5. e.path = p /\ e.hash = contents[p]
    BY <2>1
  <2>6. \A i \in 1 .. Len(printed') : i \in 1 .. Len(printed) \/ printed'[i] = e
    BY <1>4, <2>4
  <2>7. Truthful(printed)'
    BY <1>5, <1>9, <2>4, <2>5, <2>6 DEF Truthful
  <2>8. \A i \in 1 .. Len(printed'), j \in 1 .. Len(todo') : printed'[i].path # todo'[j]
    BY <1>3, <1>8, <2>4, <2>5, <2>6
  <2>9. CallInv'
    BY <1>1, <1>5, <1>6, <1>7, <2>7, <2>8 DEF CallInv, Truthful
  <2> QED BY <1>1, <2>2, <2>9 DEF SameInv, ReportInv
<1> QED BY <1>10, <1>11

(* What has reached the file is true, but for hashes that were cut. *)
LEMMA FlushedTruthful ==
  ASSUME FimTypes, Truthful(printed), NEW s \in F!Flushed
  PROVE  Truthful(s)
<1>1. LinesOf(s, printed)
  BY FlushedShape
<1> QED BY <1>1 DEF LinesOf, Truthful

LEMMA CloseKeepsScan ==
  ASSUME ScanInv, F!Close
  PROVE  CallInv' /\ SameInv' /\ ReportInv'
<1> USE DEF F!Close, F!files, F!memory, F!scan
<1>1. FimTypes /\ CallInv /\ SameInv
  BY DEF ScanInv, FimInv
<1>2. PICK s \in F!Flushed : s = on_disk'
  OBVIOUS
<1>3. Truthful(s)
  BY <1>1, FlushedTruthful DEF CallInv
<1> QED BY <1>1, <1>2, <1>3 DEF CallInv, SameInv, ReportInv, Truthful

(* A restart has in memory what is in the file. *)
LEMMA RestartKeepsScan ==
  ASSUME ScanInv, F!Restart
  PROVE  CallInv' /\ SameInv' /\ ReportInv'
<1> USE DEF F!Restart
<1>1. FimInv /\ FimTypes /\ CallInv
  BY DEF ScanInv, FimInv
<1>2. PICK s : s = on_disk'
  OBVIOUS
<1>3. s \in Seq(Lines) /\ Len(s) <= MAX_FILES /\ Truthful(s)
  <2>1. CASE pc = "creating"
    <3>1. s \in F!Flushed
      BY <1>2, <2>1
    <3>2. Truthful(s)
      BY <1>1, <3>1, FlushedTruthful DEF CallInv
    <3>3. s \in Seq(Lines) /\ Len(s) <= Len(printed)
      BY <1>1, <3>1, FlushedShape
    <3> QED BY <1>1, <2>1, <3>2, <3>3, DaemonAssumption DEF FimInv, FimTypes
  <2>2. CASE pc # "creating"
    BY <1>1, <1>2, <2>2 DEF FimInv, FimTypes, CallInv
  <2> QED BY <2>1, <2>2
<1>4. baseline' = s /\ printed' = s
  BY <1>2, <1>3, LoadedShape
<1>5. CallInv'
  BY <1>1, <1>2, <1>3, <1>4 DEF CallInv, Truthful
<1> QED BY <1>2, <1>4, <1>5 DEF SameInv, ReportInv

(* A file that changes during the scan is one of those that have. *)
LEMMA ChangeKeepsScan ==
  ASSUME ScanInv, NEW p \in Paths, F!Change(p)
  PROVE  CallInv' /\ SameInv' /\ ReportInv'
<1> USE DEF F!Change, F!memory, F!creation, F!scan
<1>1. FimTypes /\ CallInv /\ SameInv /\ ReportInv
  BY DEF ScanInv, FimInv
<1>2. CallInv' /\ SameInv'
  BY <1>1 DEF CallInv, SameInv, Truthful
<1>3. CASE pc = "scanning"
  <2>1. /\ pc' = "scanning" /\ touched' = touched \cup {p}
        /\ scanned' = scanned /\ changes' = changes /\ baseline' = baseline
    BY <1>3
  <2>2. \A x \in Paths : x # p => contents'[x] = contents[x]
    BY <1>1 DEF FimTypes
  <2>3. \A i \in 1 .. Len(baseline) : baseline[i].path \in Paths
    BY <1>1, LineOf DEF FimTypes
  <2>4. scanned \in Nat /\ scanned <= Len(baseline) /\ Len(baseline) \in Nat
    BY <1>1, <1>3 DEF ReportInv, FimTypes
  <2>5. ASSUME NEW i \in 1 .. scanned
        PROVE  baseline[i].path \in touched' \/ F!Verdict(baseline[i])' = F!Verdict(baseline[i])
    <3>1. baseline[i].path \in Paths
      BY <2>3, <2>4
    <3> QED BY <2>1, <2>2, <3>1 DEF F!Verdict
  <2>6. \A i \in 1 .. scanned :
           baseline[i].path \in touched' \/ F!Verdict(baseline[i])' \subseteq changes
    BY <1>1, <1>3, <2>1, <2>5 DEF ReportInv
  <2>7. ASSUME NEW c \in changes
        PROVE  c.path \in touched' \/ \E i \in 1 .. scanned : c \in F!Verdict(baseline[i])'
    <3>1. c.path \in touched \/ \E i \in 1 .. scanned : c \in F!Verdict(baseline[i])
      BY <1>1, <1>3 DEF ReportInv
    <3>2. ASSUME NEW i \in 1 .. scanned, c \in F!Verdict(baseline[i])
          PROVE  c.path \in touched' \/ c \in F!Verdict(baseline[i])'
      <4>1. c.path = baseline[i].path
        BY <3>2 DEF F!Verdict
      <4> QED BY <2>5, <3>2, <4>1
    <3> QED BY <2>1, <3>1, <3>2
  <2> QED BY <1>2, <2>1, <2>4, <2>6, <2>7 DEF ReportInv
<1>4. CASE pc # "scanning"
  BY <1>2, <1>4 DEF ReportInv
<1> QED BY <1>3, <1>4

(* The next entry is reported as it shows itself. *)
LEMMA EntryKeepsScan ==
  ASSUME ScanInv, F!ScanEntry
  PROVE  CallInv' /\ SameInv' /\ ReportInv'
<1> USE DEF F!ScanEntry, F!files, F!memory, F!creation
<1>1. FimTypes /\ CallInv /\ SameInv /\ ReportInv
  BY DEF ScanInv, FimInv
<1>2. CallInv' /\ SameInv'
  BY <1>1 DEF CallInv, SameInv, Truthful
<1>3. PICK n : n = scanned'
  OBVIOUS
<1>4. PICK v : v = F!Verdict(baseline[n])
  OBVIOUS
<1>5. /\ changes' = changes \cup v /\ baseline' = baseline /\ contents' = contents
      /\ touched' = touched
  BY <1>3, <1>4
<1>6. /\ scanned \in Nat /\ n = scanned + 1 /\ n \in Nat /\ n <= Len(baseline)
      /\ Len(baseline) \in Nat
  BY <1>1, <1>3 DEF ReportInv, FimTypes
<1>7. \A i \in 1 .. n : i \in 1 .. scanned \/ i = n
  BY <1>6
<1>8. \A i \in 1 .. n : F!Verdict(baseline[i])' = F!Verdict(baseline[i])
  BY <1>5 DEF F!Verdict
<1>9. \A i \in 1 .. n : baseline[i].path \in touched' \/ F!Verdict(baseline[i])' \subseteq changes'
  BY <1>1, <1>4, <1>5, <1>7, <1>8 DEF ReportInv
<1>10. \A c \in changes' :
          c.path \in touched' \/ \E i \in 1 .. n : c \in F!Verdict(baseline[i])'
  BY <1>1, <1>4, <1>5, <1>6, <1>8 DEF ReportInv
<1> QED BY <1>2, <1>3, <1>5, <1>6, <1>9, <1>10 DEF ReportInv

LEMMA ScanInductive == ScanInv /\ [F!Next]_(F!vars) => ScanInv'
<1> SUFFICES ASSUME ScanInv, [F!Next]_(F!vars) PROVE ScanInv'
  OBVIOUS
<1>1. FimInv'
  BY FimInductive DEF ScanInv
<1>2. CallInv' /\ SameInv' /\ ReportInv'
  <2>1. CASE F!BeginScan \/ F!Announce
    <3>1. FimTypes /\ CallInv /\ SameInv
      BY DEF ScanInv, FimInv
    <3> QED BY <2>1, <3>1 DEF F!BeginScan, F!Announce, F!files, F!memory, F!creation, FimTypes,
                 CallInv, SameInv, ReportInv, Truthful
  <2>2. CASE UNCHANGED F!vars
    BY <2>2 DEF F!vars, F!files, F!memory, F!creation, F!scan, ScanInv, FimInv,
                CallInv, SameInv, ReportInv, Truthful, F!Verdict
  <2> QED BY <2>1, <2>2, CreateKeepsScan, HashKeepsScan, CloseKeepsScan, RestartKeepsScan,
             ChangeKeepsScan, EntryKeepsScan DEF F!Next
<1> QED BY <1>1, <1>2 DEF ScanInv

LEMMA FimScanned == F!Spec => []ScanInv
BY ScanInitially, ScanInductive, PTL DEF F!Spec

LEMMA Announcing ==
  ASSUME ScanInv, F!Announce,
         NEW p \in F!Watched(printed) \ touched, contents[p] \notin {agreed[p], absent}
  PROVE  p \in F!Announced
<1>1. /\ FimTypes /\ CallInv /\ ReportInv /\ EndOf(printed, baseline)
      /\ pc = "scanning" /\ scanned = Len(baseline)
  BY DEF F!Announce, ScanInv, FimInv
<1>2. PICK i \in 1 .. Len(printed) : printed[i].path = p
  <2>1. DOMAIN printed = 1 .. Len(printed)
    BY <1>1 DEF FimTypes
  <2> QED BY <2>1 DEF F!Watched
<1>3. PICK k : k = Len(baseline) - Len(printed) + i
  OBVIOUS
<1>4. printed[i] = baseline[k] /\ k \in 1 .. scanned
  BY <1>1, <1>3 DEF EndOf, FimTypes
<1>5. p \in Paths /\ contents[p] \in F!Content
  BY <1>1, <1>2, LineOf DEF FimTypes
<1>6. printed[i].hash # contents[p]
  BY <1>1, <1>2, <1>5, DaemonAssumption DEF CallInv, Truthful, F!Content
<1>7. PICK c : c = [path |-> p, status |-> "modified"]
  OBVIOUS
<1>8. c \in F!Verdict(baseline[k])
  BY <1>2, <1>4, <1>6, <1>7 DEF F!Verdict
<1>9. c \in changes
  BY <1>1, <1>2, <1>4, <1>8 DEF ReportInv
<1>10. c.path = p /\ c.status = "modified"
  BY <1>7
<1> QED BY <1>9, <1>10 DEF F!Announced

LEMMA Explaining ==
  ASSUME ScanInv, F!Announce, NEW p \in F!Announced
  PROVE  \/ p \in touched
         \/ contents[p] # agreed[p]
         \/ rebaselined
         \/ \E i \in DOMAIN printed : printed[i] = [path |-> p, hash |-> torn]
<1>1. /\ FimTypes /\ CallInv /\ SameInv /\ ReportInv
      /\ pc = "scanning" /\ scanned = Len(baseline)
  BY DEF F!Announce, ScanInv, FimInv
<1>2. PICK c \in changes : c.status = "modified" /\ c.path = p
  BY DEF F!Announced
<1>3. CASE c.path \in touched
  BY <1>2, <1>3
<1>4. CASE rebaselined
  BY <1>4
<1>5. CASE c.path \notin touched /\ ~rebaselined
  <2>1. PICK i \in 1 .. Len(baseline) : c \in F!Verdict(baseline[i])
    BY <1>1, <1>5 DEF ReportInv
  <2>2. baseline = printed
    BY <1>1, <1>5 DEF SameInv
  <2>3. baseline[i].path = p /\ contents[p] # baseline[i].hash
    BY <1>2, <2>1 DEF F!Verdict
  <2>4. baseline[i] \in Lines /\ baseline[i].hash \in {agreed[p], torn}
    BY <1>1, <2>2, <2>3 DEF FimTypes, CallInv, Truthful
  <2>5. CASE baseline[i].hash = agreed[p]
    BY <2>3, <2>5
  <2>6. CASE baseline[i].hash = torn
    <3>1. baseline[i] = [path |-> p, hash |-> torn]
      BY <2>3, <2>4, <2>6 DEF Lines
    <3>2. DOMAIN printed = 1 .. Len(printed)
      BY <1>1 DEF FimTypes
    <3> QED BY <2>2, <3>1, <3>2
  <2> QED BY <2>4, <2>5, <2>6
<1> QED BY <1>3, <1>4, <1>5

(* No scan passes over a watched file that differed from its hash and held   *)
(* still while main went through the report, unless the file is gone:        *)
(* neither a call cut off in the middle nor an overfull array hides one.     *)
THEOREM ChangesAnnounced == F!Spec => ChangesAreAnnounced
<1>1. ScanInv /\ [F!Next]_(F!vars) =>
         [F!Announce =>
            \A p \in F!Watched(printed) \ touched :
               contents[p] \notin {agreed[p], absent} => p \in F!Announced]_(F!vars)
  BY Announcing
<1> QED BY <1>1, FimScanned, PTL DEF F!Spec, ChangesAreAnnounced, F!ChangesAreAnnounced

(* No scan announces a file that has not changed since a call last hashed   *)
(* it, but for the three reasons the property names.                        *)
THEOREM AlarmsExplained == F!Spec => AlarmsAreExplained
<1>1. ScanInv /\ [F!Next]_(F!vars) =>
         [F!Announce =>
            \A p \in F!Announced :
               \/ p \in touched
               \/ contents[p] # agreed[p]
               \/ rebaselined
               \/ \E i \in DOMAIN printed : printed[i] = [path |-> p, hash |-> torn]]_(F!vars)
  BY Explaining
<1> QED BY <1>1, FimScanned, PTL DEF F!Spec, AlarmsAreExplained, F!AlarmsAreExplained

-----------------------------------------------------------------------------
(* A behaviour of the runs is one of each engine, of which two stand still.  *)
LEMMA EnginesAlone == MCSpec => Spec /\ F!Spec /\ Wall!Spec
<1>1. MCInit => Init /\ F!Init /\ Wall!Init
  BY DEF MCInit
<1>2. [MCNext]_<<part, vars, fim, firewall>> =>
         [Next]_vars /\ [F!Next]_(F!vars) /\ [Wall!Next]_(Wall!vars)
  <2>1. UNCHANGED fim => UNCHANGED F!vars
    BY DEF fim, F!vars, F!files, F!memory, F!creation, F!scan
  <2>2. UNCHANGED firewall => UNCHANGED Wall!vars
    BY DEF firewall, Wall!vars, Wall!kernel, Wall!calls, Wall!history
  <2> QED BY <2>1, <2>2 DEF MCNext
<1> QED BY <1>1, <1>2, PTL DEF MCSpec, Spec, F!Spec, Wall!Spec
=============================================================================
