--------------------------------- MODULE Hids ---------------------------------
(***************************************************************************)
(* Host intrusion detection of the C daemon (c/src/hids/engine.c): a table  *)
(* of the addresses that failed to log in, kept from one scan of the log to *)
(* the next, and the list of those that a scan finds suspicious.            *)
(*                                                                         *)
(* A line stands for a "Failed password" from a valid address; the others   *)
(* only move counters of the report.  hids_scan reads the log at once and   *)
(* goes through it line by line; the next scan starts at its beginning      *)
(* again, so what it reads may hold all, some or none of the same lines.    *)
(***************************************************************************)
EXTENDS Naturals, Sequences

CONSTANTS Addresses,
          MAX_IPS,       (* entries of suspicious_ips                  (1024) *)
          MAX_LISTED,    (* entries of suspicious_ips_list              (256) *)
          MaxLines       (* bound on the failures in a log                    *)

ASSUME HidsAssumption == MAX_IPS \in Nat /\ MAX_LISTED \in Nat /\ MaxLines \in Nat

VARIABLES
    scanning,        (* hids_scan is running                                  *)
    unread,          (* lines it has yet to go through                        *)
    suspicious_ips,
    listed,          (* suspicious_ips_list of the scan, or of the last one   *)
    failures,        (* history: lines of each address in this scan, to 3     *)
    earlier          (* history: addresses that earlier scans have counted    *)

vars == <<scanning, unread, suspicious_ips, listed, failures, earlier>>

Threshold == 3

(* No branch tells failure counts above the threshold apart. *)
Plus1(n) == IF n < Threshold THEN n + 1 ELSE n

SuspiciousIp == [ip : Addresses, failure_count : 0 .. Threshold]

Init ==
    /\ scanning = FALSE
    /\ unread = <<>>
    /\ suspicious_ips = <<>>
    /\ listed = <<>>
    /\ failures = [a \in Addresses |-> 0]
    /\ earlier = {}

-----------------------------------------------------------------------------
(* hids_scan *)

Logs == UNION {[1 .. n -> Addresses] : n \in 0 .. MaxLines}

ReadLog ==
    /\ ~scanning
    /\ scanning' = TRUE
    /\ unread' \in Logs
    /\ listed' = <<>>
    /\ failures' = [a \in Addresses |-> 0]
    /\ earlier' = earlier \cup {a \in Addresses : failures[a] > 0}
    /\ UNCHANGED suspicious_ips

(* The entry of an address that has one. *)
Known(a, i) == i \in DOMAIN suspicious_ips /\ suspicious_ips[i].ip = a

(* find_or_add_ip, and the count of the entry it returns. *)
CountKnown(a, i) ==
    suspicious_ips' = [suspicious_ips EXCEPT ![i].failure_count = Plus1(@)]

Add(a) ==
    /\ Len(suspicious_ips) < MAX_IPS
    /\ suspicious_ips' = Append(suspicious_ips, [ip |-> a, failure_count |-> Plus1(0)])

(* Mutant of Listing: the threshold is off by one. *)
ListingEarly(a, count) ==
    IF /\ count >= Threshold - 1
       /\ \A j \in DOMAIN listed : listed[j] # a
       /\ Len(listed) < MAX_LISTED
    THEN Append(listed, a)
    ELSE listed

(* Mutant of Listing: only a count that has just reached the threshold lists. *)
ListingOnce(a, count) ==
    IF /\ count = Threshold
       /\ \A i \in DOMAIN suspicious_ips :
             Known(a, i) => suspicious_ips[i].failure_count < Threshold
       /\ Len(listed) < MAX_LISTED
    THEN Append(listed, a)
    ELSE listed

Listing(a, count) ==
    IF /\ count >= Threshold
       /\ \A j \in DOMAIN listed : listed[j] # a
       /\ Len(listed) < MAX_LISTED
    THEN Append(listed, a)
    ELSE listed

NextLine(a) ==
    /\ scanning
    /\ unread # <<>>
    /\ Head(unread) = a
    /\ unread' = Tail(unread)
    /\ failures' = [failures EXCEPT ![a] = Plus1(@)]
    /\ UNCHANGED <<scanning, earlier>>

LineOfKnown(a, i) ==
    /\ NextLine(a)
    /\ Known(a, i)
    /\ CountKnown(a, i)
    /\ listed' = Listing(a, Plus1(suspicious_ips[i].failure_count))

Unknown(a) == ~ \E i \in DOMAIN suspicious_ips : Known(a, i)

LineOfNew(a) ==
    /\ NextLine(a)
    /\ Unknown(a)
    /\ Add(a)
    /\ listed' = Listing(a, Plus1(0))

(* The table is full: the line is passed over. *)
LineOfIgnored(a) ==
    /\ NextLine(a)
    /\ Unknown(a)
    /\ Len(suspicious_ips) >= MAX_IPS
    /\ UNCHANGED <<suspicious_ips, listed>>

EndScan ==
    /\ scanning
    /\ unread = <<>>
    /\ scanning' = FALSE
    /\ UNCHANGED <<unread, suspicious_ips, listed, failures, earlier>>

(* hids_init of a daemon started again.  A daemon that has listed somebody   *)
(* need not come so far by itself: hids_free_report reads the list in a      *)
(* frame of the stack that hids_scan has left.                               *)
Restart ==
    /\ scanning' = FALSE
    /\ unread' = <<>>
    /\ suspicious_ips' = <<>>
    /\ listed' = <<>>
    /\ failures' = [a \in Addresses |-> 0]
    /\ earlier' = {}

Line(a) ==
    LineOfNew(a) \/ LineOfIgnored(a) \/ \E i \in DOMAIN suspicious_ips : LineOfKnown(a, i)

Next == ReadLog \/ EndScan \/ Restart \/ \E a \in Addresses : Line(a)

Spec == Init /\ [][Next]_vars

-----------------------------------------------------------------------------
(* An address has at most one entry, and no index leaves its array. *)
TypeOK ==
    /\ scanning \in BOOLEAN
    /\ unread \in Seq(Addresses)
    /\ suspicious_ips \in Seq(SuspiciousIp)
    /\ Len(suspicious_ips) <= MAX_IPS
    /\ \A i, j \in DOMAIN suspicious_ips :
          suspicious_ips[i].ip = suspicious_ips[j].ip => i = j
    /\ listed \in Seq(Addresses)
    /\ Len(listed) <= MAX_LISTED
    /\ failures \in [Addresses -> 0 .. Threshold]
    /\ earlier \subseteq Addresses

IsListed(a) == \E j \in DOMAIN listed : listed[j] = a

(* An address with three failures in the log is listed by the scan that      *)
(* reads them, unless the list is full or the table was full without it.     *)
AttackersAreListed ==
    \A a \in Addresses :
        failures[a] >= Threshold =>
            \/ IsListed(a)
            \/ Len(listed) = MAX_LISTED
            \/ Unknown(a) /\ Len(suspicious_ips) = MAX_IPS

(* An address with fewer failures in the log is listed only because earlier  *)
(* scans have counted it, maybe for the same lines; and none is listed that  *)
(* the log does not name any more.                                           *)
ListedIsExplained ==
    \A a \in Addresses :
        IsListed(a) => failures[a] >= Threshold \/ (failures[a] > 0 /\ a \in earlier)
=============================================================================
