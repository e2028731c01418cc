----------------------------- MODULE StoreProofs -----------------------------
(* Proofs about the store of the Go API, for any writers, readers, incidents *)
(* and addresses, and any number of faults.  IInv is the inductive           *)
(* invariant: what the tables and the requests are, the two counts that the  *)
(* requests keep of the tables, and what the readers have been shown.        *)
EXTENDS Store, FiniteSetTheorems, TLAPS

(* What a request has asked and is answered: "other" is any statement that   *)
(* is of no matter to the metric and to the blacklist.  A request that has   *)
(* not been served has asked for nothing yet.                                *)
Places == {"new", "waiting", "executed", "counted", "answered", "lost"}
Ops == {"other", "createIncident", "add", "remove"}
Codes == {0, 200, 201, 400, 404, 409, 500}
Answers == [at : Places, op : Ops, ip : IPs \cup {"none"}, code : Codes]

RequestInv ==
    /\ request \in [Writers -> Answers]
    /\ \A w \in Writers : request[w].at \in {"new", "waiting"} => request[w].op = "other"

(* A row is an incident that was reported, acknowledged or not.              *)
Rows == {b \in Incident : b.severity \in Values("severity")}

TablesInv ==
    /\ db = [incidents |-> db.incidents, agents |-> db.agents, rules |-> db.rules, blacklist |-> db.blacklist]
    /\ db.incidents \in Seq(Rows)

(* The metric counts every row of this process that no writer has still to   *)
(* count.                                                                    *)
Stored == {w \in Writers : Uncounted(w)}
Told(op, code, ip) == {w \in Writers : request[w].op = op /\ request[w].code = code /\ request[w].ip = ip}
Added(ip) == Told("add", 201, ip)
Removed(ip) == Told("remove", 200, ip)

CounterInv ==
    /\ counter \in Nat /\ booted \in Nat
    /\ counter + Cardinality(Stored) = Len(db.incidents) - booted

(* Every address has been added as often as it has been removed, or once     *)
(* more.                                                                     *)
BlacklistInv ==
    \A ip \in IPs :
        Cardinality(Added(ip)) - Cardinality(Removed(ip)) = IF ip \in db.blacklist THEN 1 ELSE 0

(* A reader that is served has been shown nothing before it came, sees the   *)
(* tables as they are, and has the connection only while it reads the rows   *)
(* of the statement it is at.                                                *)
ReaderInv ==
    /\ reader \in [Readers -> [plan : Requests \cup {<<>>}, next : Nat \ {0}]]
    /\ DOMAIN shown = Readers /\ DOMAIN moments = Readers /\ DOMAIN broken = Readers
    /\ conn \in Readers \cup {None}
    /\ \A r \in Readers :
          /\ Busy(r) => db \in moments[r]
          /\ ~Busy(r) => DOMAIN shown[r] = {} /\ reader[r].next = 1
          /\ conn = r => Busy(r) /\ ~Done(r) /\ Statement(r) \notin Counts /\ Statement(r) \in DOMAIN shown[r]

SumPairs(P) == MapThenSumSet(LAMBDA p : p[2], P)

(* What the SIEM page has been shown: the total is not more than the rows,   *)
(* and the breakdown not less than the total.                                *)
SeverityOf(r) ==
    reader[r].plan = GetSIEMStats =>
        /\ reader[r].next >= 2 => "total" \in DOMAIN shown[r] /\ shown[r]["total"] \in 0 .. Len(db.incidents)
        /\ "severity" \in DOMAIN shown[r] =>
              /\ reader[r].next >= 2
              /\ "severity" \notin broken[r] => shown[r]["total"] <= SumPairs(shown[r]["severity"])
        /\ reader[r].next >= 3 => "severity" \in DOMAIN shown[r]

SeverityInv == \A r \in Readers : SeverityOf(r)

IInv == TablesInv /\ RequestInv /\ CounterInv /\ BlacklistInv /\ ReaderInv /\ FiguresWereTrue /\ SeverityInv

-----------------------------------------------------------------------------
(* Answers.  A quiet one says nothing of the tables that the metric or the   *)
(* blacklist has to agree with.                                              *)

Answer(op, ip, code) ==
    [at |-> "executed", op |-> op, ip |-> ip, code |-> code]

Quiet(q) == /\ ~ (q.at = "executed" /\ q.op = "createIncident" /\ q.code = 201)
            /\ ~ (q.op = "add" /\ q.code = 201)
            /\ ~ (q.op = "remove" /\ q.code = 200)

LEMMA AnswerFields ==
  ASSUME NEW op, NEW ip, NEW code
  PROVE  /\ Answer(op, ip, code).op = op /\ Answer(op, ip, code).ip = ip /\ Answer(op, ip, code).code = code
         /\ Answer(op, ip, code).at = "executed"
BY DEF Answer

LEMMA AnswerTyped ==
  ASSUME NEW op \in Ops, NEW ip \in IPs \cup {"none"}, NEW code \in Codes
  PROVE  Answer(op, ip, code) \in Answers
<1> HIDE DEF Ops, Codes
<1> QED BY DEF Answer, Answers, Places

LEMMA Kinds ==
  /\ \A ip, code : Quiet(Answer("other", ip, code))
  /\ Quiet(Answer("createIncident", "none", 500))
  /\ \A ip : Quiet(Answer("add", ip, 409)) /\ Quiet(Answer("remove", ip, 404))
<1>1. \A ip, code : Quiet(Answer("other", ip, code))
  BY AnswerFields DEF Quiet
<1>2. Quiet(Answer("createIncident", "none", 500))
  BY AnswerFields DEF Quiet
<1>3. \A ip : Quiet(Answer("add", ip, 409))
  BY AnswerFields DEF Quiet
<1>4. \A ip : Quiet(Answer("remove", ip, 404))
  BY AnswerFields DEF Quiet
<1> QED BY <1>1, <1>2, <1>3, <1>4

LEMMA Literals ==
  /\ "other" \in Ops /\ "createIncident" \in Ops /\ "add" \in Ops /\ "remove" \in Ops
  /\ 200 \in Codes /\ 201 \in Codes /\ 400 \in Codes /\ 404 \in Codes /\ 409 \in Codes /\ 500 \in Codes
BY DEF Ops, Codes

(* The rows keep their number, and the blacklist its addresses. *)
SameRows == Len(db'.incidents) = Len(db.incidents) /\ db'.blacklist = db.blacklist

(* What the step of a writer does to what the answers say: nothing, or it    *)
(* stores an incident, counts it, adds an address or removes one; or what    *)
(* was done is told.                                                         *)
Silent(w) == Quiet(request[w]) /\ Quiet(request'[w]) /\ SameRows /\ counter' = counter
Stores(w) ==
    /\ Quiet(request[w]) /\ request'[w] = Answer("createIncident", "none", 201)
    /\ \E b \in Bodies : db' = CreateIncident(b)
    /\ counter' = counter
Counted(w) ==
    /\ Uncounted(w) /\ request'[w] = [request[w] EXCEPT !.at = "counted"]
    /\ db' = db /\ counter' = counter + 1
Responds(w) ==
    /\ request[w].at \in {"executed", "counted"} /\ ~Uncounted(w)
    /\ request'[w] = [request[w] EXCEPT !.at = "answered"]
    /\ db' = db /\ counter' = counter
Adds(w, ip) ==
    /\ Quiet(request[w]) /\ request'[w] = Answer("add", ip, 201)
    /\ ip \notin db.blacklist /\ db' = CreateBlacklistEntry(ip)
    /\ counter' = counter
Removes(w, ip) ==
    /\ Quiet(request[w]) /\ request'[w] = Answer("remove", ip, 200)
    /\ ip \in db.blacklist /\ db' = DeleteBlacklistEntry(ip)
    /\ counter' = counter

WriterEffect(w) ==
    \/ Silent(w) \/ Stores(w) \/ Counted(w) \/ Responds(w)
    \/ \E ip \in IPs : Adds(w, ip) \/ Removes(w, ip)

(* A statement that is executed, with tables new and answer q.               *)
Executed(w, q, new) ==
    /\ request[w].at = "waiting"
    /\ request' = [request EXCEPT ![w] = q]
    /\ db' = new
    /\ UNCHANGED <<conn, reader, shown, broken, counter, booted>>

(* A statement of no matter to the answers.                                  *)
LEMMA SilentStatement ==
  ASSUME RequestInv, NEW w \in Writers, NEW q, NEW new, Executed(w, q, new), Quiet(q),
         Len(new.incidents) = Len(db.incidents), new.blacklist = db.blacklist
  PROVE  Silent(w)
BY DEF Executed, RequestInv, Silent, Quiet, SameRows

(* What each handler does to the answers and to what they speak of. *)
LEMMA WriterRequests ==
  ASSUME RequestInv, TablesInv, NEW w \in Writers, Come(w) \/ Write(w) \/ Inc(w) \/ Respond(w)
  PROVE  WriterEffect(w)
<1> USE DEF Places
<1>1. CASE Arrive(w)
  <2>1. /\ request[w].op = "other" /\ request' = [request EXCEPT ![w].at = "waiting"]
        /\ UNCHANGED <<db, counter>>
    BY <1>1 DEF Arrive, RequestInv, process
  <2>2. /\ request'[w].op = "other" /\ request'[w].at = "waiting" /\ request[w].at = "new"
    BY <1>1, <2>1 DEF RequestInv, Answers, Arrive
  <2> QED BY <2>1, <2>2 DEF WriterEffect, Silent, Quiet, SameRows
<1>2. CASE Refuse(w)
  <2>1. /\ request[w].op = "other" /\ request' = [request EXCEPT ![w].at = "answered", ![w].code = 400]
        /\ request[w].at = "new"
        /\ UNCHANGED <<db, counter>>
    BY <1>2 DEF Refuse, RequestInv, process
  <2>2. request'[w].op = "other" /\ request'[w].at = "answered"
    BY <2>1 DEF RequestInv, Answers
  <2> QED BY <2>1, <2>2 DEF WriterEffect, Silent, Quiet, SameRows
<1>3. CASE Inc(w)
  <2>1. request'[w] = [request[w] EXCEPT !.at = "counted"]
    BY <1>3 DEF Inc, RequestInv
  <2> QED BY <1>3, <2>1 DEF Inc, WriterEffect, Counted
<1>10. CASE Respond(w)
  <2>1. request'[w] = [request[w] EXCEPT !.at = "answered"]
    BY <1>10 DEF Respond, RequestInv
  <2> QED BY <1>10, <2>1 DEF Respond, WriterEffect, Responds, process
<1> USE DEF reading, process
<1>9. request[w].at = "waiting" => Quiet(request[w])
  BY DEF RequestInv, Quiet
<1>4. CASE createIncident(w)
  <2>1. \/ \E b \in Bodies : Executed(w, Answer("createIncident", "none", 201), CreateIncident(b))
        \/ Executed(w, Answer("createIncident", "none", 500), db)
    BY <1>4 DEF createIncident, Exec, Answer, Executed
  <2>2. CASE \E b \in Bodies : Executed(w, Answer("createIncident", "none", 201), CreateIncident(b))
    BY <1>9, <2>2 DEF Executed, RequestInv, WriterEffect, Stores
  <2>3. CASE Executed(w, Answer("createIncident", "none", 500), db)
    BY <2>3, Kinds, SilentStatement DEF WriterEffect
  <2> QED BY <2>1, <2>2, <2>3
<1>5. CASE acknowledgeIncident(w) \/ ackSIEMAlert(w)
  <2>1. \/ \E i \in Rowids : Executed(w, Answer("other", "none", 200), AcknowledgeIncident(i))
        \/ Executed(w, Answer("other", "none", 404), db)
    BY <1>5 DEF acknowledgeIncident, ackSIEMAlert, AckSIEMAlert, AcknowledgeIncident, Exec, Answer, Executed
  <2>2. \A i \in Rowids : /\ Len(AcknowledgeIncident(i).incidents) = Len(db.incidents)
                          /\ AcknowledgeIncident(i).blacklist = db.blacklist
    BY DEF AcknowledgeIncident, TablesInv
  <2> QED BY <2>1, <2>2, Kinds, SilentStatement DEF WriterEffect
<1>6. CASE registerAgent(w) \/ createRule(w) \/ toggleRule(w) \/ deleteRule(w)
  <2> DEFINE Other(new) == Len(new.incidents) = Len(db.incidents) /\ new.blacklist = db.blacklist
  <2>1. CASE registerAgent(w)
    <3>1. Executed(w, Answer("other", "none", 201), CreateAgent(w)) \/ Executed(w, Answer("other", "none", 500), db)
      BY <2>1 DEF registerAgent, Exec, Answer, Executed
    <3>2. Other(CreateAgent(w))
      BY DEF CreateAgent, TablesInv
    <3> QED BY <3>1, <3>2, Kinds, SilentStatement DEF WriterEffect
  <2>2. CASE createRule(w)
    <3>1. Executed(w, Answer("other", "none", 201), CreateRule(w)) \/ Executed(w, Answer("other", "none", 500), db)
      BY <2>2 DEF createRule, Exec, Answer, Executed
    <3>2. Other(CreateRule(w))
      BY DEF CreateRule, TablesInv
    <3> QED BY <3>1, <3>2, Kinds, SilentStatement DEF WriterEffect
  <2>3. CASE toggleRule(w)
    <3>1. \/ \E v \in DOMAIN db.rules, on \in BOOLEAN : Executed(w, Answer("other", "none", 200), ToggleRule(v, on))
          \/ Executed(w, Answer("other", "none", 404), db)
      BY <2>3 DEF toggleRule, Exec, Answer, Executed
    <3>2. ASSUME NEW v, NEW on PROVE Other(ToggleRule(v, on))
      BY DEF ToggleRule, TablesInv
    <3> QED BY <3>1, <3>2, Kinds, SilentStatement DEF WriterEffect
  <2>4. CASE deleteRule(w)
    <3>1. \/ \E v \in DOMAIN db.rules : Executed(w, Answer("other", "none", 200), DeleteRule(v))
          \/ Executed(w, Answer("other", "none", 404), db)
      BY <2>4 DEF deleteRule, Exec, Answer, Executed
    <3>2. ASSUME NEW v PROVE Other(DeleteRule(v))
      BY DEF DeleteRule, TablesInv
    <3> QED BY <3>1, <3>2, Kinds, SilentStatement DEF WriterEffect
  <2> QED BY <1>6, <2>1, <2>2, <2>3, <2>4
<1>7. CASE addBlacklist(w)
  <2>1. PICK ip \in IPs :
           \/ ip \in db.blacklist /\ Executed(w, Answer("add", ip, 409), CreateBlacklistEntry(ip))
           \/ ip \notin db.blacklist /\ Executed(w, Answer("add", ip, 201), CreateBlacklistEntry(ip))
           \/ Executed(w, Answer("add", ip, 409), db)
    BY <1>7 DEF addBlacklist, Exec, Answer, Executed
  <2>2. CASE ip \in db.blacklist /\ Executed(w, Answer("add", ip, 409), CreateBlacklistEntry(ip))
    <3>1. /\ Len(CreateBlacklistEntry(ip).incidents) = Len(db.incidents)
          /\ CreateBlacklistEntry(ip).blacklist = db.blacklist
      BY <2>2 DEF CreateBlacklistEntry, TablesInv
    <3> QED BY <2>2, <3>1, Kinds, SilentStatement DEF WriterEffect
  <2>3. CASE ip \notin db.blacklist /\ Executed(w, Answer("add", ip, 201), CreateBlacklistEntry(ip))
    BY <1>9, <2>3 DEF Executed, RequestInv, WriterEffect, Adds
  <2>4. CASE Executed(w, Answer("add", ip, 409), db)
    BY <2>4, Kinds, SilentStatement DEF WriterEffect
  <2> QED BY <2>1, <2>2, <2>3, <2>4
<1>8. CASE removeBlacklist(w)
  <2>1. PICK ip \in IPs :
           \/ ip \notin db.blacklist /\ Executed(w, Answer("remove", ip, 404), DeleteBlacklistEntry(ip))
           \/ ip \in db.blacklist /\ Executed(w, Answer("remove", ip, 200), DeleteBlacklistEntry(ip))
           \/ Executed(w, Answer("remove", ip, 404), db)
    BY <1>8 DEF removeBlacklist, Exec, Answer, Executed, Found
  <2>2. CASE ip \notin db.blacklist /\ Executed(w, Answer("remove", ip, 404), DeleteBlacklistEntry(ip))
    <3>1. /\ Len(DeleteBlacklistEntry(ip).incidents) = Len(db.incidents)
          /\ DeleteBlacklistEntry(ip).blacklist = db.blacklist
      BY <2>2 DEF DeleteBlacklistEntry, TablesInv
    <3> QED BY <2>2, <3>1, Kinds, SilentStatement DEF WriterEffect
  <2>3. CASE ip \in db.blacklist /\ Executed(w, Answer("remove", ip, 200), DeleteBlacklistEntry(ip))
    BY <1>9, <2>3 DEF Executed, RequestInv, WriterEffect, Removes
  <2>4. CASE Executed(w, Answer("remove", ip, 404), db)
    BY <2>4, Kinds, SilentStatement DEF WriterEffect
  <2> QED BY <2>1, <2>2, <2>3, <2>4
<1> QED BY <1>1, <1>2, <1>3, <1>4, <1>5, <1>6, <1>7, <1>8, <1>10 DEF Write, Come

-----------------------------------------------------------------------------
(* What the step of a writer does to the tables, and to the readers that are *)
(* being served: they see what it leaves.                                    *)
TablesEffect ==
    \/ db' = db
    \/ \E b \in Bodies : db' = CreateIncident(b)
    \/ \E i \in Rowids : db' = AcknowledgeIncident(i)
    \/ \E a : db' = [db EXCEPT !.agents = a]
    \/ \E a : db' = [db EXCEPT !.rules = a]
    \/ \E a : db' = [db EXCEPT !.blacklist = a]

Seen ==
    \/ db' = db /\ moments' = moments
    \/ moments' = [r \in Readers |-> IF Busy(r) THEN moments[r] \cup {db'} ELSE {}]

Replaced(w, q) == request' = [request EXCEPT ![w] = q]

(* What each handler does to the tables and to the readers. *)
LEMMA WriterSteps ==
  ASSUME RequestInv, NEW w \in Writers, Come(w) \/ Write(w) \/ Inc(w) \/ Respond(w)
  PROVE  /\ TablesEffect /\ Seen
         /\ UNCHANGED <<conn, reader, shown, broken, booted>>
         /\ \/ Arrive(w) \/ Refuse(w) \/ Inc(w) \/ Respond(w)
            \/ \E op \in Ops, ip \in IPs \cup {"none"}, code \in Codes : Replaced(w, Answer(op, ip, code))
<1> USE DEF reading, process
<1> DEFINE Answered == \E op \in Ops, ip \in IPs \cup {"none"}, code \in Codes : Replaced(w, Answer(op, ip, code))
<1>1. CASE Arrive(w) \/ Refuse(w) \/ Inc(w) \/ Respond(w)
  BY <1>1 DEF Arrive, Refuse, Inc, Respond, TablesEffect, Seen
<1>2. CASE createIncident(w)
  <2>1. Answered
    BY <1>2, Literals DEF createIncident, Exec, Replaced, Answer
  <2>2. Seen /\ UNCHANGED <<conn, reader, shown, broken, booted>>
    BY <1>2 DEF createIncident, Exec, Seen
  <2>3. TablesEffect
    BY <1>2 DEF createIncident, Exec, TablesEffect
  <2> QED BY <2>1, <2>2, <2>3
<1>3. CASE acknowledgeIncident(w)
  <2>1. Answered
    BY <1>3, Literals DEF acknowledgeIncident, Exec, Replaced, Answer
  <2>2. Seen /\ UNCHANGED <<conn, reader, shown, broken, booted>>
    BY <1>3 DEF acknowledgeIncident, Exec, Seen
  <2>3. TablesEffect
    BY <1>3 DEF acknowledgeIncident, Exec, TablesEffect
  <2> QED BY <2>1, <2>2, <2>3
<1>4. CASE ackSIEMAlert(w)
  <2>1. Answered
    BY <1>4, Literals DEF ackSIEMAlert, Exec, Replaced, Answer
  <2>2. Seen /\ UNCHANGED <<conn, reader, shown, broken, booted>>
    BY <1>4 DEF ackSIEMAlert, Exec, Seen
  <2>3. TablesEffect
    BY <1>4 DEF ackSIEMAlert, Exec, TablesEffect, AcknowledgeIncident, AckSIEMAlert
  <2> QED BY <2>1, <2>2, <2>3
<1>5. CASE registerAgent(w)
  <2>1. Answered
    BY <1>5, Literals DEF registerAgent, Exec, Replaced, Answer
  <2>2. Seen /\ UNCHANGED <<conn, reader, shown, broken, booted>>
    BY <1>5 DEF registerAgent, Exec, Seen
  <2>3. TablesEffect
    BY <1>5 DEF registerAgent, Exec, TablesEffect, CreateAgent
  <2> QED BY <2>1, <2>2, <2>3
<1>6. CASE createRule(w)
  <2>1. Answered
    BY <1>6, Literals DEF createRule, Exec, Replaced, Answer
  <2>2. Seen /\ UNCHANGED <<conn, reader, shown, broken, booted>>
    BY <1>6 DEF createRule, Exec, Seen
  <2>3. TablesEffect
    BY <1>6 DEF createRule, Exec, TablesEffect, CreateRule
  <2> QED BY <2>1, <2>2, <2>3
<1>7. CASE toggleRule(w)
  <2>1. Answered
    BY <1>7, Literals DEF toggleRule, Exec, Replaced, Answer
  <2>2. Seen /\ UNCHANGED <<conn, reader, shown, broken, booted>>
    BY <1>7 DEF toggleRule, Exec, Seen
  <2>3. TablesEffect
    BY <1>7 DEF toggleRule, Exec, TablesEffect, ToggleRule
  <2> QED BY <2>1, <2>2, <2>3
<1>8. CASE deleteRule(w)
  <2>1. Answered
    BY <1>8, Literals DEF deleteRule, Exec, Replaced, Answer
  <2>2. Seen /\ UNCHANGED <<conn, reader, shown, broken, booted>>
    BY <1>8 DEF deleteRule, Exec, Seen
  <2>3. TablesEffect
    <3>1. db' = db \/ \E v \in DOMAIN db.rules : db' = DeleteRule(v)
      BY <1>8 DEF deleteRule, Exec
    <3>2. ASSUME NEW v \in DOMAIN db.rules, db' = DeleteRule(v)
          PROVE  \E a : db' = [db EXCEPT !.rules = a]
      <4> DEFINE a == [x \in DOMAIN db.rules \ {v} |-> db.rules[x]]
      <4>1. db' = [db EXCEPT !.rules = a]
        BY <3>2 DEF DeleteRule
      <4> QED BY <4>1
    <3> QED BY <3>1, <3>2 DEF TablesEffect
  <2> QED BY <2>1, <2>2, <2>3
<1>9. CASE addBlacklist(w)
  <2>1. Answered
    BY <1>9, Literals DEF addBlacklist, Exec, Replaced, Answer
  <2>2. Seen /\ UNCHANGED <<conn, reader, shown, broken, booted>>
    BY <1>9 DEF addBlacklist, Exec, Seen
  <2>3. TablesEffect
    BY <1>9 DEF addBlacklist, Exec, TablesEffect, CreateBlacklistEntry
  <2> QED BY <2>1, <2>2, <2>3
<1>10. CASE removeBlacklist(w)
  <2>1. Answered
    BY <1>10, Literals DEF removeBlacklist, Exec, Replaced, Answer, Found
  <2>2. Seen /\ UNCHANGED <<conn, reader, shown, broken, booted>>
    BY <1>10 DEF removeBlacklist, Exec, Seen
  <2>3. TablesEffect
    BY <1>10 DEF removeBlacklist, Exec, TablesEffect, DeleteBlacklistEntry
  <2> QED BY <2>1, <2>2, <2>3
<1> HIDE DEF Answered
<1> QED BY <1>1, <1>2, <1>3, <1>4, <1>5, <1>6, <1>7, <1>8, <1>9, <1>10 DEF Write, Come, Answered

-----------------------------------------------------------------------------
(* The steps of the others leave the tables, the requests and what counts    *)
(* them as they are.                                                         *)
LEMMA ReaderSteps ==
  ASSUME NEW r \in Readers, Ask(r) \/ Read(r) \/ LastRow(r) \/ Reply(r)
  PROVE  UNCHANGED <<db, request, counter, booted>>
BY DEF Ask, Read, QueryRow, Query, LastRow, Reply, process

(* Rows remain, and remain incidents. *)
LEMMA TablesKept ==
  ASSUME TablesInv, TablesEffect
  PROVE  TablesInv' /\ Len(db'.incidents) \in Nat /\ Len(db.incidents) <= Len(db'.incidents)
<1>0. db.incidents \in Seq(Rows) /\ Len(db.incidents) \in Nat
  BY DEF TablesInv
<1>1. CASE /\ db'.incidents = db.incidents
           /\ db' = [incidents |-> db'.incidents, agents |-> db'.agents, rules |-> db'.rules, blacklist |-> db'.blacklist]
  BY <1>0, <1>1 DEF TablesInv
<1>2. CASE \E b \in Bodies : db' = CreateIncident(b)
  <2>1. PICK b \in Bodies : db' = CreateIncident(b)
    BY <1>2
  <2>2. b \in Rows
    BY StoreAssumption DEF Rows, Values
  <2>3. /\ db' = [incidents |-> db'.incidents, agents |-> db'.agents, rules |-> db'.rules, blacklist |-> db'.blacklist]
        /\ db'.incidents = Append(db.incidents, b)
    BY <2>1 DEF TablesInv, CreateIncident
  <2> QED BY <1>0, <2>2, <2>3 DEF TablesInv
<1>3. CASE \E i \in Rowids : db' = AcknowledgeIncident(i)
  <2>1. PICK i \in Rowids : db' = AcknowledgeIncident(i)
    BY <1>3
  <2> DEFINE b == [db.incidents[i] EXCEPT !.acknowledged = TRUE]
  <2>2. b \in Rows /\ i \in DOMAIN db.incidents
    <3>1. db.incidents[i] \in Rows
      BY <1>0 DEF Rowids
    <3>2. DOMAIN db.incidents = Rowids
      BY <1>0 DEF Rowids
    <3>3. b \in Incident /\ b.severity = db.incidents[i].severity
      BY <3>1 DEF Rows, Incident
    <3> HIDE DEF b
    <3> QED BY <3>1, <3>2, <3>3 DEF Rows
  <2>3. /\ db' = [incidents |-> db'.incidents, agents |-> db'.agents, rules |-> db'.rules, blacklist |-> db'.blacklist]
        /\ db'.incidents = [db.incidents EXCEPT ![i] = b]
    BY <2>1 DEF TablesInv, AcknowledgeIncident
  <2> HIDE DEF b
  <2> QED BY <1>0, <2>2, <2>3 DEF TablesInv
<1> QED BY <1>1, <1>2, <1>3 DEF TablesEffect, TablesInv

LEMMA RequestsKept ==
  ASSUME RequestInv, NEW w \in Writers, Come(w) \/ Write(w) \/ Inc(w) \/ Respond(w)
  PROVE  /\ RequestInv'
         /\ \A v \in Writers : v # w => request'[v] = request[v]
<1>1. CASE \E op \in Ops, ip \in IPs \cup {"none"}, code \in Codes : Replaced(w, Answer(op, ip, code))
  <2>1. PICK op \in Ops, ip \in IPs \cup {"none"}, code \in Codes : Replaced(w, Answer(op, ip, code))
    BY <1>1
  <2> DEFINE q == Answer(op, ip, code)
  <2>2. q \in Answers
    BY AnswerTyped
  <2>3. q.at \notin {"new", "waiting"}
    BY AnswerFields
  <2> HIDE DEF q
  <2>4. request' \in [Writers -> Answers]
    BY <2>1, <2>2 DEF RequestInv, Replaced, q
  <2>5. request'[w] = q /\ \A v \in Writers : v # w => request'[v] = request[v]
    BY <2>1 DEF RequestInv, Replaced, q
  <2> QED BY <2>3, <2>4, <2>5 DEF RequestInv
<1> HIDE DEF Ops, Codes
<1>2. CASE Arrive(w)
  <2>1. [request[w] EXCEPT !.at = "waiting"] \in Answers
    BY DEF RequestInv, Answers, Places
  <2> QED BY <1>2, <2>1 DEF Arrive, RequestInv, Answers
<1>3. CASE Refuse(w)
  <2>1. [request[w] EXCEPT !.at = "answered", !.code = 400] \in Answers
    <3>1. 400 \in Codes /\ request[w] \in [at : Places, op : Ops, ip : IPs \cup {"none"}, code : Codes]
      BY Literals DEF RequestInv, Answers
    <3> QED BY <3>1 DEF Answers, Places
  <2> DEFINE q == [request[w] EXCEPT !.at = "answered", !.code = 400]
  <2>2. request' = [request EXCEPT ![w] = q] /\ q.at = "answered"
    BY <1>3 DEF Refuse, RequestInv, Answers
  <2> HIDE DEF q
  <2> QED BY <2>1, <2>2 DEF RequestInv, q
<1>4. CASE Inc(w)
  <2>1. [request[w] EXCEPT !.at = "counted"] \in Answers
    BY DEF RequestInv, Answers, Places
  <2> QED BY <1>4, <2>1 DEF Inc, RequestInv, Answers
<1>5. CASE Respond(w)
  <2>1. [request[w] EXCEPT !.at = "answered"] \in Answers
    BY DEF RequestInv, Answers, Places
  <2> QED BY <1>5, <2>1 DEF Respond, RequestInv, Answers
<1> QED BY <1>1, <1>2, <1>3, <1>4, <1>5, WriterSteps

-----------------------------------------------------------------------------
(* The two counts. *)

LEMMA OneMore ==
  ASSUME NEW A, A \subseteq Writers, NEW w \in Writers
  PROVE  /\ IsFiniteSet(A) /\ Cardinality(A) \in Nat
         /\ w \notin A => Cardinality(A \cup {w}) = Cardinality(A) + 1
         /\ w \in A => Cardinality(A \ {w}) = Cardinality(A) - 1
BY StoreAssumption, FS_Subset, FS_CardinalityType, FS_AddElement, FS_RemoveElement

LEMMA WriterKeepsCounts ==
  ASSUME RequestInv, TablesInv, CounterInv, BlacklistInv, NEW w \in Writers, Come(w) \/ Write(w) \/ Inc(w) \/ Respond(w)
  PROVE  CounterInv' /\ BlacklistInv'
<1>1. /\ \A v \in Writers : v # w => request'[v] = request[v]
      /\ booted' = booted /\ Len(db.incidents) \in Nat
  BY RequestsKept, WriterSteps DEF TablesInv
<1>2. /\ Cardinality(Stored) \in Nat
      /\ \A ip \in IPs : Cardinality(Added(ip)) \in Nat /\ Cardinality(Removed(ip)) \in Nat
  BY OneMore DEF Stored, Added, Removed, Told
<1>3. Quiet(request[w]) => w \notin Stored /\ \A ip \in IPs : w \notin Added(ip) /\ w \notin Removed(ip)
  BY DEF Quiet, Stored, Uncounted, Added, Removed, Told
<1>4. Stored' \ {w} = Stored \ {w}
  BY <1>1 DEF Stored, Uncounted
<1>5. \A ip \in IPs : Added(ip)' \ {w} = Added(ip) \ {w} /\ Removed(ip)' \ {w} = Removed(ip) \ {w}
  BY <1>1 DEF Added, Removed, Told
<1>6. CASE Silent(w)
  <2>1. Stored' = Stored
    <3>1. w \notin Stored' /\ w \notin Stored
      BY <1>6 DEF Silent, Quiet, Stored, Uncounted
    <3> QED BY <1>4, <3>1
  <2>2. \A ip \in IPs : Added(ip)' = Added(ip) /\ Removed(ip)' = Removed(ip)
    <3>1. \A ip \in IPs : w \notin Added(ip)' /\ w \notin Added(ip) /\ w \notin Removed(ip)' /\ w \notin Removed(ip)
      BY <1>6 DEF Silent, Quiet, Added, Removed, Told
    <3> QED BY <1>5, <3>1
  <2>3. counter' = counter /\ Len(db'.incidents) = Len(db.incidents) /\ db'.blacklist = db.blacklist
    BY <1>6 DEF Silent, SameRows
  <2> QED BY <1>1, <2>1, <2>2, <2>3 DEF CounterInv, BlacklistInv
<1>7. CASE Stores(w)
  <2>1. request'[w].at = "executed" /\ request'[w].op = "createIncident" /\ request'[w].code = 201
    BY <1>7, AnswerFields DEF Stores
  <2>2. Stored' = Stored \cup {w} /\ w \notin Stored
    BY <1>3, <1>4, <1>7, <2>1 DEF Stores, Stored, Uncounted
  <2>3. \A ip \in IPs : Added(ip)' = Added(ip) /\ Removed(ip)' = Removed(ip)
    <3>1. \A ip \in IPs : w \notin Added(ip)' /\ w \notin Removed(ip)'
      BY <2>1 DEF Added, Removed, Told
    <3> QED BY <1>3, <1>5, <1>7, <3>1 DEF Stores
  <2>4. Len(db'.incidents) = Len(db.incidents) + 1 /\ db'.blacklist = db.blacklist /\ counter' = counter
    BY <1>7 DEF Stores, CreateIncident, TablesInv
  <2>5. Cardinality(Stored') = Cardinality(Stored) + 1
    BY <2>2, OneMore DEF Stored
  <2>6. CounterInv'
    BY <1>1, <1>2, <2>4, <2>5 DEF CounterInv
  <2> QED BY <2>3, <2>4, <2>6 DEF BlacklistInv
<1>8. CASE Counted(w)
  <2>1. request'[w].at = "counted" /\ request'[w].op = request[w].op /\ request'[w].ip = request[w].ip
        /\ request'[w].code = request[w].code /\ w \in Stored
    BY <1>8 DEF Counted, RequestInv, Answers, Stored
  <2>2. Stored' = Stored \ {w}
    BY <1>4, <2>1 DEF Stored, Uncounted
  <2>3. \A ip \in IPs : Added(ip)' = Added(ip) /\ Removed(ip)' = Removed(ip)
    <3>1. \A ip \in IPs : (w \in Added(ip)' <=> w \in Added(ip)) /\ (w \in Removed(ip)' <=> w \in Removed(ip))
      BY <2>1 DEF Added, Removed, Told
    <3> QED BY <1>5, <3>1
  <2>4. Cardinality(Stored') = Cardinality(Stored) - 1
    BY <2>1, <2>2, OneMore DEF Stored
  <2>5. CounterInv'
    BY <1>1, <1>2, <1>8, <2>4 DEF CounterInv, Counted
  <2> QED BY <1>8, <2>3, <2>5 DEF BlacklistInv, Counted
<1>9. ASSUME NEW ip \in IPs, Adds(w, ip)
      PROVE  CounterInv' /\ BlacklistInv'
  <2>1. /\ request'[w].at = "executed" /\ request'[w].op = "add" /\ request'[w].code = 201 /\ request'[w].ip = ip
        /\ Quiet(request[w])
    BY <1>9, AnswerFields DEF Adds
  <2>2. Stored' = Stored
    <3>1. ~Uncounted(w)'
      BY <2>1, "add" # "createIncident" DEF Uncounted
    <3>2. w \notin Stored' /\ w \notin Stored
      BY <1>3, <2>1, <3>1 DEF Stored
    <3> QED BY <1>4, <3>2
  <2>3. /\ db'.incidents = db.incidents /\ db'.blacklist = db.blacklist \cup {ip} /\ counter' = counter
        /\ ip \notin db.blacklist
    BY <1>9 DEF Adds, CreateBlacklistEntry, TablesInv
  <2>4. CounterInv'
    BY <1>1, <2>2, <2>3 DEF CounterInv
  <2>5. ASSUME NEW i \in IPs PROVE Removed(i)' = Removed(i)
    <3>1. w \notin Removed(i)'
      BY <2>1 DEF Removed, Told
    <3>2. w \notin Removed(i) /\ Removed(i)' \ {w} = Removed(i) \ {w}
      BY <1>3, <1>5, <2>1
    <3> QED BY <3>1, <3>2
  <2>6. ASSUME NEW i \in IPs, i # ip PROVE Added(i)' = Added(i)
    <3>1. w \notin Added(i)'
      BY <2>1, <2>6 DEF Added, Told
    <3>2. w \notin Added(i) /\ Added(i)' \ {w} = Added(i) \ {w}
      BY <1>3, <1>5, <2>1
    <3> QED BY <3>1, <3>2
  <2>7. Added(ip)' = Added(ip) \cup {w} /\ w \notin Added(ip)
    <3>1. w \in Added(ip)'
      BY <2>1 DEF Added, Told
    <3> QED BY <1>3, <1>5, <2>1, <3>1
  <2>8. Cardinality(Added(ip)') = Cardinality(Added(ip)) + 1
    BY <2>7, OneMore DEF Added, Told
  <2>9. BlacklistInv'
    <3> SUFFICES ASSUME NEW i \in IPs
                 PROVE  Cardinality(Added(i)') - Cardinality(Removed(i)') = IF i \in db'.blacklist THEN 1 ELSE 0
      BY DEF BlacklistInv
    <3>1. Cardinality(Added(i)) - Cardinality(Removed(i)) = IF i \in db.blacklist THEN 1 ELSE 0
      BY DEF BlacklistInv
    <3>2. CASE i = ip
      <4>1. /\ Cardinality(Added(ip)') = Cardinality(Added(ip)) + 1 /\ Removed(ip)' = Removed(ip)
            /\ Cardinality(Added(ip)) - Cardinality(Removed(ip)) = 0
        BY <2>3, <2>5, <2>8, <3>1, <3>2
      <4> QED BY <1>2, <2>3, <3>2, <4>1
    <3>3. CASE i # ip
      BY <2>3, <2>5, <2>6, <3>1, <3>3
    <3> QED BY <3>2, <3>3
  <2> QED BY <2>4, <2>9
<1>10. ASSUME NEW ip \in IPs, Removes(w, ip)
       PROVE  CounterInv' /\ BlacklistInv'
  <2>1. /\ request'[w].at = "executed" /\ request'[w].op = "remove" /\ request'[w].code = 200 /\ request'[w].ip = ip
        /\ Quiet(request[w])
    BY <1>10, AnswerFields DEF Removes
  <2>2. Stored' = Stored
    <3>1. w \notin Stored'
      BY <2>1 DEF Stored, Uncounted
    <3> QED BY <1>3, <1>4, <2>1, <3>1
  <2>3. /\ db'.incidents = db.incidents /\ db'.blacklist = db.blacklist \ {ip} /\ counter' = counter
        /\ ip \in db.blacklist
    BY <1>10 DEF Removes, DeleteBlacklistEntry, TablesInv
  <2>4. CounterInv'
    BY <1>1, <2>2, <2>3 DEF CounterInv
  <2>5. ASSUME NEW i \in IPs PROVE Added(i)' = Added(i)
    <3>1. w \notin Added(i)'
      BY <2>1 DEF Added, Told
    <3>2. w \notin Added(i) /\ Added(i)' \ {w} = Added(i) \ {w}
      BY <1>3, <1>5, <2>1
    <3> QED BY <3>1, <3>2
  <2>6. ASSUME NEW i \in IPs, i # ip PROVE Removed(i)' = Removed(i)
    <3>1. w \notin Removed(i)'
      BY <2>1, <2>6 DEF Removed, Told
    <3>2. w \notin Removed(i) /\ Removed(i)' \ {w} = Removed(i) \ {w}
      BY <1>3, <1>5, <2>1
    <3> QED BY <3>1, <3>2
  <2>7. Removed(ip)' = Removed(ip) \cup {w} /\ w \notin Removed(ip)
    <3>1. w \in Removed(ip)'
      BY <2>1 DEF Removed, Told
    <3> QED BY <1>3, <1>5, <2>1, <3>1
  <2>8. Cardinality(Removed(ip)') = Cardinality(Removed(ip)) + 1
    BY <2>7, OneMore DEF Removed, Told
  <2>9. BlacklistInv'
    <3> SUFFICES ASSUME NEW i \in IPs
                 PROVE  Cardinality(Added(i)') - Cardinality(Removed(i)') = IF i \in db'.blacklist THEN 1 ELSE 0
      BY DEF BlacklistInv
    <3>1. Cardinality(Added(i)) - Cardinality(Removed(i)) = IF i \in db.blacklist THEN 1 ELSE 0
      BY DEF BlacklistInv
    <3>2. CASE i = ip
      <4>1. /\ Cardinality(Removed(ip)') = Cardinality(Removed(ip)) + 1 /\ Added(ip)' = Added(ip)
            /\ Cardinality(Added(ip)) - Cardinality(Removed(ip)) = 1
        BY <2>3, <2>5, <2>8, <3>1, <3>2
      <4> QED BY <1>2, <2>3, <3>2, <4>1
    <3>3. CASE i # ip
      BY <2>3, <2>5, <2>6, <3>1, <3>3
    <3> QED BY <3>2, <3>3
  <2> QED BY <2>4, <2>9
<1>11. CASE Responds(w)
  <2>1. request'[w].at = "answered" /\ request'[w].op = request[w].op /\ request'[w].ip = request[w].ip
        /\ request'[w].code = request[w].code
    BY <1>11 DEF Responds, RequestInv, Answers
  <2>2. Stored' = Stored
    <3>1. w \notin Stored' /\ w \notin Stored
      BY <1>11, <2>1 DEF Responds, Stored, Uncounted
    <3> QED BY <1>4, <3>1
  <2>3. \A ip \in IPs : Added(ip)' = Added(ip) /\ Removed(ip)' = Removed(ip)
    <3>1. \A ip \in IPs : (w \in Added(ip)' <=> w \in Added(ip)) /\ (w \in Removed(ip)' <=> w \in Removed(ip))
      BY <2>1 DEF Added, Removed, Told
    <3> QED BY <1>5, <3>1
  <2> QED BY <1>1, <1>11, <2>2, <2>3 DEF CounterInv, BlacklistInv, Responds
<1> QED BY <1>6, <1>7, <1>8, <1>9, <1>10, <1>11, WriterRequests DEF WriterEffect

-----------------------------------------------------------------------------
(* What the readers are shown. *)

(* Figure s of reader r was so. *)
WasTrue(r, s) ==
    \/ \E t \in moments[r] : shown[r][s] = Figure(t, s)
    \/ /\ s \in broken[r]
       /\ IF s \in Counts THEN shown[r][s] = 0
          ELSE \E t \in moments[r] : shown[r][s] \subseteq Figure(t, s)

LEMMA WasTrueIs == FiguresWereTrue <=> \A r \in Readers : \A s \in DOMAIN shown[r] : WasTrue(r, s)
BY DEF FiguresWereTrue, WasTrue

(* What is shown stays true while nothing of it changes but the moments,     *)
(* which become more.                                                        *)
LEMMA StaysTrue ==
  ASSUME NEW r, NEW s, WasTrue(r, s), moments[r] \subseteq moments'[r],
         shown'[r][s] = shown[r][s], broken[r] \subseteq broken'[r]
  PROVE  WasTrue(r, s)'
BY DEF WasTrue

LEMMA WriterKeepsReaders ==
  ASSUME ReaderInv, FiguresWereTrue, Seen, UNCHANGED <<conn, reader, shown, broken>>
  PROVE  ReaderInv' /\ FiguresWereTrue'
<1>1. \A r \in Readers : Busy(r) => moments[r] \subseteq moments'[r] /\ db' \in moments'[r]
  BY DEF Seen, ReaderInv
<1>2. DOMAIN moments' = Readers /\ \A r \in Readers : Busy(r)' = Busy(r)
  BY DEF Seen, ReaderInv, Busy
<1>3. ReaderInv'
  BY <1>1, <1>2 DEF ReaderInv, Busy, Done, Statement
<1>4. ASSUME NEW r \in Readers, NEW s \in DOMAIN shown'[r]
      PROVE  WasTrue(r, s)'
  <2>1. Busy(r) /\ s \in DOMAIN shown[r]
    BY <1>4 DEF ReaderInv
  <2> QED BY <1>1, <2>1, WasTrueIs, StaysTrue
<1>5. FiguresWereTrue'
  BY <1>4 DEF FiguresWereTrue, WasTrue
<1> QED BY <1>3, <1>5

(* What the step of a reader does to what it shows. *)
LEMMA AskKeepsReaders ==
  ASSUME ReaderInv, FiguresWereTrue, NEW r \in Readers, Ask(r)
  PROVE  ReaderInv' /\ FiguresWereTrue'
<1>1. PICK p \in Requests : reader' = [reader EXCEPT ![r].plan = p]
  BY AsksAssumption DEF Ask
<1>2. /\ ~Busy(r) /\ DOMAIN shown[r] = {} /\ conn # r
      /\ moments' = [moments EXCEPT ![r] = {db}]
      /\ UNCHANGED <<db, conn, shown, broken>>
  BY DEF Ask, ReaderInv
<1>3. p # <<>>
  BY DEF Requests, GetDashboardStats, GetSIEMStats
<1>4. \A v \in Readers : v # r => reader'[v] = reader[v] /\ moments'[v] = moments[v]
  BY <1>1, <1>2 DEF ReaderInv
<1>5. reader' \in [Readers -> [plan : Requests \cup {<<>>}, next : Nat \ {0}]] /\ reader'[r].plan = p
  BY <1>1 DEF ReaderInv
<1>6. DOMAIN moments' = Readers /\ moments'[r] = {db}
  BY <1>2 DEF ReaderInv
<1>7. ReaderInv'
  BY <1>2, <1>3, <1>4, <1>5, <1>6 DEF ReaderInv, Busy, Done, Statement
<1>8. ASSUME NEW v \in Readers, NEW s \in DOMAIN shown'[v]
      PROVE  WasTrue(v, s)'
  <2>1. v # r /\ s \in DOMAIN shown[v]
    BY <1>2, <1>8
  <2> QED BY <1>2, <1>4, <2>1, WasTrueIs, StaysTrue
<1>9. FiguresWereTrue'
  BY <1>8 DEF FiguresWereTrue, WasTrue
<1> QED BY <1>7, <1>9

(* Only reader r is served. *)
Others(r) ==
    /\ DOMAIN reader' = Readers /\ DOMAIN shown' = Readers /\ DOMAIN broken' = Readers
    /\ \A v \in Readers : v # r => reader'[v] = reader[v] /\ shown'[v] = shown[v] /\ broken'[v] = broken[v]

(* What it was shown is kept but for statement s, which is shown. *)
Shows(r, s) ==
    /\ DOMAIN shown'[r] = DOMAIN shown[r] \cup {s}
    /\ \A u \in DOMAIN shown[r] : u # s => shown'[r][u] = shown[r][u]
    /\ broken[r] \subseteq broken'[r]

LEMMA ShownStaysTrue ==
  ASSUME ReaderInv, FiguresWereTrue, NEW r \in Readers, NEW s, Others(r), Shows(r, s), moments' = moments,
         WasTrue(r, s)'
  PROVE  FiguresWereTrue'
<1>1. ASSUME NEW v \in Readers, NEW u \in DOMAIN shown'[v]
      PROVE  WasTrue(v, u)'
  <2>1. CASE v # r
    BY <1>1, <2>1, WasTrueIs, StaysTrue DEF Others
  <2>2. CASE v = r /\ u # s
    <3>1. u \in DOMAIN shown[r] /\ shown'[r][u] = shown[r][u] /\ broken[r] \subseteq broken'[r]
      BY <1>1, <2>2 DEF Shows
    <3> QED BY <2>2, <3>1, WasTrueIs, StaysTrue
  <2> QED BY <1>1, <2>1, <2>2
<1> QED BY <1>1 DEF FiguresWereTrue, WasTrue

LEMMA QueryRowKeepsReaders ==
  ASSUME ReaderInv, FiguresWereTrue, NEW r \in Readers, QueryRow(r)
  PROVE  ReaderInv' /\ FiguresWereTrue'
<1>0. PICK s : s = Statement(r)
  OBVIOUS
<1>1. /\ Busy(r) /\ ~Done(r) /\ s \in Counts /\ conn = None
      /\ reader' = [reader EXCEPT ![r].next = @ + 1]
      /\ UNCHANGED <<db, conn, moments>>
  BY <1>0 DEF QueryRow, GoOn
<1>2. \/ Show(r, Figure(db, s)) /\ UNCHANGED broken
      \/ broken' = [broken EXCEPT ![r] = @ \cup {s}] /\ Show(r, 0)
  BY <1>0 DEF QueryRow, Break
<1>4. Others(r) /\ Shows(r, s)
  BY <1>0, <1>1, <1>2 DEF Show, Others, Shows, ReaderInv
<1>5. WasTrue(r, s)'
  <2>1. db \in moments'[r]
    BY <1>1 DEF ReaderInv
  <2>2. CASE Show(r, Figure(db, s)) 
    <3>1. shown'[r][s] = Figure(db, s)
      BY <1>0, <2>2 DEF Show, ReaderInv
    <3> QED BY <2>1, <3>1 DEF WasTrue
  <2>3. CASE broken' = [broken EXCEPT ![r] = @ \cup {s}] /\ Show(r, 0)
    <3>1. shown'[r][s] = 0 /\ s \in broken'[r]
      BY <1>0, <2>3 DEF Show, ReaderInv
    <3> QED BY <1>1, <3>1 DEF WasTrue
  <2> QED BY <1>2, <2>2, <2>3
<1>6. FiguresWereTrue'
  BY <1>1, <1>4, <1>5, ShownStaysTrue
<1>7. ReaderInv'
  <2>1. /\ reader' \in [Readers -> [plan : Requests \cup {<<>>}, next : Nat \ {0}]]
        /\ \A v \in Readers : reader'[v].plan = reader[v].plan
        /\ \A v \in Readers : v # r => reader'[v] = reader[v] /\ DOMAIN shown'[v] = DOMAIN shown[v]
    BY <1>1, <1>4 DEF ReaderInv, Others
  <2>2. conn' = None
    BY <1>1
  <2> QED BY <1>1, <1>4, <2>1, <2>2, StoreAssumption DEF ReaderInv, Others, Busy
<1> QED BY <1>6, <1>7

LEMMA QueryKeepsReaders ==
  ASSUME ReaderInv, FiguresWereTrue, NEW r \in Readers, Query(r)
  PROVE  ReaderInv' /\ FiguresWereTrue'
<1>0. PICK s : s = Statement(r)
  OBVIOUS
<1>1. /\ Busy(r) /\ ~Done(r) /\ s \notin Counts /\ conn = None
      /\ UNCHANGED <<db, moments>>
  BY <1>0 DEF Query
<1>2. \/ Show(r, Figure(db, s)) /\ conn' = r /\ UNCHANGED <<reader, broken>>
      \/ /\ broken' = [broken EXCEPT ![r] = @ \cup {s}] /\ Show(r, {}) /\ conn' = None
         /\ reader' = [reader EXCEPT ![r].next = @ + 1]
  BY <1>0, <1>1 DEF Query, Break, GoOn
<1>4. Others(r) /\ Shows(r, s)
  BY <1>0, <1>1, <1>2 DEF Show, Others, Shows, ReaderInv
<1>5. WasTrue(r, s)'
  <2>1. db \in moments'[r]
    BY <1>1 DEF ReaderInv
  <2>2. CASE Show(r, Figure(db, s))
    <3>1. shown'[r][s] = Figure(db, s)
      BY <1>0, <2>2 DEF Show, ReaderInv
    <3> QED BY <2>1, <3>1 DEF WasTrue
  <2>3. CASE broken' = [broken EXCEPT ![r] = @ \cup {s}] /\ Show(r, {})
    <3>1. shown'[r][s] = {} /\ s \in broken'[r]
      BY <1>0, <2>3 DEF Show, ReaderInv
    <3>2. {} \subseteq Figure(db, s)
      OBVIOUS
    <3> QED BY <1>1, <2>1, <3>1, <3>2 DEF WasTrue
  <2> QED BY <1>2, <2>2, <2>3
<1>6. FiguresWereTrue'
  BY <1>1, <1>4, <1>5, ShownStaysTrue
<1>7. ReaderInv'
  <2>1. /\ reader' \in [Readers -> [plan : Requests \cup {<<>>}, next : Nat \ {0}]]
        /\ \A v \in Readers : reader'[v].plan = reader[v].plan
        /\ \A v \in Readers : v # r => reader'[v] = reader[v] /\ DOMAIN shown'[v] = DOMAIN shown[v]
    <3>1. reader' = reader \/ reader' = [reader EXCEPT ![r].next = @ + 1]
      BY <1>2
    <3>2. CASE reader' = reader
      BY <1>4, <3>2 DEF ReaderInv, Others
    <3>3. CASE reader' = [reader EXCEPT ![r].next = @ + 1]
      BY <1>4, <3>3 DEF ReaderInv, Others
    <3> QED BY <3>1, <3>2, <3>3
  <2>2. CASE conn' = None
    BY <1>1, <1>4, <2>1, <2>2, StoreAssumption DEF ReaderInv, Others, Busy
  <2>3. CASE conn' = r /\ UNCHANGED reader
    <3>1. /\ s \in DOMAIN shown'[r]
          /\ \A v \in Readers : Busy(v)' = Busy(v) /\ Done(v)' = Done(v) /\ Statement(v)' = Statement(v)
      BY <1>4, <2>3 DEF Shows, Busy, Done, Statement
    <3> QED BY <1>0, <1>1, <1>4, <2>1, <2>3, <3>1 DEF ReaderInv, Others
  <2> QED BY <1>2, <2>2, <2>3
<1> QED BY <1>6, <1>7

LEMMA LastRowKeepsReaders ==
  ASSUME ReaderInv, FiguresWereTrue, NEW r \in Readers, LastRow(r)
  PROVE  ReaderInv' /\ FiguresWereTrue'
<1>0. PICK s : s = Statement(r)
  OBVIOUS
<1>1. /\ Busy(r) /\ ~Done(r) /\ s \notin Counts /\ s \in DOMAIN shown[r] /\ conn = r /\ conn' = None
      /\ reader' = [reader EXCEPT ![r].next = @ + 1]
      /\ UNCHANGED <<db, moments>>
  BY <1>0 DEF LastRow, GoOn, ReaderInv
<1>2. \/ UNCHANGED <<shown, broken>>
      \/ /\ broken' = [broken EXCEPT ![r] = @ \cup {s}]
         /\ \E rows \in SUBSET shown[r][s] : Show(r, rows)
  BY <1>0 DEF LastRow, Break
<1>4. Others(r) /\ Shows(r, s)
  BY <1>0, <1>1, <1>2 DEF Show, Others, Shows, ReaderInv
<1>5. WasTrue(r, s)'
  <2>1. WasTrue(r, s)
    BY <1>1, WasTrueIs
  <2>2. CASE UNCHANGED <<shown, broken>>
    BY <1>1, <2>1, <2>2 DEF WasTrue
  <2>3. ASSUME broken' = [broken EXCEPT ![r] = @ \cup {s}], NEW rows \in SUBSET shown[r][s], Show(r, rows)
        PROVE  WasTrue(r, s)'
    <3>1. shown'[r][s] = rows /\ s \in broken'[r]
      BY <1>0, <2>3 DEF Show, ReaderInv
    <3>2. PICK t \in moments[r] : shown[r][s] \subseteq Figure(t, s)
      BY <1>1, <2>1 DEF WasTrue
    <3>3. rows \subseteq Figure(t, s)
      BY <2>3, <3>2
    <3> QED BY <1>1, <3>1, <3>2, <3>3 DEF WasTrue
  <2> QED BY <1>2, <2>2, <2>3
<1>6. FiguresWereTrue'
  BY <1>1, <1>4, <1>5, ShownStaysTrue
<1>7. ReaderInv'
  <2>1. /\ reader' \in [Readers -> [plan : Requests \cup {<<>>}, next : Nat \ {0}]]
        /\ \A v \in Readers : reader'[v].plan = reader[v].plan
        /\ \A v \in Readers : v # r => reader'[v] = reader[v] /\ DOMAIN shown'[v] = DOMAIN shown[v]
    BY <1>1, <1>4 DEF ReaderInv, Others
  <2>2. DOMAIN moments' = Readers
    BY <1>1 DEF ReaderInv
  <2> QED BY <1>1, <1>4, <2>1, <2>2, StoreAssumption DEF ReaderInv, Others, Busy
<1> QED BY <1>6, <1>7

LEMMA ReplyKeepsReaders ==
  ASSUME ReaderInv, FiguresWereTrue, NEW r \in Readers, Reply(r)
  PROVE  ReaderInv' /\ FiguresWereTrue'
<1>1. /\ Busy(r) /\ Done(r) /\ conn # r
      /\ conn' = conn /\ db' = db
      /\ reader' = [reader EXCEPT ![r] = NoReader]
      /\ shown' = [shown EXCEPT ![r] = [s \in {} |-> 0]]
      /\ broken' = [broken EXCEPT ![r] = {}]
      /\ moments' = [moments EXCEPT ![r] = {}]
  BY DEF Reply, ReaderInv
<1>2. /\ reader' \in [Readers -> [plan : Requests \cup {<<>>}, next : Nat \ {0}]] /\ reader'[r] = NoReader
      /\ DOMAIN shown' = Readers /\ DOMAIN broken' = Readers /\ DOMAIN moments' = Readers
      /\ DOMAIN shown'[r] = {}
      /\ \A v \in Readers : v # r => /\ reader'[v] = reader[v] /\ shown'[v] = shown[v]
                                     /\ broken'[v] = broken[v] /\ moments'[v] = moments[v]
  <2>1. NoReader \in [plan : Requests \cup {<<>>}, next : Nat \ {0}]
    BY DEF NoReader
  <2> QED BY <1>1, <2>1 DEF ReaderInv
<1>3. ReaderInv'
  BY <1>1, <1>2 DEF ReaderInv, Busy, Done, Statement, NoReader
<1>4. ASSUME NEW v \in Readers, NEW s \in DOMAIN shown'[v]
      PROVE  WasTrue(v, s)'
  <2>1. v # r /\ s \in DOMAIN shown[v]
    BY <1>2, <1>4
  <2> QED BY <1>2, <2>1, WasTrueIs, StaysTrue
<1>5. FiguresWereTrue'
  BY <1>4 DEF FiguresWereTrue, WasTrue
<1> QED BY <1>3, <1>5

-----------------------------------------------------------------------------
(* The severities. *)

(* A non-empty set of subsets of a finite set has one none of whose elements *)
(* can be spared.                                                            *)
LEMMA LeastSet ==
  ASSUME NEW S, IsFiniteSet(S), NEW B, B \subseteq SUBSET S, B # {}
  PROVE  \E s \in B : \A x \in s : s \ {x} \notin B
<1>1. IsWellFoundedOn(StrictSubsetOrdering(S), SUBSET S)
  BY FS_StrictSubsetOrderingWellFounded, FS_FiniteSubsetsOfFinite
<1>2. PICK s \in B : \A y \in B : ~ (<<y, s>> \in StrictSubsetOrdering(S))
  <2> HIDE DEF StrictSubsetOrdering
  <2> QED BY <1>1, WFMin, Zenon
<1>3. ASSUME NEW x \in s, s \ {x} \in B
      PROVE  FALSE
  <2>1. <<s \ {x}, s>> \in StrictSubsetOrdering(S)
    BY <1>3 DEF StrictSubsetOrdering
  <2> QED BY <1>2, <1>3, <2>1
<1> QED BY <1>3

First(s) == CHOOSE x \in s : TRUE

(* The rows of t whose severity a pair of s counts. *)
Covered(t, s) == {i \in DOMAIN t.incidents : \E p \in s : p[1] = t.incidents[i].severity}

(* g is computed as MapThenSumSet computes the sum of second components.     *)
Recurs(g, P) == \A s \in SUBSET P : g[s] = IF s = {} THEN 0 ELSE First(s)[2] + g[s \ {First(s)}]

LEMMA RecursUnique ==
  ASSUME NEW P, IsFiniteSet(P), NEW f, NEW g, Recurs(f, P), Recurs(g, P)
  PROVE  f[P] = g[P]
<1> DEFINE B == {s \in SUBSET P : f[s] # g[s]}
<1> SUFFICES ASSUME B # {} PROVE FALSE
  OBVIOUS
<1>1. PICK s \in B : \A x \in s : s \ {x} \notin B
  <2>1. B \subseteq SUBSET P
    OBVIOUS
  <2> HIDE DEF B
  <2> QED BY <2>1, LeastSet
<1>2. s # {}
  BY <1>1 DEF Recurs
<1>3. First(s) \in s /\ s \in SUBSET P /\ s \ {First(s)} \in SUBSET P
  BY <1>1, <1>2 DEF First
<1>4. f[s \ {First(s)}] = g[s \ {First(s)}]
  BY <1>1, <1>3
<1> QED BY <1>1, <1>2, <1>3, <1>4 DEF Recurs

(* GetSIEMStats' breakdown of the table by severity adds up to its rows.     *)
Breakdown(t) == GroupBy(t, "severity", Values("severity"))
LEMMA SumPairsIs ==
  ASSUME NEW P, IsFiniteSet(P), NEW g \in [SUBSET P -> Nat], Recurs(g, P)
  PROVE  SumPairs(P) = g[P]
<1> DEFINE Rec(h) == h = [s \in SUBSET P |->
                            IF s = {} THEN 0 ELSE First(s)[2] + h[s \ {First(s)}]]
           it == CHOOSE h : Rec(h)
<1>2. Rec(g)
  BY DEF Recurs
<1>3. Rec(it)
  <2> HIDE DEF Rec
  <2> QED BY <1>2
<1>4. SumPairs(P) = it[P]
  BY DEF SumPairs, MapThenSumSet, MapThenFoldSet, First
<1> HIDE DEF it
<1>5. Recurs(it, P)
  BY <1>3 DEF Recurs
<1> QED BY <1>4, <1>5, RecursUnique

LEMMA BreakdownAddsUp ==
  ASSUME NEW t, t.incidents \in Seq(Rows)
  PROVE  SumPairs(Breakdown(t)) = Len(t.incidents)
<1> DEFINE P == Breakdown(t)
           D == DOMAIN t.incidents
           Of(v) == {i \in D : t.incidents[i].severity = v}
           g == [s \in SUBSET P |-> Cardinality(Covered(t, s))]
<1>1. D = 1 .. Len(t.incidents) /\ Len(t.incidents) \in Nat
  OBVIOUS
<1>2. IsFiniteSet(D) /\ Cardinality(D) = Len(t.incidents)
  BY <1>1, FS_Interval
<1>3. \A i \in D : t.incidents[i].severity \in Values("severity")
  BY <1>1 DEF Rows
<1>4. P = {<<v, Cardinality(Of(v))>> : v \in Values("severity") \cap {t.incidents[i].severity : i \in D}}
  BY DEF Breakdown, GroupBy, Count
<1>5. P = {<<t.incidents[i].severity, Cardinality(Of(t.incidents[i].severity))>> : i \in D}
  BY <1>3, <1>4
<1>6. IsFiniteSet(P)
  <2> DEFINE f == [i \in D |-> <<t.incidents[i].severity, Cardinality(Of(t.incidents[i].severity))>>]
  <2>1. f \in Surjection(D, P)
    BY <1>5 DEF Surjection
  <2> HIDE DEF f, P
  <2> QED BY <1>2, <2>1, FS_Surjection
<1>16. \A p \in P : p[2] = Cardinality(Of(p[1])) /\ p = <<p[1], p[2]>>
  <2> SUFFICES ASSUME NEW p \in P
               PROVE  p[2] = Cardinality(Of(p[1])) /\ p = <<p[1], p[2]>>
    OBVIOUS
  <2>1. PICK v : p = <<v, Cardinality(Of(v))>>
    BY <1>4
  <2>2. p[1] = v /\ p[2] = Cardinality(Of(v))
    BY <2>1
  <2> QED BY <2>1, <2>2
<1>7. \A s \in SUBSET P : IsFiniteSet(Covered(t, s)) /\ Cardinality(Covered(t, s)) \in Nat
  BY <1>2, FS_Subset, FS_CardinalityType DEF Covered
<1>8. g \in [SUBSET P -> Nat]
  BY <1>7
<1>9. ASSUME NEW s \in SUBSET P, s # {}
      PROVE  Cardinality(Covered(t, s)) = First(s)[2] + Cardinality(Covered(t, s \ {First(s)}))
  <2> DEFINE x == First(s)
             A == Of(x[1])
             C == Covered(t, s \ {x})
  <2>1. x \in s /\ x \in P
    BY <1>9 DEF First
  <2>2. x[2] = Cardinality(A) /\ \A p \in s : p[1] = x[1] => p = x
    <3>1. x[2] = Cardinality(A) /\ x = <<x[1], x[2]>>
      BY <1>16, <2>1
    <3>2. ASSUME NEW p \in s, p[1] = x[1] PROVE p = x
      <4>1. p[2] = Cardinality(Of(p[1])) /\ p = <<p[1], p[2]>>
        BY <1>16
      <4> QED BY <3>1, <3>2, <4>1
    <3> QED BY <3>1, <3>2
  <2>3. Covered(t, s) = A \cup C
    BY <2>1 DEF Covered
  <2>4. A \cap C = {}
    BY <2>1, <2>2 DEF Covered
  <2>5. IsFiniteSet(A) /\ IsFiniteSet(C) /\ Cardinality(A) \in Nat /\ Cardinality(C) \in Nat
    BY <1>2, FS_Subset, FS_CardinalityType DEF Covered
  <2> HIDE DEF x, A, C
  <2>6. Cardinality(A \cup C) = Cardinality(A) + Cardinality(C) - Cardinality(A \cap C)
    BY <2>5, FS_Union
  <2>7. Cardinality(A \cup C) = Cardinality(A) + Cardinality(C)
    <3>1. Cardinality(A \cap C) = 0
      BY <2>4, FS_EmptySet
    <3> QED BY <2>5, <2>6, <3>1
  <2> QED BY <2>2, <2>3, <2>7 DEF x, C
<1>10. Covered(t, {}) = {} /\ Cardinality({}) = 0
  BY FS_EmptySet DEF Covered
<1>11. Recurs(g, P)
  <2> SUFFICES ASSUME NEW s \in SUBSET P
               PROVE  g[s] = IF s = {} THEN 0 ELSE First(s)[2] + g[s \ {First(s)}]
    BY DEF Recurs
  <2>1. CASE s = {}
    BY <1>10, <2>1
  <2>2. CASE s # {}
    BY <1>9, <2>2
  <2> QED BY <2>1, <2>2
<1>12. Covered(t, P) = D
  <2>1. \A i \in D : \E p \in P : p[1] = t.incidents[i].severity
    <3> SUFFICES ASSUME NEW i \in D
                 PROVE  \E p \in P : p[1] = t.incidents[i].severity
      OBVIOUS
    <3> DEFINE q == <<t.incidents[i].severity, Cardinality(Of(t.incidents[i].severity))>>
    <3>1. q \in P
      BY <1>5
    <3>2. q[1] = t.incidents[i].severity
      OBVIOUS
    <3> QED BY <3>1, <3>2
  <2> QED BY <2>1 DEF Covered
<1>13. g[P] = Len(t.incidents)
  BY <1>2, <1>12
<1> HIDE DEF g, P
<1> QED BY <1>6, <1>8, <1>11, <1>13, SumPairsIs DEF P

LEMMA FigureTotal == ASSUME NEW t PROVE Figure(t, "total") = Len(t.incidents)
BY DEF Figure
LEMMA FigureSeverity == ASSUME NEW t PROVE Figure(t, "severity") = Breakdown(t)
BY DEF Figure, Breakdown

(* The plan of the SIEM page: the total comes first, then the breakdown.     *)
LEMMA SIEMPlan ==
  ASSUME NEW r, reader[r].plan = GetSIEMStats, NEW n \in Nat \ {0}, reader[r].next = n
  PROVE  /\ Done(r) <=> n > 4
         /\ n = 1 <=> ~Done(r) /\ Statement(r) = "total"
         /\ n = 2 <=> ~Done(r) /\ Statement(r) = "severity"
<1>1. Done(r) <=> n > 4
  BY DEF Done, GetSIEMStats
<1>2. n <= 4 => n = 1 \/ n = 2 \/ n = 3 \/ n = 4
  OBVIOUS
<1>3. Statement(r) = GetSIEMStats[n]
  BY DEF Statement
<1>4. /\ GetSIEMStats[1] = "total" /\ GetSIEMStats[2] = "severity"
      /\ GetSIEMStats[3] = "attacks" /\ GetSIEMStats[4] = "unacked"
  BY DEF GetSIEMStats
<1> QED BY <1>1, <1>2, <1>3, <1>4

LEMMA SeverityStays ==
  ASSUME NEW r, SeverityOf(r), reader'[r] = reader[r], shown'[r] = shown[r], broken'[r] = broken[r],
         TablesInv, TablesInv', Len(db.incidents) <= Len(db'.incidents)
  PROVE  SeverityOf(r)'
<1>1. Len(db.incidents) \in Nat /\ Len(db'.incidents) \in Nat
  BY DEF TablesInv
<1>2. 0 .. Len(db.incidents) \subseteq 0 .. Len(db'.incidents)
  BY <1>1
<1> QED BY <1>2 DEF SeverityOf

(* At the end of the plan the invariant is the property. *)
LEMMA SeverityCovers ==
  ASSUME ReaderInv, SeverityInv
  PROVE  SeveritiesCoverTotal
<1> SUFFICES ASSUME NEW r \in Readers, reader[r].plan = GetSIEMStats, Done(r), "severity" \notin broken[r]
             PROVE  shown[r].total <= MapThenSumSet(LAMBDA p : p[2], shown[r].severity)
  BY DEF SeveritiesCoverTotal
<1>1. reader[r].next \in Nat \ {0}
  BY DEF ReaderInv
<1>2. reader[r].next > 4
  BY <1>1, SIEMPlan
<1>3. shown[r]["total"] <= SumPairs(shown[r]["severity"])
  BY <1>1, <1>2 DEF SeverityInv, SeverityOf
<1> QED BY <1>3 DEF SumPairs

(* What the three helpers of a reader's step do. *)
LEMMA ShowFields ==
  ASSUME NEW r \in DOMAIN shown, NEW f, Show(r, f)
  PROVE  /\ DOMAIN shown'[r] = DOMAIN shown[r] \cup {Statement(r)}
         /\ \A s \in DOMAIN shown[r] : s # Statement(r) => shown'[r][s] = shown[r][s]
         /\ shown'[r][Statement(r)] = f
BY DEF Show

LEMMA BreakAdds ==
  ASSUME NEW r \in DOMAIN broken, Break(r)
  PROVE  Statement(r) \in broken'[r] /\ broken[r] \subseteq broken'[r]
BY DEF Break

LEMMA GoOnAdds ==
  ASSUME NEW r \in Readers, ReaderInv, GoOn(r)
  PROVE  reader'[r].next = reader[r].next + 1
BY DEF GoOn, ReaderInv

LEMMA ReaderKeepsSeverity ==
  ASSUME TablesInv, ReaderInv, SeverityInv, NEW r \in Readers, Ask(r) \/ Read(r) \/ LastRow(r) \/ Reply(r)
  PROVE  SeverityInv'
<1>1. /\ db' = db /\ Len(db.incidents) \in Nat
      /\ \A v \in Readers : v # r => reader'[v] = reader[v] /\ shown'[v] = shown[v] /\ broken'[v] = broken[v]
  BY ReaderSteps DEF Ask, Read, QueryRow, Query, LastRow, Reply, Show, Break, GoOn, ReaderInv, TablesInv
<1>2. SUFFICES SeverityOf(r)'
  <2>1. TablesInv' /\ Len(db.incidents) <= Len(db'.incidents)
    BY <1>1 DEF TablesInv
  <2> QED BY <1>1, <2>1, SeverityStays DEF SeverityInv
<1>3. reader[r].next \in Nat \ {0} /\ SeverityOf(r) /\ r \in DOMAIN reader /\ r \in DOMAIN shown /\ r \in DOMAIN broken
  BY DEF ReaderInv, SeverityInv
<1>4. CASE Ask(r)
  <2>1. reader'[r].next = 1 /\ DOMAIN shown'[r] = {}
    BY <1>4 DEF Ask, ReaderInv
  <2> QED BY <2>1 DEF SeverityOf
<1>5. CASE Reply(r)
  <2>1. reader'[r].plan = <<>>
    BY <1>5 DEF Reply, ReaderInv, NoReader
  <2>2. <<>> # GetSIEMStats
    BY DEF GetSIEMStats
  <2> QED BY <2>1, <2>2 DEF SeverityOf
<1> DEFINE n == reader[r].next
<1>6. SUFFICES ASSUME QueryRow(r) \/ Query(r) \/ LastRow(r), reader'[r].plan = GetSIEMStats
               PROVE  SeverityOf(r)'
  BY <1>4, <1>5 DEF Read, SeverityOf
<1>7. reader[r].plan = GetSIEMStats /\ ~Done(r)
  BY <1>3, <1>6 DEF QueryRow, Query, LastRow, GoOn, ReaderInv
<1>8. (n = 1 <=> Statement(r) = "total") /\ (n = 2 <=> Statement(r) = "severity") /\ n <= 4
  BY <1>3, <1>7, SIEMPlan
<1>9. CASE QueryRow(r)
  <2>1. /\ Statement(r) \in Counts /\ reader'[r].next = n + 1
        /\ DOMAIN shown'[r] = DOMAIN shown[r] \cup {Statement(r)}
        /\ \A s \in DOMAIN shown[r] : s # Statement(r) => shown'[r][s] = shown[r][s]
        /\ shown'[r][Statement(r)] \in {0, Figure(db, Statement(r))}
        /\ "severity" \notin broken'[r] => "severity" \notin broken[r]
    <3>1. PICK f : Show(r, f) /\ f \in {0, Figure(db, Statement(r))}
      BY <1>9 DEF QueryRow
    <3>2. GoOn(r) /\ Statement(r) \in Counts /\ (broken' = broken \/ Break(r))
      BY <1>9 DEF QueryRow
    <3> QED BY <1>3, <3>1, <3>2, ShowFields, BreakAdds, GoOnAdds
  <2>2. Statement(r) # "severity"
    BY <2>1 DEF Counts
  <2>3. CASE n = 1
    <3>1. shown'[r]["total"] \in 0 .. Len(db'.incidents) /\ "total" \in DOMAIN shown'[r]
      BY <1>1, <1>8, <2>1, <2>3, FigureTotal
    <3>2. "severity" \notin DOMAIN shown'[r]
      BY <1>3, <1>7, <2>1, <2>2, <2>3 DEF SeverityOf
    <3> QED BY <2>1, <2>3, <3>1, <3>2 DEF SeverityOf
  <2>4. CASE n # 1
    <3>1. n >= 3 /\ n + 1 >= 3
      BY <1>3, <1>8, <2>2, <2>4
    <3>2. "total" \in DOMAIN shown[r] /\ "severity" \in DOMAIN shown[r]
      BY <1>3, <1>7, <3>1 DEF SeverityOf
    <3>3. shown'[r]["total"] = shown[r]["total"] /\ shown'[r]["severity"] = shown[r]["severity"]
      BY <1>8, <2>1, <2>2, <2>4, <3>2
    <3> QED BY <1>1, <1>3, <1>7, <2>1, <3>1, <3>2, <3>3 DEF SeverityOf
  <2> QED BY <2>3, <2>4
<1>10. CASE Query(r)
  <2>1. /\ Statement(r) \notin Counts /\ reader'[r].next \in {n, n + 1}
        /\ DOMAIN shown'[r] = DOMAIN shown[r] \cup {Statement(r)}
        /\ \A s \in DOMAIN shown[r] : s # Statement(r) => shown'[r][s] = shown[r][s]
        /\ \/ shown'[r][Statement(r)] = Figure(db, Statement(r))
           \/ Statement(r) \in broken'[r]
        /\ "severity" \notin broken'[r] => "severity" \notin broken[r]
    <3>1. /\ Statement(r) \notin Counts
          /\ \/ Show(r, Figure(db, Statement(r))) /\ UNCHANGED <<reader, broken>>
             \/ Break(r) /\ Show(r, {}) /\ GoOn(r)
      BY <1>10 DEF Query
    <3>2. PICK f : Show(r, f) /\ (f = Figure(db, Statement(r)) \/ Break(r))
      BY <3>1
    <3>3. broken' = broken \/ Break(r)
      BY <3>1
    <3>4. reader' = reader \/ GoOn(r)
      BY <3>1
    <3> QED BY <1>3, <3>1, <3>2, <3>3, <3>4, ShowFields, BreakAdds, GoOnAdds
  <2>2. n >= 2 /\ Statement(r) # "total"
    BY <1>3, <1>8, <2>1 DEF Counts
  <2>3. /\ "total" \in DOMAIN shown[r] /\ shown'[r]["total"] = shown[r]["total"]
        /\ shown[r]["total"] \in 0 .. Len(db.incidents) /\ "total" \in DOMAIN shown'[r]
    BY <1>3, <1>7, <2>1, <2>2 DEF SeverityOf
  <2>4. CASE n = 2
    <3>1. Statement(r) = "severity" /\ "severity" \in DOMAIN shown'[r]
      BY <1>8, <2>1, <2>4
    <3>2. SumPairs(Breakdown(db)) = Len(db.incidents)
      BY BreakdownAddsUp DEF TablesInv
    <3>3. "severity" \notin broken'[r] => shown'[r]["severity"] = Breakdown(db)
      BY <2>1, <3>1, FigureSeverity
    <3>4. "severity" \notin broken'[r] => shown'[r]["total"] <= SumPairs(shown'[r]["severity"])
      BY <1>1, <2>3, <3>2, <3>3
    <3>5. reader'[r].next >= 2
      BY <2>1, <2>4
    <3> QED BY <1>1, <2>3, <3>1, <3>4, <3>5 DEF SeverityOf
  <2>5. CASE n # 2
    <3>1. n >= 3 /\ reader'[r].next >= 3 /\ reader'[r].next >= 2
      BY <1>3, <2>1, <2>2, <2>5
    <3>2. "severity" \in DOMAIN shown[r] /\ shown'[r]["severity"] = shown[r]["severity"]
      BY <1>3, <1>7, <1>8, <2>1, <2>5, <3>1 DEF SeverityOf
    <3> QED BY <1>1, <1>3, <1>7, <2>1, <2>3, <3>1, <3>2 DEF SeverityOf
  <2> QED BY <2>4, <2>5
<1>11. CASE LastRow(r)
  <2>1. /\ Statement(r) \notin Counts /\ Statement(r) \in DOMAIN shown[r] /\ reader'[r].next = n + 1
        /\ DOMAIN shown'[r] = DOMAIN shown[r]
        /\ \A s \in DOMAIN shown[r] : s # Statement(r) => shown'[r][s] = shown[r][s]
        /\ \/ shown'[r][Statement(r)] = shown[r][Statement(r)]
           \/ Statement(r) \in broken'[r]
        /\ "severity" \notin broken'[r] => "severity" \notin broken[r]
    <3>1. /\ conn = r /\ GoOn(r)
          /\ \/ UNCHANGED <<shown, broken>>
             \/ Break(r) /\ \E rows \in SUBSET shown[r][Statement(r)] : Show(r, rows)
      BY <1>11 DEF LastRow
    <3>2. Statement(r) \notin Counts /\ Statement(r) \in DOMAIN shown[r]
      BY <3>1 DEF ReaderInv
    <3>3. CASE UNCHANGED <<shown, broken>>
      BY <3>1, <3>2, <3>3, GoOnAdds
    <3>4. CASE Break(r) /\ \E rows : Show(r, rows)
      BY <1>3, <3>1, <3>2, <3>4, ShowFields, BreakAdds, GoOnAdds
    <3> QED BY <3>1, <3>3, <3>4
  <2>2. n >= 2 /\ Statement(r) # "total" /\ n + 1 >= 2
    BY <1>3, <1>8, <2>1 DEF Counts
  <2>3. /\ "total" \in DOMAIN shown[r] /\ shown'[r]["total"] = shown[r]["total"]
        /\ shown[r]["total"] \in 0 .. Len(db.incidents) /\ "total" \in DOMAIN shown'[r]
    BY <1>3, <1>7, <2>1, <2>2 DEF SeverityOf
  <2>4. "severity" \in DOMAIN shown[r]
    <3>1. n = 2 \/ n >= 3
      BY <1>3, <2>2
    <3> QED BY <1>3, <1>7, <1>8, <2>1, <3>1 DEF SeverityOf
  <2>5. "severity" \notin broken'[r] => shown'[r]["severity"] = shown[r]["severity"]
    BY <2>1, <2>4
  <2> QED BY <1>1, <1>3, <1>7, <2>1, <2>2, <2>3, <2>4, <2>5 DEF SeverityOf
<1> QED BY <1>6, <1>9, <1>10, <1>11

-----------------------------------------------------------------------------
(* The start, a restart, and every step. *)

LEMMA Initially == Init => IInv
<1> SUFFICES ASSUME Init PROVE IInv
  OBVIOUS
<1>1. TablesInv
  <2>1. <<>> \in Seq(Rows)
    OBVIOUS
  <2> QED BY <2>1 DEF Init, Empty, TablesInv
<1>2. RequestInv
  <2>1. NoRequest \in Answers /\ NoRequest.op = "other"
    BY DEF NoRequest, Answers, Places, Ops, Codes
  <2> QED BY <2>1 DEF Init, RequestInv
<1>3. CounterInv
  <2>1. Stored = {}
    BY DEF Init, NoRequest, Stored, Uncounted
  <2>2. Len(db.incidents) = 0 /\ counter = 0 /\ booted = 0
    BY DEF Init, Empty
  <2> QED BY <2>1, <2>2, FS_EmptySet DEF CounterInv
<1>4. BlacklistInv
  <2>1. \A ip \in IPs : Added(ip) = {} /\ Removed(ip) = {}
    BY DEF Init, NoRequest, Added, Removed, Told
  <2>2. db.blacklist = {} /\ Cardinality({}) = 0
    BY FS_EmptySet DEF Init, Empty
  <2> QED BY <2>1, <2>2 DEF BlacklistInv
<1>5. ReaderInv
  BY StoreAssumption DEF Init, ReaderInv, NoReader, Busy
<1>6. FiguresWereTrue
  BY DEF Init, FiguresWereTrue
<1>7. SeverityInv
  BY DEF Init, SeverityInv, SeverityOf, NoReader, GetSIEMStats
<1> QED BY <1>1, <1>2, <1>3, <1>4, <1>5, <1>6, <1>7 DEF IInv

LEMMA RestartKeeps ==
  ASSUME IInv, Restart
  PROVE  IInv'
<1> USE DEF IInv
<1>1. /\ db' = db /\ conn' = None /\ counter' = 0 /\ booted' = Len(db.incidents)
      /\ request' = [w \in Writers |-> IF request[w].at \in {"waiting", "executed", "counted"}
                                       THEN [request[w] EXCEPT !.at = "lost"] ELSE request[w]]
      /\ reader' = [r \in Readers |-> NoReader]
      /\ shown' = [r \in Readers |-> [s \in {} |-> 0]]
      /\ broken' = [r \in Readers |-> {}] /\ moments' = [r \in Readers |-> {}]
  BY DEF Restart
<1>2. TablesInv'
  BY <1>1 DEF TablesInv
<1>3. ASSUME NEW w \in Writers
      PROVE  /\ request'[w] \in Answers /\ request'[w].at \in {"new", "answered", "lost"}
             /\ request'[w].op = request[w].op /\ request'[w].ip = request[w].ip
             /\ request'[w].code = request[w].code
             /\ request'[w].at = "new" => request[w].at = "new"
  <2>1. request[w] \in Answers /\ [request[w] EXCEPT !.at = "lost"] \in Answers
    <3> HIDE DEF Ops, Codes
    <3> QED BY DEF RequestInv, Answers, Places
  <2>2. request'[w] = IF request[w].at \in {"waiting", "executed", "counted"} THEN [request[w] EXCEPT !.at = "lost"] ELSE request[w]
    BY <1>1
  <2> QED BY <2>1, <2>2 DEF Answers, Places
<1>4. RequestInv'
  BY <1>1, <1>3 DEF RequestInv
<1>5. CounterInv'
  <2>1. Stored' = {}
    BY <1>3 DEF Stored, Uncounted
  <2>2. Len(db'.incidents) = Len(db.incidents) /\ Len(db.incidents) \in Nat
    BY <1>1 DEF TablesInv
  <2> QED BY <1>1, <2>1, <2>2, FS_EmptySet DEF CounterInv
<1>6. BlacklistInv'
  <2>1. \A ip \in IPs : Added(ip)' = Added(ip) /\ Removed(ip)' = Removed(ip)
    BY <1>3 DEF Added, Removed, Told
  <2> QED BY <1>1, <2>1 DEF BlacklistInv
<1>7. ReaderInv'
  BY <1>1, StoreAssumption DEF ReaderInv, NoReader, Busy
<1>8. FiguresWereTrue'
  BY <1>1 DEF FiguresWereTrue
<1>9. SeverityInv'
  BY <1>1 DEF SeverityInv, SeverityOf, NoReader, GetSIEMStats
<1> QED BY <1>2, <1>4, <1>5, <1>6, <1>7, <1>8, <1>9

LEMMA StepKeeps ==
  ASSUME IInv, [Next]_vars
  PROVE  IInv'
<1> USE DEF IInv
<1>1. ASSUME NEW w \in Writers, Come(w) \/ Write(w) \/ Inc(w) \/ Respond(w)
      PROVE  IInv'
  <2>1. TablesInv' /\ Len(db.incidents) <= Len(db'.incidents)
    BY <1>1, WriterSteps, TablesKept
  <2>2. RequestInv' /\ CounterInv' /\ BlacklistInv'
    BY <1>1, RequestsKept, WriterKeepsCounts
  <2>3. ReaderInv' /\ FiguresWereTrue'
    BY <1>1, WriterSteps, WriterKeepsReaders
  <2>4. SeverityInv'
    BY <1>1, <2>1, WriterSteps, SeverityStays DEF SeverityInv
  <2> QED BY <2>1, <2>2, <2>3, <2>4
<1>2. ASSUME NEW r \in Readers, Ask(r) \/ Read(r) \/ LastRow(r) \/ Reply(r)
      PROVE  IInv'
  <2>1. UNCHANGED <<db, request, counter, booted>>
    BY <1>2, ReaderSteps
  <2>2. TablesInv' /\ RequestInv' /\ CounterInv' /\ BlacklistInv'
    BY <2>1 DEF TablesInv, RequestInv, CounterInv, BlacklistInv, Stored, Uncounted, Added, Removed, Told
  <2>3. ReaderInv' /\ FiguresWereTrue'
    BY <1>2, AskKeepsReaders, QueryRowKeepsReaders, QueryKeepsReaders, LastRowKeepsReaders, ReplyKeepsReaders DEF Read
  <2>4. SeverityInv'
    BY <1>2, ReaderKeepsSeverity
  <2> QED BY <2>2, <2>3, <2>4
<1>3. CASE Restart
  BY <1>3, RestartKeeps
<1>4. CASE UNCHANGED vars
  <2>1. TablesInv' /\ RequestInv'
    BY <1>4 DEF vars, TablesInv, RequestInv
  <2>2. CounterInv' /\ BlacklistInv'
    BY <1>4 DEF vars, CounterInv, BlacklistInv, Stored, Uncounted, Added, Removed, Told
  <2>3. ReaderInv'
    BY <1>4 DEF vars, reading, ReaderInv, Busy, Done, Statement
  <2>4. FiguresWereTrue' /\ SeverityInv'
    BY <1>4 DEF vars, reading, FiguresWereTrue, SeverityInv, SeverityOf
  <2> QED BY <2>1, <2>2, <2>3, <2>4
<1> QED BY <1>1, <1>2, <1>3, <1>4 DEF Next

LEMMA Invariance == Spec => []IInv
<1>1. Init => IInv
  BY Initially
<1>2. IInv /\ [Next]_vars => IInv'
  BY StepKeeps
<1> QED BY <1>1, <1>2, PTL DEF Spec

(* Every figure a dashboard shows was that figure of the tables at a moment  *)
(* while its request ran, or is 0 or part of the rows for a statement that   *)
(* failed, with any number of writers, readers and restarts.                 *)
THEOREM FiguresTrue == Spec => []FiguresWereTrue
<1>1. IInv => FiguresWereTrue
  BY DEF IInv
<1> QED BY <1>1, Invariance, PTL

(* The severities of the SIEM page add up to its total or to more: the rows  *)
(* are read after they have been counted, and none is ever deleted.          *)
THEOREM SeveritiesCover == Spec => []SeveritiesCoverTotal
<1>1. IInv => SeveritiesCoverTotal
  BY SeverityCovers DEF IInv
<1> QED BY <1>1, Invariance, PTL

(* IncidentsTotal is the number of rows stored since the process started,    *)
(* less those that are stored and not counted yet.                           *)
THEOREM CounterCorrect == Spec => []CounterMatchesTable
<1>1. IInv => CounterMatchesTable
  BY DEF IInv, CounterInv, CounterMatchesTable, Stored
<1> QED BY <1>1, Invariance, PTL

(* Those that are told of an address and those that are not are apart.       *)
LEMMA ToldOrNot ==
  ASSUME NEW A, A \subseteq Writers, NEW B
  PROVE  /\ Cardinality(A \cap B) \in Nat /\ Cardinality(A \ B) \in Nat
         /\ Cardinality(A) = Cardinality(A \cap B) + Cardinality(A \ B)
<1> DEFINE in == A \cap B
           out == A \ B
<1>1. IsFiniteSet(in) /\ IsFiniteSet(out) /\ in \cap out = {} /\ A = in \cup out
  BY StoreAssumption, FS_Subset
<1> HIDE DEF in, out
<1>2. Cardinality(A) = Cardinality(in) + Cardinality(out) - Cardinality(in \cap out)
  BY <1>1, FS_Union
<1>3. Cardinality(in) \in Nat /\ Cardinality(out) \in Nat /\ Cardinality(in \cap out) = 0
  BY <1>1, FS_CardinalityType, FS_EmptySet
<1>4. Cardinality(A) = Cardinality(in) + Cardinality(out)
  BY <1>2, <1>3
<1> QED BY <1>3, <1>4 DEF in, out

(* The answers of addBlacklist and removeBlacklist to any number of racing   *)
(* requests say whether the address is listed, but for the requests that     *)
(* were carried out and have not been told, also by a process that ended     *)
(* between the commit and the answer.                                        *)
THEOREM BlacklistAnswersCorrect == Spec => []BlacklistAnswersAddUp
<1>1. ASSUME IInv, NEW ip \in IPs, NEW B
      PROVE  Cardinality(Added(ip) \cap B) - Cardinality(Removed(ip) \cap B)
             = (IF ip \in db.blacklist THEN 1 ELSE 0)
               - (Cardinality(Added(ip) \ B) - Cardinality(Removed(ip) \ B))
  <2>1. Cardinality(Added(ip)) - Cardinality(Removed(ip)) = IF ip \in db.blacklist THEN 1 ELSE 0
    BY <1>1 DEF IInv, BlacklistInv
  <2>2. Added(ip) \subseteq Writers /\ Removed(ip) \subseteq Writers
    BY DEF Added, Removed, Told
  <2>3. /\ Cardinality(Added(ip) \cap B) \in Nat /\ Cardinality(Added(ip) \ B) \in Nat
        /\ Cardinality(Added(ip)) = Cardinality(Added(ip) \cap B) + Cardinality(Added(ip) \ B)
    BY <2>2, ToldOrNot
  <2>4. /\ Cardinality(Removed(ip) \cap B) \in Nat /\ Cardinality(Removed(ip) \ B) \in Nat
        /\ Cardinality(Removed(ip)) = Cardinality(Removed(ip) \cap B) + Cardinality(Removed(ip) \ B)
    BY <2>2, ToldOrNot
  <2> QED BY <2>1, <2>3, <2>4
<1>2. IInv => BlacklistAnswersAddUp
  BY <1>1 DEF BlacklistAnswersAddUp, Added, Removed, Told
<1> QED BY <1>2, Invariance, PTL
=============================================================================
