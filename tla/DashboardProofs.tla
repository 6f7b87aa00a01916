--------------------------- MODULE DashboardProofs ---------------------------
(***************************************************************************)
(* Proofs about Dashboard for any number of connections, filters,          *)
(* incidents, records and openings: type correctness, the queue's two      *)
(* invariants, and that the detail pane shows the selected incident, its   *)
(* analysis and the latest snapshots of its records.                       *)
(***************************************************************************)
EXTENDS Dashboard, TLAPS

Messages == RecordMessages \cup AnalysisMessages

\* Nothing is on the wire of a closed connection.
ClosedIsEmpty == socket = 0 => wire = << >>

Latest(q) == q.n = filterChanges

\* At most one fetch is for the current filters, and none once their list has come;
\* an answer matches the filters it was asked with.
FetchesSound ==
    /\ \A q \in fetches : q.read => q.answer \subseteq Matching[q.for]
    /\ \A q \in fetches : q.n <= filterChanges
    /\ \A q \in fetches : Latest(q) => q.for = filter /\ ~loaded
    /\ \A p, q \in fetches : Latest(p) /\ Latest(q) => p = q

\* What the answer on its way lacks is known to be missing, is on its way itself or
\* in the list that the answer is to replace.
AnswerMissesOnlyGaps ==
    \A q \in fetches : Latest(q) /\ q.read =>
        \A i \in (created \cap Matching[filter]) \ q.answer :
            i \in gaps \/ i \in list \/ OnItsWay(i)

QueueInv ==
    /\ FetchesSound
    /\ QueueMatchesFilter
    /\ AnswerMissesOnlyGaps
    /\ MissingOnlyInGaps

\* One detail is requested at a time, for the selected incident, behind the spinner;
\* nothing else is on screen before it has come.
OpeningSound ==
    /\ \A p, q \in opening : p = q
    /\ \A q \in opening : q.inc = selectedId /\ detailLoading /\ detail = NoIncident

\* A user who has left no incident that was being analysed still has it on screen.
AnalyzingIsShown == analyzing # NoIncident /\ ~left => detail = analyzing

PaneInv ==
    /\ OpeningSound
    /\ AnalyzingIsShown
    /\ DetailIsSelected
    /\ ForeignAnalysisOnlyAfterLeaving

About(m, r) == m.kind = "action" /\ m.rec = r

Carries(w, r) == \E n \in DOMAIN w : About(w[n], r)

\* The last message about r on the wire w is that of snapshot k.
LastIs(w, r, k) ==
    \A n \in DOMAIN w :
        (About(w[n], r) /\ \A m \in DOMAIN w : m > n => ~About(w[m], r)) => w[n].n = k

\* Nothing is ahead of the store, and no answer or message ahead of what was sent.
NumbersBounded ==
    /\ \A r \in Records : sent[r] <= snapshot[r] /\ shown[r] <= snapshot[r]
    /\ \A a \in answers : a.n <= sent[a.rec]
    /\ \A o \in outbox : o.body.kind = "action" => o.body.n <= snapshot[o.body.rec]
    /\ \A n \in DOMAIN wire : wire[n].kind = "action" => wire[n].n <= sent[wire[n].rec]
    /\ \A q \in opening : \A r \in Records : q.records[r] <= snapshot[r]

Executes(r) == \E x \in executing : x.rec = r

\* Without an excuse the latest snapshot of a record has been sent or is still to be
\* sent, or another one is to follow.
NewestOwed ==
    \A r \in Records \ excused :
        \/ sent[r] = snapshot[r]
        \/ \E o \in outbox : About(o.body, r) /\ o.body.n = snapshot[r]
        \/ Executes(r)

\* Without an excuse the wire ends, for a record, with the newest snapshot sent.
NewestLast == \A r \in Records \ excused : LastIs(wire, r, sent[r])

\* The pane shows what was sent of r, or will once the detail request is answered.
CaughtUp(r) ==
    /\ detail = RecordOf[r] => shown[r] >= sent[r]
    /\ \A q \in opening : q.inc = RecordOf[r] =>
         \/ shown[r] >= sent[r]
         \/ shown[r] = 0 /\ (q.read => q.records[r] >= sent[r])

NothingMissed == \A r \in Records \ excused : Carries(wire, r) \/ CaughtUp(r)

CurrentInv ==
    /\ NumbersBounded
    /\ NewestOwed
    /\ NewestLast
    /\ NothingMissed

\* The queue and the pane share only the channel: a behaviour about the pane has
\* announced no incident.
DashboardInv ==
    /\ TypeOK
    /\ ClosedIsEmpty
    /\ QueueInv
    /\ PaneInv
    /\ screen = "detail" => created = {}
-----------------------------------------------------------------------------
\* What the channel's operations do to its types, whatever the messages are.
LEMMA ChannelStep ==
    ASSUME NEW M, ChannelOK(M), ClosedIsEmpty
    PROVE /\ \A m \in M : ToBroadcast(m) /\ UNCHANGED <<socket, sockets, wire>>
                            => ChannelOK(M)' /\ ClosedIsEmpty'
          /\ \A o \in outbox : StartBroadcast(o) \/ SendText(o) \/ Abandoned(o)
                               => ChannelOK(M)' /\ ClosedIsEmpty'
          /\ Connect => ChannelOK(M)' /\ ClosedIsEmpty'
          /\ Closed => ChannelOK(M)' /\ ClosedIsEmpty'
          /\ Received => ChannelOK(M)' /\ ClosedIsEmpty'
          /\ UNCHANGED channel => ChannelOK(M)' /\ ClosedIsEmpty'
<1> USE SocketsAssumption DEF ChannelOK, ClosedIsEmpty, NotStarted
<1>1. ASSUME NEW m \in M, ToBroadcast(m), UNCHANGED <<socket, sockets, wire>>
      PROVE ChannelOK(M)' /\ ClosedIsEmpty'
  BY <1>1 DEF ToBroadcast
<1>2. ASSUME NEW o \in outbox, StartBroadcast(o) PROVE ChannelOK(M)' /\ ClosedIsEmpty'
  <2>1. [o EXCEPT !.to = socket] \in [body: M, to: NotStarted..MaxSockets]
    OBVIOUS
  <2> QED
    BY <1>2, <2>1 DEF StartBroadcast
<1>3. ASSUME NEW o \in outbox, SendText(o) PROVE ChannelOK(M)' /\ ClosedIsEmpty'
  <2>1. wire' \in Seq(M)
    BY <1>3 DEF SendText
  <2>2. socket = 0 => wire' = << >>
    BY <1>3 DEF SendText, Reaches
  <2> QED
    BY <1>3, <2>1, <2>2 DEF SendText
<1>4. ASSUME Connect PROVE ChannelOK(M)' /\ ClosedIsEmpty'
  BY <1>4 DEF Connect
<1>5. ASSUME Closed PROVE ChannelOK(M)' /\ ClosedIsEmpty'
  BY <1>5 DEF Closed
<1>6. ASSUME Received PROVE ChannelOK(M)' /\ ClosedIsEmpty'
  BY <1>6 DEF Received
<1>7. ASSUME UNCHANGED channel PROVE ChannelOK(M)' /\ ClosedIsEmpty'
  BY <1>7 DEF channel
<1>8. ASSUME NEW o \in outbox, Abandoned(o) PROVE ChannelOK(M)' /\ ClosedIsEmpty'
  BY <1>8 DEF Abandoned
<1> QED
  BY <1>1, <1>2, <1>3, <1>4, <1>5, <1>6, <1>7, <1>8

\* A fetch that has just been sent is well typed.
LEMMA AskedType == \A n \in 0..MaxFilterChanges, f \in Filters : Asked(n, f) \in Fetch
BY DEF Asked, Fetch

\* Every step at the queue keeps the types.
LEMMA QueueTypeStep ==
    ASSUME ChannelOK(Incidents), ClosedIsEmpty, QueueTypeOK, QueueNext
    PROVE ChannelOK(Incidents)' /\ ClosedIsEmpty' /\ QueueTypeOK'
<1> USE QueueAssumption
<1> DEFINE C == ChannelOK(Incidents)' /\ ClosedIsEmpty'
<1>0. \A n \in DOMAIN wire : wire[n] \in Incidents
  BY DEF ChannelOK
<1>1. ASSUME NEW i \in Incidents, Announce(i) PROVE C /\ QueueTypeOK'
  <2>1. C
    BY <1>1, ChannelStep DEF Announce
  <2>2. QueueTypeOK'
    BY <1>1 DEF Announce, QueueTypeOK
  <2> QED
    BY <2>1, <2>2
<1>2. ASSUME NEW o \in outbox, StartBroadcast(o), UNCHANGED queue PROVE C /\ QueueTypeOK'
  BY <1>2, ChannelStep DEF queue, QueueTypeOK
<1>3. ASSUME Connect, UNCHANGED queue PROVE C /\ QueueTypeOK'
  BY <1>3, ChannelStep DEF queue, QueueTypeOK
<1>4. ASSUME NEW o \in outbox, SendIncident(o) PROVE C /\ QueueTypeOK'
  <2>1. C
    BY <1>4, ChannelStep DEF SendIncident
  <2>2. o.body \in Incidents
    BY DEF ChannelOK
  <2>3. QueueTypeOK'
    BY <1>4, <2>2 DEF SendIncident, QueueTypeOK
  <2> QED
    BY <2>1, <2>3
<1>5. ASSUME ReceiveIncident PROVE C /\ QueueTypeOK'
  <2>1. C
    BY <1>5, ChannelStep DEF ReceiveIncident
  <2>2. Matching[filter] \subseteq Incidents
    BY DEF QueueTypeOK
  <2>3. QueueTypeOK'
    BY <1>5, <2>2 DEF ReceiveIncident, QueueTypeOK
  <2> QED
    BY <2>1, <2>3
<1>6. ASSUME QueueDisconnects PROVE C /\ QueueTypeOK'
  <2>1. C
    BY <1>6, ChannelStep DEF QueueDisconnects
  <2>2. QueueTypeOK'
    BY <1>0, <1>6 DEF QueueDisconnects, QueueTypeOK, Lost
  <2> QED
    BY <2>1, <2>2
<1>7. ASSUME NEW f \in Filters, ChangeFilter(f) PROVE C /\ QueueTypeOK'
  <2>1. C
    BY <1>7, ChannelStep DEF ChangeFilter
  <2>2. filterChanges + 1 \in 0..MaxFilterChanges
    BY <1>7 DEF ChangeFilter, QueueTypeOK
  <2>3. Asked(filterChanges + 1, f) \in Fetch
    BY <2>2, AskedType
  <2>4. QueueTypeOK'
    BY <1>0, <1>7, <2>2, <2>3 DEF ChangeFilter, QueueTypeOK, Lost
  <2> QED
    BY <2>1, <2>4
<1>8. ASSUME NEW q \in fetches, ReadList(q) PROVE C /\ QueueTypeOK'
  <2>1. C
    BY <1>8, ChannelStep DEF ReadList, channel
  <2>2. q \in Fetch /\ created \cap Matching[q.for] \subseteq Incidents
    BY DEF QueueTypeOK
  <2>3. [q EXCEPT !.read = TRUE, !.answer = created \cap Matching[q.for]] \in Fetch
    BY <2>2 DEF Fetch
  <2>4. QueueTypeOK'
    BY <1>8, <2>3 DEF ReadList, QueueTypeOK
  <2> QED
    BY <2>1, <2>4
<1>9. ASSUME NEW q \in fetches, ListArrives(q) PROVE C /\ QueueTypeOK'
  <2>1. C
    BY <1>9, ChannelStep DEF ListArrives, channel
  <2>2. q.answer \subseteq Incidents
    BY DEF QueueTypeOK, Fetch
  <2>3. CASE Active(q)
    BY <1>9, <2>1, <2>2, <2>3 DEF ListArrives, QueueTypeOK
  <2>4. CASE ~Active(q)
    BY <1>9, <2>1, <2>4 DEF ListArrives, QueueTypeOK
  <2> QED
    BY <2>3, <2>4
<1>10. ASSUME NEW q \in fetches, ListFails(q) PROVE C /\ QueueTypeOK'
  BY <1>10, ChannelStep DEF ListFails, QueueTypeOK, channel
<1>11. ASSUME NEW o \in outbox, IncidentAbandoned(o) PROVE C /\ QueueTypeOK'
  <2>1. C
    BY <1>11, ChannelStep DEF IncidentAbandoned
  <2>2. o.body \in Incidents
    BY DEF ChannelOK
  <2>3. QueueTypeOK'
    BY <1>11, <2>2 DEF IncidentAbandoned, QueueTypeOK
  <2> QED
    BY <2>1, <2>3
<1> QED
  BY <1>1, <1>2, <1>3, <1>4, <1>5, <1>6, <1>7, <1>8, <1>9, <1>10, <1>11 DEF QueueNext, QueueChannel
-----------------------------------------------------------------------------
\* A message that is on its way is still there after a step of the channel, unless
\* it is received or lost.
LEMMA StaysOnItsWay ==
    ASSUME ChannelOK(Incidents), ClosedIsEmpty, NEW i, OnItsWay(i)
    PROVE /\ \A m : ToBroadcast(m) /\ UNCHANGED <<socket, sockets, wire>> => OnItsWay(i)'
          /\ \A o \in outbox : StartBroadcast(o) => OnItsWay(i)'
          /\ \A o \in outbox : SendText(o) /\ (Reaches(o) \/ o.body # i) => OnItsWay(i)'
          /\ \A o \in outbox : Abandoned(o) /\ o.body # i => OnItsWay(i)'
          /\ Connect => OnItsWay(i)'
          /\ Closed => OnItsWay(i)' \/ i \in Lost
          /\ Received => OnItsWay(i)' \/ i = Head(wire)
          /\ UNCHANGED channel => OnItsWay(i)'
<1> USE DEF OnItsWay
<1>1. ASSUME NEW m, ToBroadcast(m), UNCHANGED <<socket, sockets, wire>> PROVE OnItsWay(i)'
  BY <1>1 DEF ToBroadcast
<1>2. ASSUME NEW o \in outbox, StartBroadcast(o) PROVE OnItsWay(i)'
  <2>1. [o EXCEPT !.to = socket].body = o.body
    BY DEF ChannelOK
  <2> QED
    BY <1>2, <2>1 DEF StartBroadcast
<1>3. ASSUME NEW o \in outbox, SendText(o), Reaches(o) \/ o.body # i PROVE OnItsWay(i)'
  <2>1. wire \in Seq(Incidents) /\ o.body \in Incidents
    BY DEF ChannelOK
  <2>2. CASE \E n \in DOMAIN wire : wire[n] = i
    <3>1. PICK n \in DOMAIN wire : wire[n] = i
      BY <2>2
    <3>2. n \in DOMAIN wire' /\ wire'[n] = i
      BY <1>3, <2>1, <3>1 DEF SendText
    <3> QED
      BY <3>2
  <2>3. CASE \E p \in outbox : p.body = i
    <3>1. PICK p \in outbox : p.body = i
      BY <2>3
    <3>2. CASE p # o
      BY <1>3, <3>1, <3>2 DEF SendText
    <3>3. CASE p = o
      <4>1. wire' = Append(wire, i)
        BY <1>3, <3>1, <3>3 DEF SendText
      <4>2. Len(wire) + 1 \in DOMAIN wire' /\ wire'[Len(wire) + 1] = i
        BY <2>1, <3>1, <3>3, <4>1
      <4> QED
        BY <4>2
    <3> QED
      BY <3>2, <3>3
  <2> QED
    BY <2>2, <2>3
<1>4. ASSUME Connect PROVE OnItsWay(i)'
  BY <1>4 DEF Connect, ClosedIsEmpty
<1>5. ASSUME Closed PROVE OnItsWay(i)' \/ i \in Lost
  BY <1>5 DEF Closed, Lost
<1>6. ASSUME Received PROVE OnItsWay(i)' \/ i = Head(wire)
  <2>1. CASE \E p \in outbox : p.body = i
    BY <1>6, <2>1 DEF Received
  <2>2. CASE \E n \in DOMAIN wire : wire[n] = i
    <3>1. PICK n \in DOMAIN wire : wire[n] = i
      BY <2>2
    <3>2. wire \in Seq(Incidents) /\ n \in 1..Len(wire)
      BY DEF ChannelOK
    <3>3. CASE n = 1
      BY <3>1, <3>2, <3>3
    <3>4. CASE n # 1
      <4>1. n - 1 \in DOMAIN wire' /\ wire'[n - 1] = i
        BY <1>6, <3>1, <3>2, <3>4 DEF Received
      <4> QED
        BY <4>1
    <3> QED
      BY <3>3, <3>4
  <2> QED
    BY <2>1, <2>2
<1>7. ASSUME UNCHANGED channel PROVE OnItsWay(i)'
  BY <1>7 DEF channel
<1>8. ASSUME NEW o \in outbox, Abandoned(o), o.body # i PROVE OnItsWay(i)'
  BY <1>8 DEF Abandoned
<1> QED
  BY <1>1, <1>2, <1>3, <1>4, <1>5, <1>6, <1>7, <1>8

\* Every step at the queue keeps its invariants.
LEMMA FetchesStep ==
    ASSUME ChannelOK(Incidents), QueueTypeOK, FetchesSound, QueueNext
    PROVE FetchesSound'
<1> USE QueueAssumption
<1>0. filterChanges \in Nat /\ fetches \subseteq Fetch /\ \A q \in fetches : q.n \in Nat
  BY DEF QueueTypeOK, Fetch
<1>1. CASE UNCHANGED <<filter, fetches, loaded, filterChanges>>
  BY <1>1 DEF FetchesSound, Latest
<1>2. ASSUME NEW f \in Filters, ChangeFilter(f) PROVE FetchesSound'
  <2> DEFINE a == Asked(filterChanges + 1, f)
  <2>1. /\ filterChanges' = filterChanges + 1
        /\ filter' = f
        /\ loaded' = FALSE
        /\ fetches' = fetches \cup {a}
    BY <1>2 DEF ChangeFilter
  <2>2. a.n = filterChanges + 1 /\ a.for = f /\ a.read = FALSE
    BY DEF Asked
  <2>3. \A q \in fetches : q.n <= filterChanges /\ ~(q.n = filterChanges + 1)
    BY <1>0 DEF FetchesSound
  <2>4. \A q \in fetches' : q.read => q.answer \subseteq Matching[q.for]
    BY <2>1, <2>2 DEF FetchesSound
  <2>5. \A q \in fetches' : q.n <= filterChanges'
    BY <1>0, <2>1, <2>2, <2>3
  <2>6. \A q \in fetches' : q.n = filterChanges' => q = a
    BY <2>1, <2>3
  <2>7. \A q \in fetches' : Latest(q)' => q.for = filter' /\ ~loaded'
    BY <2>1, <2>2, <2>6 DEF Latest
  <2>8. \A p, q \in fetches' : Latest(p)' /\ Latest(q)' => p = q
    BY <2>6, Zenon DEF Latest
  <2> QED
    BY <2>4, <2>5, <2>7, <2>8 DEF FetchesSound
<1>3. ASSUME NEW q \in fetches, ReadList(q) PROVE FetchesSound'
  <2> DEFINE a == [q EXCEPT !.read = TRUE, !.answer = created \cap Matching[q.for]]
  <2>1. UNCHANGED <<filter, loaded, filterChanges>> /\ fetches' = (fetches \ {q}) \cup {a}
    BY <1>3 DEF ReadList
  <2>2. a.n = q.n /\ a.for = q.for /\ a.answer \subseteq Matching[a.for]
    BY <1>0 DEF Fetch
  <2>3. /\ q.n <= filterChanges
        /\ Latest(q) => q.for = filter /\ ~loaded
        /\ \A p \in fetches : Latest(p) /\ Latest(q) => p = q
    BY DEF FetchesSound
  <2> HIDE DEF a
  <2>4. \A p \in fetches' : p = a \/ (p \in fetches /\ p # q)
    BY <2>1
  <2>5. \A p \in fetches' : p.read => p.answer \subseteq Matching[p.for]
    BY <2>2, <2>4 DEF FetchesSound
  <2>6. \A p \in fetches' : p.n <= filterChanges'
    BY <2>1, <2>2, <2>3, <2>4 DEF FetchesSound
  <2>7. \A p \in fetches' : Latest(p)' => p.for = filter' /\ ~loaded'
    BY <2>1, <2>2, <2>3, <2>4 DEF FetchesSound, Latest
  <2>8. ASSUME NEW p1 \in fetches', NEW p2 \in fetches', Latest(p1)', Latest(p2)' PROVE p1 = p2
    BY <2>1, <2>2, <2>3, <2>4, <2>8 DEF FetchesSound, Latest
  <2> QED
    BY <2>5, <2>6, <2>7, <2>8 DEF FetchesSound
<1>4. ASSUME NEW q \in fetches, ListArrives(q) PROVE FetchesSound'
  <2>1. fetches' = fetches \ {q} /\ UNCHANGED <<filter, filterChanges>>
    BY <1>4 DEF ListArrives
  <2>2. \A p \in fetches' : Latest(p)' => ~loaded'
    BY <1>4, <2>1 DEF ListArrives, FetchesSound, Latest, Active
  <2> QED
    BY <2>1, <2>2 DEF FetchesSound, Latest
<1>5. ASSUME NEW q \in fetches, ListFails(q) PROVE FetchesSound'
  <2>1. fetches' = fetches \ {q} /\ UNCHANGED <<filter, filterChanges, loaded>>
    BY <1>5 DEF ListFails
  <2> QED
    BY <2>1 DEF FetchesSound, Latest
<1>6. \/ UNCHANGED <<filter, fetches, loaded, filterChanges>>
      \/ \E f \in Filters : ChangeFilter(f)
      \/ \E q \in fetches : ReadList(q) \/ ListArrives(q) \/ ListFails(q)
  BY DEF QueueNext, QueueChannel, Announce, SendIncident, IncidentAbandoned, ReceiveIncident, QueueDisconnects, queue
<1> QED
  BY <1>1, <1>2, <1>3, <1>4, <1>5, <1>6

\* Only the answer to the current filters is listed, and messages are filtered.
LEMMA MatchStep ==
    ASSUME QueueTypeOK, FetchesSound, QueueMatchesFilter, QueueNext
    PROVE QueueMatchesFilter'
<1>1. CASE UNCHANGED <<filter, list, loaded>>
  BY <1>1 DEF QueueMatchesFilter
<1>2. CASE ReceiveIncident
  BY <1>2 DEF ReceiveIncident, QueueMatchesFilter
<1>3. ASSUME NEW f \in Filters, ChangeFilter(f) PROVE QueueMatchesFilter'
  BY <1>3 DEF ChangeFilter, QueueMatchesFilter
<1>4. ASSUME NEW q \in fetches, ListArrives(q) PROVE QueueMatchesFilter'
  BY <1>4 DEF ListArrives, Active, FetchesSound, Latest, QueueMatchesFilter
<1>5. \/ UNCHANGED <<filter, list, loaded>>
      \/ ReceiveIncident
      \/ \E f \in Filters : ChangeFilter(f)
      \/ \E q \in fetches : ListArrives(q)
  BY DEF QueueNext, QueueChannel, Announce, SendIncident, IncidentAbandoned, QueueDisconnects, ReadList, ListFails,
         queue
<1> QED
  BY <1>1, <1>2, <1>3, <1>4, <1>5

\* An incident that is missing, given up or on its way stays so until it is listed.
LEMMA AccountedFor ==
    ASSUME ChannelOK(Incidents), ClosedIsEmpty, QueueTypeOK, QueueNext,
           NEW i \in Incidents, i \in gaps \/ OnItsWay(i)
    PROVE \/ i \in gaps' \/ OnItsWay(i)'
          \/ ReceiveIncident /\ i = Head(wire)
          \/ \E q \in fetches : ReadList(q) /\ Latest(q)
<1>1. ASSUME NEW j \in Incidents, Announce(j) PROVE i \in gaps' \/ OnItsWay(i)'
  BY <1>1, StaysOnItsWay DEF Announce
<1>2. ASSUME NEW o \in outbox, StartBroadcast(o), UNCHANGED queue PROVE i \in gaps' \/ OnItsWay(i)'
  BY <1>2, StaysOnItsWay DEF queue
<1>3. ASSUME Connect, UNCHANGED queue PROVE i \in gaps' \/ OnItsWay(i)'
  BY <1>3, StaysOnItsWay DEF queue
<1>4. ASSUME NEW o \in outbox, SendIncident(o) PROVE i \in gaps' \/ OnItsWay(i)'
  BY <1>4, StaysOnItsWay DEF SendIncident
<1>5. ASSUME ReceiveIncident, i # Head(wire) PROVE i \in gaps' \/ OnItsWay(i)'
  BY <1>5, StaysOnItsWay DEF ReceiveIncident
<1>6. ASSUME QueueDisconnects PROVE i \in gaps' \/ OnItsWay(i)'
  BY <1>6, StaysOnItsWay DEF QueueDisconnects
<1>7. ASSUME NEW f \in Filters, ChangeFilter(f) PROVE i \in gaps' \/ OnItsWay(i)'
  BY <1>7, StaysOnItsWay DEF ChangeFilter
<1>8. ASSUME NEW q \in fetches, ReadList(q), ~Latest(q) PROVE i \in gaps' \/ OnItsWay(i)'
  BY <1>8, StaysOnItsWay DEF ReadList, Latest
<1>9. ASSUME NEW q \in fetches, ListArrives(q) \/ ListFails(q) PROVE i \in gaps' \/ OnItsWay(i)'
  BY <1>9, StaysOnItsWay DEF ListArrives, ListFails
<1>10. ASSUME NEW o \in outbox, IncidentAbandoned(o) PROVE i \in gaps' \/ OnItsWay(i)'
  BY <1>10, StaysOnItsWay DEF IncidentAbandoned
<1> QED
  BY <1>1, <1>2, <1>3, <1>4, <1>5, <1>6, <1>7, <1>8, <1>9, <1>10 DEF QueueNext, QueueChannel

\* An incident that is new to the store is on its way.
LEMMA NewIsOnItsWay ==
    ASSUME QueueNext, NEW i \in created' \ created
    PROVE OnItsWay(i)'
<1>1. PICK j \in Incidents : Announce(j)
  BY DEF QueueNext, QueueChannel, SendIncident, IncidentAbandoned, ReceiveIncident, QueueDisconnects, ChangeFilter,
         ReadList, ListArrives, ListFails, queue
<1>2. i = j
  BY <1>1 DEF Announce
<1>3. [body |-> j, to |-> NotStarted] \in outbox'
  BY <1>1 DEF Announce, ToBroadcast
<1> QED
  BY <1>2, <1>3 DEF OnItsWay

\* What an answer lacks is accounted for until it arrives.
LEMMA AnswerStep ==
    ASSUME ChannelOK(Incidents), ClosedIsEmpty, QueueTypeOK, QueueInv, QueueNext
    PROVE AnswerMissesOnlyGaps'
<1> SUFFICES ASSUME NEW q \in fetches', Latest(q)', q.read,
                    NEW i \in (created' \cap Matching[filter']) \ q.answer
             PROVE i \in gaps' \/ i \in list' \/ OnItsWay(i)'
  BY DEF AnswerMissesOnlyGaps
<1>0. i \in Incidents /\ filterChanges \in Nat /\ fetches \subseteq Fetch
  <2>1. created' \subseteq Incidents
    BY QueueTypeStep DEF QueueTypeOK
  <2> QED
    BY <2>1 DEF QueueTypeOK
<1>1. CASE i \notin created
  BY <1>1, NewIsOnItsWay
<1>2. CASE i \in created /\ \E p \in fetches : ReadList(p) /\ Latest(p)
  <2>1. PICK p \in fetches : ReadList(p) /\ Latest(p)
    BY <1>2
  <2> DEFINE a == [p EXCEPT !.read = TRUE, !.answer = created \cap Matching[p.for]]
  <2>2. fetches' = (fetches \ {p}) \cup {a} /\ UNCHANGED <<filter, filterChanges>>
    BY <2>1 DEF ReadList
  <2>3. q = a
    BY <2>1, <2>2 DEF QueueInv, FetchesSound, Latest
  <2>4. a.answer = created \cap Matching[p.for] /\ p.for = filter
    BY <1>0, <2>1 DEF Fetch, QueueInv, FetchesSound
  <2> QED
    BY <1>2, <2>2, <2>3, <2>4
<1>3. CASE i \in created /\ ~\E p \in fetches : ReadList(p) /\ Latest(p)
  <2>1. filterChanges' = filterChanges /\ filter' = filter /\ q \in fetches
    <3>1. ASSUME NEW f \in Filters, ChangeFilter(f) PROVE FALSE
      <4>1. filterChanges' = filterChanges + 1 /\ fetches' = fetches \cup {Asked(filterChanges + 1, f)}
        BY <3>1 DEF ChangeFilter
      <4>2. q \notin fetches
        BY <1>0, <4>1 DEF QueueInv, FetchesSound, Latest
      <4> QED
        BY <4>1, <4>2 DEF Asked
    <3>2. ASSUME NEW p \in fetches, ReadList(p)
          PROVE filterChanges' = filterChanges /\ filter' = filter /\ q \in fetches
      <4> DEFINE a == [p EXCEPT !.read = TRUE, !.answer = created \cap Matching[p.for]]
      <4>1. fetches' = (fetches \ {p}) \cup {a} /\ UNCHANGED <<filter, filterChanges>>
        BY <3>2 DEF ReadList
      <4>2. a.n = p.n
        BY <1>0 DEF Fetch
      <4> QED
        BY <1>3, <3>2, <4>1, <4>2 DEF Latest
    <3> QED
      BY <3>1, <3>2 DEF QueueNext, QueueChannel, Announce, SendIncident, IncidentAbandoned, ReceiveIncident,
                        QueueDisconnects, ListArrives, ListFails, queue
  <2>2. i \in gaps \/ i \in list \/ OnItsWay(i)
    BY <1>3, <2>1 DEF QueueInv, AnswerMissesOnlyGaps, Latest
  <2>3. CASE i \in list
    <3>1. ASSUME NEW p \in fetches, ListArrives(p) PROVE i \in gaps' \/ i \in list'
      BY <2>3, <3>1 DEF ListArrives
    <3>2. ASSUME ReceiveIncident PROVE i \in list'
      BY <2>1, <2>3, <3>2 DEF ReceiveIncident
    <3>3. \/ list' = list
          \/ ReceiveIncident
          \/ \E p \in fetches : ListArrives(p)
      BY DEF QueueNext, QueueChannel, Announce, SendIncident, IncidentAbandoned, QueueDisconnects, ChangeFilter,
             ReadList, ListFails, queue
    <3> QED
      BY <2>3, <3>1, <3>2, <3>3
  <2>4. CASE i \in gaps \/ OnItsWay(i)
    <3>1. ASSUME ReceiveIncident, i = Head(wire) PROVE i \in list'
      BY <2>1, <3>1 DEF ReceiveIncident
    <3> QED
      BY <1>0, <1>3, <2>4, <3>1, AccountedFor
  <2> QED
    BY <2>2, <2>3, <2>4
<1> QED
  BY <1>1, <1>2, <1>3

\* What the loaded queue lacks stays accounted for.
LEMMA MissingStep ==
    ASSUME ChannelOK(Incidents), ClosedIsEmpty, QueueTypeOK, QueueInv, QueueNext
    PROVE MissingOnlyInGaps'
<1> SUFFICES ASSUME loaded', NEW i \in (created' \cap Matching[filter']) \ list'
             PROVE i \in gaps' \/ OnItsWay(i)'
  BY DEF MissingOnlyInGaps
<1>0. i \in Incidents
  BY QueueTypeStep DEF QueueTypeOK
<1>1. CASE i \notin created
  BY <1>1, NewIsOnItsWay
<1>2. ASSUME NEW q \in fetches, ListArrives(q), Active(q), i \in created PROVE i \in gaps' \/ OnItsWay(i)'
  <2>1. /\ q.read
        /\ list' = q.answer
        /\ gaps' = gaps \cup (list \ q.answer)
        /\ UNCHANGED <<filter, channel>>
    BY <1>2 DEF ListArrives
  <2>2. i \in gaps \/ i \in list \/ OnItsWay(i)
    BY <1>2, <2>1 DEF Active, Latest, QueueInv, AnswerMissesOnlyGaps
  <2> QED
    BY <2>1, <2>2 DEF OnItsWay, channel
<1>3. ASSUME i \in created, ~\E q \in fetches : ListArrives(q) /\ Active(q)
      PROVE i \in gaps' \/ OnItsWay(i)'
  <2>1. loaded /\ filter' = filter
    BY <1>3 DEF QueueNext, QueueChannel, Announce, SendIncident, IncidentAbandoned, ReceiveIncident, ListArrives,
                QueueDisconnects, ChangeFilter, ReadList, ListFails, queue
  <2>2. i \notin list
    BY <1>3, <2>1 DEF QueueNext, QueueChannel, Announce, SendIncident, IncidentAbandoned, ReceiveIncident,
                ListArrives, QueueDisconnects, ChangeFilter, ReadList, ListFails, queue
  <2>3. i \in gaps \/ OnItsWay(i)
    BY <1>3, <2>1, <2>2 DEF QueueInv, MissingOnlyInGaps
  <2>4. ASSUME ReceiveIncident, i = Head(wire) PROVE FALSE
    BY <2>1, <2>4 DEF ReceiveIncident
  <2>5. ASSUME NEW q \in fetches, Latest(q) PROVE FALSE
    BY <2>1, <2>5 DEF QueueInv, FetchesSound
  <2> QED
    BY <1>0, <2>3, <2>4, <2>5, AccountedFor
<1> QED
  BY <1>1, <1>2, <1>3

\* Every step at the queue keeps the queue's invariant.
LEMMA QueueStep ==
    ASSUME ChannelOK(Incidents), ClosedIsEmpty, QueueTypeOK, QueueInv, QueueNext
    PROVE QueueInv'
BY FetchesStep, MatchStep, AnswerStep, MissingStep DEF QueueInv
-----------------------------------------------------------------------------
\* The kind of a message tells its type.
LEMMA MessageTypes ==
    ASSUME NEW m \in Messages
    PROVE /\ m.kind = "action" => m \in RecordMessages
          /\ m.kind = "analysis" => m \in AnalysisMessages
BY DEF Messages, RecordMessages, AnalysisMessages

\* No record is shown at first.
LEMMA UnseenType == Unseen \in [Records -> Snapshots]
BY PaneAssumption DEF Unseen, Snapshots

\* Every step at the detail pane keeps the types.
LEMMA PaneTypeStep ==
    ASSUME ChannelOK(Messages), ClosedIsEmpty, PaneTypeOK, PaneNext
    PROVE ChannelOK(Messages)' /\ ClosedIsEmpty' /\ PaneTypeOK'
<1> USE PaneAssumption DEF stores, view, analysing, history, bounds
<1> DEFINE C == ChannelOK(Messages)' /\ ClosedIsEmpty'
           Opening == [inc: Subjects, read: BOOLEAN, analysed: BOOLEAN,
                       records: [Records -> Snapshots]]
<1>0. UNCHANGED channel => C
  BY ChannelStep
<1>1. ASSUME NEW i \in Subjects, SelectIncident(i) PROVE C /\ PaneTypeOK'
  <2>1. [inc |-> i, read |-> FALSE, analysed |-> FALSE, records |-> Unseen] \in Opening
    BY UnseenType
  <2>2. opening' \subseteq Opening
    BY <1>1, <2>1 DEF SelectIncident, PaneTypeOK
  <2>3. opened' \in 0..MaxOpened /\ selectedId' \in OrNone
    BY <1>1 DEF SelectIncident, PaneTypeOK, OrNone
  <2>4. shown' \in [Records -> Snapshots]
    BY <1>1, UnseenType DEF SelectIncident
  <2>5. PaneTypeOK'
    BY <1>1, <2>2, <2>3, <2>4 DEF SelectIncident, PaneTypeOK
  <2> QED
    BY <1>0, <1>1, <2>5 DEF SelectIncident
<1>2. ASSUME NEW q \in opening, ReadDetail(q) PROVE C /\ PaneTypeOK'
  <2> DEFINE R == [r \in Records |-> IF RecordOf[r] = q.inc THEN snapshot[r] ELSE 0]
             a == [q EXCEPT !.read = TRUE, !.analysed = q.inc \in analysed, !.records = R]
  <2>1. q \in Opening /\ R \in [Records -> Snapshots]
    BY DEF PaneTypeOK, Snapshots
  <2>2. (q.inc \in analysed) \in BOOLEAN
    OBVIOUS
  <2> HIDE DEF R
  <2>3. a \in Opening
    BY <2>1, <2>2
  <2>4. opening' = (opening \ {q}) \cup {a}
    BY <1>2 DEF ReadDetail, R
  <2> HIDE DEF a
  <2>5. PaneTypeOK'
    BY <1>2, <2>3, <2>4 DEF ReadDetail, PaneTypeOK
  <2> QED
    BY <1>0, <1>2, <2>5 DEF ReadDetail
<1>3. ASSUME NEW q \in opening, DetailArrives(q) PROVE C /\ PaneTypeOK'
  <2>1. q.inc \in Subjects /\ q.records \in [Records -> Snapshots]
    BY DEF PaneTypeOK
  <2>2. MergeFetched(shown, q.records) \in [Records -> Snapshots]
    BY <2>1 DEF MergeFetched, PaneTypeOK
  <2>3. PaneTypeOK'
    BY <1>3, <2>1, <2>2 DEF DetailArrives, PaneTypeOK, OrNone
  <2> QED
    BY <1>0, <1>3, <2>3 DEF DetailArrives
<1>4. ASSUME NEW q \in opening, DetailFails(q) PROVE C /\ PaneTypeOK'
  BY <1>0, <1>4 DEF DetailFails, PaneTypeOK
<1>5. ASSUME Back PROVE C /\ PaneTypeOK'
  <2>1. (left \/ analyzing # NoIncident) \in BOOLEAN
    OBVIOUS
  <2>2. PaneTypeOK'
    BY <1>5, <2>1 DEF Back, Leave, PaneTypeOK, OrNone
  <2> QED
    BY <1>0, <1>5, <2>2 DEF Back, Leave
<1>6. ASSUME Analyze PROVE C /\ PaneTypeOK'
  <2>1. selectedId \in Subjects /\ analyses + 1 \in 0..MaxAnalyses
    BY <1>6 DEF Analyze, PaneShown, PaneTypeOK, OrNone
  <2>2. [inc |-> selectedId, n |-> analyses + 1] \in Generation
    BY <2>1 DEF Generation
  <2>3. PaneTypeOK'
    BY <1>6, <2>1, <2>2 DEF Analyze, PaneTypeOK, OrNone
  <2> QED
    BY <1>0, <1>6, <2>3 DEF Analyze
<1>7. ASSUME NEW g \in generating, CompleteAnalysis(g) PROVE C /\ PaneTypeOK'
  <2>1. g \in Generation /\ g.inc \in Subjects
    BY DEF PaneTypeOK, Generation
  <2>2. [kind |-> "analysis", of |-> g] \in Messages
    BY <2>1 DEF Messages, AnalysisMessages
  <2>3. C
    BY <1>7, <2>2, ChannelStep DEF CompleteAnalysis
  <2>4. PaneTypeOK'
    BY <1>7, <2>1 DEF CompleteAnalysis, PaneTypeOK
  <2> QED
    BY <2>3, <2>4
<1>8. ASSUME AnalysisArrives PROVE C /\ PaneTypeOK'
  BY <1>0, <1>8 DEF AnalysisArrives, PaneTypeOK, OrNone
<1>9. ASSUME AnalysisFails PROVE C /\ PaneTypeOK'
  <2>1. generating' \subseteq generating
    BY <1>9 DEF AnalysisFails
  <2>2. PaneTypeOK'
    BY <1>9, <2>1 DEF AnalysisFails, PaneTypeOK, OrNone
  <2> QED
    BY <1>0, <1>9, <2>2 DEF AnalysisFails
<1>10. ASSUME NEW r \in Records, NEW own \in BOOLEAN, Commit(r, own) PROVE C /\ PaneTypeOK'
  <2>1. snapshot[r] + 1 \in Snapshots
    BY <1>10 DEF Commit, AppendRow, PaneTypeOK, Snapshots
  <2>2. [kind |-> "action", rec |-> r, n |-> snapshot[r] + 1, own |-> own] \in Messages
    BY <2>1 DEF Messages, RecordMessages
  <2>3. C
    BY <1>10, <2>2, ChannelStep DEF Commit, AnnounceRow
  <2>4. PaneTypeOK'
    BY <1>10, <2>1 DEF Commit, AppendRow, PaneTypeOK
  <2> QED
    BY <2>3, <2>4
<1>19. ASSUME NEW r \in Records, NEW own \in BOOLEAN, CommitApproval(r, own)
       PROVE C /\ PaneTypeOK'
  <2>1. snapshot[r] + 1 \in Snapshots
    BY <1>19 DEF CommitApproval, AppendRow, PaneTypeOK, Snapshots
  <2>2. [rec |-> r, n |-> snapshot[r] + 1, own |-> own] \in Execution
    BY <2>1 DEF Execution
  <2>3. executing' \subseteq Execution
    BY <1>19, <2>2 DEF CommitApproval, PaneTypeOK
  <2>4. PaneTypeOK'
    BY <1>19, <2>1, <2>3 DEF CommitApproval, AppendRow, PaneTypeOK
  <2> QED
    BY <1>0, <1>19, <2>4 DEF CommitApproval
<1>20. ASSUME NEW x \in executing, CommitExecution(x) PROVE C /\ PaneTypeOK'
  <2>1. x.rec \in Records /\ x.own \in BOOLEAN
    BY DEF PaneTypeOK, Execution
  <2>2. snapshot[x.rec] + 1 \in Snapshots
    BY <1>20, <2>1 DEF CommitExecution, AppendRow, PaneTypeOK, Snapshots
  <2>3. [kind |-> "action", rec |-> x.rec, n |-> snapshot[x.rec] + 1, own |-> x.own] \in Messages
    BY <2>1, <2>2 DEF Messages, RecordMessages
  <2>4. C
    BY <1>20, <2>3, ChannelStep DEF CommitExecution, AnnounceRow
  <2>5. PaneTypeOK'
    BY <1>20, <2>1, <2>2 DEF CommitExecution, AppendRow, PaneTypeOK
  <2> QED
    BY <2>4, <2>5
<1>21. ASSUME NEW x \in executing, ExecutionEnds(x) PROVE C /\ PaneTypeOK'
  <2>1. x.rec \in Records
    BY DEF PaneTypeOK, Execution
  <2>2. PaneTypeOK'
    BY <1>21, <2>1 DEF ExecutionEnds, PaneTypeOK
  <2> QED
    BY <1>0, <1>21, <2>2 DEF ExecutionEnds
<1>22. ASSUME NEW o \in outbox, MessageAbandoned(o) PROVE C /\ PaneTypeOK'
  BY <1>22, ChannelStep DEF MessageAbandoned, PaneTypeOK
<1>11. ASSUME NEW a \in answers, AnswerArrives(a) \/ AnswerLost(a) PROVE C /\ PaneTypeOK'
  <2>1. a.rec \in Records /\ a.n \in Snapshots
    BY DEF PaneTypeOK
  <2>2. PaneTypeOK'
    BY <1>11, <2>1 DEF AnswerArrives, AnswerLost, PaneTypeOK
  <2> QED
    BY <1>0, <1>11, <2>2 DEF AnswerArrives, AnswerLost
<1>12. ASSUME NEW o \in outbox, StartBroadcast(o), UNCHANGED pane PROVE C /\ PaneTypeOK'
  BY <1>12, ChannelStep DEF pane, PaneTypeOK
<1>13. ASSUME Connect, UNCHANGED pane PROVE C /\ PaneTypeOK'
  BY <1>13, ChannelStep DEF pane, PaneTypeOK
<1>14. ASSUME NEW o \in outbox, SendRecord(o) PROVE C /\ PaneTypeOK'
  <2>1. o.body \in RecordMessages
    BY <1>14, MessageTypes DEF SendRecord, ChannelOK
  <2>2. o.body.rec \in Records /\ o.body.n \in Snapshots
    BY <2>1 DEF RecordMessages
  <2>3. answers' \subseteq [rec: Records, n: Snapshots]
    BY <1>14, <2>2 DEF SendRecord, PaneTypeOK
  <2>4. sent' \in [Records -> Snapshots]
    BY <1>14, <2>2 DEF SendRecord, PaneTypeOK
  <2>5. excused' \subseteq Records
    BY <1>14, <2>2 DEF SendRecord, PaneTypeOK
  <2>6. C
    BY <1>14, ChannelStep DEF SendRecord
  <2>7. PaneTypeOK'
    BY <1>14, <2>3, <2>4, <2>5 DEF SendRecord, PaneTypeOK
  <2> QED
    BY <2>6, <2>7
<1>15. ASSUME NEW o \in outbox, SendAnalysis(o) PROVE C /\ PaneTypeOK'
  <2>1. analysisDone' \in BOOLEAN
    BY <1>15, Zenon DEF SendAnalysis
  <2>2. C
    BY <1>15, ChannelStep DEF SendAnalysis
  <2>3. PaneTypeOK'
    BY <1>15, <2>1 DEF SendAnalysis, PaneTypeOK
  <2> QED
    BY <2>2, <2>3
<1>16. ASSUME ReceiveRecord PROVE C /\ PaneTypeOK'
  <2>1. Head(wire) \in Messages
    BY <1>16 DEF ReceiveRecord, ChannelOK
  <2>2. Head(wire) \in RecordMessages
    BY <1>16, <2>1, MessageTypes DEF ReceiveRecord
  <2>3. Head(wire).rec \in Records /\ Head(wire).n \in Snapshots
    BY <2>2 DEF RecordMessages
  <2>4. PaneTypeOK'
    BY <1>16, <2>3 DEF ReceiveRecord, PaneTypeOK
  <2> QED
    BY <1>16, <2>4, ChannelStep DEF ReceiveRecord
<1>17. ASSUME ReceiveAnalysis PROVE C /\ PaneTypeOK'
  BY <1>17, ChannelStep DEF ReceiveAnalysis, PaneTypeOK
<1>18. ASSUME PaneDisconnects PROVE C /\ PaneTypeOK'
  BY <1>18, ChannelStep DEF PaneDisconnects, PaneTypeOK
<1> QED
  BY <1>1, <1>2, <1>3, <1>4, <1>5, <1>6, <1>7, <1>8, <1>9, <1>10, <1>11, <1>12, <1>13, <1>14,
     <1>15, <1>16, <1>17, <1>18, <1>19, <1>20, <1>21, <1>22 DEF PaneNext, PaneChannel

\* Every step at the detail pane keeps its invariants.
LEMMA PaneStep ==
    ASSUME PaneTypeOK, PaneInv, PaneNext
    PROVE PaneInv'
<1> USE PaneAssumption DEF stores, view, analysing, history, bounds
<1> DEFINE same == UNCHANGED <<view, analysisOf, opening, analyzing, left>>
<1>0. \A q \in opening : q.inc \in Subjects
  BY DEF PaneTypeOK
<1>1. ASSUME same PROVE PaneInv'
  BY <1>1 DEF PaneInv, OpeningSound, AnalyzingIsShown, DetailIsSelected,
              ForeignAnalysisOnlyAfterLeaving
<1>2. ASSUME NEW i \in Subjects, SelectIncident(i) PROVE PaneInv'
  <2>1. opening = {} /\ detail = NoIncident
    BY <1>0, <1>2 DEF SelectIncident, PaneInv, OpeningSound, DetailIsSelected
  <2> QED
    BY <1>2, <2>1 DEF SelectIncident, PaneInv, OpeningSound, AnalyzingIsShown, DetailIsSelected,
                      ForeignAnalysisOnlyAfterLeaving
<1>3. ASSUME NEW q \in opening, ReadDetail(q) PROVE PaneInv'
  <2>1. PICK a : a.inc = q.inc /\ opening' = (opening \ {q}) \cup {a}
    BY <1>3 DEF ReadDetail, PaneTypeOK
  <2>2. opening' = {a}
    BY <2>1 DEF PaneInv, OpeningSound
  <2>3. UNCHANGED <<view, analysisOf, analyzing, left>>
    BY <1>3 DEF ReadDetail
  <2> QED
    BY <2>1, <2>2, <2>3 DEF PaneInv, OpeningSound, AnalyzingIsShown, DetailIsSelected,
                            ForeignAnalysisOnlyAfterLeaving
<1>4. ASSUME NEW q \in opening, DetailArrives(q) PROVE PaneInv'
  <2>1. opening' = {} /\ detail' = selectedId' /\ detail = NoIncident
    BY <1>4 DEF DetailArrives, PaneInv, OpeningSound
  <2>2. analysisOf' \in {NoIncident, detail'}
    BY <1>4 DEF DetailArrives
  <2>3. analyzing = NoIncident \/ left
    BY <2>1 DEF PaneInv, AnalyzingIsShown
  <2> QED
    BY <1>4, <2>1, <2>2, <2>3 DEF DetailArrives, PaneInv, OpeningSound, AnalyzingIsShown,
                                  DetailIsSelected, ForeignAnalysisOnlyAfterLeaving
<1>5. ASSUME NEW q \in opening, DetailFails(q) PROVE PaneInv'
  <2>1. opening' = {}
    BY <1>5 DEF DetailFails, PaneInv, OpeningSound
  <2> QED
    BY <1>5, <2>1 DEF DetailFails, PaneInv, OpeningSound, AnalyzingIsShown,
                      DetailIsSelected, ForeignAnalysisOnlyAfterLeaving
<1>6. ASSUME Back PROVE PaneInv'
  <2>1. opening = {}
    BY <1>6 DEF Back, PaneShown, PaneInv, OpeningSound
  <2>2. left' = (left \/ analyzing # NoIncident)
    BY <1>6 DEF Back, Leave
  <2>3. analyzing # NoIncident => left'
    BY <2>2
  <2> QED
    BY <1>6, <2>1, <2>3 DEF Back, Leave, PaneInv, OpeningSound, AnalyzingIsShown,
                            DetailIsSelected, ForeignAnalysisOnlyAfterLeaving
<1>7. ASSUME Analyze PROVE PaneInv'
  <2>1. detail = selectedId
    BY <1>7 DEF Analyze, PaneShown, PaneInv, DetailIsSelected
  <2> QED
    BY <1>7, <2>1 DEF Analyze, PaneInv, OpeningSound, AnalyzingIsShown, DetailIsSelected,
                      ForeignAnalysisOnlyAfterLeaving
<1>8. ASSUME AnalysisArrives PROVE PaneInv'
  BY <1>8 DEF AnalysisArrives, PaneInv, OpeningSound, AnalyzingIsShown, DetailIsSelected,
              ForeignAnalysisOnlyAfterLeaving
<1>9. ASSUME AnalysisFails PROVE PaneInv'
  BY <1>9 DEF AnalysisFails, PaneInv, OpeningSound, AnalyzingIsShown, DetailIsSelected,
              ForeignAnalysisOnlyAfterLeaving
<1>10. ASSUME ReceiveAnalysis PROVE PaneInv'
  BY <1>10 DEF ReceiveAnalysis, PaneInv, OpeningSound, AnalyzingIsShown, DetailIsSelected,
               ForeignAnalysisOnlyAfterLeaving
<1>11. \/ same
       \/ \E i \in Subjects : SelectIncident(i)
       \/ \E q \in opening : ReadDetail(q) \/ DetailArrives(q) \/ DetailFails(q)
       \/ Back \/ Analyze \/ AnalysisArrives \/ AnalysisFails \/ ReceiveAnalysis
  BY DEF PaneNext, PaneChannel, CompleteAnalysis, Commit, CommitApproval, CommitExecution,
         ExecutionEnds, MessageAbandoned, AnswerArrives, AnswerLost, SendRecord,
         SendAnalysis, ReceiveRecord, PaneDisconnects, pane
<1> QED
  BY <1>1, <1>2, <1>3, <1>4, <1>5, <1>6, <1>7, <1>8, <1>9, <1>10, <1>11
-----------------------------------------------------------------------------
\* What a message that is sent last does to the messages about a record.
LEMMA SentLast ==
    ASSUME NEW S, NEW w \in Seq(S), NEW m \in S, NEW r, NEW k
    PROVE  /\ ~About(m, r) => /\ Carries(Append(w, m), r) <=> Carries(w, r)
                              /\ LastIs(w, r, k) => LastIs(Append(w, m), r, k)
           /\ About(m, r) => Carries(Append(w, m), r) /\ LastIs(Append(w, m), r, m.n)
<1> DEFINE v == Append(w, m)
<1>1. /\ DOMAIN v = 1..(Len(w) + 1) /\ DOMAIN w = 1..Len(w) /\ Len(w) \in Nat
      /\ v[Len(w) + 1] = m /\ \A n \in 1..Len(w) : v[n] = w[n]
  OBVIOUS
<1> HIDE DEF v
<1>2. ASSUME ~About(m, r)
      PROVE  /\ Carries(v, r) <=> Carries(w, r)
             /\ LastIs(w, r, k) => LastIs(v, r, k)
  <2>1. \A n \in DOMAIN v : About(v[n], r) => n \in DOMAIN w /\ v[n] = w[n]
    BY <1>1, <1>2
  <2>2. \A n \in DOMAIN w : n \in DOMAIN v /\ v[n] = w[n]
    BY <1>1
  <2>3. Carries(v, r) <=> Carries(w, r)
    BY <2>1, <2>2 DEF Carries
  <2>4. LastIs(w, r, k) => LastIs(v, r, k)
    BY <2>1, <2>2 DEF LastIs
  <2> QED BY <2>3, <2>4
<1>3. ASSUME About(m, r) PROVE Carries(v, r) /\ LastIs(v, r, m.n)
  <2>1. Len(w) + 1 \in DOMAIN v /\ About(v[Len(w) + 1], r)
    BY <1>1, <1>3
  <2>2. \A n \in DOMAIN v : n = Len(w) + 1 \/ Len(w) + 1 > n
    BY <1>1
  <2>3. LastIs(v, r, m.n)
    BY <1>1, <2>1, <2>2 DEF LastIs
  <2> QED BY <2>1, <2>3 DEF Carries
<1> QED BY <1>2, <1>3 DEF v

\* What the receipt of the first message does to the messages about a record.
LEMMA ReceivedFirst ==
    ASSUME NEW S, NEW w \in Seq(S), w # << >>, NEW r, NEW k
    PROVE  /\ LastIs(w, r, k) => LastIs(Tail(w), r, k)
           /\ ~About(Head(w), r) => (Carries(Tail(w), r) <=> Carries(w, r))
           /\ About(Head(w), r) /\ ~Carries(Tail(w), r) /\ LastIs(w, r, k) => Head(w).n = k
<1> DEFINE v == Tail(w)
           h == Head(w)
<1>1. /\ Len(w) \in Nat \ {0} /\ DOMAIN w = 1..Len(w) /\ w[1] = h
      /\ DOMAIN v = 1..(Len(w) - 1) /\ \A n \in 1..(Len(w) - 1) : v[n] = w[n + 1]
  OBVIOUS
<1> HIDE DEF v, h
<1>2. \A n \in DOMAIN v : n + 1 \in DOMAIN w /\ v[n] = w[n + 1] /\ n \in Int
  BY <1>1
<1>3. \A n \in DOMAIN w : n # 1 => n - 1 \in DOMAIN v /\ w[n] = v[n - 1] /\ n \in Int /\ n > 1
  BY <1>1
<1>4. 1 \in DOMAIN w /\ w[1] = h
  BY <1>1
<1>5. LastIs(w, r, k) => LastIs(v, r, k)
  <2> SUFFICES ASSUME LastIs(w, r, k), NEW n \in DOMAIN v, About(v[n], r),
                      \A m \in DOMAIN v : m > n => ~About(v[m], r)
               PROVE  v[n].n = k
    BY DEF LastIs
  <2>1. ASSUME NEW m \in DOMAIN w, m > n + 1 PROVE ~About(w[m], r)
    <3>1. m # 1 /\ n \in Int /\ n >= 1
      BY <1>1, <2>1
    <3>2. m - 1 \in DOMAIN v /\ w[m] = v[m - 1] /\ m - 1 > n
      BY <1>3, <2>1, <3>1
    <3> QED BY <3>2
  <2> QED BY <1>2, <2>1 DEF LastIs
<1>6. ~About(h, r) => (Carries(v, r) <=> Carries(w, r))
  BY <1>2, <1>3, <1>4 DEF Carries
<1>7. About(h, r) /\ ~Carries(v, r) /\ LastIs(w, r, k) => h.n = k
  <2> SUFFICES ASSUME About(h, r), ~Carries(v, r), LastIs(w, r, k) PROVE h.n = k
    OBVIOUS
  <2>1. \A m \in DOMAIN w : m > 1 => ~About(w[m], r)
    BY <1>1, <1>3 DEF Carries
  <2> QED BY <1>4, <2>1 DEF LastIs
<1> QED BY <1>5, <1>6, <1>7 DEF v, h

\* Every step at the detail pane keeps what the pane knows of the records.
LEMMA CurrentStep ==
    ASSUME ChannelOK(Messages), ClosedIsEmpty, PaneTypeOK, PaneInv, CurrentInv, PaneNext
    PROVE  CurrentInv'
<1> USE PaneAssumption DEF stores, view, analysing, history, bounds
<1>t. /\ \A r \in Records : snapshot[r] \in Nat /\ sent[r] \in Nat /\ shown[r] \in Nat
      /\ \A a \in answers : a.rec \in Records /\ a.n \in Nat
      /\ \A x \in executing : x.rec \in Records /\ x.own \in BOOLEAN
      /\ \A q \in opening : q.inc \in Subjects /\ \A r \in Records : q.records[r] \in Nat
  BY DEF PaneTypeOK, Execution, Snapshots
<1>m. \A m \in Messages : m.kind = "action" => m.rec \in Records /\ m.n \in Nat
  BY MessageTypes DEF RecordMessages, Snapshots
<1>o. /\ \A o \in outbox : o.body \in Messages
      /\ wire \in Seq(Messages)
      /\ \A n \in DOMAIN wire : wire[n] \in Messages
  BY DEF ChannelOK
<1>1. ASSUME UNCHANGED <<channel, snapshot, executing, sent, shown, excused>>,
             opening' \subseteq opening, answers' \subseteq answers, detail' \in {detail, NoIncident}
      PROVE  CurrentInv'
  <2>1. NumbersBounded'
    BY <1>1 DEF CurrentInv, NumbersBounded, channel
  <2>2. NewestOwed' /\ NewestLast'
    BY <1>1 DEF CurrentInv, NewestOwed, Executes, NewestLast, channel
  <2>3. \A r \in Records : RecordOf[r] # NoIncident
    OBVIOUS
  <2>4. NothingMissed'
    BY <1>1, <2>3 DEF CurrentInv, NothingMissed, CaughtUp, channel
  <2> QED BY <2>1, <2>2, <2>4 DEF CurrentInv
<1>2. ASSUME NEW i \in Subjects, SelectIncident(i) PROVE CurrentInv'
  <2>1. opening = {} /\ detail = NoIncident
    BY <1>t, <1>2 DEF SelectIncident, PaneInv, OpeningSound, DetailIsSelected
  <2> DEFINE q == [inc |-> i, read |-> FALSE, analysed |-> FALSE, records |-> Unseen]
  <2>2. opening' = {q} /\ detail' = NoIncident /\ shown' = Unseen
        /\ UNCHANGED <<channel, snapshot, executing, sent, excused, answers>>
    BY <1>2, <2>1 DEF SelectIncident
  <2>3. /\ \A r \in Records : shown'[r] = 0
        /\ \A p \in opening' : ~p.read /\ \A r \in Records : p.records[r] = 0
    BY <2>2 DEF Unseen
  <2> HIDE DEF q
  <2>4. NumbersBounded'
    BY <1>t, <2>2, <2>3 DEF CurrentInv, NumbersBounded, channel
  <2>5. NewestOwed' /\ NewestLast'
    BY <2>2 DEF CurrentInv, NewestOwed, Executes, NewestLast, channel
  <2>6. \A r \in Records : CaughtUp(r)'
    BY <2>2, <2>3 DEF CaughtUp
  <2>7. NothingMissed'
    BY <2>6 DEF NothingMissed
  <2> QED BY <2>4, <2>5, <2>7 DEF CurrentInv
<1>3. ASSUME NEW q \in opening, ReadDetail(q) PROVE CurrentInv'
  <2> DEFINE R == [r \in Records |-> IF RecordOf[r] = q.inc THEN snapshot[r] ELSE 0]
             a == [q EXCEPT !.read = TRUE, !.analysed = q.inc \in analysed, !.records = R]
  <2>0. opening' = (opening \ {q}) \cup {a}
    BY <1>3 DEF ReadDetail
  <2> HIDE DEF R
  <2>1. opening' = (opening \ {q}) \cup {a} /\ a.inc = q.inc /\ a.records = R
    BY <2>0 DEF PaneTypeOK
  <2> HIDE DEF a
  <2>2. opening' = {a} /\ UNCHANGED <<channel, snapshot, executing, sent, shown, excused, answers, detail>>
    BY <1>3, <2>1 DEF ReadDetail, PaneInv, OpeningSound
  <2>3. \A r \in Records : /\ a.records[r] <= snapshot[r]
                           /\ a.inc = RecordOf[r] => a.records[r] = snapshot[r]
    BY <1>t, <2>1 DEF R
  <2>4. NumbersBounded'
    BY <2>2, <2>3 DEF CurrentInv, NumbersBounded, channel
  <2>5. NewestOwed' /\ NewestLast'
    BY <2>2 DEF CurrentInv, NewestOwed, Executes, NewestLast, channel
  <2>6. ASSUME NEW r \in Records, CaughtUp(r) PROVE CaughtUp(r)'
    <3>1. detail' = RecordOf[r] => shown'[r] >= sent'[r]
      BY <2>2, <2>6 DEF CaughtUp
    <3>2. a.inc = RecordOf[r] => \/ shown[r] >= sent[r]
                                 \/ shown[r] = 0 /\ a.records[r] >= sent[r]
      BY <2>1, <2>3, <2>6 DEF CaughtUp, CurrentInv, NumbersBounded
    <3> QED BY <2>2, <3>1, <3>2 DEF CaughtUp
  <2>7. NothingMissed'
    BY <2>2, <2>6 DEF CurrentInv, NothingMissed, channel
  <2> QED BY <2>4, <2>5, <2>7 DEF CurrentInv
<1>4. ASSUME NEW q \in opening, DetailArrives(q) PROVE CurrentInv'
  <2>1. /\ opening' = {} /\ detail' = q.inc /\ q.read
        /\ shown' = MergeFetched(shown, q.records)
        /\ UNCHANGED <<channel, snapshot, executing, sent, excused, answers>>
    BY <1>4 DEF DetailArrives, PaneInv, OpeningSound
  <2>2. \A r \in Records : shown'[r] = IF shown[r] = 0 THEN q.records[r] ELSE shown[r]
    BY <2>1 DEF MergeFetched
  <2>3. NumbersBounded'
    BY <2>1, <2>2 DEF CurrentInv, NumbersBounded, channel
  <2>4. NewestOwed' /\ NewestLast'
    BY <2>1 DEF CurrentInv, NewestOwed, Executes, NewestLast, channel
  <2>5. ASSUME NEW r \in Records, CaughtUp(r) PROVE CaughtUp(r)'
    <3>1. q.inc = RecordOf[r] => shown'[r] >= sent[r]
      BY <1>t, <2>1, <2>2, <2>5 DEF CaughtUp
    <3> QED BY <2>1, <3>1 DEF CaughtUp
  <2>6. NothingMissed'
    BY <2>1, <2>5 DEF CurrentInv, NothingMissed, channel
  <2> QED BY <2>3, <2>4, <2>6 DEF CurrentInv
<1>5. ASSUME NEW r \in Records, NEW own \in BOOLEAN, AppendRow(r), AnnounceRow(r, own),
             UNCHANGED <<wire, shown, sent, excused, opening, answers, detail>>,
             \A x \in executing : x.rec = r \/ x \in executing'
      PROVE  CurrentInv'
  <2> DEFINE m == [kind |-> "action", rec |-> r, n |-> snapshot[r] + 1, own |-> own]
             e == [body |-> m, to |-> NotStarted]
  <2>1. /\ outbox' = outbox \cup {e}
        /\ snapshot' = [snapshot EXCEPT ![r] = @ + 1]
    BY <1>5 DEF AppendRow, AnnounceRow, ToBroadcast
  <2>2. /\ e.body.kind = "action" /\ e.body.rec = r /\ e.body.n = snapshot[r] + 1
        /\ About(e.body, r)
    BY DEF About
  <2>3. /\ snapshot'[r] = snapshot[r] + 1
        /\ \A s \in Records : snapshot'[s] >= snapshot[s] /\ (s # r => snapshot'[s] = snapshot[s])
        /\ \A s \in Records : snapshot'[s] \in Nat
    BY <1>t, <2>1 DEF PaneTypeOK
  <2> HIDE DEF e, m
  <2>4. NumbersBounded'
    <3>1. \A o \in outbox' : o.body.kind = "action" => o.body.n <= snapshot'[o.body.rec]
      BY <1>t, <1>m, <1>o, <2>1, <2>2, <2>3 DEF CurrentInv, NumbersBounded
    <3> QED BY <1>t, <1>5, <2>3, <3>1 DEF CurrentInv, NumbersBounded
  <2>5. NewestOwed'
    <3>1. ASSUME NEW s \in Records \ excused, s # r
          PROVE  \/ sent'[s] = snapshot'[s]
                 \/ \E o \in outbox' : About(o.body, s) /\ o.body.n = snapshot'[s]
                 \/ Executes(s)'
      BY <1>5, <2>1, <2>3, <3>1 DEF CurrentInv, NewestOwed, Executes
    <3>2. \E o \in outbox' : About(o.body, r) /\ o.body.n = snapshot'[r]
      BY <2>1, <2>2, <2>3
    <3> QED BY <1>5, <3>1, <3>2 DEF NewestOwed
  <2>6. NewestLast' /\ NothingMissed'
    BY <1>5 DEF CurrentInv, NewestLast, NothingMissed, CaughtUp
  <2> QED BY <2>4, <2>5, <2>6 DEF CurrentInv
<1>19. ASSUME NEW r \in Records, NEW own \in BOOLEAN, Commit(r, own) PROVE CurrentInv'
  BY <1>5, <1>19 DEF Commit
<1>20. ASSUME NEW x \in executing, CommitExecution(x) PROVE CurrentInv'
  <2>1. \A y \in executing : y.rec = x.rec \/ y \in executing'
    BY <1>20 DEF CommitExecution
  <2> QED BY <1>t, <1>5, <1>20, <2>1 DEF CommitExecution
<1>21. ASSUME NEW r \in Records, NEW own \in BOOLEAN, CommitApproval(r, own) PROVE CurrentInv'
  <2> DEFINE x == [rec |-> r, n |-> snapshot[r] + 1, own |-> own]
  <2>1. /\ executing' = executing \cup {x} /\ x.rec = r
        /\ UNCHANGED <<channel, shown, sent, excused, opening, answers, detail>>
        /\ snapshot' = [snapshot EXCEPT ![r] = @ + 1]
    BY <1>21 DEF CommitApproval, AppendRow
  <2>2. /\ \A s \in Records : snapshot'[s] >= snapshot[s] /\ (s # r => snapshot'[s] = snapshot[s])
        /\ \A s \in Records : snapshot'[s] \in Nat
    BY <1>t, <2>1 DEF PaneTypeOK
  <2> HIDE DEF x
  <2>3. NumbersBounded'
    <3>1. \A o \in outbox' : o.body.kind = "action" => o.body.n <= snapshot'[o.body.rec]
      BY <1>t, <1>m, <1>o, <2>1, <2>2 DEF CurrentInv, NumbersBounded, channel
    <3> QED BY <1>t, <2>1, <2>2, <3>1 DEF CurrentInv, NumbersBounded, channel
  <2>4. NewestOwed'
    BY <2>1, <2>2 DEF CurrentInv, NewestOwed, Executes, channel
  <2>5. NewestLast' /\ NothingMissed'
    BY <2>1 DEF CurrentInv, NewestLast, NothingMissed, CaughtUp, channel
  <2> QED BY <2>3, <2>4, <2>5 DEF CurrentInv
<1>22. ASSUME NEW x \in executing, ExecutionEnds(x) PROVE CurrentInv'
  <2>1. /\ executing' = executing \ {x} /\ excused' = excused \cup {x.rec}
        /\ UNCHANGED <<channel, snapshot, shown, sent, opening, answers, detail>>
    BY <1>22 DEF ExecutionEnds
  <2>2. NumbersBounded'
    BY <2>1 DEF CurrentInv, NumbersBounded, channel
  <2>3. NewestOwed'
    BY <2>1 DEF CurrentInv, NewestOwed, Executes, channel
  <2>4. NewestLast' /\ NothingMissed'
    BY <2>1 DEF CurrentInv, NewestLast, NothingMissed, CaughtUp, channel
  <2> QED BY <2>2, <2>3, <2>4 DEF CurrentInv
<1>23. ASSUME NEW o \in outbox, MessageAbandoned(o) PROVE CurrentInv'
  <2>1. /\ outbox' = outbox \ {o} /\ excused \subseteq excused'
        /\ UNCHANGED <<wire, snapshot, executing, shown, sent, opening, answers, detail>>
    BY <1>23 DEF MessageAbandoned, Abandoned
  <2>2. \A r \in Records \ excused' : ~About(o.body, r)
    BY <1>23 DEF MessageAbandoned, About
  <2>3. NumbersBounded'
    BY <2>1 DEF CurrentInv, NumbersBounded
  <2>4. NewestOwed'
    BY <2>1, <2>2 DEF CurrentInv, NewestOwed, Executes
  <2>5. NewestLast' /\ NothingMissed'
    BY <2>1 DEF CurrentInv, NewestLast, NothingMissed, CaughtUp
  <2> QED BY <2>3, <2>4, <2>5 DEF CurrentInv
<1>6. ASSUME NEW a \in answers, AnswerArrives(a) PROVE CurrentInv'
  <2>1. /\ UNCHANGED <<channel, snapshot, executing, sent, opening, detail>>
        /\ answers' \subseteq answers
        /\ shown' = [shown EXCEPT ![a.rec] = a.n]
        /\ excused \subseteq excused'
        /\ a.rec \notin excused' => a.n = sent[a.rec]
    BY <1>t, <1>6 DEF AnswerArrives, CurrentInv, NumbersBounded
  <2>2. \A r \in Records : shown'[r] = IF r = a.rec THEN a.n ELSE shown[r]
    BY <2>1 DEF PaneTypeOK
  <2>3. NumbersBounded'
    BY <1>t, <2>1, <2>2 DEF CurrentInv, NumbersBounded, channel
  <2>4. NewestOwed' /\ NewestLast'
    BY <2>1 DEF CurrentInv, NewestOwed, Executes, NewestLast, channel
  <2>5. ASSUME NEW r \in Records \ excused', CaughtUp(r) PROVE CaughtUp(r)'
    BY <1>t, <2>1, <2>2, <2>5 DEF CaughtUp
  <2>6. NothingMissed'
    BY <2>1, <2>5 DEF CurrentInv, NothingMissed, channel
  <2> QED BY <2>3, <2>4, <2>6 DEF CurrentInv
<1>7. ASSUME NEW o \in outbox, NEW e, o.body = e.body, outbox' = (outbox \ {o}) \cup {e},
             wire' = wire, UNCHANGED pane
      PROVE  CurrentInv'
  <2>1. UNCHANGED <<wire, snapshot, executing, sent, shown, excused, opening, answers, detail>>
    BY <1>7 DEF pane
  <2>2. NumbersBounded' /\ NewestLast' /\ NothingMissed'
    BY <1>7, <2>1 DEF CurrentInv, NumbersBounded, NewestLast, NothingMissed, CaughtUp
  <2>3. NewestOwed'
    BY <1>7, <2>1 DEF CurrentInv, NewestOwed, Executes
  <2> QED BY <2>2, <2>3 DEF CurrentInv
<1>8. ASSUME NEW g \in generating, CompleteAnalysis(g) PROVE CurrentInv'
  <2> DEFINE e == [body |-> [kind |-> "analysis", of |-> g], to |-> NotStarted]
  <2>1. /\ outbox' = outbox \cup {e} /\ e.body.kind = "analysis"
        /\ UNCHANGED <<wire, snapshot, executing, sent, shown, excused, opening, answers, detail>>
    BY <1>8 DEF CompleteAnalysis, ToBroadcast
  <2> HIDE DEF e
  <2>2. NumbersBounded' /\ NewestLast' /\ NothingMissed'
    BY <2>1 DEF CurrentInv, NumbersBounded, NewestLast, NothingMissed, CaughtUp
  <2>3. NewestOwed'
    BY <2>1 DEF CurrentInv, NewestOwed, Executes
  <2> QED BY <2>2, <2>3 DEF CurrentInv
<1>9. ASSUME NEW o \in outbox, SendRecord(o) PROVE CurrentInv'
  <2> DEFINE r == o.body.rec
             n == o.body.n
  <2>1. /\ o.body \in Messages /\ o.body.kind = "action" /\ r \in Records /\ n \in Nat
        /\ About(o.body, r) /\ \A s : About(o.body, s) => s = r
    BY <1>9, <1>m, <1>o DEF SendRecord, About
  <2>2. /\ outbox' = outbox \ {o}
        /\ wire' = IF Reaches(o) THEN Append(wire, o.body) ELSE wire
        /\ UNCHANGED <<snapshot, executing, shown, opening, detail>>
        /\ answers' \subseteq answers \cup {[rec |-> r, n |-> n]}
        /\ sent' = IF n > sent[r] THEN [sent EXCEPT ![r] = n] ELSE sent
        /\ excused' = IF Reaches(o) /\ n > sent[r] THEN excused ELSE excused \cup {r}
    BY <1>9 DEF SendRecord, SendText
  <2>3. /\ \A s \in Records : sent'[s] >= sent[s] /\ sent'[s] \in Nat /\ (s # r => sent'[s] = sent[s])
        /\ sent'[r] >= n /\ (sent'[r] = n \/ sent'[r] = sent[r])
    BY <1>t, <2>1, <2>2 DEF PaneTypeOK
  <2>4. n <= snapshot[r]
    BY <2>1 DEF CurrentInv, NumbersBounded
  <2>5. r \notin excused' => Reaches(o) /\ n > sent[r] /\ sent'[r] = n
    BY <1>t, <2>1, <2>2, <2>3 DEF PaneTypeOK
  <2>6. excused \subseteq excused'
    BY <2>2
  <2> HIDE DEF r, n
  <2>7. \A s \in Records \ excused' : s # r =>
          /\ Carries(wire, s) <=> Carries(wire', s)
          /\ LastIs(wire', s, sent'[s])
    <3>1. ASSUME NEW s \in Records \ excused', s # r
          PROVE  /\ Carries(wire, s) <=> Carries(wire', s)
                 /\ LastIs(wire', s, sent'[s])
      <4>1. ~About(o.body, s) /\ sent'[s] = sent[s] /\ LastIs(wire, s, sent[s])
        BY <2>1, <2>3, <2>6, <3>1 DEF CurrentInv, NewestLast
      <4>2. /\ Carries(Append(wire, o.body), s) <=> Carries(wire, s)
            /\ LastIs(Append(wire, o.body), s, sent[s])
        BY <1>o, <2>1, <4>1, SentLast
      <4> QED BY <2>2, <4>1, <4>2
    <3> QED BY <3>1
  <2>8. r \notin excused' => Carries(wire', r) /\ LastIs(wire', r, sent'[r])
    <3>1. Carries(Append(wire, o.body), r) /\ LastIs(Append(wire, o.body), r, o.body.n)
      BY <1>o, <2>1, SentLast
    <3> QED BY <2>2, <2>5, <3>1 DEF n
  <2>9. NumbersBounded'
    <3>1. \A s \in Records : sent'[s] <= snapshot'[s] /\ shown'[s] <= snapshot'[s]
      BY <1>t, <2>1, <2>2, <2>3, <2>4 DEF CurrentInv, NumbersBounded
    <3>2. \A a \in answers' : a.n <= sent'[a.rec]
      <4>1. ASSUME NEW a \in answers PROVE a.n <= sent'[a.rec]
        BY <1>t, <2>3, <4>1 DEF CurrentInv, NumbersBounded
      <4> QED BY <2>2, <2>3, <4>1
    <3>3. \A p \in outbox' : p.body.kind = "action" => p.body.n <= snapshot'[p.body.rec]
      BY <2>2 DEF CurrentInv, NumbersBounded
    <3>4. \A k \in DOMAIN wire' : wire'[k].kind = "action" => wire'[k].n <= sent'[wire'[k].rec]
      <4>1. \A k \in DOMAIN wire : wire[k].kind = "action" => wire[k].n <= sent'[wire[k].rec]
        BY <1>m, <1>o, <1>t, <2>3 DEF CurrentInv, NumbersBounded
      <4>2. \A k \in DOMAIN Append(wire, o.body) :
              \/ Append(wire, o.body)[k] = o.body
              \/ k \in DOMAIN wire /\ Append(wire, o.body)[k] = wire[k]
        BY <1>o
      <4>3. o.body.n <= sent'[o.body.rec]
        BY <2>3 DEF r, n
      <4> QED BY <2>2, <4>1, <4>2, <4>3
    <3>5. \A q \in opening' : \A s \in Records : q.records[s] <= snapshot'[s]
      BY <2>2 DEF CurrentInv, NumbersBounded
    <3> QED BY <3>1, <3>2, <3>3, <3>4, <3>5 DEF NumbersBounded
  <2>10. NewestOwed'
    <3>1. ASSUME NEW s \in Records \ excused'
          PROVE  \/ sent'[s] = snapshot'[s]
                 \/ \E p \in outbox' : About(p.body, s) /\ p.body.n = snapshot'[s]
                 \/ Executes(s)'
      <4>1. CASE sent[s] = snapshot[s]
        BY <1>t, <2>1, <2>2, <2>3, <2>4, <4>1
      <4>2. CASE \E p \in outbox : About(p.body, s) /\ p.body.n = snapshot[s]
        <5>1. PICK p \in outbox : About(p.body, s) /\ p.body.n = snapshot[s]
          BY <4>2
        <5>2. CASE p = o
          <6>1. s = r /\ n = snapshot[s]
            BY <2>1, <5>1, <5>2 DEF n
          <6> QED BY <1>t, <2>1, <2>2, <2>3, <2>4, <6>1 DEF CurrentInv, NumbersBounded
        <5>3. CASE p # o
          BY <2>2, <5>1, <5>3
        <5> QED BY <5>2, <5>3
      <4>3. CASE Executes(s)
        BY <2>2, <4>3 DEF Executes
      <4> QED BY <2>6, <4>1, <4>2, <4>3 DEF CurrentInv, NewestOwed
    <3> QED BY <3>1 DEF NewestOwed, Executes
  <2>11. NewestLast'
    BY <2>7, <2>8 DEF NewestLast
  <2>12. NothingMissed'
    <3>1. ASSUME NEW s \in Records \ excused', s # r, CaughtUp(s) PROVE CaughtUp(s)'
      BY <2>2, <2>3, <3>1 DEF CaughtUp
    <3> QED BY <2>6, <2>7, <2>8, <3>1 DEF CurrentInv, NothingMissed
  <2> QED BY <2>9, <2>10, <2>11, <2>12 DEF CurrentInv
<1>10. ASSUME NEW o \in outbox, SendAnalysis(o) PROVE CurrentInv'
  <2>1. /\ o.body \in Messages /\ o.body.kind = "analysis"
        /\ \A s : ~About(o.body, s)
    BY <1>10, <1>o DEF SendAnalysis, About
  <2>2. /\ outbox' = outbox \ {o}
        /\ wire' = IF Reaches(o) THEN Append(wire, o.body) ELSE wire
        /\ UNCHANGED <<snapshot, executing, sent, shown, excused, opening, answers, detail>>
    BY <1>10 DEF SendAnalysis, SendText
  <2>3. ASSUME NEW s \in Records \ excused
        PROVE  (Carries(wire, s) <=> Carries(wire', s)) /\ LastIs(wire', s, sent[s])
    <3>1. /\ Carries(Append(wire, o.body), s) <=> Carries(wire, s)
          /\ LastIs(wire, s, sent[s]) => LastIs(Append(wire, o.body), s, sent[s])
      BY <1>o, <2>1, SentLast
    <3> QED BY <2>2, <3>1 DEF CurrentInv, NewestLast
  <2>4. \A k \in DOMAIN wire' : wire'[k].kind = "action" => wire'[k].n <= sent[wire'[k].rec]
    <3>1. \A k \in DOMAIN Append(wire, o.body) :
            \/ Append(wire, o.body)[k] = o.body
            \/ k \in DOMAIN wire /\ Append(wire, o.body)[k] = wire[k]
      BY <1>o
    <3> QED BY <2>1, <2>2, <3>1 DEF CurrentInv, NumbersBounded
  <2>5. NumbersBounded'
    BY <2>2, <2>4 DEF CurrentInv, NumbersBounded
  <2>6. NewestOwed'
    BY <2>1, <2>2 DEF CurrentInv, NewestOwed, Executes
  <2>7. NewestLast' /\ NothingMissed'
    BY <2>2, <2>3 DEF CurrentInv, NewestLast, NothingMissed, CaughtUp
  <2> QED BY <2>5, <2>6, <2>7 DEF CurrentInv
<1>11. ASSUME Received, UNCHANGED <<snapshot, executing, sent, excused, opening, answers, detail>>
       PROVE  /\ Head(wire) \in Messages
              /\ outbox' = outbox
              /\ \A k \in DOMAIN wire' : wire'[k].kind = "action" => wire'[k].n <= sent[wire'[k].rec]
              /\ Head(wire).kind = "action" => Head(wire).n <= sent[Head(wire).rec]
              /\ NewestOwed' /\ NewestLast'
              /\ \A s \in Records : ~About(Head(wire), s) => (Carries(wire', s) <=> Carries(wire, s))
              /\ \A s \in Records \ excused :
                   About(Head(wire), s) /\ ~Carries(wire', s) => Head(wire).n = sent[s]
  <2>1. wire # << >> /\ wire' = Tail(wire) /\ outbox' = outbox
    BY <1>11 DEF Received
  <2>2. /\ \A k \in DOMAIN wire' : k + 1 \in DOMAIN wire /\ wire'[k] = wire[k + 1]
        /\ 1 \in DOMAIN wire /\ Head(wire) = wire[1]
    BY <1>o, <2>1
  <2>3. \A s : \A k :
          /\ LastIs(wire, s, k) => LastIs(wire', s, k)
          /\ ~About(Head(wire), s) => (Carries(wire', s) <=> Carries(wire, s))
          /\ About(Head(wire), s) /\ ~Carries(wire', s) /\ LastIs(wire, s, k) => Head(wire).n = k
    BY <1>o, <2>1, ReceivedFirst
  <2>4. Head(wire) \in Messages
    BY <1>o, <2>2
  <2>5. /\ \A k \in DOMAIN wire' : wire'[k].kind = "action" => wire'[k].n <= sent[wire'[k].rec]
        /\ Head(wire).kind = "action" => Head(wire).n <= sent[Head(wire).rec]
    BY <2>2 DEF CurrentInv, NumbersBounded
  <2>6. NewestOwed'
    BY <1>11, <2>1 DEF CurrentInv, NewestOwed, Executes
  <2>7. NewestLast'
    BY <1>11, <2>3 DEF CurrentInv, NewestLast
  <2> QED BY <2>1, <2>3, <2>4, <2>5, <2>6, <2>7 DEF CurrentInv, NewestLast
<1>12. ASSUME ReceiveRecord PROVE CurrentInv'
  <2> DEFINE h == Head(wire)
  <2>1. /\ Received /\ UNCHANGED <<snapshot, executing, sent, excused, opening, answers, detail>>
        /\ h.kind = "action" /\ shown' = [shown EXCEPT ![h.rec] = h.n]
    BY <1>12 DEF ReceiveRecord
  <2>2. h.rec \in Records /\ h.n \in Nat /\ h.n <= sent[h.rec] /\ \A s : About(h, s) <=> s = h.rec
    BY <1>m, <1>11, <2>1 DEF About
  <2>3. \A s \in Records : shown'[s] = IF s = h.rec THEN h.n ELSE shown[s]
    BY <2>1, <2>2 DEF PaneTypeOK
  <2>4. NewestOwed' /\ NewestLast'
    BY <1>11, <2>1
  <2> HIDE DEF h
  <2>5. NumbersBounded'
    <3>1. \A s \in Records : shown'[s] <= snapshot[s]
      BY <1>t, <2>2, <2>3 DEF CurrentInv, NumbersBounded
    <3>2. outbox' = outbox
      BY <1>11, <2>1
    <3>3. \A k \in DOMAIN wire' : wire'[k].kind = "action" => wire'[k].n <= sent[wire'[k].rec]
      BY <1>11, <2>1
    <3> QED BY <2>1, <3>1, <3>2, <3>3 DEF CurrentInv, NumbersBounded
  <2>6. NothingMissed'
    <3>1. ASSUME NEW s \in Records \ excused, ~Carries(wire', s) PROVE CaughtUp(s)'
      <4>1. CASE s = h.rec
        <5>1. h.n = sent[s]
          BY <1>11, <2>1, <2>2, <3>1, <4>1 DEF h
        <5> QED BY <1>t, <2>1, <2>3, <4>1, <5>1 DEF CaughtUp
      <4>2. CASE s # h.rec
        <5>1. ~Carries(wire, s)
          BY <1>11, <2>1, <2>2, <3>1, <4>2 DEF h
        <5>2. CaughtUp(s)
          BY <5>1 DEF CurrentInv, NothingMissed
        <5> QED BY <2>1, <2>3, <4>2, <5>2 DEF CaughtUp
      <4> QED BY <4>1, <4>2
    <3> QED BY <2>1, <3>1 DEF NothingMissed
  <2> QED BY <2>4, <2>5, <2>6 DEF CurrentInv
<1>13. ASSUME ReceiveAnalysis PROVE CurrentInv'
  <2>1. /\ Received /\ UNCHANGED <<snapshot, executing, sent, excused, opening, answers, detail, shown>>
        /\ Head(wire).kind = "analysis"
    BY <1>13 DEF ReceiveAnalysis
  <2>2. \A s : ~About(Head(wire), s)
    BY <2>1 DEF About
  <2>3. NewestOwed' /\ NewestLast'
    BY <1>11, <2>1
  <2>4. NumbersBounded'
    <3>1. /\ outbox' = outbox
          /\ \A k \in DOMAIN wire' : wire'[k].kind = "action" => wire'[k].n <= sent[wire'[k].rec]
      BY <1>11, <2>1
    <3> QED BY <2>1, <3>1 DEF CurrentInv, NumbersBounded
  <2>5. NothingMissed'
    <3>1. \A s \in Records : Carries(wire', s) <=> Carries(wire, s)
      BY <1>11, <2>1, <2>2
    <3> QED BY <2>1, <3>1 DEF CurrentInv, NothingMissed, CaughtUp
  <2> QED BY <2>3, <2>4, <2>5 DEF CurrentInv
<1>14. ASSUME wire' = << >>, UNCHANGED <<outbox, snapshot, executing, sent, shown, opening, answers, detail>>,
              excused \subseteq excused', \A r \in Records \ excused' : ~Carries(wire, r)
       PROVE  CurrentInv'
  <2>1. DOMAIN wire' = {}
    BY <1>14
  <2>2. NumbersBounded' /\ NewestOwed'
    BY <1>14, <2>1 DEF CurrentInv, NumbersBounded, NewestOwed, Executes
  <2>3. NewestLast'
    BY <2>1 DEF NewestLast, LastIs
  <2>4. NothingMissed'
    BY <1>14 DEF CurrentInv, NothingMissed, CaughtUp
  <2> QED BY <2>2, <2>3, <2>4 DEF CurrentInv
<1>15. ASSUME Connect, UNCHANGED pane PROVE CurrentInv'
  <2>1. wire = << >> /\ wire' = << >> /\ outbox' = outbox
    BY <1>15 DEF Connect, ClosedIsEmpty
  <2>2. \A r : ~Carries(wire, r)
    BY <2>1 DEF Carries
  <2> QED BY <1>14, <1>15, <2>1, <2>2 DEF pane
<1>16. ASSUME PaneDisconnects PROVE CurrentInv'
  <2>1. \A r \in Records \ excused' : ~Carries(wire, r)
    BY <1>16 DEF PaneDisconnects, Carries, About
  <2> QED BY <1>14, <1>16, <2>1 DEF PaneDisconnects, Closed
<1>17. ASSUME NEW o \in outbox, StartBroadcast(o), UNCHANGED pane PROVE CurrentInv'
  <2> DEFINE e == [o EXCEPT !.to = socket]
  <2>1. o.body = e.body
    BY DEF ChannelOK
  <2>2. outbox' = (outbox \ {o}) \cup {e} /\ wire' = wire
    BY <1>17 DEF StartBroadcast
  <2> HIDE DEF e
  <2> QED BY <1>7, <1>17, <2>1, <2>2
<1>18. ASSUME \/ \E q \in opening : DetailFails(q)
              \/ \E a \in answers : AnswerLost(a)
              \/ Back \/ Analyze \/ AnalysisArrives \/ AnalysisFails
       PROVE  CurrentInv'
  <2>1. /\ UNCHANGED <<channel, snapshot, executing, sent, shown, excused>>
        /\ opening' \subseteq opening /\ answers' \subseteq answers
        /\ detail' \in {detail, NoIncident}
    BY <1>18 DEF DetailFails, AnswerLost, Back, Leave, Analyze, AnalysisArrives, AnalysisFails
  <2> QED BY <1>1, <2>1
<1> QED
  BY <1>2, <1>3, <1>4, <1>6, <1>8, <1>9, <1>10, <1>12, <1>13, <1>15, <1>16, <1>17, <1>18, <1>19,
     <1>20, <1>21, <1>22, <1>23
     DEF PaneNext, PaneChannel
-----------------------------------------------------------------------------
\* The inductive invariant holds in every state.
LEMMA DashboardInduction == Spec => []DashboardInv
<1>1. Init => DashboardInv
  <2> SUFFICES ASSUME Init PROVE DashboardInv
    OBVIOUS
  <2> USE SocketsAssumption, QueueAssumption, PaneAssumption
  <2>1. QueueTypeOK
    <3>1. Asked(0, FirstFilter) \in Fetch
      BY AskedType
    <3>2. /\ created = {} /\ list = {} /\ gaps = {} /\ filter = FirstFilter
          /\ fetches = {Asked(0, FirstFilter)}
      BY DEF Init, QueueInit
    <3>3. loaded \in BOOLEAN
      BY DEF Init, QueueInit
    <3>4. filterChanges \in 0..MaxFilterChanges /\ announcements \in 0..MaxAnnouncements
      BY DEF Init, QueueInit
    <3> QED
      BY <3>1, <3>2, <3>3, <3>4 DEF QueueTypeOK
  <2>2. PaneTypeOK
    <3>1. snapshot = Unseen /\ shown = Unseen /\ sent = Unseen
      BY DEF Init, PaneInit
    <3>2. /\ snapshot \in [Records -> Snapshots]
          /\ shown \in [Records -> Snapshots]
          /\ sent \in [Records -> Snapshots]
      BY <3>1, UnseenType
    <3>3. /\ executing = {} /\ analysed = {} /\ opening = {} /\ generating = {} /\ answers = {} /\ excused = {}
          /\ selectedId = NoIncident /\ detail = NoIncident
          /\ analysisOf = NoIncident /\ analyzing = NoIncident
      BY DEF Init, PaneInit
    <3>4. detailLoading \in BOOLEAN /\ analysisDone \in BOOLEAN /\ left \in BOOLEAN
      BY DEF Init, PaneInit
    <3>5. opened \in 0..MaxOpened /\ analyses \in 0..MaxAnalyses
      BY DEF Init, PaneInit
    <3> QED
      BY <3>2, <3>3, <3>4, <3>5 DEF PaneTypeOK, OrNone
  <2>3. ASSUME NEW M PROVE ChannelOK(M)
    BY DEF Init, ChannelInit, ChannelOK
  <2>4. ClosedIsEmpty
    BY DEF Init, ChannelInit, ClosedIsEmpty
  <2>5. QueueInv
    BY DEF Init, QueueInit, QueueInv, FetchesSound, QueueMatchesFilter, AnswerMissesOnlyGaps,
           MissingOnlyInGaps, Asked, Latest
  <2>6. PaneInv
    BY DEF Init, PaneInit, PaneInv, OpeningSound, AnalyzingIsShown, DetailIsSelected,
           ForeignAnalysisOnlyAfterLeaving
  <2>7. screen \in Screens
    BY DEF Init
  <2> QED
    BY <2>1, <2>2, <2>3, <2>4, <2>5, <2>6, <2>7 DEF DashboardInv, TypeOK, Init, QueueInit
<1>2. DashboardInv /\ [Next]_vars => DashboardInv'
  <2> SUFFICES ASSUME DashboardInv, [Next]_vars PROVE DashboardInv'
    OBVIOUS
  <2>1. CASE AtQueue
    <3>1. ChannelOK(Incidents) /\ screen = "queue" /\ screen' = screen
      BY <2>1 DEF AtQueue, DashboardInv, TypeOK
    <3>2. ChannelOK(Incidents)' /\ ClosedIsEmpty' /\ QueueTypeOK' /\ QueueInv'
      BY <2>1, <3>1, QueueTypeStep, QueueStep DEF AtQueue, DashboardInv, TypeOK
    <3>3. PaneTypeOK' /\ PaneInv'
      <4>1. UNCHANGED pane
        BY <2>1 DEF AtQueue
      <4>2. PaneTypeOK'
        BY <4>1 DEF pane, stores, view, analysing, history, bounds, PaneTypeOK, DashboardInv, TypeOK
      <4>3. PaneInv'
        BY <4>1 DEF pane, stores, view, analysing, history, bounds, DashboardInv, PaneInv,
                    OpeningSound, AnalyzingIsShown, DetailIsSelected,
                    ForeignAnalysisOnlyAfterLeaving
      <4> QED
        BY <4>2, <4>3
    <3>4. screen' \in Screens
      BY <3>1 DEF Screens
    <3> QED
      BY <3>1, <3>2, <3>3, <3>4 DEF DashboardInv, TypeOK
  <2>2. CASE AtDetail
    <3>1. ChannelOK(Messages) /\ screen = "detail" /\ screen' = screen
      BY <2>2 DEF AtDetail, DashboardInv, TypeOK, Messages
    <3>2. ChannelOK(Messages)' /\ ClosedIsEmpty' /\ PaneTypeOK' /\ PaneInv'
      BY <2>2, <3>1, PaneTypeStep, PaneStep DEF AtDetail, DashboardInv, TypeOK
    <3>3. UNCHANGED queue /\ created' = {}
      BY <2>2, <3>1 DEF AtDetail, DashboardInv, queue
    <3>4. QueueTypeOK'
      BY <3>3 DEF queue, QueueTypeOK, DashboardInv, TypeOK
    <3>5. FetchesSound' /\ QueueMatchesFilter'
      BY <3>3 DEF queue, DashboardInv, QueueInv, FetchesSound, Latest, QueueMatchesFilter
    <3>6. AnswerMissesOnlyGaps' /\ MissingOnlyInGaps'
      BY <3>3 DEF AnswerMissesOnlyGaps, MissingOnlyInGaps
    <3> QED
      BY <3>1, <3>2, <3>3, <3>4, <3>5, <3>6 DEF DashboardInv, TypeOK, QueueInv, Messages, Screens
  <2>3. CASE UNCHANGED vars
    <3>1. UNCHANGED <<screen, channel, queue, pane>>
      BY <2>3 DEF vars
    <3>2. TypeOK' /\ ClosedIsEmpty'
      BY <3>1 DEF DashboardInv, TypeOK, ChannelOK, QueueTypeOK, PaneTypeOK, ClosedIsEmpty,
                  channel, queue, pane, stores, view, analysing, history, bounds
    <3>3. QueueInv' /\ created' = created
      BY <3>1 DEF DashboardInv, QueueInv, FetchesSound, Latest, QueueMatchesFilter,
                  AnswerMissesOnlyGaps, MissingOnlyInGaps, OnItsWay, channel, queue
    <3>4. PaneInv'
      BY <3>1 DEF DashboardInv, PaneInv, OpeningSound, AnalyzingIsShown, DetailIsSelected,
                  ForeignAnalysisOnlyAfterLeaving, pane, stores, view, analysing, history, bounds
    <3> QED
      BY <3>1, <3>2, <3>3, <3>4 DEF DashboardInv
  <2> QED
    BY <2>1, <2>2, <2>3 DEF Next
<1> QED
  BY <1>1, <1>2, PTL DEF Spec
-----------------------------------------------------------------------------
\* The dashboard's state keeps its types for any number of connections, openings,
\* analyses and announcements.
THEOREM DashboardTypeCorrect == Spec => []TypeOK
<1>1. DashboardInv => TypeOK
  BY DEF DashboardInv
<1> QED
  BY <1>1, DashboardInduction, PTL

\* A loaded queue shows only what the chosen filters let through, in whatever order
\* lists of older filters and messages arrive.
THEOREM QueueKeepsFilter == Spec => []QueueMatchesFilter
<1>1. DashboardInv => QueueMatchesFilter
  BY DEF DashboardInv, QueueInv
<1> QED
  BY <1>1, DashboardInduction, PTL

\* What a loaded queue lacks is on its way, or was given up by a failing ingest, lost
\* or undone since the list was read.
THEOREM QueueMissesOnlyGaps == Spec => []MissingOnlyInGaps
<1>1. DashboardInv => MissingOnlyInGaps
  BY DEF DashboardInv, QueueInv
<1> QED
  BY <1>1, DashboardInduction, PTL

\* A late answer of selectIncident never replaces another incident's detail.
THEOREM DetailStaysSelected == Spec => []DetailIsSelected
<1>1. DashboardInv => DetailIsSelected
  BY DEF DashboardInv, PaneInv
<1> QED
  BY <1>1, DashboardInduction, PTL

\* A user who leaves no incident while it is analysed sees no other one's analysis.
THEOREM AnalysisIsOfDetail == Spec => []ForeignAnalysisOnlyAfterLeaving
<1>1. DashboardInv => ForeignAnalysisOnlyAfterLeaving
  BY DEF DashboardInv, PaneInv
<1> QED
  BY <1>1, DashboardInduction, PTL

\* What the pane knows of the records holds in every state of a behaviour about it; in
\* the others nothing is opened.
LEMMA CurrentInvariance ==
    Spec => [](IF screen = "detail" THEN CurrentInv ELSE detail = NoIncident)
<1> DEFINE Inv == IF screen = "detail" THEN CurrentInv ELSE detail = NoIncident
<1>1. Init => Inv
  <2> SUFFICES ASSUME Init PROVE CurrentInv /\ detail = NoIncident
    OBVIOUS
  <2>1. /\ wire = << >> /\ outbox = {} /\ answers = {} /\ opening = {} /\ detail = NoIncident
        /\ \A r \in Records : snapshot[r] = 0 /\ sent[r] = 0 /\ shown[r] = 0
    BY DEF Init, ChannelInit, PaneInit, Unseen
  <2>2. DOMAIN wire = {} /\ \A r \in Records : RecordOf[r] # NoIncident
    BY <2>1, PaneAssumption
  <2> QED BY <2>1, <2>2 DEF CurrentInv, NumbersBounded, NewestOwed, Executes, NewestLast, LastIs,
                            NothingMissed, CaughtUp
<1>2. Inv /\ DashboardInv /\ [Next]_vars => Inv'
  <2> SUFFICES ASSUME Inv, DashboardInv, [Next]_vars PROVE Inv'
    OBVIOUS
  <2>1. CASE AtQueue
    BY <2>1 DEF AtQueue, pane, view
  <2>2. CASE AtDetail
    <3>1. CurrentInv /\ screen = "detail" /\ screen' = screen /\ PaneNext
      BY <2>2 DEF AtDetail
    <3>2. ChannelOK(Messages) /\ ClosedIsEmpty /\ PaneTypeOK /\ PaneInv
      BY <3>1 DEF DashboardInv, TypeOK, Messages
    <3>3. CurrentInv'
      BY <3>1, <3>2, CurrentStep
    <3> QED BY <3>1, <3>3
  <2>3. CASE UNCHANGED vars
    <3>1. UNCHANGED <<screen, wire, outbox, snapshot, executing, sent, shown, excused, opening, answers, detail>>
      BY <2>3 DEF vars, channel, pane, stores, view, history
    <3>2. CurrentInv => CurrentInv'
      BY <3>1 DEF CurrentInv, NumbersBounded, NewestOwed, Executes, NewestLast, NothingMissed, CaughtUp
    <3> QED BY <3>1, <3>2
  <2> QED BY <2>1, <2>2, <2>3 DEF Next
<1> QED
  BY <1>1, <1>2, DashboardInduction, PTL DEF Spec

\* When no route works on a record and nothing about it is on its way, the pane shows
\* its latest snapshot, unless a route failed to announce its last row, a message was
\* lost, or it or the user's own answer was overtaken: in whatever order rows are
\* stored and the request of selectIncident, messages and answers come.
THEOREM PaneRecordsCurrent == Spec => []RecordsCurrent
<1>1. /\ DashboardInv
      /\ IF screen = "detail" THEN CurrentInv ELSE detail = NoIncident
      => RecordsCurrent
  <2> SUFFICES ASSUME DashboardInv, IF screen = "detail" THEN CurrentInv ELSE detail = NoIncident,
                      NEW r \in Records \ excused, Settled(r)
               PROVE  shown[r] = snapshot[r]
    BY DEF RecordsCurrent
  <2>1. detail = RecordOf[r] /\ CurrentInv
    BY DEF Settled, PaneShown
  <2>2. ~Carries(wire, r) /\ ~Executes(r) /\ \A o \in outbox : ~About(o.body, r)
    BY DEF Settled, Carries, About, Executes
  <2>3. shown[r] >= sent[r]
    BY <2>1, <2>2 DEF CurrentInv, NothingMissed, CaughtUp
  <2>4. sent[r] = snapshot[r] /\ shown[r] <= snapshot[r]
    BY <2>1, <2>2 DEF CurrentInv, NewestOwed, Executes, NumbersBounded
  <2>5. shown[r] \in Nat /\ snapshot[r] \in Nat
    BY DEF DashboardInv, TypeOK, PaneTypeOK, Snapshots
  <2> QED BY <2>3, <2>4, <2>5
<1> QED
  BY <1>1, DashboardInduction, CurrentInvariance, PTL
=============================================================================
