---------------------------- MODULE DigestProofs ----------------------------
(***************************************************************************)
(* Proofs about Digest and DigestStats for every set of events, incidents, *)
(* requests and builds.                                                    *)
(*                                                                         *)
(* What a build has read stays true of the stores while it waits: stores   *)
(* only grow, an event that is stored keeps its time, and a decision is    *)
(* final unless calls raced to decide: the row of an execution repeats the *)
(* decision of its call (HandSound).  SoundFacts says so of the facts of a *)
(* build and of a retained digest, and the digests' properties follow.     *)
(* The rankings: in a sequence sorted by a strict order an element stands  *)
(* at the place after those ahead of it, and a finite set has such a       *)
(* sequence, built from the number of elements ahead of each.              *)
(***************************************************************************)
EXTENDS DigestStats, FiniteSetTheorems, TLAPS

\* Stored events have occurred, and an incident's evidence is stored.
StoresSound ==
    /\ \A e \in stored : occurredAt[e] # None
    /\ \A i \in incidents : Evidence[i] \subseteq stored

\* The row that a call has in hand repeats the decision of its request, unless
\* calls raced to decide it.
HandSound ==
    \A x \in inHand :
        /\ request[x.of].approval # "none"
        /\ x.snap.approval \in {"approved", "rejected"}
        /\ (x.stage = "execute" /\ x.of \notin raced) =>
             /\ request[x.of].approval = x.snap.approval
             /\ request[x.of].requested = x.snap.requested
             /\ request[x.of].decided = x.snap.decided

\* The facts are what the stores hold of the period.
SoundFacts(f) ==
    /\ f.allEvents \subseteq stored
    /\ f.events = {e \in f.allEvents : InWindow(occurredAt[e], f.end)}
    /\ f.incidents \subseteq incidents
    /\ \A i \in f.incidents : CreatedInWindow(i, f.end)
    /\ \A a \in f.actions : a[1] \notin raced =>
         /\ request[a[1]].approval \in {"approved", "rejected"}
         /\ InWindow(ActionTimestamp(request[a[1]]), f.end)

\* The incidents' evidence was read with the events.
Counted(f) == \A i \in f.incidents : Evidence[i] \subseteq f.allEvents

\* A build that has not been torn read the events as they still are.
BuildSound(b) ==
    /\ SoundFacts(build[b].facts)
    /\ ~build[b].torn => Counted(build[b].facts)
    /\ build[b].pc = "incidents" /\ ~build[b].torn => build[b].facts.allEvents = stored
    /\ build[b].narrated \subseteq {build[b].facts}
    /\ build[b].pc \in {"idle", "events", "incidents", "actions", "narrate"} => build[b].narrated = {}
    /\ build[b].pc = "deliver" => Report(b) \in digests

DigestSound(d) ==
    /\ SoundFacts(d.facts)
    /\ ~d.torn => Counted(d.facts)
    /\ d.narrated \subseteq {d.facts}

DigestInv ==
    /\ TypeOK
    /\ StoresSound
    /\ HandSound
    /\ \A b \in Builds : BuildSound(b)
    /\ \A d \in digests : DigestSound(d)
    /\ DeliveredIsRetained
-----------------------------------------------------------------------------
\* A build begins with nothing read.
LEMMA NoFactsType == NoFacts \in Facts /\ NoFacts.incidents = {} /\ NoFacts.actions = {}
BY DigestAssumption DEF NoFacts, Facts, Times

\* A build that has not begun or has ended is well typed.
LEMMA AtType == \A pc \in {"idle", "done", "error", "cut"} : At(pc) \in BuildState
BY NoFactsType DEF At, BuildState

\* Every step keeps the types.
LEMMA TypeStep == TypeOK /\ [Next]_vars => TypeOK'
<1> SUFFICES ASSUME TypeOK, [Next]_vars PROVE TypeOK'
  OBVIOUS
<1> USE DigestAssumption
<1> DEFINE DigestOK(D) == \A d \in D : d \in [id: Builds, facts: Facts, narrated: SUBSET Facts,
                                              torn: BOOLEAN]
           MessagesOK(M) == \A m \in M : m \in [id: Builds, end: Times, incidents: SUBSET Incidents]
<1>1. CASE Tick
  BY <1>1 DEF Tick, TypeOK, Times, engine
<1>2. ASSUME NEW e \in Events, Occur(e) PROVE TypeOK'
  BY <1>2 DEF Occur, TypeOK, engine
<1>3. ASSUME NEW e \in Events, Ingest(e) PROVE TypeOK'
  <2>1. build' \in [Builds -> BuildState]
    <3> SUFFICES ASSUME NEW b \in Builds
                 PROVE [build[b] EXCEPT !.torn = @ \/ build[b].pc = "incidents"] \in BuildState
      BY <1>3, Zenon DEF Ingest
    <3>1. build[b] \in BuildState
      BY DEF TypeOK
    <3>2. (build[b].torn \/ build[b].pc = "incidents") \in BOOLEAN
      OBVIOUS
    <3> QED
      BY <3>1, <3>2 DEF BuildState
  <2> QED
    BY <1>3, <2>1 DEF Ingest, TypeOK, engine
<1>4. ASSUME NEW i \in Incidents, PutIncident(i) PROVE TypeOK'
  BY <1>4 DEF PutIncident, TypeOK, engine
<1>c. ASSUME NEW r \in Requests, NEW s \in Snapshot, AppendRow(r, s),
             inHand' \subseteq Call, raced' \subseteq Requests
      PROVE  TypeOK'
  <2>1. request' \in [Requests -> Snapshot]
    BY <1>c DEF AppendRow, TypeOK
  <2> QED BY <1>c, <2>1 DEF AppendRow, TypeOK
<1>h. inHand \subseteq Call /\ raced \subseteq Requests /\ clock \in Times
  BY DEF TypeOK
<1>5. ASSUME NEW c \in Calls, NEW r \in Requests, MakeRequest(c, r) PROVE TypeOK'
  <2>1. PICK a \in {"pending", "approved"} :
          LET s == [approval |-> a, requested |-> clock, decided |-> None, executed |-> FALSE]
          IN /\ AppendRow(r, s)
             /\ inHand' = IF a = "pending" THEN inHand
                          ELSE inHand \cup {[call |-> c, of |-> r, stage |-> "execute", snap |-> s]}
    BY <1>5 DEF MakeRequest
  <2> DEFINE s == [approval |-> a, requested |-> clock, decided |-> None, executed |-> FALSE]
  <2>2. s \in Snapshot
    BY <1>h DEF Snapshot
  <2>3. AppendRow(r, s) /\ inHand' \subseteq inHand \cup {[call |-> c, of |-> r, stage |-> "execute", snap |-> s]}
    BY <2>1
  <2> HIDE DEF s
  <2>4. inHand' \subseteq Call
    BY <1>h, <2>2, <2>3 DEF Call
  <2>5. raced' \subseteq Requests
    BY <1>5, <1>h DEF MakeRequest
  <2> QED BY <1>c, <2>2, <2>3, <2>4, <2>5
<1>8. ASSUME NEW c \in Calls, NEW r \in Requests, LoadPending(c, r) PROVE TypeOK'
  <2>1. PICK a \in {"approved", "rejected"} :
          inHand' = inHand \cup {[call |-> c, of |-> r, stage |-> "append",
                                  snap |-> [request[r] EXCEPT !.approval = a, !.decided = clock]]}
    BY <1>8 DEF LoadPending
  <2> DEFINE s == [request[r] EXCEPT !.approval = a, !.decided = clock]
  <2>2. s \in Snapshot
    <3>1. request[r] \in Snapshot
      BY DEF TypeOK
    <3> QED BY <1>h, <3>1 DEF Snapshot
  <2> HIDE DEF s
  <2>3. inHand' \subseteq Call
    BY <1>h, <2>1, <2>2 DEF Call, s
  <2> QED BY <1>8, <2>3 DEF LoadPending, TypeOK
<1>9. ASSUME NEW x \in inHand, AppendDecision(x) \/ AppendExecuted(x) PROVE TypeOK'
  <2>1. x \in Call /\ x.of \in Requests /\ x.snap \in Snapshot
    BY <1>h DEF Call
  <2>2. CASE AppendDecision(x)
    <3>1. [x EXCEPT !.stage = "execute"] \in Call
      BY <2>1 DEF Call
    <3>2. inHand' \subseteq Call /\ raced' \subseteq Requests
      BY <1>h, <2>1, <2>2, <3>1 DEF AppendDecision
    <3> QED BY <1>c, <2>1, <2>2, <3>2 DEF AppendDecision
  <2>3. CASE AppendExecuted(x)
    <3>1. PICK ok \in BOOLEAN : AppendRow(x.of, [x.snap EXCEPT !.executed = ok])
      BY <2>3 DEF AppendExecuted
    <3>2. [x.snap EXCEPT !.executed = ok] \in Snapshot
      BY <2>1 DEF Snapshot
    <3>3. inHand' \subseteq Call /\ raced' \subseteq Requests
      BY <1>h, <2>3 DEF AppendExecuted
    <3> QED BY <1>c, <2>1, <3>1, <3>2, <3>3
  <2> QED BY <1>9, <2>2, <2>3
<1>6. ASSUME NEW b \in Builds, Begin(b) \/ BuildStep(b) \/ CutShort(b) PROVE TypeOK'
  <2>0. /\ build[b] \in BuildState
        /\ build[b].facts \in Facts
        /\ build[b].facts.end \in Times
        /\ build[b].facts.incidents \subseteq Incidents
        /\ clock \in Times
    BY DEF TypeOK, BuildState, Facts
  <2>1. SUFFICES /\ \E s \in BuildState : Step(b, s)
                 /\ DigestOK(digests')
                 /\ MessagesOK(delivered')
    <3>1. PICK s \in BuildState : Step(b, s)
      BY <2>1
    <3>2. build' \in [Builds -> BuildState]
      BY <3>1 DEF Step, TypeOK
    <3> QED
      BY <2>1, <3>1, <3>2 DEF Step, TypeOK, engine
  <2>2. DigestOK(digests) /\ MessagesOK(delivered)
    BY DEF TypeOK
  <2>3. CASE Begin(b)
    <3>1. [NoFacts EXCEPT !.end = clock] \in Facts
      BY <2>0, NoFactsType DEF Facts
    <3>2. [build[b] EXCEPT !.pc = "events", !.facts = [NoFacts EXCEPT !.end = clock]]
            \in BuildState
      BY <2>0, <3>1 DEF BuildState
    <3> QED
      BY <2>2, <2>3, <3>2 DEF Begin
  <2>4. CASE ReadEvents(b)
    <3> DEFINE evs == {e \in stored : InWindow(occurredAt[e], build[b].facts.end)}
    <3>1. stored \subseteq Events /\ evs \subseteq Events
      BY DEF TypeOK
    <3>2. [build[b].facts EXCEPT !.allEvents = stored, !.events = evs] \in Facts
      BY <2>0, <3>1 DEF Facts
    <3>3. [build[b] EXCEPT !.pc = "incidents", !.torn = FALSE,
                  !.facts.allEvents = stored, !.facts.events = evs] \in BuildState
      BY <2>0, <3>2 DEF BuildState
    <3> QED
      BY <2>2, <2>4, <3>3 DEF ReadEvents
  <2>5. CASE ReadIncidents(b)
    <3> DEFINE incs == {i \in incidents : CreatedInWindow(i, build[b].facts.end)}
    <3>1. incidents \subseteq Incidents /\ incs \subseteq Incidents
      BY DEF TypeOK
    <3>2. [build[b].facts EXCEPT !.incidents = incs, !.actions = {}] \in Facts
      BY <2>0, <3>1 DEF Facts
    <3>3. [build[b] EXCEPT !.pc = IF incidents = {} THEN "narrate" ELSE "actions",
                  !.unread = incidents, !.facts.incidents = incs, !.facts.actions = {}]
            \in BuildState
      BY <2>0, <3>1, <3>2 DEF BuildState
    <3> QED
      BY <2>2, <2>5, <3>3 DEF ReadIncidents
  <2>6. ASSUME NEW i \in Incidents, ReadActions(b, i)
        PROVE \E s \in BuildState : Step(b, s)
    <3> DEFINE acts == WindowActions(i, build[b].facts.end)
    <3>1. acts \subseteq Requests \X {"approved", "rejected"} \X BOOLEAN
      <4> SUFFICES ASSUME NEW r \in Requests, request[r].approval \in {"approved", "rejected"}
                   PROVE <<r, request[r].approval, request[r].executed>>
                           \in Requests \X {"approved", "rejected"} \X BOOLEAN
        BY DEF WindowActions
      <4>1. request[r].executed \in BOOLEAN
        BY DEF TypeOK, Snapshot
      <4> QED
        BY <4>1
    <3>2. build[b].facts.actions \cup acts \subseteq Requests \X {"approved", "rejected"} \X BOOLEAN
      BY <2>0, <3>1 DEF Facts
    <3>3. [build[b].facts EXCEPT !.actions = @ \cup acts] \in Facts
      BY <2>0, <3>2 DEF Facts
    <3>4. build[b].unread \ {i} \subseteq Incidents
      BY <2>0 DEF BuildState
    <3>5. [build[b] EXCEPT !.pc = IF build[b].unread = {i} THEN "narrate" ELSE "actions",
                  !.unread = @ \ {i}, !.facts.actions = @ \cup acts] \in BuildState
      BY <2>0, <3>3, <3>4 DEF BuildState
    <3> QED
      BY <2>6, <3>5 DEF ReadActions
  <2>7. CASE NoNarrative(b) \/ Narrate(b)
    <3>1. [build[b] EXCEPT !.pc = "append", !.narrated = {}] \in BuildState
      BY <2>0 DEF BuildState
    <3>2. [build[b] EXCEPT !.pc = "append", !.narrated = {build[b].facts}] \in BuildState
      BY <2>0 DEF BuildState
    <3> QED
      BY <2>2, <2>7, <3>1, <3>2 DEF NoNarrative, Narrate
  <2>8. CASE NarrativeFails(b)
    <3>1. [build[b] EXCEPT !.pc = "events", !.plain = TRUE] \in BuildState
      BY <2>0 DEF BuildState
    <3> QED
      BY <2>2, <2>8, <3>1, AtType DEF NarrativeFails
  <2>9. CASE AppendDigest(b)
    <3>1. [build[b] EXCEPT !.pc = "deliver"] \in BuildState
      BY <2>0 DEF BuildState
    <3>2. Report(b) \in [id: Builds, facts: Facts, narrated: SUBSET Facts, torn: BOOLEAN]
      BY <2>0 DEF Report, BuildState
    <3>3. DigestOK(digests')
      BY <2>2, <2>9, <3>2 DEF AppendDigest
    <3> QED
      BY <2>2, <2>9, <3>1, <3>3, AtType DEF AppendDigest
  <2>10. CASE Deliver(b) \/ NotDelivered(b) \/ CutShort(b)
    <3>1. DeliveryText(b) \in [id: Builds, end: Times, incidents: SUBSET Incidents]
      BY <2>0 DEF DeliveryText
    <3>2. MessagesOK(delivered')
      BY <2>2, <2>10, <3>1 DEF Deliver, NotDelivered, CutShort
    <3>3. digests' = digests
      BY <2>10 DEF Deliver, NotDelivered, CutShort
    <3> QED
      BY <2>2, <2>10, <3>2, <3>3, AtType DEF Deliver, NotDelivered, CutShort
  <2>11. ASSUME NEW i \in Incidents, ReadActions(b, i) PROVE digests' = digests /\ delivered' = delivered
    BY <2>11 DEF ReadActions
  <2> QED
    BY <1>6, <2>2, <2>3, <2>4, <2>5, <2>6, <2>7, <2>8, <2>9, <2>10, <2>11 DEF BuildStep
<1>7. CASE UNCHANGED vars
  BY <1>7 DEF vars, TypeOK, engine
<1> QED
  BY <1>1, <1>2, <1>3, <1>4, <1>5, <1>6, <1>7, <1>8, <1>9 DEF Next
-----------------------------------------------------------------------------
\* What no step takes back: stored events and their times, stored incidents,
\* digests, and decisions and their times unless calls raced to decide.
LEMMA OnlyGrows ==
    ASSUME TypeOK, StoresSound, HandSound, [Next]_vars
    PROVE /\ stored \subseteq stored'
          /\ \A e \in stored : occurredAt'[e] = occurredAt[e]
          /\ incidents \subseteq incidents'
          /\ raced \subseteq raced'
          /\ \A r \in Requests :
               r \notin raced' /\ request[r].approval \in {"approved", "rejected"} =>
                /\ request'[r].approval = request[r].approval
                /\ request'[r].requested = request[r].requested
                /\ request'[r].decided = request[r].decided
          /\ digests \subseteq digests'
<1>1. CASE Tick \/ UNCHANGED vars
  BY <1>1 DEF Tick, vars, engine
<1>2. ASSUME NEW e \in Events, Occur(e) \/ Ingest(e)
      PROVE /\ stored \subseteq stored'
            /\ \A f \in stored : occurredAt'[f] = occurredAt[f]
            /\ UNCHANGED <<incidents, request, raced, digests>>
  BY <1>2 DEF Occur, Ingest, StoresSound, TypeOK, engine
<1>3. ASSUME NEW i \in Incidents, PutIncident(i)
      PROVE incidents \subseteq incidents' /\ UNCHANGED <<stored, occurredAt, request, raced, digests>>
  BY <1>3 DEF PutIncident, engine
<1> DEFINE Kept(q) == /\ request'[q].approval = request[q].approval
                      /\ request'[q].requested = request[q].requested
                      /\ request'[q].decided = request[q].decided
<1>4. ASSUME NEW c \in Calls, NEW r \in Requests, MakeRequest(c, r) \/ LoadPending(c, r)
      PROVE /\ UNCHANGED <<stored, occurredAt, incidents, raced, digests>>
            /\ \A q \in Requests : request[q].approval \in {"approved", "rejected"} => Kept(q)
  <2>1. CASE MakeRequest(c, r)
    BY <2>1 DEF MakeRequest, AppendRow, TypeOK
  <2>2. CASE LoadPending(c, r)
    BY <2>2 DEF LoadPending
  <2> QED
    BY <1>4, <2>1, <2>2
<1>6. ASSUME NEW x \in inHand, AppendDecision(x) \/ AppendExecuted(x)
      PROVE /\ UNCHANGED <<stored, occurredAt, incidents, digests>> /\ raced \subseteq raced'
            /\ \A q \in Requests :
                 q \notin raced' /\ request[q].approval \in {"approved", "rejected"} => Kept(q)
  <2>1. CASE AppendDecision(x)
    BY <2>1 DEF AppendDecision, AppendRow, TypeOK
  <2>2. CASE AppendExecuted(x)
    <3>1. PICK ok \in BOOLEAN : AppendRow(x.of, [x.snap EXCEPT !.executed = ok])
      BY <2>2 DEF AppendExecuted
    <3>2. x.snap \in Snapshot /\ x.of \in Requests
      BY DEF TypeOK, Call
    <3> DEFINE row == [x.snap EXCEPT !.executed = ok]
    <3>3. row.approval = x.snap.approval /\ row.requested = x.snap.requested /\ row.decided = x.snap.decided
      BY <3>2 DEF Snapshot
    <3> HIDE DEF row
    <3>4. request'[x.of] = row /\ \A q \in Requests \ {x.of} : request'[q] = request[q]
      BY <3>1, <3>2 DEF AppendRow, TypeOK, row
    <3>5. x.of \notin raced => Kept(x.of)
      BY <2>2, <3>3, <3>4 DEF AppendExecuted, HandSound
    <3>6. raced' = raced /\ UNCHANGED <<stored, occurredAt, incidents, digests>>
      BY <2>2, <3>1 DEF AppendExecuted, AppendRow
    <3> QED BY <3>4, <3>5, <3>6
  <2> QED BY <1>6, <2>1, <2>2
<1>5. ASSUME NEW b \in Builds, Begin(b) \/ BuildStep(b) \/ CutShort(b)
      PROVE UNCHANGED <<stored, occurredAt, incidents, request, raced>> /\ digests \subseteq digests'
  BY <1>5 DEF Begin, BuildStep, CutShort, ReadEvents, ReadIncidents, ReadActions, NoNarrative,
              Narrate, NarrativeFails, AppendDigest, Deliver, NotDelivered, Step, engine
<1> QED
  BY <1>1, <1>2, <1>3, <1>4, <1>5, <1>6 DEF Next

\* The rows in hand go on repeating the decisions of their requests.
LEMMA HandStep ==
    ASSUME TypeOK, StoresSound, HandSound, [Next]_vars
    PROVE  HandSound'
<1> DEFINE Row(x) == /\ request'[x.of].approval # "none"
                     /\ x.snap.approval \in {"approved", "rejected"}
                     /\ (x.stage = "execute" /\ x.of \notin raced') =>
                          /\ request'[x.of].approval = x.snap.approval
                          /\ request'[x.of].requested = x.snap.requested
                          /\ request'[x.of].decided = x.snap.decided
<1>0. SUFFICES ASSUME NEW x \in inHand' PROVE Row(x)
  BY DEF HandSound
<1>1. ASSUME x \in inHand, request'[x.of].approval # "none" PROVE Row(x)
  <2>1. x.of \in Requests
    BY <1>1 DEF TypeOK, Call
  <2> QED BY <1>1, <2>1, OnlyGrows DEF HandSound
<1>2. CASE UNCHANGED engine
  BY <1>1, <1>2 DEF engine, HandSound
<1>3. ASSUME NEW c \in Calls, NEW r \in Requests, MakeRequest(c, r) PROVE Row(x)
  <2>1. PICK a \in {"pending", "approved"} :
          LET s == [approval |-> a, requested |-> clock, decided |-> None, executed |-> FALSE]
          IN /\ AppendRow(r, s)
             /\ inHand' = IF a = "pending" THEN inHand
                          ELSE inHand \cup {[call |-> c, of |-> r, stage |-> "execute", snap |-> s]}
    BY <1>3 DEF MakeRequest
  <2> DEFINE s == [approval |-> a, requested |-> clock, decided |-> None, executed |-> FALSE]
  <2>2. request'[r] = s /\ \A q \in Requests \ {r} : request'[q] = request[q]
    BY <2>1 DEF AppendRow, TypeOK
  <2>3. CASE x \in inHand
    <3>1. x.of \in Requests
      BY <2>3 DEF TypeOK, Call
    <3>2. request'[x.of].approval # "none"
      BY <2>2, <2>3, <3>1 DEF HandSound
    <3> QED BY <1>1, <2>3, <3>2
  <2>4. CASE x \notin inHand
    <3>1. a = "approved" /\ x = [call |-> c, of |-> r, stage |-> "execute", snap |-> s]
      BY <2>1, <2>4
    <3> QED BY <2>2, <3>1
  <2> QED BY <2>3, <2>4
<1>4. ASSUME NEW c \in Calls, NEW r \in Requests, LoadPending(c, r) PROVE Row(x)
  <2>1. request' = request
    BY <1>4 DEF LoadPending
  <2>2. CASE x \in inHand
    BY <1>1, <2>1, <2>2 DEF HandSound
  <2>3. CASE x \notin inHand
    <3>1. PICK a \in {"approved", "rejected"} :
            x = [call |-> c, of |-> r, stage |-> "append",
                 snap |-> [request[r] EXCEPT !.approval = a, !.decided = clock]]
      BY <1>4, <2>3 DEF LoadPending
    <3>2. request[r] \in Snapshot /\ request[r].approval = "pending"
      BY <1>4 DEF LoadPending, TypeOK
    <3>3. x.of = r /\ x.stage = "append" /\ x.snap.approval = a
      BY <3>1, <3>2 DEF Snapshot
    <3> QED BY <2>1, <3>2, <3>3
  <2> QED BY <2>2, <2>3
<1>5. ASSUME NEW y \in inHand, AppendDecision(y) PROVE Row(x)
  <2>0. y \in Call /\ y.of \in Requests /\ y.snap.approval \in {"approved", "rejected"}
    BY DEF TypeOK, Call, HandSound
  <2>1. request'[y.of] = y.snap /\ \A q \in Requests \ {y.of} : request'[q] = request[q]
    BY <1>5, <2>0 DEF AppendDecision, AppendRow, TypeOK
  <2>2. CASE x \in inHand
    <3>1. x.of \in Requests
      BY <2>2 DEF TypeOK, Call
    <3>2. request'[x.of].approval # "none"
      BY <2>0, <2>1, <2>2, <3>1 DEF HandSound
    <3> QED BY <1>1, <2>2, <3>2
  <2>3. CASE x \notin inHand
    <3>1. x = [y EXCEPT !.stage = "execute"]
      BY <1>5, <2>3 DEF AppendDecision
    <3>2. x.of = y.of /\ x.snap = y.snap
      BY <2>0, <3>1 DEF Call
    <3> QED BY <2>0, <2>1, <3>2
  <2> QED BY <2>2, <2>3
<1>6. ASSUME NEW y \in inHand, AppendExecuted(y) PROVE Row(x)
  <2>0. y.of \in Requests /\ y.snap \in Snapshot /\ y.snap.approval \in {"approved", "rejected"}
    BY DEF TypeOK, Call, HandSound
  <2>1. PICK ok \in BOOLEAN : AppendRow(y.of, [y.snap EXCEPT !.executed = ok])
    BY <1>6 DEF AppendExecuted
  <2>2. request'[y.of].approval # "none" /\ \A q \in Requests \ {y.of} : request'[q] = request[q]
    BY <2>0, <2>1 DEF AppendRow, TypeOK, Snapshot
  <2>3. x \in inHand
    BY <1>6 DEF AppendExecuted
  <2>4. x.of \in Requests
    BY <2>3 DEF TypeOK, Call
  <2>5. request'[x.of].approval # "none"
    BY <2>2, <2>3, <2>4 DEF HandSound
  <2> QED BY <1>1, <2>3, <2>5
<1>7. ASSUME NEW b \in Builds, Begin(b) \/ BuildStep(b) \/ CutShort(b) PROVE UNCHANGED engine
  BY <1>7 DEF Begin, BuildStep, CutShort, ReadEvents, ReadIncidents, ReadActions, NoNarrative,
              Narrate, NarrativeFails, AppendDigest, Deliver, NotDelivered, Step
<1>8. ASSUME \/ Tick \/ (\E e \in Events : Occur(e) \/ Ingest(e))
             \/ (\E i \in Incidents : PutIncident(i)) \/ UNCHANGED vars
      PROVE  UNCHANGED engine
  BY <1>8 DEF Tick, Occur, Ingest, PutIncident, vars
<1> QED
  BY <1>2, <1>3, <1>4, <1>5, <1>6, <1>7, <1>8 DEF Next

\* Facts that were sound stay sound.
LEMMA FactsKept ==
    ASSUME TypeOK, StoresSound, HandSound, [Next]_vars, NEW f \in Facts, SoundFacts(f)
    PROVE SoundFacts(f)'
<1>1. f.allEvents \subseteq stored' /\ f.incidents \subseteq incidents'
  BY OnlyGrows DEF SoundFacts
<1>2. f.events = {e \in f.allEvents : InWindow(occurredAt'[e], f.end)}
  <2>1. \A e \in f.allEvents : occurredAt'[e] = occurredAt[e]
    BY OnlyGrows DEF SoundFacts
  <2> QED
    BY <2>1 DEF SoundFacts
<1>3. ASSUME NEW i \in f.incidents PROVE CreatedInWindow(i, f.end)'
  <2>1. \A e \in Evidence[i] : occurredAt'[e] = occurredAt[e]
    BY OnlyGrows DEF SoundFacts, StoresSound
  <2>2. CreatedInWindow(i, f.end)
    BY DEF SoundFacts
  <2> QED
    BY <2>1, <2>2 DEF CreatedInWindow, InWindow
<1>4. ASSUME NEW a \in f.actions, a[1] \notin raced'
      PROVE /\ request'[a[1]].approval \in {"approved", "rejected"}
            /\ InWindow(ActionTimestamp(request'[a[1]]), f.end)
  <2>1. a[1] \in Requests
    BY DEF Facts
  <2> QED
    BY <1>4, <2>1, OnlyGrows DEF SoundFacts, ActionTimestamp
<1> QED
  BY <1>1, <1>2, <1>3, <1>4 DEF SoundFacts, InWindow

\* Every step keeps the stores sound.
LEMMA StoresStep == TypeOK /\ StoresSound /\ HandSound /\ [Next]_vars => StoresSound'
<1> SUFFICES ASSUME TypeOK, StoresSound, HandSound, [Next]_vars PROVE StoresSound'
  OBVIOUS
<1>1. ASSUME NEW e \in stored' PROVE occurredAt'[e] # None
  <2>1. CASE e \in stored
    BY <2>1, OnlyGrows DEF StoresSound
  <2>2. CASE e \notin stored
    <3>1. Ingest(e)
      BY <2>2 DEF Next, vars, Tick, Occur, Ingest, PutIncident, MakeRequest, LoadPending, AppendDecision, AppendExecuted,
                  AppendRow, Begin, BuildStep, CutShort, ReadEvents, ReadIncidents, ReadActions,
                  NoNarrative, Narrate, NarrativeFails, AppendDigest, Deliver, NotDelivered, Step
    <3> QED
      BY <3>1 DEF Ingest
  <2> QED
    BY <2>1, <2>2
<1>2. ASSUME NEW i \in incidents' PROVE Evidence[i] \subseteq stored'
  <2>1. CASE i \in incidents
    BY <2>1, OnlyGrows DEF StoresSound
  <2>2. CASE i \notin incidents
    <3>1. PutIncident(i)
      BY <2>2 DEF Next, vars, Tick, Occur, Ingest, PutIncident, MakeRequest, LoadPending, AppendDecision, AppendExecuted,
                  AppendRow, Begin, BuildStep, CutShort, ReadEvents, ReadIncidents, ReadActions,
                  NoNarrative, Narrate, NarrativeFails, AppendDigest, Deliver, NotDelivered, Step
    <3> QED
      BY <3>1 DEF PutIncident
  <2> QED
    BY <2>1, <2>2
<1> QED
  BY <1>1, <1>2 DEF StoresSound
-----------------------------------------------------------------------------
\* The facts of a build that has not read since stay sound.
LEMMA BuildFactsKept ==
    ASSUME DigestInv, [Next]_vars, NEW b \in Builds, build'[b].facts = build[b].facts
    PROVE SoundFacts(build[b].facts)'
<1> DEFINE f == build[b].facts
<1>1. PICK g \in Facts : g = f
  BY DEF DigestInv, TypeOK, BuildState
<1>2. SoundFacts(g)
  BY <1>1 DEF DigestInv, BuildSound
<1>3. SoundFacts(g)'
  BY <1>2, FactsKept DEF DigestInv
<1> QED
  BY <1>1, <1>3 DEF SoundFacts, InWindow, CreatedInWindow, ActionTimestamp

\* An action of the environment leaves the builds sound.
LEMMA BuildsWait ==
    ASSUME DigestInv, [Next]_vars, UNCHANGED <<build, digests>>, UNCHANGED stored
    PROVE \A b \in Builds : BuildSound(b)'
<1> SUFFICES ASSUME NEW b \in Builds PROVE BuildSound(b)'
  OBVIOUS
<1>1. SoundFacts(build[b].facts)'
  BY BuildFactsKept
<1> QED
  BY <1>1 DEF DigestInv, BuildSound, Counted, Report

\* An ingest tears the builds that are between their first two reads.
LEMMA BuildsIngest ==
    ASSUME DigestInv, NEW e \in Events, Ingest(e)
    PROVE \A b \in Builds : BuildSound(b)'
<1> SUFFICES ASSUME NEW b \in Builds PROVE BuildSound(b)'
  OBVIOUS
<1>0. Next
  BY DEF Next
<1>1. build[b] \in BuildState
  BY DEF DigestInv, TypeOK
<1>2. /\ build'[b].facts = build[b].facts
      /\ build'[b].pc = build[b].pc
      /\ build'[b].narrated = build[b].narrated
  BY <1>1 DEF Ingest, BuildState
<1>3. build'[b].torn = (build[b].torn \/ build[b].pc = "incidents")
  BY <1>1 DEF Ingest, BuildState
<1>4. SoundFacts(build[b].facts)'
  BY <1>0, <1>2, BuildFactsKept
<1>5. ~build'[b].torn => ~build[b].torn /\ build[b].pc # "incidents"
  BY <1>3
<1>6. build'[b].pc = "deliver" => Report(b)' \in digests'
  <2>1. SUFFICES ASSUME build[b].pc = "deliver" PROVE Report(b)' \in digests'
    BY <1>2
  <2>2. build'[b].torn = build[b].torn
    BY <1>1, <1>3, <2>1 DEF BuildState
  <2>3. Report(b)' = Report(b)
    BY <1>2, <2>2 DEF Report
  <2> QED
    BY <2>1, <2>3 DEF Ingest, DigestInv, BuildSound
<1> QED
  BY <1>2, <1>4, <1>5, <1>6 DEF DigestInv, BuildSound, Counted

\* The builds that do not take a build's step are left as they are.
LEMMA OthersWait ==
    ASSUME DigestInv, [Next]_vars, NEW b \in Builds, NEW s, Step(b, s),
           NEW c \in Builds, c # b
    PROVE BuildSound(c)'
<1>1. build'[c] = build[c] /\ stored' = stored
  BY DEF Step, DigestInv, TypeOK
<1>2. SoundFacts(build[c].facts)'
  BY <1>1, BuildFactsKept
<1>3. digests \subseteq digests'
  BY OnlyGrows DEF DigestInv
<1> QED
  BY <1>1, <1>2, <1>3 DEF DigestInv, BuildSound, Counted, Report

\* The build that takes a step stays sound.
LEMMA BuilderStep ==
    ASSUME DigestInv, NEW b \in Builds, Begin(b) \/ BuildStep(b) \/ CutShort(b)
    PROVE BuildSound(b)'
<1>0. [Next]_vars
  BY DEF Next
<1> DEFINE f == build[b].facts
<1>1. /\ build[b] \in BuildState
      /\ f \in Facts
      /\ build \in [Builds -> BuildState]
  BY DEF DigestInv, TypeOK, BuildState
<1>2. /\ SoundFacts(f)
      /\ ~build[b].torn => Counted(f)
      /\ build[b].pc = "incidents" /\ ~build[b].torn => f.allEvents = stored
      /\ build[b].narrated \subseteq {f}
      /\ build[b].pc \in {"idle", "events", "incidents", "actions", "narrate"} => build[b].narrated = {}
  BY DEF DigestInv, BuildSound
<1>3. build' = [build EXCEPT ![b] = build'[b]] /\ UNCHANGED <<stored, occurredAt, incidents, request, raced>>
  BY <1>1 DEF Begin, BuildStep, CutShort, ReadEvents, ReadIncidents, ReadActions, NoNarrative,
              Narrate, NarrativeFails, AppendDigest, Deliver, NotDelivered, Step, engine
<1>4. ASSUME NEW pc \in {"idle", "done", "error", "cut"}, build'[b] = At(pc) PROVE BuildSound(b)'
  BY <1>4 DEF At, NoFacts, BuildSound, SoundFacts, Counted
<1>5. CASE Begin(b)
  <2>1. /\ build'[b].facts = [NoFacts EXCEPT !.end = clock]
        /\ build'[b].pc = "events"
        /\ build'[b].narrated = build[b].narrated
        /\ build[b].pc = "idle"
    BY <1>1, <1>5 DEF Begin, Step, BuildState
  <2>2. build'[b].narrated = {}
    BY <1>2, <2>1
  <2> QED
    BY <2>1, <2>2 DEF NoFacts, BuildSound, SoundFacts, Counted
<1>6. CASE ReadEvents(b)
  <2>1. /\ build'[b].facts = [f EXCEPT !.allEvents = stored,
                                !.events = {e \in stored : InWindow(occurredAt[e], f.end)}]
        /\ build'[b].pc = "incidents"
        /\ build'[b].narrated = {}
    BY <1>1, <1>2, <1>6 DEF ReadEvents, Step, BuildState
  <2>2. /\ build'[b].facts.allEvents = stored
        /\ build'[b].facts.events = {e \in stored : InWindow(occurredAt[e], f.end)}
        /\ build'[b].facts.end = f.end
        /\ build'[b].facts.incidents = f.incidents
        /\ build'[b].facts.actions = f.actions
    BY <1>1, <2>1 DEF Facts
  <2>3. SoundFacts(build[b].facts)'
    BY <1>2, <1>3, <2>2 DEF SoundFacts, InWindow, CreatedInWindow, ActionTimestamp
  <2>4. Counted(build'[b].facts)
    BY <1>2, <2>2 DEF SoundFacts, Counted, DigestInv, StoresSound
  <2> QED
    BY <1>3, <2>1, <2>2, <2>3, <2>4 DEF BuildSound, Counted
<1>7. CASE ReadIncidents(b)
  <2>1. /\ build'[b].facts = [f EXCEPT !.actions = {},
                                !.incidents = {i \in incidents : CreatedInWindow(i, f.end)}]
        /\ build'[b].pc \in {"narrate", "actions"}
        /\ build'[b].narrated = {}
        /\ build'[b].torn = build[b].torn
        /\ build[b].pc = "incidents"
    BY <1>1, <1>2, <1>7 DEF ReadIncidents, Step, BuildState
  <2>2. /\ build'[b].facts.allEvents = f.allEvents
        /\ build'[b].facts.events = f.events
        /\ build'[b].facts.end = f.end
        /\ build'[b].facts.incidents = {i \in incidents : CreatedInWindow(i, f.end)}
        /\ build'[b].facts.actions = {}
    BY <1>1, <2>1 DEF Facts
  <2>3. SoundFacts(build[b].facts)'
    BY <1>2, <1>3, <2>2 DEF SoundFacts, InWindow, CreatedInWindow
  <2>4. ~build[b].torn => Counted(build'[b].facts)
    BY <1>2, <2>1, <2>2 DEF Counted, DigestInv, StoresSound
  <2> QED
    BY <2>1, <2>3, <2>4 DEF BuildSound, Counted
<1>8. ASSUME NEW i \in Incidents, ReadActions(b, i) PROVE BuildSound(b)'
  <2> DEFINE acts == WindowActions(i, f.end)
  <2>1. /\ build'[b].facts = [f EXCEPT !.actions = @ \cup acts]
        /\ build'[b].pc \in {"narrate", "actions"}
        /\ build'[b].narrated = {}
        /\ build'[b].torn = build[b].torn
    BY <1>1, <1>2, <1>8 DEF ReadActions, Step, BuildState
  <2>2. /\ build'[b].facts.allEvents = f.allEvents
        /\ build'[b].facts.events = f.events
        /\ build'[b].facts.end = f.end
        /\ build'[b].facts.incidents = f.incidents
        /\ build'[b].facts.actions = f.actions \cup acts
    BY <1>1, <2>1 DEF Facts
  <2>3. \A a \in acts : /\ request[a[1]].approval \in {"approved", "rejected"}
                        /\ InWindow(ActionTimestamp(request[a[1]]), f.end)
    BY DEF WindowActions
  <2>4. SoundFacts(build[b].facts)'
    BY <1>2, <1>3, <2>2, <2>3 DEF SoundFacts, InWindow, CreatedInWindow, ActionTimestamp
  <2>5. ~build[b].torn => Counted(build'[b].facts)
    BY <1>2, <2>2 DEF Counted
  <2> QED
    BY <2>1, <2>4, <2>5 DEF BuildSound, Counted
<1>9. CASE NoNarrative(b) \/ Narrate(b)
  <2>1. /\ build'[b].facts = f
        /\ build'[b].pc = "append"
        /\ build'[b].narrated \subseteq {f}
        /\ build'[b].torn = build[b].torn
    <3>1. CASE NoNarrative(b)
      BY <1>1, <3>1 DEF NoNarrative, Step, BuildState
    <3>2. CASE Narrate(b)
      BY <1>1, <3>2 DEF Narrate, Step, BuildState
    <3> QED
      BY <1>9, <3>1, <3>2
  <2>2. SoundFacts(build[b].facts)'
    BY <1>0, <2>1, BuildFactsKept
  <2> QED
    BY <1>2, <2>1, <2>2 DEF BuildSound, Counted
<1>10. CASE NarrativeFails(b)
  <2>1. CASE b \notin Scheduled
    <3>1. build'[b] = At("error")
      BY <1>1, <1>10, <2>1 DEF NarrativeFails, Step
    <3> QED
      BY <1>4, <3>1
  <2>2. CASE b \in Scheduled
    <3>1. /\ build'[b].facts = f
          /\ build'[b].pc = "events"
          /\ build'[b].narrated = {}
          /\ build'[b].torn = build[b].torn
      BY <1>1, <1>2, <1>10, <2>2 DEF NarrativeFails, Step, BuildState
    <3>2. SoundFacts(build[b].facts)'
      BY <1>0, <3>1, BuildFactsKept
    <3> QED
      BY <1>2, <3>1, <3>2 DEF BuildSound, Counted
  <2> QED
    BY <2>1, <2>2
<1>11. CASE AppendDigest(b)
  <2>1. CASE b \notin Scheduled
    <3>1. build'[b] = At("done")
      BY <1>1, <1>11, <2>1 DEF AppendDigest, Step
    <3> QED
      BY <1>4, <3>1
  <2>2. CASE b \in Scheduled
    <3>1. /\ build'[b].facts = f
          /\ build'[b].pc = "deliver"
          /\ build'[b].narrated = build[b].narrated
          /\ build'[b].torn = build[b].torn
      BY <1>1, <1>11, <2>2 DEF AppendDigest, Step, BuildState
    <3>2. SoundFacts(build[b].facts)'
      BY <1>0, <3>1, BuildFactsKept
    <3>3. Report(b)' \in digests'
      BY <1>11, <3>1 DEF AppendDigest, Report
    <3> QED
      BY <1>2, <3>1, <3>2, <3>3 DEF BuildSound, Counted
  <2> QED
    BY <2>1, <2>2
<1>12. CASE Deliver(b) \/ NotDelivered(b) \/ CutShort(b)
  <2>1. build'[b] \in {At("done"), At("cut")}
    BY <1>1, <1>12 DEF Deliver, NotDelivered, CutShort, Step
  <2> QED
    BY <1>4, <2>1
<1> QED
  BY <1>5, <1>6, <1>7, <1>8, <1>9, <1>10, <1>11, <1>12 DEF BuildStep

\* What is retained stays sound, and a new digest is its build's report.
LEMMA DigestsStep ==
    ASSUME DigestInv, [Next]_vars, NEW d \in digests'
    PROVE DigestSound(d)'
<1>1. CASE d \in digests
  <2>1. d.facts \in Facts
    BY <1>1 DEF DigestInv, TypeOK
  <2>2. SoundFacts(d.facts)'
    BY <1>1, <2>1, FactsKept DEF DigestInv, DigestSound
  <2> QED
    BY <1>1, <2>2 DEF DigestInv, DigestSound, Counted
<1>2. CASE d \notin digests
  <2>1. PICK b \in Builds : AppendDigest(b)
    BY <1>2 DEF Next, vars, Tick, Occur, Ingest, PutIncident, MakeRequest, LoadPending, AppendDecision, AppendExecuted,
                AppendRow, Begin, BuildStep, CutShort, ReadEvents, ReadIncidents, ReadActions,
                NoNarrative, Narrate, NarrativeFails, AppendDigest, Deliver, NotDelivered, Step
  <2>2. d = Report(b)
    BY <1>2, <2>1 DEF AppendDigest
  <2>3. d.facts = build[b].facts /\ d.torn = build[b].torn /\ d.narrated = build[b].narrated
    BY <2>2 DEF Report
  <2>4. d.facts \in Facts /\ BuildSound(b)
    BY <2>3 DEF DigestInv, TypeOK, BuildState
  <2>5. SoundFacts(d.facts)
    BY <2>3, <2>4 DEF BuildSound
  <2>6. SoundFacts(d.facts)'
    BY <2>4, <2>5, FactsKept DEF DigestInv
  <2> QED
    BY <2>3, <2>4, <2>6 DEF BuildSound, DigestSound, Counted
<1> QED
  BY <1>1, <1>2

\* A message is about a digest that was appended before.
LEMMA DeliveryStep ==
    ASSUME DigestInv, [Next]_vars
    PROVE DeliveredIsRetained'
<1> SUFFICES ASSUME NEW m \in delivered'
             PROVE \E d \in digests' : /\ d.id = m.id
                                       /\ d.facts.end = m.end
                                       /\ d.facts.incidents = m.incidents
  BY DEF DeliveredIsRetained
<1>1. digests \subseteq digests'
  BY OnlyGrows DEF DigestInv
<1>2. CASE m \in delivered
  BY <1>1, <1>2 DEF DigestInv, DeliveredIsRetained
<1>3. CASE m \notin delivered
  <2>1. PICK b \in Builds : Deliver(b)
    BY <1>3 DEF Next, vars, Tick, Occur, Ingest, PutIncident, MakeRequest, LoadPending, AppendDecision, AppendExecuted,
                AppendRow, Begin, BuildStep, CutShort, ReadEvents, ReadIncidents, ReadActions,
                NoNarrative, Narrate, NarrativeFails, AppendDigest, Deliver, NotDelivered, Step
  <2>2. m = DeliveryText(b)
    BY <1>3, <2>1 DEF Deliver
  <2>3. Report(b) \in digests
    BY <2>1 DEF Deliver, DigestInv, BuildSound
  <2> QED
    BY <1>1, <2>2, <2>3 DEF Report, DeliveryText
<1> QED
  BY <1>2, <1>3

\* The inductive invariant holds in every state.
LEMMA DigestInduction == Spec => []DigestInv
<1>1. Init => DigestInv
  <2> SUFFICES ASSUME Init PROVE DigestInv
    OBVIOUS
  <2> USE DigestAssumption
  <2>1. TypeOK
    <3>1. build \in [Builds -> BuildState]
      BY AtType DEF Init
    <3>2. request \in [Requests -> Snapshot]
      BY DEF Init, Snapshot
    <3>3. clock \in Times /\ occurredAt \in [Events -> Times \cup {None}]
      BY DEF Init, Times
    <3>4. stored = {} /\ incidents = {} /\ digests = {} /\ delivered = {} /\ inHand = {} /\ raced = {}
      BY DEF Init
    <3> QED
      BY <3>1, <3>2, <3>3, <3>4 DEF TypeOK
  <2>2. StoresSound /\ HandSound /\ DeliveredIsRetained /\ \A d \in digests : DigestSound(d)
    BY DEF Init, StoresSound, HandSound, DeliveredIsRetained
  <2>3. ASSUME NEW b \in Builds PROVE BuildSound(b)
    BY DEF Init, At, NoFacts, BuildSound, SoundFacts, Counted
  <2> QED
    BY <2>1, <2>2, <2>3 DEF DigestInv
<1>2. DigestInv /\ [Next]_vars => DigestInv'
  <2> SUFFICES ASSUME DigestInv, [Next]_vars PROVE DigestInv'
    OBVIOUS
  <2>1. TypeOK' /\ StoresSound' /\ HandSound' /\ DeliveredIsRetained'
    BY TypeStep, StoresStep, HandStep, DeliveryStep DEF DigestInv
  <2>2. \A d \in digests' : DigestSound(d)'
    BY DigestsStep
  <2>3. \A b \in Builds : BuildSound(b)'
    <3>1. ASSUME NEW e \in Events, Ingest(e) PROVE \A b \in Builds : BuildSound(b)'
      BY <3>1, BuildsIngest
    <3>2. ASSUME NEW b \in Builds, Begin(b) \/ BuildStep(b) \/ CutShort(b)
          PROVE \A c \in Builds : BuildSound(c)'
      <4>1. PICK s : Step(b, s)
        BY <3>2 DEF Begin, BuildStep, CutShort, ReadEvents, ReadIncidents, ReadActions,
                    NoNarrative, Narrate, NarrativeFails, AppendDigest, Deliver, NotDelivered
      <4> QED
        BY <3>2, <4>1, OthersWait, BuilderStep
    <3>3. ASSUME UNCHANGED <<build, digests, stored>> PROVE \A b \in Builds : BuildSound(b)'
      BY <3>3, BuildsWait
    <3>4. \/ \E e \in Events : Ingest(e)
          \/ \E b \in Builds : Begin(b) \/ BuildStep(b) \/ CutShort(b)
          \/ UNCHANGED <<build, digests, stored>>
      BY DEF Next, vars, Tick, Occur, PutIncident, MakeRequest, LoadPending, AppendDecision, AppendExecuted, AppendRow
    <3> QED
      BY <3>1, <3>2, <3>3, <3>4
  <2> QED
    BY <2>1, <2>2, <2>3 DEF DigestInv
<1> QED
  BY <1>1, <1>2, PTL DEF Spec
-----------------------------------------------------------------------------
\* The digest's state keeps its types for any number of builds, events, incidents
\* and requests.
THEOREM DigestTypeCorrect == Spec => []TypeOK
<1>1. DigestInv => TypeOK
  BY DEF DigestInv
<1> QED
  BY <1>1, DigestInduction, PTL

\* Two digests whose periods meet count no event and no incident twice, a decision
\* only if calls raced to decide the request, and omit no event that both could
\* read, however ingests, decisions and executions fall between their reads.
THEOREM AdjacentDigestsCountOnce == Spec => []AdjacentCountOnce
<1>1. DigestInv => AdjacentCountOnce
  <2> SUFFICES ASSUME DigestInv, NEW d1 \in digests, NEW d2 \in digests, Adjacent(d1, d2)
               PROVE /\ \A e \in d1.facts.allEvents \cap d2.facts.allEvents :
                          InEither(occurredAt[e], d1, d2)
                              <=> (e \in d1.facts.events) # (e \in d2.facts.events)
                     /\ d1.facts.incidents \cap d2.facts.incidents = {}
                     /\ Decided(d1) \cap Decided(d2) \subseteq raced
    BY DEF AdjacentCountOnce
  <2>1. /\ d1.facts \in Facts /\ d2.facts \in Facts
        /\ SoundFacts(d1.facts) /\ SoundFacts(d2.facts)
    BY DEF DigestInv, TypeOK, DigestSound
  <2> DEFINE end1 == d1.facts.end
             end2 == d2.facts.end
  <2>2. end1 \in Int /\ end2 \in Int /\ end2 - Day = end1 /\ Day \in Nat \ {0}
    BY <2>1, DigestAssumption DEF Facts, Times, Adjacent
  <2>3. \A t \in Int : ~(InWindow(t, end1) /\ InWindow(t, end2))
    BY <2>2 DEF InWindow
  <2>4. ASSUME NEW e \in Events PROVE occurredAt[e] \in Int
    BY DigestAssumption DEF DigestInv, TypeOK, Times, None
  <2>5. ASSUME NEW e \in d1.facts.allEvents, e \in d2.facts.allEvents
        PROVE InEither(occurredAt[e], d1, d2)
                <=> (e \in d1.facts.events) # (e \in d2.facts.events)
    <3>1. e \in Events
      BY <2>1 DEF Facts
    <3>2. /\ e \in d1.facts.events <=> InWindow(occurredAt[e], end1)
          /\ e \in d2.facts.events <=> InWindow(occurredAt[e], end2)
      BY <2>1, <2>5 DEF SoundFacts
    <3>3. ~(InWindow(occurredAt[e], end1) /\ InWindow(occurredAt[e], end2))
      BY <2>3, <2>4, <3>1
    <3> QED
      BY <3>2, <3>3 DEF InEither
  <2>6. ASSUME NEW i \in d1.facts.incidents, i \in d2.facts.incidents PROVE FALSE
    <3>1. Evidence[i] \subseteq Events
      BY <2>1, DigestAssumption DEF Facts
    <3>2. PICK e \in Evidence[i] : /\ \A g \in Evidence[i] : occurredAt[g] <= occurredAt[e]
                                   /\ InWindow(occurredAt[e], end1)
      BY <2>1 DEF SoundFacts, CreatedInWindow
    <3>3. PICK g \in Evidence[i] : /\ \A h \in Evidence[i] : occurredAt[h] <= occurredAt[g]
                                   /\ InWindow(occurredAt[g], end2)
      BY <2>1, <2>6 DEF SoundFacts, CreatedInWindow
    <3>4. occurredAt[e] \in Int /\ occurredAt[g] \in Int
      BY <2>4, <3>1
    <3>5. occurredAt[e] = occurredAt[g]
      BY <3>2, <3>3, <3>4
    <3> QED
      BY <2>3, <3>2, <3>3, <3>4, <3>5
  <2>7. ASSUME NEW r \in Decided(d1), r \in Decided(d2), r \notin raced PROVE FALSE
    <3>1. PICK a \in d1.facts.actions : r = a[1]
      BY DEF Decided
    <3>2. PICK c \in d2.facts.actions : r = c[1]
      BY <2>7 DEF Decided
    <3>3. InWindow(ActionTimestamp(request[r]), end1) /\ InWindow(ActionTimestamp(request[r]), end2)
      BY <2>1, <2>7, <3>1, <3>2 DEF SoundFacts
    <3>4. r \in Requests
      BY <2>1, <3>1 DEF Facts
    <3>5. request[r].decided \in Int /\ request[r].requested \in Int
      BY <3>4, DigestAssumption DEF DigestInv, TypeOK, Snapshot, Times, None
    <3>6. ActionTimestamp(request[r]) \in Int
      BY <3>5 DEF ActionTimestamp
    <3> QED
      BY <2>3, <3>3, <3>6
  <2> QED
    BY <2>5, <2>6, <2>7
<1> QED
  BY <1>1, DigestInduction, PTL

\* A digest that was not torn by an ingest counts the evidence of its incidents.
THEOREM IncidentsAreCounted == Spec => []IncidentsRestOnCounted
<1>1. DigestInv => IncidentsRestOnCounted
  BY DEF DigestInv, DigestSound, SoundFacts, Counted, IncidentsRestOnCounted
<1> QED
  BY <1>1, DigestInduction, PTL

\* What the webhook receives is retained.
THEOREM DeliveriesAreRetained == Spec => []DeliveredIsRetained
<1>1. DigestInv => DeliveredIsRetained
  BY DEF DigestInv
<1> QED
  BY <1>1, DigestInduction, PTL

\* A retained narrative is about the retained facts.
THEOREM NarrativesMatchFacts == Spec => []NarrativeOfItsFacts
<1>1. DigestInv => NarrativeOfItsFacts
  BY DEF DigestInv, DigestSound, NarrativeOfItsFacts
<1> QED
  BY <1>1, DigestInduction, PTL
-----------------------------------------------------------------------------
\* R orders the elements of S strictly.
Orders(R, S) ==
    /\ \A x \in S : <<x, x>> \notin R
    /\ \A x, y, z \in S : <<x, y>> \in R /\ <<y, z>> \in R => <<x, z>> \in R
    /\ \A x, y \in S : x # y => <<x, y>> \in R \/ <<y, x>> \in R

\* What comes before x.
AheadOf(x, R, S) == {y \in S : <<y, x>> \in R}

\* s lists its elements in the order R.
InOrder(s, R) == \A i, j \in DOMAIN s : i < j => <<s[i], s[j]>> \in R

\* An element that comes earlier has fewer elements ahead of it.
LEMMA FewerAhead ==
    ASSUME NEW S, IsFiniteSet(S), NEW R, Orders(R, S), NEW x \in S
    PROVE  /\ Cardinality(AheadOf(x, R, S)) \in 0..(Cardinality(S) - 1)
           /\ \A y \in S : <<x, y>> \in R =>
                Cardinality(AheadOf(x, R, S)) < Cardinality(AheadOf(y, R, S))
<1> DEFINE A(y) == AheadOf(y, R, S)
<1>1. \A y \in S : A(y) \in SUBSET S /\ y \notin A(y)
  BY DEF AheadOf, Orders
<1>2. \A y \in S : IsFiniteSet(A(y)) /\ Cardinality(A(y)) \in Nat
  BY <1>1, FS_Subset, FS_CardinalityType
<1>3. Cardinality(S) \in Nat
  BY FS_CardinalityType
<1>4. IsFiniteSet(A(x) \cup {x}) /\ Cardinality(A(x) \cup {x}) = Cardinality(A(x)) + 1
  BY <1>1, <1>2, FS_AddElement
<1>5. Cardinality(A(x) \cup {x}) <= Cardinality(S)
  <2>1. A(x) \cup {x} \in SUBSET S
    BY <1>1
  <2> QED BY <2>1, FS_Subset
<1>6. ASSUME NEW y \in S, <<x, y>> \in R PROVE Cardinality(A(x)) < Cardinality(A(y))
  <2>1. A(x) \cup {x} \in SUBSET A(y)
    BY <1>6 DEF AheadOf, Orders
  <2>2. Cardinality(A(x) \cup {x}) <= Cardinality(A(y))
    BY <1>2, <2>1, FS_Subset
  <2> HIDE DEF A
  <2> QED BY <1>2, <1>4, <2>2
<1> HIDE DEF A
<1>7. Cardinality(A(x)) \in 0..(Cardinality(S) - 1)
  BY <1>2, <1>3, <1>4, <1>5
<1> QED BY <1>6, <1>7 DEF A

\* A finite set can be put in order: each element goes to the place after those ahead
\* of it.
LEMMA OrderExists ==
    ASSUME NEW S, IsFiniteSet(S), NEW R, Orders(R, S)
    PROVE  \E s \in SetToSeqs(S) : InOrder(s, R)
<1> DEFINE n == Cardinality(S)
           rank == [x \in S |-> Cardinality(AheadOf(x, R, S)) + 1]
<1>1. n \in Nat
  BY FS_CardinalityType
<1>2. \A x \in S : rank[x] \in 1..n
  <2>1. ASSUME NEW x \in S PROVE rank[x] \in 1..n
    <3>1. Cardinality(AheadOf(x, R, S)) \in 0..(n - 1)
      BY FewerAhead
    <3> HIDE DEF n
    <3> QED BY <1>1, <3>1
  <2> QED BY <2>1
<1>3. \A x, y \in S : <<x, y>> \in R => rank[x] < rank[y]
  <2>1. ASSUME NEW x \in S, NEW y \in S, <<x, y>> \in R PROVE rank[x] < rank[y]
    <3>1. /\ Cardinality(AheadOf(x, R, S)) < Cardinality(AheadOf(y, R, S))
          /\ Cardinality(AheadOf(x, R, S)) \in Int /\ Cardinality(AheadOf(y, R, S)) \in Int
      BY <2>1, FewerAhead
    <3> QED BY <3>1
  <2> QED BY <2>1
<1>0. rank \in [S -> 1..n]
  BY <1>2
<1> HIDE DEF rank, n
<1>4. \A x, y \in S : rank[x] = rank[y] => x = y
  <2>1. \A x, y \in S : x # y => <<x, y>> \in R \/ <<y, x>> \in R
    BY DEF Orders
  <2>2. \A x \in S : rank[x] \in Int
    BY <1>1, <1>2
  <2>3. ASSUME NEW x \in S, NEW y \in S, rank[x] = rank[y], x # y PROVE FALSE
    <3>1. rank[x] < rank[y] \/ rank[y] < rank[x]
      BY <1>3, <2>1, <2>3
    <3> QED BY <2>2, <2>3, <3>1
  <2> QED BY <2>3
<1>5. rank \in Injection(S, 1..n)
  BY <1>0, <1>4 DEF Injection, IsInjective
<1>6. IsFiniteSet(1..n) /\ Cardinality(1..n) = n
  BY <1>1, FS_Interval
<1>7. rank \in Surjection(S, 1..n)
  BY <1>5, <1>6, FS_Injection DEF n
<1>8. \A i \in 1..n : \E x \in S : rank[x] = i
  BY <1>7 DEF Surjection
<1> DEFINE s == [i \in 1..n |-> CHOOSE x \in S : rank[x] = i]
<1>9. \A i \in 1..n : s[i] \in S /\ rank[s[i]] = i
  BY <1>8
<1>10. s \in [1..n -> S]
  BY <1>9
<1> HIDE DEF s
<1>11. \A i, j \in 1..n : i # j => s[i] # s[j]
  BY <1>9
<1>12. s \in SetToSeqs(S)
  BY <1>10, <1>11 DEF SetToSeqs, n
<1>13. ASSUME NEW i \in 1..n, NEW j \in 1..n, i < j PROVE <<s[i], s[j]>> \in R
  <2>1. s[i] \in S /\ s[j] \in S /\ s[i] # s[j] /\ rank[s[i]] = i /\ rank[s[j]] = j
    BY <1>1, <1>9, <1>11, <1>13
  <2>2. <<s[j], s[i]>> \notin R
    BY <1>1, <1>3, <1>13, <2>1
  <2> QED BY <2>1, <2>2 DEF Orders
<1>14. InOrder(s, R)
  BY <1>10, <1>13 DEF InOrder
<1> QED BY <1>12, <1>14

\* In a sequence that is in order every element is at the place after those ahead of it.
LEMMA PlaceInOrder ==
    ASSUME NEW S, IsFiniteSet(S), NEW R, Orders(R, S), NEW s \in SetToSeqs(S), InOrder(s, R),
           NEW x \in S
    PROVE  LET place == Cardinality(AheadOf(x, R, S)) + 1
           IN /\ place \in 1..Cardinality(S)
              /\ s[place] = x
<1> DEFINE n == Cardinality(S)
<1>1. n \in Nat /\ IsFiniteSet(1..n) /\ Cardinality(1..n) = n
  <2>1. n \in Nat
    BY FS_CardinalityType
  <2> HIDE DEF n
  <2> QED BY <2>1, FS_Interval
<1>2. s \in [1..n -> S] /\ \A i, j \in 1..n : i # j => s[i] # s[j]
  BY DEF SetToSeqs
<1>3. s \in Injection(1..n, S)
  BY <1>2 DEF Injection, IsInjective
<1>4. s \in Surjection(1..n, S)
  BY <1>1, <1>3, FS_Injection
<1>5. PICK i \in 1..n : s[i] = x
  BY <1>4 DEF Surjection
<1> DEFINE A == AheadOf(x, R, S)
           f == [j \in 1..(i - 1) |-> s[j]]
<1> HIDE DEF n
<1>6. \A j \in 1..n : <<s[j], x>> \in R <=> j < i
  <2> SUFFICES ASSUME NEW j \in 1..n PROVE <<s[j], x>> \in R <=> j < i
    OBVIOUS
  <2>1. DOMAIN s = 1..n /\ s[j] \in S /\ i \in Int /\ j \in Int
    BY <1>1, <1>2
  <2>2. CASE j < i
    BY <1>5, <2>1, <2>2 DEF InOrder
  <2>3. CASE j = i
    BY <1>5, <2>3 DEF Orders
  <2>4. CASE j > i
    <3>1. <<x, s[j]>> \in R
      BY <1>5, <2>1, <2>4 DEF InOrder
    <3>2. <<s[j], x>> \in R => <<x, x>> \in R
      BY <2>1, <3>1 DEF Orders
    <3>3. <<x, x>> \notin R
      BY DEF Orders
    <3> QED BY <2>1, <2>4, <3>2, <3>3
  <2> QED BY <2>1, <2>2, <2>3, <2>4
<1>7. f \in Bijection(1..(i - 1), A)
  <2>1. \A j \in 1..(i - 1) : j \in 1..n /\ s[j] \in A
    BY <1>1, <1>2, <1>6 DEF AheadOf
  <2>2. \A y \in A : \E j \in 1..(i - 1) : s[j] = y
    <3> SUFFICES ASSUME NEW y \in A PROVE \E j \in 1..(i - 1) : s[j] = y
      OBVIOUS
    <3>1. y \in S /\ <<y, x>> \in R
      BY DEF AheadOf
    <3>2. PICK j \in 1..n : s[j] = y
      BY <1>4, <3>1 DEF Surjection
    <3>3. j \in 1..(i - 1)
      BY <1>1, <1>6, <3>1, <3>2
    <3> QED BY <3>2, <3>3
  <2> HIDE DEF A
  <2>3. f \in [1..(i - 1) -> A]
    BY <2>1
  <2>4. IsInjective(f)
    BY <1>2, <2>1 DEF IsInjective
  <2>5. \A y \in A : \E j \in 1..(i - 1) : f[j] = y
    BY <2>2
  <2> HIDE DEF f
  <2> QED BY <2>3, <2>4, <2>5 DEF Bijection, Injection, Surjection
<1> HIDE DEF A, f
<1>8. Cardinality(A) = i - 1
  <2>1. ExistsBijection(1..(i - 1), A) /\ i - 1 \in Nat
    BY <1>1, <1>7 DEF ExistsBijection
  <2> QED BY <2>1, FS_CountingElements
<1>9. Cardinality(A) + 1 = i
  BY <1>1, <1>8
<1> QED BY <1>5, <1>9 DEF A, n

\* Requests bring finitely many events, so that finitely many are stored.
LEMMA StoredFinite == Spec => []IsFiniteSet(stored)
<1>1. Init => IsFiniteSet(stored)
  BY FS_EmptySet DEF Init
<1>2. IsFiniteSet(stored) /\ [Next]_vars => IsFiniteSet(stored)'
  <2> SUFFICES ASSUME IsFiniteSet(stored), [Next]_vars PROVE IsFiniteSet(stored')
    OBVIOUS
  <2>1. stored' = stored \/ \E e \in Events : stored' = stored \cup {e}
    BY DEF Next, Tick, Occur, Ingest, PutIncident, MakeRequest, LoadPending, AppendDecision, AppendExecuted, AppendRow, Begin,
           BuildStep, ReadEvents, ReadIncidents, ReadActions, NoNarrative, Narrate,
           NarrativeFails, AppendDigest, Deliver, NotDelivered, CutShort, Step, vars
  <2> QED BY <2>1, FS_AddElement
<1> QED
  BY <1>1, <1>2, PTL DEF Spec

\* Finitely many events name finitely many entities.
LEMMA NamedFinite ==
    ASSUME NEW E \in SUBSET Events, IsFiniteSet(E), NEW k
    PROVE  /\ NamedIn(E, k) \subseteq Nat
           /\ IsFiniteSet(NamedIn(E, k))
           /\ \A x : Count(E, k, x) \in Nat
<1> DEFINE T == {e \in E : Kind[e] = k}
           N == {Named[e] : e \in T}
           f == [e \in T |-> Named[e]]
<1>1. T \in SUBSET E /\ IsFiniteSet(T)
  BY FS_Subset
<1>2. f \in Surjection(T, N)
  BY DEF Surjection
<1>3. IsFiniteSet(N)
  <2> HIDE DEF f, T, N
  <2> QED BY <1>1, <1>2, FS_Surjection
<1>4. \A M \in N : IsFiniteSet(M) /\ M \subseteq Nat
  BY StatsAssumption
<1>5. IsFiniteSet(UNION N)
  BY <1>3, <1>4, FS_UNION
<1>6. NamedIn(E, k) = UNION N
  BY DEF NamedIn
<1>7. ASSUME NEW x PROVE Count(E, k, x) \in Nat
  <2> DEFINE M == {e \in E : Kind[e] = k /\ x \in Named[e]}
  <2>1. IsFiniteSet(M)
    BY FS_Subset
  <2> QED BY <2>1, FS_CardinalityType DEF Count
<1> QED BY <1>4, <1>5, <1>6, <1>7

\* The sort key orders the entities, and the ranking lists them in that order.
LEMMA RankedInOrder ==
    ASSUME NEW E \in SUBSET Events, IsFiniteSet(E), NEW k
    PROVE  LET S == NamedIn(E, k)
               s == Ordered(S, E, k)
               R == {p \in S \X S : Precedes(E, k, p[1], p[2])}
           IN Orders(R, S) /\ s \in SetToSeqs(S) /\ InOrder(s, R)
<1> DEFINE S == NamedIn(E, k)
           s == Ordered(S, E, k)
           R == {p \in S \X S : Precedes(E, k, p[1], p[2])}
<1>1. S \subseteq Nat /\ IsFiniteSet(S) /\ \A x : Count(E, k, x) \in Nat
  BY NamedFinite
<1> HIDE DEF S
<1>2. \A x, y \in S : <<x, y>> \in R <=> Precedes(E, k, x, y)
  OBVIOUS
<1>3. Orders(R, S)
  <2>1. \A x \in S : ~Precedes(E, k, x, x)
    BY <1>1 DEF Precedes
  <2>2. \A x, y, z \in S : Precedes(E, k, x, y) /\ Precedes(E, k, y, z) => Precedes(E, k, x, z)
    BY <1>1 DEF Precedes
  <2>3. \A x, y \in S : x # y => Precedes(E, k, x, y) \/ Precedes(E, k, y, x)
    BY <1>1 DEF Precedes
  <2> HIDE DEF R
  <2> QED BY <1>2, <2>1, <2>2, <2>3 DEF Orders
<1>4. ASSUME NEW t \in SetToSeqs(S)
      PROVE  InOrder(t, R) <=> \A i, j \in DOMAIN t : i < j => Precedes(E, k, t[i], t[j])
  <2>1. \A i \in DOMAIN t : t[i] \in S
    BY DEF SetToSeqs
  <2> HIDE DEF R
  <2> QED BY <1>2, <2>1 DEF InOrder
<1> HIDE DEF R
<1>5. \E t \in SetToSeqs(S) : \A i, j \in DOMAIN t : i < j => Precedes(E, k, t[i], t[j])
  BY <1>1, <1>3, <1>4, OrderExists
<1>6. s \in SetToSeqs(S) /\ \A i, j \in DOMAIN s : i < j => Precedes(E, k, s[i], s[j])
  BY <1>5, Zenon DEF Ordered
<1>7. InOrder(s, R)
  <2> HIDE DEF s
  <2> QED BY <1>4, <1>6
<1> QED BY <1>3, <1>6, <1>7 DEF S, R

\* A ranking is the top of the order.
LEMMA RankedIsTop ==
    ASSUME NEW E \in SUBSET Events, IsFiniteSet(E), NEW k, NEW x \in NamedIn(E, k)
    PROVE  LET place == Cardinality({y \in NamedIn(E, k) : Precedes(E, k, y, x)}) + 1
               list == RankEntities(E, k)
           IN IF place <= RankingLimit
              THEN place \in DOMAIN list /\ list[place] = x
              ELSE x \notin Range(list)
<1> DEFINE S == NamedIn(E, k)
           s == Ordered(S, E, k)
           R == {p \in S \X S : Precedes(E, k, p[1], p[2])}
           A == {y \in S : Precedes(E, k, y, x)}
           place == Cardinality(A) + 1
           n == Cardinality(S)
           l == IF n < RankingLimit THEN n ELSE RankingLimit
           list == RankEntities(E, k)
<1>1. IsFiniteSet(S) /\ n \in Nat
  BY NamedFinite, FS_CardinalityType
<1>2. Orders(R, S) /\ s \in SetToSeqs(S) /\ InOrder(s, R)
  BY RankedInOrder
<1>3. AheadOf(x, R, S) = A
  BY DEF AheadOf
<1> HIDE DEF R, s
<1>4. place \in 1..n /\ s[place] = x
  <2> DEFINE c == Cardinality(AheadOf(x, R, S))
  <2> HIDE DEF S
  <2>1. c + 1 \in 1..Cardinality(S) /\ s[c + 1] = x
    BY <1>1, <1>2, PlaceInOrder DEF S
  <2>2. c = Cardinality(A)
    BY <1>3
  <2> HIDE DEF c, A
  <2> QED BY <2>1, <2>2
<1>5. s \in [1..n -> S] /\ \A i, j \in 1..n : i # j => s[i] # s[j]
  BY <1>2 DEF SetToSeqs
<1> HIDE DEF n, S, place
<1>6. s \in Seq(S) /\ Len(s) = n
  BY <1>1, <1>5
<1>7. l \in Nat /\ l <= n
  BY <1>1, StatsAssumption
<1>8. list = SubSeq(s, 1, l)
  BY <1>6 DEF RankEntities, Truncated, s, S
<1>9. DOMAIN list = 1..l /\ \A i \in 1..l : list[i] = s[i]
  BY <1>1, <1>6, <1>7, <1>8
<1> HIDE DEF list
<1>10. CASE place <= RankingLimit
  <2>1. place \in 1..l
    BY <1>1, <1>4, <1>10, StatsAssumption
  <2>2. place \in DOMAIN list /\ list[place] = x
    BY <1>4, <1>9, <2>1
  <2> QED BY <1>10, <2>2 DEF place, S, list
<1>11. CASE ~(place <= RankingLimit)
  <2>1. \A i \in 1..l : i # place /\ i \in 1..n
    BY <1>1, <1>4, <1>7, <1>11, StatsAssumption
  <2>2. x \notin Range(list)
    BY <1>4, <1>5, <1>9, <2>1 DEF Range
  <2> QED BY <1>11, <2>2 DEF place, S, list
<1> QED BY <1>10, <1>11

\* Every ranking of a retained digest lists the entities of its period's events that
\* have the most of them, in order, whatever the events name.
THEOREM RankingsListTop == Spec => []RankingsAreTop
<1>1. DigestInv /\ IsFiniteSet(stored) => RankingsAreTop
  <2> SUFFICES ASSUME DigestInv, IsFiniteSet(stored), NEW d \in digests, NEW k \in Rankings,
                      NEW x \in NamedIn(d.facts.events, k)
               PROVE  LET list == Aggregate(d.facts).ranked[k]
                          place == Cardinality({y \in NamedIn(d.facts.events, k) :
                                                  Precedes(d.facts.events, k, y, x)}) + 1
                      IN IF place <= RankingLimit
                         THEN place \in DOMAIN list /\ list[place] = x
                         ELSE x \notin Range(list)
    BY Zenon DEF RankingsAreTop
  <2>1. d.facts.events \subseteq stored /\ d.facts.events \subseteq Events
    BY DEF DigestInv, DigestSound, SoundFacts, TypeOK, Facts
  <2>2. IsFiniteSet(d.facts.events)
    BY <2>1, FS_Subset
  <2>3. Aggregate(d.facts).ranked[k] = RankEntities(d.facts.events, k)
    BY DEF Aggregate
  <2> QED
    BY <2>1, <2>2, <2>3, RankedIsTop, Zenon
<1> QED
  BY <1>1, DigestInduction, StoredFinite, PTL
=============================================================================
