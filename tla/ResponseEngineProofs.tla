------------------------ MODULE ResponseEngineProofs ------------------------
(***************************************************************************)
(* Proofs about ResponseEngine, for any number of calls, records and       *)
(* approvers and any choice of requestable, handled and real actions.      *)
(***************************************************************************)
EXTENDS ResponseEngine, WellFoundedInduction, TLAPS

\* A snapshot copied with model_copy is a snapshot.
LEMMA SnapshotCopy ==
    ASSUME NEW s \in Snapshot
    PROVE  /\ \A e \in ExecutionStatus : [s EXCEPT !.exec = e] \in Snapshot
           /\ \A a \in ApprovalStatus, p \in Subjects \cup {Nobody} :
                [s EXCEPT !.approval = a, !.by = p] \in Snapshot
  BY DEF Snapshot

\* A handler reports one of the two final execution states.
LEMMA OutcomeType ==
    ASSUME NEW s, NEW o \in HandlerOutcomes(s)
    PROVE  /\ o.exec \in ExecutionStatus \ {"not_executed"}
           /\ o.effect \in BOOLEAN
<1>1. \/ o = [exec |-> "failed", effect |-> FALSE]
      \/ o = [exec |-> "failed", effect |-> TRUE]
      \/ o = [exec |-> "simulated", effect |-> TRUE]
      \/ o = [exec |-> "simulated", effect |-> FALSE]
  BY ZenonT(30) DEF HandlerOutcomes
<1>2. o.effect \in BOOLEAN
  <2>1. \A a, b : [exec |-> a, effect |-> b].effect = b
    OBVIOUS
  <2> QED BY <1>1, <2>1
<1>3. o.exec \in {"simulated", "failed"}
  BY <1>1
<1> QED BY <1>2, <1>3 DEF ExecutionStatus

\* What PostgresApprovalStore.append does to the table.
LEMMA AppendFacts ==
    ASSUME NEW S, NEW q \in Seq(S), NEW x \in S
    PROVE  /\ Append(q, x) \in Seq(S)
           /\ Len(Append(q, x)) = Len(q) + 1
           /\ DOMAIN q = 1..Len(q)
           /\ DOMAIN Append(q, x) = 1..(Len(q) + 1)
           /\ \A i \in DOMAIN q : Append(q, x)[i] = q[i]
           /\ Append(q, x)[Len(q) + 1] = x
           /\ Len(q) \in Nat
  OBVIOUS

\* Every step keeps the types.
LEMMA TypeStep == TypeOK /\ [Next]_vars => TypeOK'
<1> SUFFICES ASSUME TypeOK, [Next]_vars PROVE TypeOK'
  OBVIOUS
<1> USE DEF TypeOK, Active
<1>1. CASE Request
  <2> PICK c \in Calls, r \in Records, t \in Requestable, req \in BOOLEAN, tgt \in BOOLEAN :
        RequestAction(c, r, t, req, tgt)
    BY <1>1 DEF Request
  <2> DEFINE s == [rec |-> r, type |-> t, target |-> tgt,
                   approval |-> IF NeedsApproval(t, req)
                                THEN "pending" ELSE "auto_approved",
                   by |-> Nobody, exec |-> "not_executed"]
  <2>1. s \in Snapshot
    BY ActionsAssumption DEF Snapshot, ApprovalStatus, ExecutionStatus
  <2>2. /\ snap' = [snap EXCEPT ![c] = s]
        /\ pc' = [pc EXCEPT ![c] = "append_request"]
        /\ issued' = issued \cup {r}
        /\ UNCHANGED <<log, runs, faulted, board>>
    BY DEF RequestAction, Hold, Move
  <2> HIDE DEF s
  <2> QED BY <2>1, <2>2
<1>2. CASE Decide
  <2>1. CASE \E c \in Calls, r \in Records : RefuseDecision(c, r)
    BY <2>1 DEF RefuseDecision, vars
  <2>2. CASE \E c \in Calls, r \in Records, p \in Subjects : Approve(c, r, p) \/ Reject(c, r, p)
    <3> PICK c \in Calls, r \in Records, p \in Subjects : Approve(c, r, p) \/ Reject(c, r, p)
      BY <2>2
    <3> PICK i \in DOMAIN log, a \in {"approved", "rejected"} :
          Hold(c, [log[i] EXCEPT !.approval = a, !.by = p])
      BY DEF Approve, Reject, LoadPending
    <3>1. [log[i] EXCEPT !.approval = a, !.by = p] \in Snapshot
      <4>1. log[i] \in Snapshot
        OBVIOUS
      <4> QED BY <4>1, SnapshotCopy DEF ApprovalStatus
    <3>2. /\ pc' = [pc EXCEPT ![c] = "append_decision"]
          /\ UNCHANGED <<log, issued, runs, faulted, board>>
      BY DEF Approve, Reject, LoadPending, Move
    <3> QED BY <3>1, <3>2 DEF Hold
  <2> QED BY <1>2, <2>1, <2>2 DEF Decide
<1>3. ASSUME NEW c \in Calls, CallStep(c) PROVE TypeOK'
  <2>1. CASE AppendRequest(c)
    BY <2>1, AppendFacts DEF AppendRequest, Move
  <2>2. CASE AppendDecision(c)
    BY <2>2, AppendFacts DEF AppendDecision, Move
  <2>3. CASE Execute(c)
    <3> PICK o \in HandlerOutcomes(snap[c]) :
          /\ snap' = [snap EXCEPT ![c] = [snap[c] EXCEPT !.exec = o.exec]]
          /\ runs' = runs \cup
               {[call |-> c, rec |-> snap[c].rec, type |-> snap[c].type,
                 by |-> snap[c].by, at |-> Len(log), exec |-> o.exec,
                 effect |-> o.effect]}
      BY <2>3 DEF Execute, Hold
    <3>1. snap[c] \in Snapshot /\ pc[c] = "execute"
      BY <2>3 DEF Execute
    <3>2. [snap[c] EXCEPT !.exec = o.exec] \in Snapshot
      BY <3>1, SnapshotCopy, OutcomeType
    <3>3. [call |-> c, rec |-> snap[c].rec, type |-> snap[c].type,
           by |-> snap[c].by, at |-> Len(log), exec |-> o.exec,
           effect |-> o.effect] \in Run
      BY <3>1, OutcomeType DEF Run, Snapshot
    <3>4. pc' = [pc EXCEPT ![c] = "append_executed"] /\ UNCHANGED <<log, issued, faulted, board>>
      BY <2>3 DEF Execute, Move
    <3> QED BY <3>1, <3>2, <3>3, <3>4
  <2>4. CASE AppendExecuted(c)
    BY <2>4, AppendFacts DEF AppendExecuted, Move
  <2>5. CASE Broadcast(c)
    BY <2>5 DEF Broadcast, Move, Hold, Snapshot
  <2> QED BY <1>3, <2>1, <2>2, <2>3, <2>4, <2>5 DEF CallStep
<1>4. CASE Fault
  <2>1. CASE Crash
    <3>1. \A c \in Calls : pc[c] \in Active => snap[c].rec \in Records
      BY DEF Snapshot
    <3> QED BY <2>1, <3>1 DEF Crash
  <2>2. ASSUME NEW c \in Calls, StoreRaises(c) \/ HandlerRaises(c) PROVE TypeOK'
    <3>1. snap[c] \in Snapshot /\ snap[c].rec \in Records
      BY <2>2 DEF StoreRaises, HandlerRaises, Appending, Snapshot
    <3>2. /\ pc' = [pc EXCEPT ![c] = "idle"]
          /\ snap' = [snap EXCEPT ![c] = NoSnapshot]
          /\ faulted' = faulted \cup {snap[c].rec}
          /\ UNCHANGED <<issued, runs, board>>
      BY <2>2 DEF StoreRaises, HandlerRaises, Lose, Move, Hold
    <3>3. log' \in Seq(Snapshot)
      BY <2>2, <3>1, AppendFacts DEF StoreRaises, HandlerRaises
    <3> QED BY <3>1, <3>2, <3>3
  <2> QED BY <1>4, <2>1, <2>2 DEF Fault
<1>5. CASE UNCHANGED vars
  BY <1>5 DEF vars
<1> QED BY <1>1, <1>2, <1>3, <1>4, <1>5 DEF Next

\* The variables of the response workflow always have their types.
THEOREM TypeCorrect == Spec => []TypeOK
<1>1. Init => TypeOK
  BY DEF Init, TypeOK, Active, Snapshot
<1> QED BY <1>1, TypeStep, PTL DEF Spec
-----------------------------------------------------------------------------
\* The table after a step that keeps or extends it.
Grows ==
    /\ log \in Seq(Snapshot)
    /\ log' \in Seq(Snapshot)
    /\ Len(log) <= Len(log')
    /\ \A k \in 1..Len(log) : log'[k] = log[k]

\* Both outcomes of an append, and every other step, extend the table.
LEMMA GrowsByAppend ==
    ASSUME log \in Seq(Snapshot), NEW s \in Snapshot,
           log' = log \/ log' = Append(log, s)
    PROVE  Grows
  BY AppendFacts DEF Grows

\* A snapshot that is in the table stays there.
LEMMA LoggedStays ==
    ASSUME Grows, NEW s, Logged(s)
    PROVE  \E k \in DOMAIN log' : log'[k] = s
<1>1. /\ DOMAIN log = 1..Len(log) /\ DOMAIN log' = 1..Len(log')
      /\ Len(log) \in Nat /\ Len(log') \in Nat
  BY DEF Grows
<1> QED BY <1>1 DEF Grows, Logged

\* What a call holds still rests on the table when another call extends it,
\* unless that call appended a snapshot of the record the first is requesting.
LEMMA CallKept ==
    ASSUME NEW d \in Calls, CallInv(d), Grows, issued \subseteq issued',
           pc'[d] = pc[d], snap'[d] = snap[d],
           pc[d] = "append_request" =>
             /\ \A k \in DOMAIN log' : log'[k].rec # snap[d].rec
             /\ \A e \in Calls \ {d} :
                  pc'[e] = "append_request" => snap'[e].rec # snap[d].rec
    PROVE  CallInv(d)'
<1>1. pc'[d] \in Active => snap'[d].rec \in issued'
  BY DEF CallInv
<1>2. pc'[d] = "append_request" => HoldsRequest(d)'
  BY DEF CallInv, HoldsRequest
<1>3. pc'[d] = "append_decision" => HoldsDecision(d)'
  <2> SUFFICES ASSUME pc[d] = "append_decision" PROVE HoldsDecision(d)'
    OBVIOUS
  <2>1. HoldsDecision(d)
    BY DEF CallInv
  <2>2. \E k \in DOMAIN log' : log'[k] = Requested(snap[d])
    BY <2>1, LoggedStays DEF HoldsDecision
  <2> QED BY <2>1, <2>2 DEF HoldsDecision, Logged, Requested, Decided
<1>4. pc'[d] = "execute" => HoldsApproved(d)'
  <2> SUFFICES ASSUME pc[d] = "execute" PROVE HoldsApproved(d)'
    OBVIOUS
  <2>1. HoldsApproved(d)
    BY DEF CallInv
  <2>2. \E k \in DOMAIN log' : log'[k] = snap[d]
    BY <2>1, LoggedStays DEF HoldsApproved
  <2> QED BY <2>1, <2>2 DEF HoldsApproved, Logged
<1>5. pc'[d] = "append_executed" => HoldsResult(d)'
  <2> SUFFICES ASSUME pc[d] = "append_executed" PROVE HoldsResult(d)'
    OBVIOUS
  <2>1. HoldsResult(d)
    BY DEF CallInv
  <2>2. \E k \in DOMAIN log' : log'[k] = Decided(snap[d])
    BY <2>1, LoggedStays DEF HoldsResult
  <2> QED BY <2>1, <2>2 DEF HoldsResult, Logged, Decided
<1>6. pc'[d] = "broadcast" => Logged(snap[d])'
  <2> SUFFICES ASSUME pc[d] = "broadcast" PROVE Logged(snap[d])'
    OBVIOUS
  <2>1. \E k \in DOMAIN log' : log'[k] = snap[d]
    BY LoggedStays DEF CallInv
  <2> QED BY <2>1 DEF Logged
<1> QED BY <1>1, <1>2, <1>3, <1>4, <1>5, <1>6 DEF CallInv

\* A snapshot about to be appended fits the history of its record.
LEMMA AppendableFits ==
    ASSUME TypeOK, LogInv, NEW c \in Calls, CallInv(c), pc[c] \in Appending
    PROVE  /\ snap[c] \in Snapshot
           /\ snap[c].rec \in issued
           /\ snap[c].approval = "auto_approved" => snap[c].type \notin PRIVILEGED_ACTIONS
           /\ snap[c].approval = "approved" => snap[c].by \in Subjects
           /\ snap[c].approval = "pending" => snap[c].by = Nobody
           /\ snap[c].exec # "not_executed" =>
                /\ Logged(Decided(snap[c]))
                /\ snap[c].approval \in {"approved", "auto_approved"}
           /\ snap[c].approval \in {"approved", "rejected"} => Logged(Requested(snap[c]))
           /\ pc[c] # "append_request" =>
                \E k \in DOMAIN log : log[k].rec = snap[c].rec
           /\ \A j \in DOMAIN log : log[j].rec = snap[c].rec =>
                /\ snap[c].approval # "pending"
                /\ log[j].approval = "auto_approved" <=> snap[c].approval = "auto_approved"
                /\ snap[c].approval = "auto_approved" => snap[c].exec # "not_executed"
<1> USE DEF Appending
<1>0. snap[c] \in Snapshot /\ snap[c].rec \in issued
  BY DEF TypeOK, CallInv, Active
<1>a. \A j \in DOMAIN log : log[j] \in Snapshot
  BY DEF TypeOK
<1>b. ASSUME NEW i \in DOMAIN log, NEW j \in DOMAIN log, log[i].rec = log[j].rec
      PROVE  log[j].approval = "auto_approved" <=> log[i].approval = "auto_approved"
  <2>1. i \in Int /\ j \in Int
    BY DEF TypeOK
  <2>2. CASE i < j
    BY <1>b, <2>2 DEF LogInv, StartsOnce
  <2>3. CASE j < i
    BY <1>b, <2>3 DEF LogInv, StartsOnce
  <2> QED BY <2>1, <2>2, <2>3
<1>1. CASE pc[c] = "append_request"
  <2>1. HoldsRequest(c)
    BY <1>1 DEF CallInv
  <2> QED BY <1>0, <1>1, <2>1 DEF HoldsRequest
<1>2. CASE pc[c] = "append_decision"
  <2>1. HoldsDecision(c)
    BY <1>2 DEF CallInv
  <2>2. PICK i \in DOMAIN log : log[i] = Requested(snap[c])
    BY <2>1 DEF HoldsDecision, Logged
  <2>3. log[i].rec = snap[c].rec /\ log[i].approval = "pending"
    BY <1>0, <2>2 DEF Requested, Decided, Snapshot
  <2>4. \A j \in DOMAIN log : log[j].rec = snap[c].rec => log[j].approval # "auto_approved"
    BY <1>b, <2>3
  <2> QED BY <1>0, <1>2, <2>1, <2>3, <2>4 DEF HoldsDecision
<1>3. CASE pc[c] = "append_executed"
  <2>1. HoldsResult(c)
    BY <1>3 DEF CallInv
  <2>2. PICK i \in DOMAIN log : log[i] = Decided(snap[c])
    BY <2>1 DEF HoldsResult, Logged
  <2>3. /\ log[i].rec = snap[c].rec /\ log[i].approval = snap[c].approval
        /\ log[i].type = snap[c].type /\ log[i].by = snap[c].by
    BY <1>0, <2>2 DEF Decided, Snapshot
  <2>4. \A j \in DOMAIN log : log[j].rec = snap[c].rec =>
          (log[j].approval = "auto_approved" <=> snap[c].approval = "auto_approved")
    BY <1>b, <2>3
  <2>5. snap[c].approval = "approved" => Logged(Requested(snap[c]))
    <3> SUFFICES ASSUME snap[c].approval = "approved" PROVE Logged(Requested(snap[c]))
      OBVIOUS
    <3>1. PICK j \in 1..(i - 1) : log[j] = Requested(log[i])
      BY <2>3 DEF LogInv, AuditTrail
    <3>2. j \in DOMAIN log
      BY DEF TypeOK
    <3>3. Requested(log[i]) = Requested(snap[c])
      BY <1>0, <2>2 DEF Requested, Decided, Snapshot
    <3> QED BY <3>1, <3>2, <3>3 DEF Logged
  <2>6. /\ snap[c].approval = "auto_approved" => snap[c].type \notin PRIVILEGED_ACTIONS
        /\ snap[c].approval = "approved" => snap[c].by \in Subjects
    BY <2>3 DEF LogInv
  <2> QED BY <1>0, <1>3, <2>1, <2>3, <2>4, <2>5, <2>6 DEF HoldsResult
<1> QED BY <1>1, <1>2, <1>3

\* A step that does not touch the table keeps its invariant.
LEMMA LogKept ==
    ASSUME LogInv, log' = log, issued \subseteq issued'
    PROVE  LogInv'
<1>1. AuditTrail'
  BY DEF LogInv, AuditTrail, Decided, Requested
<1>2. StartsOnce'
  BY DEF LogInv, StartsOnce
<1> QED BY <1>1, <1>2 DEF LogInv

\* Appending it keeps the table's invariant.
LEMMA LogStep ==
    ASSUME TypeOK, LogInv, NEW c \in Calls, CallInv(c), pc[c] \in Appending,
           log' = Append(log, snap[c]), issued' = issued
    PROVE  LogInv'
<1> DEFINE n == Len(log) + 1
<1>0. /\ snap[c] \in Snapshot
      /\ DOMAIN log = 1..Len(log) /\ Len(log) \in Nat
      /\ DOMAIN log' = 1..n
      /\ \A k \in DOMAIN log : log'[k] = log[k]
      /\ log'[n] = snap[c]
  BY AppendableFits, AppendFacts DEF TypeOK
<1>1. AuditTrail'
  <2> SUFFICES ASSUME NEW k \in 1..n
               PROVE  /\ log'[k].exec # "not_executed" =>
                           \E j \in 1..(k - 1) :
                              /\ log'[j] = Decided(log'[k])
                              /\ log'[j].approval \in {"approved", "auto_approved"}
                      /\ log'[k].approval \in {"approved", "rejected"} =>
                           \E j \in 1..(k - 1) : log'[j] = Requested(log'[k])
    BY <1>0 DEF AuditTrail, Decided, Requested
  <2>1. CASE k \in DOMAIN log
    <3>1. \A j \in 1..(k - 1) : j \in DOMAIN log /\ log'[j] = log[j]
      BY <1>0, <2>1
    <3> QED BY <1>0, <2>1, <3>1 DEF LogInv, AuditTrail
  <2>2. CASE k = n
    <3>1. 1..(k - 1) = DOMAIN log
      BY <1>0, <2>2
    <3>2. log'[k].exec # "not_executed" =>
            \E j \in DOMAIN log :
               /\ log[j] = Decided(snap[c])
               /\ log[j].approval \in {"approved", "auto_approved"}
      BY <1>0, <2>2, AppendableFits DEF Logged, Decided, Snapshot
    <3>3. log'[k].approval \in {"approved", "rejected"} =>
            \E j \in DOMAIN log : log[j] = Requested(snap[c])
      BY <1>0, <2>2, AppendableFits DEF Logged
    <3> QED BY <1>0, <2>2, <3>1, <3>2, <3>3
  <2> QED BY <1>0, <2>1, <2>2
<1>2. StartsOnce'
  <2> SUFFICES ASSUME NEW j \in 1..n, NEW k \in 1..n, j < k, log'[j].rec = log'[k].rec
               PROVE  /\ log'[k].approval # "pending"
                      /\ log'[j].approval = "auto_approved" <=> log'[k].approval = "auto_approved"
                      /\ log'[k].approval = "auto_approved" => log'[k].exec # "not_executed"
    BY <1>0 DEF StartsOnce
  <2>0. j \in DOMAIN log
    BY <1>0
  <2>1. CASE k \in DOMAIN log
    BY <1>0, <2>0, <2>1 DEF LogInv, StartsOnce
  <2>2. CASE k = n
    BY <1>0, <2>0, <2>2, AppendableFits
  <2> QED BY <1>0, <2>1, <2>2
<1>3. ASSUME NEW k \in 1..n
      PROVE  /\ log'[k].rec \in issued
             /\ log'[k].approval = "auto_approved" => log'[k].type \notin PRIVILEGED_ACTIONS
             /\ log'[k].approval = "approved" => log'[k].by \in Subjects
             /\ log'[k].approval = "pending" => log'[k].by = Nobody
  <2>1. CASE k \in DOMAIN log
    BY <1>0, <2>1 DEF LogInv
  <2>2. CASE k = n
    BY <1>0, <2>2, AppendableFits
  <2> QED BY <1>0, <2>1, <2>2
<1> QED BY <1>0, <1>1, <1>2, <1>3 DEF LogInv

\* A request in flight keeps its record to itself: nobody else appends one.
LEMMA RequestUndisturbed ==
    ASSUME TypeOK, LogInv, NEW c \in Calls, NEW d \in Calls, c # d,
           CallInv(c), CallInv(d), pc[c] \in Appending, pc[d] = "append_request",
           log' = log \/ log' = Append(log, snap[c])
    PROVE  \A k \in DOMAIN log' : log'[k].rec # snap[d].rec
<1>1. HoldsRequest(d)
  BY DEF CallInv
<1>2. snap[c].rec # snap[d].rec
  BY <1>1, AppendableFits DEF HoldsRequest
<1>3. snap[c] \in Snapshot
  BY AppendableFits
<1> QED BY <1>1, <1>2, <1>3, AppendFacts DEF HoldsRequest, TypeOK

\* Past handler invocations stay justified while the table grows.
LEMMA GateKept ==
    ASSUME TypeOK, RunInv, Grows, runs' = runs
    PROVE  (\A h \in runs : h.at <= Len(log))' /\ ApprovalGate'
<1>0. Len(log) \in Nat /\ Len(log') \in Nat /\ \A h \in runs : h.at \in Nat
  BY DEF TypeOK, Grows, Run
<1>1. \A h \in runs : h.at <= Len(log')
  BY <1>0 DEF RunInv, Grows
<1>2. ASSUME NEW h \in runs
      PROVE  \E k \in 1..h.at :
               log'[k].rec = h.rec /\ (HumanGate(h, k)' \/ AutomaticGate(h, k)')
  <2>1. PICK k \in 1..h.at : log[k].rec = h.rec /\ (HumanGate(h, k) \/ AutomaticGate(h, k))
    BY <1>2 DEF RunInv, ApprovalGate
  <2>2. \A i \in 1..h.at : log'[i] = log[i]
    BY <1>0, <1>2 DEF RunInv, Grows
  <2>3. CASE HumanGate(h, k)
    <3>1. PICK j \in 1..(k - 1) : log[j].rec = h.rec /\ log[j].approval = "pending"
      BY <2>3 DEF HumanGate
    <3>2. j \in 1..h.at
      BY <1>0, <1>2
    <3> QED BY <2>1, <2>2, <2>3, <3>1, <3>2 DEF HumanGate
  <2>4. CASE AutomaticGate(h, k)
    BY <2>1, <2>2, <2>4 DEF AutomaticGate
  <2> QED BY <2>1, <2>3, <2>4
<1> QED BY <1>1, <1>2 DEF ApprovalGate

\* Audited invocations stay audited while the table and the faults grow.
Audited(h) ==
    \E k \in DOMAIN log : /\ k > h.at
                          /\ log[k].rec = h.rec
                          /\ log[k].by = h.by
                          /\ log[k].exec = h.exec

AwaitsAudit(h) ==
    /\ pc[h.call] = "append_executed"
    /\ snap[h.call].rec = h.rec
    /\ snap[h.call].by = h.by
    /\ snap[h.call].exec = h.exec

\* A run that has its audit row keeps it: the table only grows.
LEMMA AuditedStays ==
    ASSUME Grows, NEW h, Audited(h)
    PROVE  Audited(h)'
<1>1. /\ DOMAIN log = 1..Len(log) /\ DOMAIN log' = 1..Len(log')
      /\ Len(log) \in Nat /\ Len(log') \in Nat
  BY DEF Grows
<1> QED BY <1>1 DEF Audited, Grows

\* A step that runs no handler keeps every run audited, awaiting its row, or faulted.
LEMMA AuditKept ==
    ASSUME RunInv, Grows, runs' = runs, faulted \subseteq faulted',
           \A h \in runs : AwaitsAudit(h) =>
              AwaitsAudit(h)' \/ Audited(h)' \/ h.rec \in faulted'
    PROVE  UnauditedOnlyByFault'
<1>1. ASSUME NEW h \in runs
      PROVE  h.rec \in faulted' \/ AwaitsAudit(h)' \/ Audited(h)'
  <2>1. h.rec \in faulted \/ AwaitsAudit(h) \/ Audited(h)
    BY DEF RunInv, UnauditedOnlyByFault, AwaitsAudit, Audited
  <2> QED BY <2>1, AuditedStays
<1> QED BY <1>1 DEF UnauditedOnlyByFault, AwaitsAudit, Audited

\* A step that broadcasts nothing leaves the boards showing committed rows.
LEMMA BoardKept ==
    ASSUME BroadcastsAreCommitted, Grows, board' = board
    PROVE  BroadcastsAreCommitted'
<1>1. ASSUME NEW r \in Records, board[r] # NoSnapshot
      PROVE  \E k \in DOMAIN log' : log'[k] = board[r]
  BY <1>1, LoggedStays DEF BroadcastsAreCommitted, Logged
<1> QED BY <1>1 DEF BroadcastsAreCommitted
-----------------------------------------------------------------------------
\* A step that only ends calls (crash, exception, reply): calls that stay where
\* they were keep their invariant, idle ones have none.
LEMMA IdleCall ==
    ASSUME NEW d \in Calls, pc'[d] = "idle"
    PROVE  CallInv(d)'
  BY DEF CallInv, Active

\* Every step keeps the inductive invariant.
LEMMA InvStep == IInv /\ [Next]_vars => IInv'
<1> SUFFICES ASSUME IInv, [Next]_vars PROVE IInv'
  OBVIOUS
<1>t. TypeOK /\ TypeOK'
  BY TypeStep DEF IInv
<1>i. /\ \A c \in Calls : CallInv(c)
      /\ LogInv /\ RunInv /\ BroadcastsAreCommitted
  BY DEF IInv
<1>s. /\ log \in Seq(Snapshot) /\ log' \in Seq(Snapshot)
      /\ pc \in [Calls -> Active \cup {"idle"}]
      /\ \A h \in runs : h.call \in Calls /\ h.rec \in Records
  BY <1>t DEF TypeOK, Run
<1>g. log' = log => Grows
  BY <1>s DEF Grows
<1>1. ASSUME NEW c \in Calls, NEW r \in Records, NEW t \in Requestable,
             NEW req \in BOOLEAN, NEW tgt \in BOOLEAN,
             RequestAction(c, r, t, req, tgt)
      PROVE  IInv'
  <2> USE <1>1
  <2>0. /\ pc[c] = "idle" /\ r \notin issued /\ issued' = issued \cup {r}
        /\ UNCHANGED <<log, runs, faulted, board>>
        /\ pc' = [pc EXCEPT ![c] = "append_request"]
        /\ \A d \in Calls \ {c} : snap'[d] = snap[d]
        /\ snap'[c] = [rec |-> r, type |-> t, target |-> tgt,
                       approval |-> IF NeedsApproval(t, req)
                                    THEN "pending" ELSE "auto_approved",
                       by |-> Nobody, exec |-> "not_executed"]
    BY <1>t DEF RequestAction, Hold, Move, TypeOK
  <2>1. Grows
    BY <1>g, <2>0
  <2>2. \A k \in DOMAIN log : log[k].rec # r
    BY <1>i, <2>0 DEF LogInv
  <2>3. \A d \in Calls \ {c} : pc[d] \in Active => snap[d].rec # r
    BY <1>i, <2>0 DEF CallInv
  <2>4. CallInv(c)'
    <3>1. HoldsRequest(c)'
      BY <1>s, <2>0, <2>2, <2>3 DEF HoldsRequest, NeedsApproval, Active
    <3> QED BY <1>s, <2>0, <3>1 DEF CallInv
  <2>5. ASSUME NEW d \in Calls \ {c} PROVE CallInv(d)'
    <3>1. pc'[d] = pc[d] /\ snap'[d] = snap[d]
      BY <1>s, <2>0
    <3>2. pc[d] = "append_request" =>
             /\ \A k \in DOMAIN log' : log'[k].rec # snap[d].rec
             /\ \A e \in Calls \ {d} :
                  pc'[e] = "append_request" => snap'[e].rec # snap[d].rec
      <4> SUFFICES ASSUME pc[d] = "append_request"
                   PROVE  /\ \A k \in DOMAIN log' : log'[k].rec # snap[d].rec
                          /\ \A e \in Calls \ {d} :
                               pc'[e] = "append_request" => snap'[e].rec # snap[d].rec
        OBVIOUS
      <4>1. HoldsRequest(d)
        BY <1>i DEF CallInv
      <4>2. snap'[c].rec = r /\ snap[d].rec # r
        BY <2>0, <2>3 DEF Active
      <4> QED BY <1>s, <2>0, <4>1, <4>2 DEF HoldsRequest
    <3> QED BY <1>i, <2>0, <2>1, <3>1, <3>2, CallKept
  <2>6. LogInv'
    BY <1>i, <2>0, LogKept
  <2>7. UnauditedOnlyByFault'
    <3>1. \A h \in runs : AwaitsAudit(h) => AwaitsAudit(h)'
      BY <1>s, <2>0 DEF AwaitsAudit
    <3> QED BY <1>i, <2>0, <2>1, <3>1, AuditKept
  <2>8. RunInv'
    BY <1>t, <1>i, <2>0, <2>1, <2>7, GateKept DEF RunInv
  <2>9. BroadcastsAreCommitted'
    BY <1>i, <2>0, <2>1, BoardKept
  <2> QED BY <1>t, <2>4, <2>5, <2>6, <2>8, <2>9 DEF IInv
<1>2. ASSUME NEW c \in Calls, NEW r \in Records, NEW p \in Subjects,
             NEW a \in {"approved", "rejected"}, LoadPending(c, r, a, p)
      PROVE  IInv'
  <2> USE <1>2
  <2>0. /\ pc[c] = "idle"
        /\ UNCHANGED <<log, issued, runs, faulted, board>>
        /\ pc' = [pc EXCEPT ![c] = "append_decision"]
        /\ \A d \in Calls \ {c} : snap'[d] = snap[d]
    BY <1>t DEF LoadPending, Hold, Move, TypeOK
  <2>1. PICK i \in DOMAIN log :
          /\ Pending(i, r)
          /\ snap'[c] = [log[i] EXCEPT !.approval = a, !.by = p]
    BY <1>t DEF LoadPending, Hold, TypeOK
  <2>2. Grows
    BY <1>g, <2>0
  <2>3. log[i] \in Snapshot /\ log[i].rec \in issued /\ log[i].approval = "pending"
    BY <1>t, <1>i, <2>1 DEF TypeOK, Pending, LogInv
  <2>4. log[i].exec = "not_executed" /\ log[i].by = Nobody
    <3>1. log[i].exec = "not_executed"
      BY <1>i, <2>3 DEF LogInv, AuditTrail, Decided, Snapshot
    <3> QED BY <1>i, <2>3, <3>1 DEF LogInv
  <2>5. CallInv(c)'
    <3>1. Requested(snap'[c]) = log[i]
      BY <2>1, <2>3, <2>4 DEF Requested, Decided, Snapshot
    <3>2. HoldsDecision(c)'
      BY <2>0, <2>1, <2>3, <2>4, <3>1 DEF HoldsDecision, Logged, Requested, Decided, Snapshot
    <3>3. snap'[c].rec \in issued'
      BY <2>0, <2>1, <2>3 DEF Snapshot
    <3> QED BY <1>s, <2>0, <3>2, <3>3 DEF CallInv
  <2>6. ASSUME NEW d \in Calls \ {c} PROVE CallInv(d)'
    <3>1. pc'[d] = pc[d] /\ snap'[d] = snap[d] /\ CallInv(d)
      BY <1>s, <1>i, <2>0
    <3>2. pc[d] = "append_request" =>
             /\ \A k \in DOMAIN log' : log'[k].rec # snap[d].rec
             /\ \A e \in Calls \ {d} :
                  pc'[e] = "append_request" => snap'[e].rec # snap[d].rec
      BY <1>s, <2>0, <3>1 DEF CallInv, HoldsRequest
    <3> QED BY <2>0, <2>2, <3>1, <3>2, CallKept
  <2>7. LogInv'
    BY <1>i, <2>0, LogKept
  <2>8. UnauditedOnlyByFault'
    <3>1. \A h \in runs : AwaitsAudit(h) => AwaitsAudit(h)'
      BY <1>s, <2>0 DEF AwaitsAudit
    <3> QED BY <1>i, <2>0, <2>2, <3>1, AuditKept
  <2>9. RunInv'
    BY <1>t, <1>i, <2>0, <2>2, <2>8, GateKept DEF RunInv
  <2>10. BroadcastsAreCommitted'
    BY <1>i, <2>0, <2>2, BoardKept
  <2> QED BY <1>t, <2>5, <2>6, <2>7, <2>9, <2>10 DEF IInv
<1>3. ASSUME NEW c \in Calls, pc[c] \in Appending,
             log' = log \/ log' = Append(log, snap[c]),
             UNCHANGED <<issued, runs, board>>, faulted \subseteq faulted',
             \A d \in Calls \ {c} : pc'[d] = pc[d] /\ snap'[d] = snap[d],
             pc'[c] # "append_request", CallInv(c)',
             \A h \in runs : h.call = c /\ AwaitsAudit(h) =>
                Audited(h)' \/ h.rec \in faulted'
      PROVE  IInv'
  <2> USE <1>3
  <2>0. snap[c] \in Snapshot
    BY <1>t, <1>i, AppendableFits
  <2>1. Grows
    BY <1>s, <2>0, GrowsByAppend
  <2>2. ASSUME NEW d \in Calls \ {c} PROVE CallInv(d)'
    <3>1. CallInv(d) /\ CallInv(c)
      BY <1>i
    <3>2. pc[d] = "append_request" =>
             /\ \A k \in DOMAIN log' : log'[k].rec # snap[d].rec
             /\ \A e \in Calls \ {d} :
                  pc'[e] = "append_request" => snap'[e].rec # snap[d].rec
      <4>1. pc[d] = "append_request" => \A k \in DOMAIN log' : log'[k].rec # snap[d].rec
        BY <1>t, <1>i, <3>1, RequestUndisturbed
      <4>2. pc[d] = "append_request" =>
              \A e \in Calls \ {d} :
                  pc'[e] = "append_request" => snap'[e].rec # snap[d].rec
        BY <3>1 DEF CallInv, HoldsRequest
      <4> QED BY <4>1, <4>2
    <3> QED BY <2>1, <3>1, <3>2, CallKept
  <2>3. LogInv'
    <3>1. CASE log' = log
      BY <1>i, <3>1, LogKept
    <3>2. CASE log' = Append(log, snap[c])
      BY <1>t, <1>i, <3>2, LogStep
    <3> QED BY <3>1, <3>2
  <2>4. UnauditedOnlyByFault'
    <3>1. ASSUME NEW h \in runs, AwaitsAudit(h)
          PROVE  AwaitsAudit(h)' \/ Audited(h)' \/ h.rec \in faulted'
      <4>1. CASE h.call = c
        BY <3>1, <4>1
      <4>2. CASE h.call # c
        BY <1>s, <3>1, <4>2 DEF AwaitsAudit
      <4> QED BY <4>1, <4>2
    <3> QED BY <1>i, <2>1, <3>1, AuditKept
  <2>5. RunInv'
    BY <1>t, <1>i, <2>1, <2>4, GateKept DEF RunInv
  <2>6. BroadcastsAreCommitted'
    BY <1>i, <2>1, BoardKept
  <2> QED BY <1>t, <2>2, <2>3, <2>5, <2>6 DEF IInv
<1>a. ASSUME NEW c \in Calls, log' = Append(log, snap[c]), snap[c] \in Snapshot
      PROVE  \E k \in DOMAIN log' : k = Len(log) + 1 /\ log'[k] = snap[c]
  BY <1>s, <1>a, AppendFacts
<1>4. ASSUME NEW c \in Calls, AppendRequest(c) PROVE IInv'
  <2> USE <1>4
  <2>0. /\ pc[c] = "append_request" /\ log' = Append(log, snap[c])
        /\ pc' = [pc EXCEPT ![c] = IF snap[c].approval = "pending"
                                   THEN "broadcast" ELSE "execute"]
        /\ UNCHANGED <<issued, snap, runs, faulted, board>>
    BY DEF AppendRequest, Move
  <2>1. CallInv(c) /\ HoldsRequest(c) /\ snap[c] \in Snapshot
    BY <1>t, <1>i, <2>0 DEF CallInv, TypeOK, Active
  <2>2. CallInv(c)'
    <3>1. Logged(snap[c])'
      BY <1>a, <2>0, <2>1 DEF Logged
    <3>2. pc'[c] = "execute" => HoldsApproved(c)'
      BY <1>s, <2>0, <2>1, <3>1 DEF HoldsApproved, HoldsRequest
    <3> QED BY <1>s, <2>0, <2>1, <3>1, <3>2 DEF CallInv, Active
  <2>3. \A h \in runs : h.call = c => ~AwaitsAudit(h)
    BY <2>0 DEF AwaitsAudit
  <2> QED BY <1>3, <1>s, <2>0, <2>2, <2>3 DEF Appending
<1>5. ASSUME NEW c \in Calls, AppendDecision(c) PROVE IInv'
  <2> USE <1>5
  <2>0. /\ pc[c] = "append_decision" /\ log' = Append(log, snap[c])
        /\ pc' = [pc EXCEPT ![c] = IF snap[c].approval = "approved"
                                   THEN "execute" ELSE "broadcast"]
        /\ UNCHANGED <<issued, snap, runs, faulted, board>>
    BY DEF AppendDecision, Move
  <2>1. CallInv(c) /\ HoldsDecision(c) /\ snap[c] \in Snapshot
    BY <1>t, <1>i, <2>0 DEF CallInv, TypeOK, Active
  <2>2. CallInv(c)'
    <3>1. Logged(snap[c])'
      BY <1>a, <2>0, <2>1 DEF Logged
    <3>2. pc'[c] = "execute" => HoldsApproved(c)'
      BY <1>s, <2>0, <2>1, <3>1 DEF HoldsApproved, HoldsDecision
    <3> QED BY <1>s, <2>0, <2>1, <3>1, <3>2 DEF CallInv, Active
  <2>3. \A h \in runs : h.call = c => ~AwaitsAudit(h)
    BY <2>0 DEF AwaitsAudit
  <2> QED BY <1>3, <1>s, <2>0, <2>2, <2>3 DEF Appending
<1>6. ASSUME NEW c \in Calls, AppendExecuted(c) PROVE IInv'
  <2> USE <1>6
  <2>0. /\ pc[c] = "append_executed" /\ log' = Append(log, snap[c])
        /\ pc' = [pc EXCEPT ![c] = "broadcast"]
        /\ UNCHANGED <<issued, snap, runs, faulted, board>>
    BY DEF AppendExecuted, Move
  <2>1. CallInv(c) /\ snap[c] \in Snapshot
    BY <1>t, <1>i, <2>0 DEF TypeOK, Active
  <2>2. CallInv(c)'
    <3>1. Logged(snap[c])'
      BY <1>a, <2>0, <2>1 DEF Logged
    <3> QED BY <1>s, <2>0, <2>1, <3>1 DEF CallInv, Active
  <2>3. ASSUME NEW h \in runs, h.call = c, AwaitsAudit(h)
        PROVE  Audited(h)'
    <3>1. h.at \in Nat /\ h.at <= Len(log) /\ Len(log) \in Nat
      BY <1>t, <1>i DEF TypeOK, Run, RunInv
    <3>2. PICK k \in DOMAIN log' : k = Len(log) + 1 /\ log'[k] = snap[c]
      BY <1>a, <2>0, <2>1
    <3>3. k > h.at
      BY <3>1, <3>2
    <3> QED BY <2>3, <3>2, <3>3 DEF Audited, AwaitsAudit
  <2> QED BY <1>3, <1>s, <2>0, <2>2, <2>3 DEF Appending
<1>7. ASSUME NEW c \in Calls, StoreRaises(c) PROVE IInv'
  <2> USE <1>7
  <2>0. /\ pc[c] \in Appending
        /\ log' = log \/ log' = Append(log, snap[c])
        /\ pc' = [pc EXCEPT ![c] = "idle"]
        /\ snap' = [snap EXCEPT ![c] = NoSnapshot]
        /\ faulted' = faulted \cup {snap[c].rec}
        /\ UNCHANGED <<issued, runs, board>>
    BY DEF StoreRaises, Lose, Move, Hold
  <2>1. CallInv(c)'
    BY <1>s, <2>0, IdleCall
  <2>2. \A h \in runs : h.call = c /\ AwaitsAudit(h) => h.rec \in faulted'
    BY <2>0 DEF AwaitsAudit
  <2>3. \A d \in Calls \ {c} : pc'[d] = pc[d] /\ snap'[d] = snap[d]
    BY <1>t, <2>0 DEF TypeOK
  <2>4. pc'[c] # "append_request" /\ faulted \subseteq faulted'
    BY <1>s, <2>0
  <2> QED BY <1>3, <2>0, <2>1, <2>2, <2>3, <2>4
<1>8. ASSUME NEW c \in Calls, Execute(c) PROVE IInv'
  <2> USE <1>8
  <2>0. /\ pc[c] = "execute"
        /\ pc' = [pc EXCEPT ![c] = "append_executed"]
        /\ UNCHANGED <<log, issued, faulted, board>>
        /\ \A d \in Calls \ {c} : pc'[d] = pc[d] /\ snap'[d] = snap[d]
    BY <1>t DEF Execute, Hold, Move, TypeOK
  <2>1. PICK o \in HandlerOutcomes(snap[c]) :
          /\ snap'[c] = [snap[c] EXCEPT !.exec = o.exec]
          /\ runs' = runs \cup
               {[call |-> c, rec |-> snap[c].rec, type |-> snap[c].type,
                 by |-> snap[c].by, at |-> Len(log), exec |-> o.exec,
                 effect |-> o.effect]}
    BY <1>t DEF Execute, Hold, TypeOK
  <2> DEFINE n == [call |-> c, rec |-> snap[c].rec, type |-> snap[c].type,
                   by |-> snap[c].by, at |-> Len(log), exec |-> o.exec,
                   effect |-> o.effect]
  <2>2. CallInv(c) /\ HoldsApproved(c) /\ snap[c] \in Snapshot
    BY <1>t, <1>i, <2>0 DEF CallInv, TypeOK, Active
  <2>3. o.exec # "not_executed" /\ o.exec \in ExecutionStatus
    BY OutcomeType
  <2>4. Grows
    BY <1>g, <2>0
  <2>5. CallInv(c)'
    <3>1. Decided(snap'[c]) = snap[c]
      BY <2>1, <2>2 DEF Decided, Snapshot, HoldsApproved
    <3>2. HoldsResult(c)'
      BY <2>0, <2>1, <2>2, <2>3, <3>1 DEF HoldsResult, HoldsApproved, Logged, Decided, Snapshot
    <3>3. snap'[c].rec \in issued'
      BY <2>0, <2>1, <2>2 DEF CallInv, Active, Snapshot
    <3> QED BY <1>s, <2>0, <3>2, <3>3 DEF CallInv
  <2>6. ASSUME NEW d \in Calls \ {c} PROVE CallInv(d)'
    <3>1. CallInv(d) /\ pc'[c] # "append_request"
      BY <1>i, <1>s, <2>0
    <3>2. pc[d] = "append_request" =>
             /\ \A k \in DOMAIN log' : log'[k].rec # snap[d].rec
             /\ \A e \in Calls \ {d} :
                  pc'[e] = "append_request" => snap'[e].rec # snap[d].rec
      BY <2>0, <3>1 DEF CallInv, HoldsRequest
    <3> QED BY <2>0, <2>4, <3>1, <3>2, CallKept
  <2>7. LogInv'
    BY <1>i, <2>0, LogKept
  <2>8. PICK k \in DOMAIN log : log[k] = snap[c]
    BY <2>2 DEF HoldsApproved, Logged
  <2>9. /\ DOMAIN log = 1..Len(log) /\ Len(log) \in Nat
        /\ n.rec = snap[c].rec /\ n.type = snap[c].type /\ n.by = snap[c].by
        /\ n.at = Len(log) /\ n.exec = o.exec /\ n.call = c
    BY <1>s
  <2> HIDE DEF n
  <2>10. HumanGate(n, k) \/ AutomaticGate(n, k)
    <3>1. CASE log[k].approval = "approved"
      <4>1. n.by \in Subjects
        BY <1>i, <2>8, <2>9, <3>1 DEF LogInv
      <4>2. PICK j \in 1..(k - 1) : log[j] = Requested(log[k])
        BY <1>i, <3>1 DEF LogInv, AuditTrail
      <4>3. log[j].rec = n.rec /\ log[j].approval = "pending"
        BY <2>2, <2>8, <2>9, <4>2 DEF Requested, Decided, Snapshot
      <4> QED BY <2>8, <2>9, <3>1, <4>1, <4>3 DEF HumanGate
    <3>2. CASE log[k].approval = "auto_approved"
      <4>1. n.type \notin PRIVILEGED_ACTIONS
        BY <1>i, <2>8, <2>9, <3>2 DEF LogInv
      <4>2. ASSUME NEW j \in 1..n.at, log[j].rec = n.rec PROVE log[j].approval # "pending"
        <5>1. j \in DOMAIN log /\ k \in DOMAIN log /\ log[j].rec = log[k].rec /\ j \in Nat /\ k \in Nat
          BY <2>8, <2>9, <4>2
        <5>2. CASE j = k
          BY <3>2, <5>2
        <5>3. CASE j < k
          BY <1>i, <3>2, <5>1, <5>3 DEF LogInv, StartsOnce
        <5>4. CASE k < j
          BY <1>i, <5>1, <5>4 DEF LogInv, StartsOnce
        <5> QED BY <5>1, <5>2, <5>3, <5>4
      <4> QED BY <3>2, <4>1, <4>2 DEF AutomaticGate
    <3> QED BY <2>2, <2>8, <3>1, <3>2 DEF HoldsApproved
  <2>11. ApprovalGate'
    <3>1. ASSUME NEW h \in runs'
          PROVE  \E i \in 1..h.at :
                   log[i].rec = h.rec /\ (HumanGate(h, i) \/ AutomaticGate(h, i))
      <4>1. CASE h \in runs
        BY <1>i, <4>1 DEF RunInv, ApprovalGate
      <4>2. CASE h = n
        BY <2>8, <2>9, <2>10, <4>2
      <4> QED BY <2>1, <4>1, <4>2 DEF n
    <3> QED BY <2>0, <3>1 DEF ApprovalGate, HumanGate, AutomaticGate
  <2>12. \A h \in runs' : h.at <= Len(log')
    BY <1>i, <2>0, <2>1, <2>9 DEF RunInv, n
  <2>13. UnauditedOnlyByFault'
    <3>1. ASSUME NEW h \in runs'
          PROVE  h.rec \in faulted' \/ AwaitsAudit(h)' \/ Audited(h)'
      <4>1. CASE h \in runs
        <5>1. h.rec \in faulted \/ AwaitsAudit(h) \/ Audited(h)
          BY <1>i, <4>1 DEF RunInv, UnauditedOnlyByFault, AwaitsAudit, Audited
        <5>2. AwaitsAudit(h) => AwaitsAudit(h)'
          BY <1>s, <2>0, <4>1 DEF AwaitsAudit
        <5> QED BY <2>0, <2>4, <5>1, <5>2, AuditedStays
      <4>2. CASE h = n
        <5>1. pc'[c] = "append_executed"
          BY <1>s, <2>0
        <5>2. snap'[c].rec = n.rec /\ snap'[c].by = n.by /\ snap'[c].exec = n.exec
          BY <2>1, <2>2, <2>9 DEF Snapshot
        <5> QED BY <2>9, <4>2, <5>1, <5>2 DEF AwaitsAudit
      <4> QED BY <2>1, <4>1, <4>2 DEF n
    <3> QED BY <3>1 DEF UnauditedOnlyByFault, AwaitsAudit, Audited
  <2>14. BroadcastsAreCommitted'
    BY <1>i, <2>0, <2>4, BoardKept
  <2> QED BY <1>t, <2>5, <2>6, <2>7, <2>11, <2>12, <2>13, <2>14 DEF IInv, RunInv
<1>9. ASSUME NEW E \in SUBSET Calls, log' = log, UNCHANGED <<issued, runs>>,
             faulted \subseteq faulted', BroadcastsAreCommitted',
             \A d \in E : pc'[d] = "idle" /\ pc[d] \in Active \cup {"idle"},
             \A d \in Calls \ E : pc'[d] = pc[d] /\ snap'[d] = snap[d],
             \A d \in E : pc[d] = "append_executed" => snap[d].rec \in faulted'
      PROVE  IInv'
  <2> USE <1>9
  <2>1. Grows
    BY <1>g
  <2>2. ASSUME NEW d \in Calls PROVE CallInv(d)'
    <3>1. CASE d \in E
      BY <3>1, IdleCall
    <3>2. CASE d \notin E
      <4>1. CallInv(d)
        BY <1>i
      <4>2. pc[d] = "append_request" =>
             /\ \A k \in DOMAIN log' : log'[k].rec # snap[d].rec
             /\ \A e \in Calls \ {d} :
                  pc'[e] = "append_request" => snap'[e].rec # snap[d].rec
        BY <4>1 DEF CallInv, HoldsRequest
      <4> QED BY <2>1, <3>2, <4>1, <4>2, CallKept
    <3> QED BY <3>1, <3>2
  <2>3. LogInv'
    BY <1>i, LogKept
  <2>4. UnauditedOnlyByFault'
    <3>1. ASSUME NEW h \in runs, AwaitsAudit(h)
          PROVE  AwaitsAudit(h)' \/ h.rec \in faulted'
      BY <1>s, <3>1 DEF AwaitsAudit
    <3> QED BY <1>i, <2>1, <3>1, AuditKept
  <2>5. RunInv'
    BY <1>t, <1>i, <2>1, <2>4, GateKept DEF RunInv
  <2> QED BY <1>t, <2>2, <2>3, <2>5 DEF IInv
<1>10. ASSUME NEW c \in Calls, Broadcast(c) PROVE IInv'
  <2> USE <1>10
  <2>0. /\ pc[c] = "broadcast" /\ pc' = [pc EXCEPT ![c] = "idle"]
        /\ snap' = [snap EXCEPT ![c] = NoSnapshot]
        /\ board' = [board EXCEPT ![snap[c].rec] = snap[c]]
        /\ UNCHANGED <<log, issued, runs, faulted>>
    BY DEF Broadcast, Move, Hold
  <2>1. BroadcastsAreCommitted'
    <3>1. Logged(snap[c])
      BY <1>i, <2>0 DEF CallInv
    <3>2. ASSUME NEW r \in Records, board'[r] # NoSnapshot
          PROVE  \E k \in DOMAIN log : log[k] = board'[r]
      <4>1. CASE r = snap[c].rec
        BY <1>t, <2>0, <3>1, <4>1 DEF Logged, TypeOK
      <4>2. CASE r # snap[c].rec
        BY <1>t, <1>i, <2>0, <3>2, <4>2 DEF BroadcastsAreCommitted, TypeOK
      <4> QED BY <4>1, <4>2
    <3> QED BY <2>0, <3>2 DEF BroadcastsAreCommitted
  <2>2. /\ pc'[c] = "idle" /\ pc[c] # "append_executed"
        /\ \A d \in Calls \ {c} : pc'[d] = pc[d] /\ snap'[d] = snap[d]
    BY <1>t, <2>0 DEF TypeOK
  <2>3. {c} \in SUBSET Calls /\ pc[c] \in Active \cup {"idle"}
    BY <1>s
  <2> QED BY <1>9, <2>0, <2>1, <2>2, <2>3
<1>11. ASSUME NEW c \in Calls, HandlerRaises(c) PROVE IInv'
  <2> USE <1>11
  <2>0. /\ pc[c] = "execute" /\ pc' = [pc EXCEPT ![c] = "idle"]
        /\ snap' = [snap EXCEPT ![c] = NoSnapshot]
        /\ faulted \subseteq faulted'
        /\ UNCHANGED <<log, issued, runs, board>>
    BY DEF HandlerRaises, Lose, Move, Hold
  <2>1. BroadcastsAreCommitted'
    BY <1>i, <1>g, <2>0, BoardKept
  <2>2. /\ pc'[c] = "idle" /\ pc[c] # "append_executed"
        /\ \A d \in Calls \ {c} : pc'[d] = pc[d] /\ snap'[d] = snap[d]
    BY <1>t, <2>0 DEF TypeOK
  <2>3. {c} \in SUBSET Calls /\ pc[c] \in Active \cup {"idle"}
    BY <1>s
  <2> QED BY <1>9, <2>0, <2>1, <2>2, <2>3
<1>12. ASSUME Crash PROVE IInv'
  <2> USE <1>12
  <2>0. /\ \A d \in Calls : pc'[d] = "idle" /\ pc[d] \in Active \cup {"idle"}
        /\ faulted \subseteq faulted'
        /\ \A d \in Calls : pc[d] \in Active => snap[d].rec \in faulted'
        /\ UNCHANGED <<log, issued, runs, board>>
    BY <1>s DEF Crash
  <2>1. BroadcastsAreCommitted'
    BY <1>i, <1>g, <2>0, BoardKept
  <2>2. \A d \in Calls : pc[d] = "append_executed" => snap[d].rec \in faulted'
    BY <2>0 DEF Active
  <2> QED BY <1>9, <2>0, <2>1, <2>2
<1>13. ASSUME UNCHANGED vars PROVE IInv'
  <2>1. UNCHANGED <<log, issued, pc, snap, runs, faulted, board>>
    BY <1>13 DEF vars
  <2>2. BroadcastsAreCommitted'
    BY <1>i, <1>g, <2>1, BoardKept
  <2>3. {} \in SUBSET Calls
    OBVIOUS
  <2> QED BY <1>9, <2>1, <2>2, <2>3
<1>14. CASE Request
  BY <1>1, <1>14 DEF Request
<1>15. CASE Decide
  <2>1. \A c \in Calls, r \in Records : RefuseDecision(c, r) => UNCHANGED vars
    BY DEF RefuseDecision
  <2> QED BY <1>2, <1>13, <1>15, <2>1 DEF Decide, Approve, Reject
<1>16. CASE \E c \in Calls : CallStep(c)
  BY <1>4, <1>5, <1>6, <1>8, <1>10, <1>16 DEF CallStep
<1>17. CASE Fault
  BY <1>7, <1>11, <1>12, <1>17 DEF Fault
<1> QED BY <1>13, <1>14, <1>15, <1>16, <1>17 DEF Next

\* The inductive invariant holds in every reachable state.
THEOREM Invariance == Spec => []IInv
<1>1. Init => IInv
  <2> SUFFICES ASSUME Init PROVE IInv
    OBVIOUS
  <2>1. TypeOK
    BY DEF Init, TypeOK, Active, Snapshot
  <2>2. \A c \in Calls : CallInv(c)
    BY DEF Init, CallInv, Active
  <2>3. DOMAIN log = {} /\ runs = {} /\ \A r \in Records : board[r] = NoSnapshot
    BY DEF Init
  <2> QED BY <2>1, <2>2, <2>3
         DEF IInv, LogInv, AuditTrail, StartsOnce, RunInv, ApprovalGate,
             UnauditedOnlyByFault, BroadcastsAreCommitted
<1> QED BY <1>1, InvStep, PTL DEF Spec

\* No handler runs before the approval that lets it is in the audit table: an identified
\* approver's for privileged types and pending requests, the automatic one otherwise;
\* whatever the interleaving of calls, the crashes and the failing appends.
THEOREM HandlersAreGated == Spec => []ApprovalGate
<1>1. IInv => ApprovalGate
  BY DEF IInv, RunInv
<1> QED BY <1>1, Invariance, PTL

\* Every result and every decision in the audit table repeats the snapshot it
\* rests on.
THEOREM TrailExplainsItself == Spec => []AuditTrail
<1>1. IInv => AuditTrail
  BY DEF IInv, LogInv
<1> QED BY <1>1, Invariance, PTL

\* A record is requested once, and an auto-approved one is never decided.
THEOREM RecordsStartOnce == Spec => []StartsOnce
<1>1. IInv => StartsOnce
  BY DEF IInv, LogInv
<1> QED BY <1>1, Invariance, PTL

\* Only a crash or an exception leaves a handler invocation out of the table.
THEOREM RunsAreAudited == Spec => []UnauditedOnlyByFault
<1>1. IInv => UnauditedOnlyByFault
  BY DEF IInv, RunInv
<1> QED BY <1>1, Invariance, PTL

\* Dashboards only ever see snapshots that are in the audit table.
THEOREM BoardsShowCommitted == Spec => []BroadcastsAreCommitted
<1>1. IInv => BroadcastsAreCommitted
  BY DEF IInv
<1> QED BY <1>1, Invariance, PTL

\* Snapshots are only ever added, one at a time.
THEOREM TableIsAppendOnly == Spec => AppendOnly
<1> DEFINE Grown == /\ Len(log') \in {Len(log), Len(log) + 1}
                    /\ \A i \in DOMAIN log : log'[i] = log[i]
<1>1. TypeOK /\ [Next]_vars => [Grown]_vars
  <2> SUFFICES ASSUME TypeOK, Next PROVE Grown
    OBVIOUS
  <2>1. \/ log' = log
        \/ \E c \in Calls : pc[c] \in Active /\ log' = Append(log, snap[c])
    BY DEF Next, Request, RequestAction, Decide, Approve, Reject, LoadPending,
           RefuseDecision, vars, CallStep, AppendRequest, AppendDecision, Execute,
           AppendExecuted, Broadcast, Fault, Crash, StoreRaises, HandlerRaises,
           Appending, Active
  <2>2. CASE log' = log
    BY <2>2
  <2>3. ASSUME NEW c \in Calls, pc[c] \in Active, log' = Append(log, snap[c])
        PROVE  Grown
    BY <2>3, AppendFacts DEF TypeOK
  <2> QED BY <2>1, <2>2, <2>3
<1> QED BY <1>1, TypeCorrect, PTL DEF Spec, AppendOnly
-----------------------------------------------------------------------------
\* When no two decisions on a record overlap (SerialSpec).

\* Where a call owns its record: it holds a decision that is not in the table
\* yet, or a decision of the table that is not executed yet.
Busy == {"append_decision", "execute", "append_executed"}

\* No two calls own one record.
OneOwner ==
    \A c, d \in Calls :
        (c # d /\ pc[c] \in Busy /\ pc[d] \in Busy) => snap[c].rec # snap[d].rec

\* The owner's view of the table is not stale: nobody decided the record it is
\* about to decide, and the decision it executes is still the latest row.
OwnerIsCurrent(c) ==
    /\ pc[c] = "append_decision" =>
         \A k \in DOMAIN log : log[k].rec = snap[c].rec => log[k].approval = "pending"
    /\ pc[c] \in {"execute", "append_executed"} =>
         \E k \in DOMAIN log : IsLatest(k, snap[c].rec) /\ log[k] = Decided(snap[c])
    /\ pc[c] = "execute" => \A h \in runs : h.rec # snap[c].rec

\* What was run was approved.
RunsApproved ==
    \A h \in runs : \E k \in DOMAIN log :
        log[k].rec = h.rec /\ log[k].approval \in {"approved", "auto_approved"}

\* What was rejected was never approved.
RejectedStays ==
    \A j, k \in DOMAIN log :
        (log[j].rec = log[k].rec /\ log[j].approval = "rejected") =>
            log[k].approval \in {"pending", "rejected"}

SerialInv ==
    /\ OneOwner
    /\ \A c \in Calls : OwnerIsCurrent(c)
    /\ RunsApproved
    /\ RejectedStays
    /\ HandlerRunsOnce

\* The strengthening holds at the start.
LEMMA SerialInit == Init => SerialInv
<1> SUFFICES ASSUME Init PROVE SerialInv
  OBVIOUS
<1>1. /\ \A c \in Calls : pc[c] = "idle"
      /\ runs = {} /\ DOMAIN log = {}
  BY DEF Init
<1> QED BY <1>1 DEF SerialInv, OneOwner, OwnerIsCurrent, RunsApproved,
                    RejectedStays, HandlerRunsOnce, Busy

\* A step that neither appends nor runs a handler, and makes no call an owner.
LEMMA SerialQuiet ==
    ASSUME SerialInv, log' = log, runs' = runs,
           \A d \in Calls : pc'[d] \in Busy => (pc'[d] = pc[d] /\ snap'[d] = snap[d])
    PROVE  SerialInv'
<1>1. OneOwner'
  BY DEF SerialInv, OneOwner
<1>2. ASSUME NEW d \in Calls PROVE OwnerIsCurrent(d)'
  <2>1. CASE pc'[d] \in Busy
    BY <2>1 DEF SerialInv, OwnerIsCurrent, IsLatest, History, Decided
  <2>2. CASE pc'[d] \notin Busy
    BY <2>2 DEF OwnerIsCurrent, Busy
  <2> QED BY <2>1, <2>2
<1>3. RunsApproved' /\ RejectedStays' /\ HandlerRunsOnce'
  BY DEF SerialInv, RunsApproved, RejectedStays, HandlerRunsOnce
<1> QED BY <1>1, <1>2, <1>3 DEF SerialInv

\* The latest row of a record is pending only when it is the record's one row.
LEMMA PendingIsAlone ==
    ASSUME TypeOK, LogInv, NEW r, NEW i \in DOMAIN log, Pending(i, r)
    PROVE  \A k \in DOMAIN log : log[k].rec = r => k = i
<1>1. DOMAIN log = 1..Len(log) /\ Len(log) \in Nat
  BY DEF TypeOK
<1>2. ASSUME NEW k \in DOMAIN log, log[k].rec = r, k # i PROVE FALSE
  <2>1. k < i /\ log[i].rec = log[k].rec /\ log[i].approval = "pending"
    BY <1>1, <1>2 DEF Pending, IsLatest, History
  <2> QED BY <2>1 DEF LogInv, StartsOnce
<1> QED BY <1>2

\* A call that owns a record found a row of it; one that executes, an approved row.
LEMMA OwnerHasRow ==
    ASSUME TypeOK, NEW c \in Calls, CallInv(c), pc[c] \in Busy
    PROVE  \E k \in DOMAIN log :
             /\ log[k].rec = snap[c].rec
             /\ pc[c] # "append_decision" => log[k].approval \in {"approved", "auto_approved"}
<1>1. snap[c] \in Snapshot
  BY DEF TypeOK, Active, Busy
<1>2. CASE pc[c] = "append_decision"
  <2>1. Logged(Requested(snap[c])) /\ Requested(snap[c]).rec = snap[c].rec
    BY <1>1, <1>2 DEF CallInv, HoldsDecision, Requested, Decided, Snapshot
  <2> QED BY <1>2, <2>1 DEF Logged
<1>3. CASE pc[c] = "execute"
  BY <1>3 DEF CallInv, HoldsApproved, Logged
<1>4. CASE pc[c] = "append_executed"
  <2>1. /\ Logged(Decided(snap[c])) /\ Decided(snap[c]).rec = snap[c].rec
        /\ Decided(snap[c]).approval \in {"approved", "auto_approved"}
    BY <1>1, <1>4 DEF CallInv, HoldsResult, Decided, Snapshot
  <2> QED BY <2>1 DEF Logged
<1> QED BY <1>2, <1>3, <1>4 DEF Busy

\* approve and reject make a call the owner of a record nobody owns.
LEMMA SerialLoad ==
    ASSUME IInv, SerialInv, SerialLoads, NEW c \in Calls, NEW r \in Records,
           NEW a \in {"approved", "rejected"}, NEW p \in Subjects, LoadPending(c, r, a, p)
    PROVE  SerialInv'
<1>1. TypeOK /\ LogInv /\ \A d \in Calls : CallInv(d)
  BY DEF IInv
<1>2. /\ pc[c] = "idle" /\ pc'[c] = "append_decision"
      /\ \A d \in Calls \ {c} : pc'[d] = pc[d] /\ snap'[d] = snap[d]
      /\ UNCHANGED <<log, runs>>
  BY <1>1 DEF LoadPending, Hold, Move, TypeOK
<1>3. PICK i \in DOMAIN log : Pending(i, r) /\ Hold(c, [log[i] EXCEPT !.approval = a, !.by = p])
  BY DEF LoadPending
<1>4. log[i].rec = r /\ log[i].approval = "pending" /\ log[i] \in Snapshot
  BY <1>1, <1>3 DEF Pending, IsLatest, History, TypeOK
<1>5. snap'[c].rec = r
  BY <1>1, <1>3, <1>4 DEF Hold, Snapshot, TypeOK
<1>6. \A k \in DOMAIN log : log[k].rec = r => k = i
  BY <1>1, <1>3, PendingIsAlone
<1>7. ASSUME NEW d \in Calls \ {c}, pc[d] \in Busy PROVE snap[d].rec # r
  <2>1. CASE pc[d] = "append_decision"
    BY <1>2, <1>5, <1>7, <2>1 DEF SerialLoads
  <2>2. CASE pc[d] # "append_decision"
    BY <1>1, <1>4, <1>6, <1>7, <2>2, OwnerHasRow
  <2> QED BY <2>1, <2>2
<1>8. OneOwner'
  BY <1>2, <1>5, <1>7 DEF SerialInv, OneOwner
<1>9. ASSUME NEW d \in Calls PROVE OwnerIsCurrent(d)'
  <2>1. CASE d = c
    BY <1>2, <1>4, <1>5, <1>6, <2>1 DEF OwnerIsCurrent
  <2>2. CASE d # c
    BY <1>2, <2>2 DEF SerialInv, OwnerIsCurrent, IsLatest, History, Decided
  <2> QED BY <2>1, <2>2
<1>10. RunsApproved' /\ RejectedStays' /\ HandlerRunsOnce'
  BY <1>2 DEF SerialInv, RunsApproved, RejectedStays, HandlerRunsOnce
<1> QED BY <1>8, <1>9, <1>10 DEF SerialInv

\* The owner's handler is the only one the record gets.
LEMMA SerialExecute ==
    ASSUME IInv, SerialInv, NEW c \in Calls, Execute(c)
    PROVE  SerialInv'
<1>1. TypeOK /\ CallInv(c)
  BY DEF IInv
<1>2. /\ pc[c] = "execute" /\ pc'[c] = "append_executed" /\ log' = log
      /\ \A d \in Calls \ {c} : pc'[d] = pc[d] /\ snap'[d] = snap[d]
  BY <1>1 DEF Execute, Hold, Move, TypeOK
<1>3. PICK o \in HandlerOutcomes(snap[c]) :
        /\ snap'[c] = [snap[c] EXCEPT !.exec = o.exec]
        /\ runs' = runs \cup
             {[call |-> c, rec |-> snap[c].rec, type |-> snap[c].type,
               by |-> snap[c].by, at |-> Len(log), exec |-> o.exec,
               effect |-> o.effect]}
  BY <1>1 DEF Execute, Hold, TypeOK
<1> DEFINE n == [call |-> c, rec |-> snap[c].rec, type |-> snap[c].type,
                 by |-> snap[c].by, at |-> Len(log), exec |-> o.exec,
                 effect |-> o.effect]
<1>4. runs' = runs \cup {n} /\ n.rec = snap[c].rec
  BY <1>3
<1> HIDE DEF n
<1>5. snap[c] \in Snapshot
  BY <1>1, <1>2 DEF TypeOK, Active
<1>6. snap'[c].rec = snap[c].rec /\ Decided(snap'[c]) = Decided(snap[c])
  BY <1>3, <1>5 DEF Decided, Snapshot
<1>7. OneOwner'
  BY <1>2, <1>6 DEF SerialInv, OneOwner, Busy
<1>8. ASSUME NEW d \in Calls PROVE OwnerIsCurrent(d)'
  <2>1. CASE d = c
    <3>1. \E k \in DOMAIN log : IsLatest(k, snap[c].rec) /\ log[k] = Decided(snap[c])
      BY <1>2 DEF SerialInv, OwnerIsCurrent
    <3>2. \E k \in DOMAIN log : IsLatest(k, snap'[c].rec) /\ log[k] = Decided(snap'[c])
      BY <1>6, <3>1
    <3> QED BY <1>2, <2>1, <3>2 DEF OwnerIsCurrent, IsLatest, History, Decided
  <2>2. CASE d # c
    <3>1. pc[d] = "execute" => snap[d].rec # snap[c].rec
      BY <1>2, <2>2 DEF SerialInv, OneOwner, Busy
    <3>2. OwnerIsCurrent(d) /\ pc'[d] = pc[d] /\ snap'[d] = snap[d]
      BY <1>2, <2>2 DEF SerialInv
    <3> QED BY <1>2, <1>4, <3>1, <3>2 DEF OwnerIsCurrent, IsLatest, History, Decided
  <2> QED BY <2>1, <2>2
<1>9. RunsApproved'
  <2>1. \E k \in DOMAIN log :
          log[k].rec = n.rec /\ log[k].approval \in {"approved", "auto_approved"}
    BY <1>1, <1>2, <1>4, OwnerHasRow DEF Busy
  <2> QED BY <1>2, <1>4, <2>1 DEF SerialInv, RunsApproved
<1>10. RejectedStays'
  BY <1>2 DEF SerialInv, RejectedStays
<1>11. HandlerRunsOnce'
  BY <1>2, <1>4 DEF SerialInv, HandlerRunsOnce, OwnerIsCurrent
<1> QED BY <1>7, <1>8, <1>9, <1>10, <1>11 DEF SerialInv

\* Appending what a call holds, whether the call goes on or is lost.
LEMMA SerialAppend ==
    ASSUME IInv, SerialInv, NEW c \in Calls, pc[c] \in Appending,
           log' = Append(log, snap[c]), runs' = runs,
           \A d \in Calls \ {c} : pc'[d] = pc[d] /\ snap'[d] = snap[d],
           \/ pc'[c] \notin Busy
           \/ /\ pc'[c] = "execute" /\ snap'[c] = snap[c]
              /\ pc[c] # "append_executed"
              /\ snap[c].approval \in {"approved", "auto_approved"}
    PROVE  SerialInv'
<1> DEFINE n == Len(log) + 1
           s == snap[c]
<1>1. TypeOK /\ LogInv /\ \A d \in Calls : CallInv(d)
  BY DEF IInv
<1>2. s \in Snapshot
  BY <1>1 DEF TypeOK, Active, Appending
<1>3. /\ DOMAIN log = 1..Len(log) /\ Len(log) \in Nat
      /\ DOMAIN log' = 1..n
      /\ \A k \in DOMAIN log : log'[k] = log[k]
      /\ log'[n] = s
  BY <1>1, <1>2, AppendFacts DEF TypeOK
<1>4. \/ pc[c] = "append_request" /\ \A k \in DOMAIN log : log[k].rec # s.rec
      \/ pc[c] \in Busy
  BY <1>1 DEF CallInv, HoldsRequest, Appending, Busy
<1>5. ASSUME NEW d \in Calls \ {c}, pc[d] \in Busy PROVE snap[d].rec # s.rec
  BY <1>1, <1>4, <1>5, OwnerHasRow DEF SerialInv, OneOwner
<1>6. ~ pc[c] = "append_executed" => /\ \A k \in DOMAIN log : log[k].rec = s.rec => log[k].approval = "pending"
                                     /\ s.exec = "not_executed"
  BY <1>1, <1>4 DEF SerialInv, OwnerIsCurrent, CallInv, HoldsRequest, HoldsDecision, Appending, Busy
<1>7. OneOwner'
  BY <1>5 DEF SerialInv, OneOwner
<1>8. RunsApproved'
  BY <1>3 DEF SerialInv, RunsApproved
<1>9. \A h \in runs : pc[c] # "append_executed" => h.rec # s.rec
  BY <1>6 DEF SerialInv, RunsApproved
<1>10. OwnerIsCurrent(c)'
  <2>1. CASE pc'[c] \notin Busy
    BY <2>1 DEF OwnerIsCurrent, Busy
  <2>2. CASE pc'[c] = "execute" /\ snap'[c] = s /\ pc[c] # "append_executed"
    <3>1. Decided(s) = s
      BY <1>2, <1>6, <2>2 DEF Decided, Snapshot
    <3>2. n \in DOMAIN log' /\ \A j \in DOMAIN log' : j <= n
      BY <1>3
    <3>3. \E k \in DOMAIN log' : IsLatest(k, snap[c].rec)' /\ log'[k] = Decided(snap[c])'
      BY <1>3, <2>2, <3>1, <3>2 DEF IsLatest, History, Decided
    <3> QED BY <1>3, <1>9, <2>2, <3>3 DEF OwnerIsCurrent
  <2> QED BY <2>1, <2>2
<1>11. ASSUME NEW d \in Calls \ {c} PROVE OwnerIsCurrent(d)'
  <2>1. CASE pc[d] \notin Busy
    BY <2>1 DEF OwnerIsCurrent, Busy
  <2>2. CASE pc[d] \in Busy
    <3>1. OwnerIsCurrent(d) /\ s.rec # snap[d].rec
      BY <1>5, <2>2 DEF SerialInv
    <3>2. \A k : IsLatest(k, snap[d].rec) => IsLatest(k, snap[d].rec)'
      BY <1>3, <3>1 DEF IsLatest, History
    <3> QED BY <1>3, <3>1, <3>2 DEF OwnerIsCurrent, Decided
  <2> QED BY <2>1, <2>2
<1>12. RejectedStays'
  <2>1. CASE pc[c] # "append_executed"
    BY <1>3, <1>6, <2>1 DEF SerialInv, RejectedStays
  <2>2. CASE pc[c] = "append_executed"
    <3>1. s.approval \in {"approved", "auto_approved"}
      BY <1>1, <2>2 DEF CallInv, HoldsResult
    <3>2. \A k \in DOMAIN log : log[k].rec = s.rec => log[k].approval # "rejected"
      BY <1>1, <2>2, OwnerHasRow DEF SerialInv, RejectedStays, Busy
    <3> QED BY <1>3, <3>1, <3>2 DEF SerialInv, RejectedStays
  <2> QED BY <2>1, <2>2
<1>13. HandlerRunsOnce'
  BY DEF SerialInv, HandlerRunsOnce
<1> QED BY <1>7, <1>8, <1>10, <1>11, <1>12, <1>13 DEF SerialInv

\* Every step of the serial specification keeps the strengthening.
LEMMA SerialStep == IInv /\ SerialInv /\ [SerialNext]_vars => SerialInv'
<1> SUFFICES ASSUME IInv, SerialInv, [SerialNext]_vars PROVE SerialInv'
  OBVIOUS
<1>1. /\ pc \in [Calls -> Active \cup {"idle"}] /\ snap \in [Calls -> Snapshot \cup {NoSnapshot}]
      /\ \A c \in Calls : CallInv(c)
  BY DEF IInv, TypeOK
<1>2. CASE UNCHANGED vars
  BY <1>2, SerialQuiet DEF vars
<1>3. CASE Request
  <2>1. PICK c \in Calls : /\ pc' = [pc EXCEPT ![c] = "append_request"]
                           /\ \E s : Hold(c, s)
                           /\ UNCHANGED <<log, runs>>
    BY <1>3 DEF Request, RequestAction, Move
  <2>2. \A d \in Calls : pc'[d] \in Busy => (pc'[d] = pc[d] /\ snap'[d] = snap[d])
    BY <1>1, <2>1 DEF Hold, Busy
  <2> QED BY <2>1, <2>2, SerialQuiet
<1>4. ASSUME SerialLoads, Decide PROVE SerialInv'
  <2>1. CASE \E c \in Calls, r \in Records : RefuseDecision(c, r)
    BY <1>2, <2>1 DEF RefuseDecision
  <2>2. CASE \E c \in Calls, r \in Records, p \in Subjects : Approve(c, r, p) \/ Reject(c, r, p)
    BY <1>4, <2>2, SerialLoad DEF Approve, Reject
  <2> QED BY <1>4, <2>1, <2>2 DEF Decide
<1>5. ASSUME NEW c \in Calls, AppendRequest(c) \/ AppendDecision(c) \/ AppendExecuted(c)
      PROVE  SerialInv'
  <2>1. /\ pc[c] \in Appending /\ log' = Append(log, snap[c]) /\ runs' = runs /\ snap' = snap
        /\ \A d \in Calls \ {c} : pc'[d] = pc[d] /\ snap'[d] = snap[d]
    BY <1>1, <1>5 DEF AppendRequest, AppendDecision, AppendExecuted, Move, Appending
  <2>2. \/ pc'[c] \notin Busy
        \/ /\ pc'[c] = "execute" /\ pc[c] # "append_executed"
           /\ snap[c].approval \in {"approved", "auto_approved"}
    <3>1. CASE AppendRequest(c)
      <4>1. snap[c].approval \in {"pending", "auto_approved"}
        BY <1>1, <3>1 DEF AppendRequest, CallInv, HoldsRequest
      <4> QED BY <1>1, <3>1, <4>1 DEF AppendRequest, Move, Busy
    <3>2. CASE AppendDecision(c)
      BY <1>1, <3>2 DEF AppendDecision, Move, Busy
    <3>3. CASE AppendExecuted(c)
      BY <1>1, <3>3 DEF AppendExecuted, Move, Busy
    <3> QED BY <1>5, <3>1, <3>2, <3>3
  <2> QED BY <2>1, <2>2, SerialAppend
<1>6. ASSUME NEW c \in Calls, Broadcast(c) \/ HandlerRaises(c)
      PROVE  SerialInv'
  <2>1. pc' = [pc EXCEPT ![c] = "idle"] /\ snap' = [snap EXCEPT ![c] = NoSnapshot] /\ UNCHANGED <<log, runs>>
    BY <1>6 DEF Broadcast, HandlerRaises, Lose, Move, Hold
  <2>2. \A d \in Calls : pc'[d] \in Busy => (pc'[d] = pc[d] /\ snap'[d] = snap[d])
    BY <1>1, <2>1 DEF Busy
  <2> QED BY <2>1, <2>2, SerialQuiet
<1>7. ASSUME NEW c \in Calls, StoreRaises(c) PROVE SerialInv'
  <2>1. /\ pc[c] \in Appending /\ runs' = runs /\ pc'[c] = "idle"
        /\ \A d \in Calls \ {c} : pc'[d] = pc[d] /\ snap'[d] = snap[d]
        /\ log' = log \/ log' = Append(log, snap[c])
    BY <1>1, <1>7 DEF StoreRaises, Lose, Move, Hold
  <2>2. pc'[c] \notin Busy
    BY <2>1 DEF Busy
  <2>3. CASE log' = log
    BY <2>1, <2>2, <2>3, SerialQuiet
  <2>4. CASE log' = Append(log, snap[c])
    BY <2>1, <2>2, <2>4, SerialAppend
  <2> QED BY <2>1, <2>3, <2>4
<1>8. CASE Crash
  <2>1. /\ \A d \in Calls : pc'[d] = "idle"
        /\ UNCHANGED <<log, runs>>
    BY <1>8 DEF Crash
  <2>2. \A d \in Calls : pc'[d] \notin Busy
    BY <2>1 DEF Busy
  <2> QED BY <2>1, <2>2, SerialQuiet
<1> QED BY <1>2, <1>3, <1>4, <1>5, <1>6, <1>7, <1>8, SerialExecute
       DEF SerialNext, Next, CallStep, Fault

\* The serial specification's safety part, without its fairness.
LEMMA SerialInvariance == SerialSpec => [](IInv /\ SerialInv)
<1>1. SerialSpec => Spec
  <2>1. [SerialNext]_vars => [Next]_vars
    BY DEF SerialNext
  <2> QED BY <2>1, PTL DEF SerialSpec, Spec
<1>2. IInv /\ SerialInv /\ [SerialNext]_vars => SerialInv'
  BY SerialStep
<1> QED BY <1>1, <1>2, SerialInit, Invariance, PTL DEF SerialSpec

\* ADR 0006's "Rejection appends a REJECTED snapshot and never executes" holds of
\* the code whenever no two decisions on a record are between read and append at
\* once, whatever else interleaves, crashes or raises.
THEOREM RejectedNeverRuns == SerialSpec => []RejectionNeverExecutes
<1>1. SerialInv => RejectionNeverExecutes
  BY DEF SerialInv, RunsApproved, RejectedStays, RejectionNeverExecutes
<1> QED BY <1>1, SerialInvariance, PTL

\* Under the same condition one response request runs its handler at most once,
\* a retry after a failed append or a crash included.
THEOREM OneRunPerRequest == SerialSpec => []HandlerRunsOnce
<1>1. SerialInv => HandlerRunsOnce
  BY DEF SerialInv
<1> QED BY <1>1, SerialInvariance, PTL
-----------------------------------------------------------------------------
\* The refinement of ApprovalLifecycle.

\* The greatest position is the one that bounds the others.
LEMMA MaxIs ==
    ASSUME NEW S \in SUBSET Nat, NEW k \in S, \A j \in S : j <= k
    PROVE  Max(S) = k
<1>1. Max(S) \in S /\ \A j \in S : Max(S) >= j
  <2>1. \A j \in S : k >= j
    OBVIOUS
  <2>2. \E x \in S : \A j \in S : x >= j
    BY <2>1
  <2> QED BY <2>2, Zenon DEF Max
<1> DEFINE m == Max(S)
<1> HIDE DEF m
<1>2. m \in Nat /\ k \in Nat /\ m >= k /\ m <= k
  BY <1>1 DEF m
<1>3. m = k
  BY <1>2
<1> QED BY <1>3 DEF m

\* The row that get returns decides the record's state.
LEMMA LatestIs ==
    ASSUME log \in Seq(Snapshot), NEW r, NEW k, IsLatest(k, r)
    PROVE  LatestState(r) =
             [approval |-> log[k].approval, by |-> log[k].by, exec |-> log[k].exec]
<1>1. History(r) \in SUBSET Nat /\ History(r) # {} /\ k \in History(r)
  BY DEF History, IsLatest
<1>2. Max(History(r)) = k
  BY <1>1, MaxIs DEF IsLatest
<1> QED BY <1>1, <1>2 DEF LatestState

\* A record with rows has a latest one.
LEMMA HasLatest ==
    ASSUME log \in Seq(Snapshot), NEW r, History(r) # {}
    PROVE  Max(History(r)) \in History(r)
<1>1. Len(log) \in Nat /\ History(r) \subseteq 1..Len(log)
  BY DEF History
<1> DEFINE T == {Len(log) - k : k \in History(r)}
<1>2. T \subseteq Nat /\ T # {}
  BY <1>1
<1>3. PICK x \in T : \A y \in T : ~(<<y, x>> \in OpToRel(<, Nat))
  BY <1>2, NatLessThanWellFounded, WFMin
<1>4. PICK k \in History(r) : x = Len(log) - k
  BY <1>3
<1>5. ASSUME NEW j \in History(r) PROVE k >= j
  <2>1. ~(Len(log) - j < Len(log) - k)
    BY <1>1, <1>2, <1>3, <1>4 DEF OpToRel
  <2> QED BY <1>1, <2>1
<1> QED BY <1>4, <1>5 DEF Max

\* An append gives its record the appended state and leaves the others theirs.
LEMMA LatestAfterAppend ==
    ASSUME log \in Seq(Snapshot), NEW s \in Snapshot, log' = Append(log, s)
    PROVE  LatestStates' = [LatestStates EXCEPT ![s.rec] =
             [approval |-> s.approval, by |-> s.by, exec |-> s.exec]]
<1> DEFINE n == Len(log) + 1
           a == [approval |-> s.approval, by |-> s.by, exec |-> s.exec]
<1>1. /\ DOMAIN log = 1..Len(log) /\ Len(log) \in Nat
      /\ DOMAIN log' = 1..n /\ log' \in Seq(Snapshot)
      /\ \A k \in DOMAIN log : log'[k] = log[k]
      /\ log'[n] = s
  BY AppendFacts
<1>2. s.rec \in Records
  BY DEF Snapshot
<1>3. LatestState(s.rec)' = a
  <2>1. n \in DOMAIN log' /\ \A j \in DOMAIN log' : j <= n
    BY <1>1
  <2> DEFINE H == {i \in DOMAIN log' : log'[i].rec = s.rec}
  <2>3. History(s.rec)' = H
    BY DEF History
  <2>4. H \in SUBSET Nat /\ n \in H /\ \A j \in H : j <= n
    BY <1>1, <2>1
  <2> HIDE DEF H
  <2>5. Max(H) = n /\ H # {}
    BY <2>4, MaxIs
  <2> QED BY <1>1, <2>3, <2>5 DEF LatestState
<1>4. ASSUME NEW r \in Records, r # s.rec PROVE LatestState(r)' = LatestState(r)
  <2>1. History(r)' = History(r)
    BY <1>1, <1>4 DEF History
  <2>2. CASE History(r) = {}
    BY <2>1, <2>2 DEF LatestState
  <2>3. CASE History(r) # {}
    <3>1. Max(History(r)) \in DOMAIN log
      BY <1>1, <2>3, HasLatest DEF History, Max
    <3>2. log'[Max(History(r)')] = log[Max(History(r))]
      BY <1>1, <2>1, <3>1
    <3> QED BY <2>1, <3>2 DEF LatestState
  <2> QED BY <2>2, <2>3
<1> QED BY <1>2, <1>3, <1>4 DEF LatestStates

\* The table starts empty, every record absent.
LEMMA LifecycleInit == Init => Lifecycle!Init
<1> SUFFICES ASSUME Init PROVE Lifecycle!Init
  OBVIOUS
<1>1. \A r \in Records : History(r) = {}
  BY DEF Init, History
<1> QED BY <1>1 DEF Lifecycle!Init, Lifecycle!Absent, Lifecycle!At, LatestStates, LatestState

\* What a call appends, committed with or without an answer, is one step of the
\* life cycle: a request, the decision on it, or its execution.
LEMMA AppendIsLifecycleStep ==
    ASSUME IInv, SerialInv, NEW c \in Calls, pc[c] \in Appending,
           log' = Append(log, snap[c])
    PROVE  Lifecycle!Next
<1> DEFINE s == snap[c]
           r == s.rec
<1>1. TypeOK /\ LogInv /\ CallInv(c) /\ OwnerIsCurrent(c)
  BY DEF IInv, SerialInv
<1>2. s \in Snapshot /\ r \in Records
  BY <1>1 DEF TypeOK, Active, Appending, Snapshot
<1>3. LatestStates' = [LatestStates EXCEPT ![r] =
         [approval |-> s.approval, by |-> s.by, exec |-> s.exec]]
  BY <1>1, <1>2, LatestAfterAppend DEF TypeOK
<1>4. LatestStates[r] = LatestState(r)
  BY <1>2 DEF LatestStates
<1>5. log \in Seq(Snapshot) /\ DOMAIN log = 1..Len(log) /\ Len(log) \in Nat
  BY <1>1 DEF TypeOK
<1>6. CASE pc[c] = "append_request"
  <2>1. /\ s.approval \in {"pending", "auto_approved"}
        /\ s.by = Nobody /\ s.exec = "not_executed"
        /\ History(r) = {}
    BY <1>1, <1>6 DEF CallInv, HoldsRequest, History
  <2>2. LatestState(r) = Lifecycle!Absent
    BY <2>1 DEF LatestState, Lifecycle!Absent, Lifecycle!At
  <2>3. Lifecycle!Request(r)
    BY <1>3, <1>4, <2>1, <2>2 DEF Lifecycle!Request, Lifecycle!Set, Lifecycle!At
  <2> QED BY <1>2, <2>3 DEF Lifecycle!Next
<1>7. CASE pc[c] = "append_decision"
  <2>1. /\ s.approval \in {"approved", "rejected"}
        /\ s.by \in Subjects /\ s.exec = "not_executed"
        /\ \A k \in DOMAIN log : log[k].rec = r => log[k].approval = "pending"
    BY <1>1, <1>7 DEF CallInv, HoldsDecision, OwnerIsCurrent
  <2>2. PICK k \in DOMAIN log : log[k].rec = r
    BY <1>1, <1>7, OwnerHasRow DEF Busy
  <2>3. ASSUME NEW j \in DOMAIN log, log[j].rec = r PROVE j <= k
    <3>1. ~(k < j)
      BY <1>1, <2>1, <2>2, <2>3 DEF LogInv, StartsOnce
    <3> QED BY <1>5, <3>1
  <2>4. IsLatest(k, r)
    BY <2>2, <2>3 DEF IsLatest, History
  <2>5. LatestState(r).approval = "pending"
    BY <1>5, <2>1, <2>2, <2>4, LatestIs
  <2>6. Lifecycle!Decide(r)
    BY <1>3, <1>4, <2>1, <2>5 DEF Lifecycle!Decide, Lifecycle!Set, Lifecycle!At
  <2> QED BY <1>2, <2>6 DEF Lifecycle!Next
<1>8. CASE pc[c] = "append_executed"
  <2>1. s.approval \in {"approved", "auto_approved"} /\ s.exec \in {"simulated", "failed"}
    BY <1>1, <1>2, <1>8 DEF CallInv, HoldsResult, Snapshot, ExecutionStatus
  <2>2. PICK k \in DOMAIN log : IsLatest(k, r) /\ log[k] = Decided(s)
    BY <1>1, <1>8 DEF OwnerIsCurrent
  <2>3. log[k].approval = s.approval /\ log[k].by = s.by /\ log[k].exec = "not_executed"
    BY <1>2, <2>2 DEF Decided, Snapshot
  <2>4. LatestState(r) = [approval |-> s.approval, by |-> s.by, exec |-> "not_executed"]
    BY <1>5, <2>2, <2>3, LatestIs
  <2>5. [LatestStates[r] EXCEPT !.exec = s.exec] =
           [approval |-> s.approval, by |-> s.by, exec |-> s.exec]
    BY <1>4, <2>4
  <2>6. LatestStates' = [LatestStates EXCEPT ![r] = [LatestStates[r] EXCEPT !.exec = s.exec]]
    BY <1>3, <2>5, Zenon
  <2>7. LatestStates[r].approval \in {"approved", "auto_approved"} /\ LatestStates[r].exec = "not_executed"
    BY <1>4, <2>1, <2>4
  <2>8. Lifecycle!Execute(r)
    BY <2>1, <2>6, <2>7, Zenon DEF Lifecycle!Execute, Lifecycle!Set
  <2> QED BY <1>2, <2>8 DEF Lifecycle!Next
<1> QED BY <1>6, <1>7, <1>8 DEF Appending

\* Every other step leaves what a reader sees as it was.
LEMMA LifecycleStep ==
    IInv /\ SerialInv /\ [SerialNext]_vars => [Lifecycle!Next]_LatestStates
<1> SUFFICES ASSUME IInv, SerialInv, [SerialNext]_vars
             PROVE  Lifecycle!Next \/ UNCHANGED LatestStates
  OBVIOUS
<1>1. \/ log' = log
      \/ \E c \in Calls : pc[c] \in Appending /\ log' = Append(log, snap[c])
  BY DEF SerialNext, Next, Request, RequestAction, Decide, Approve, Reject, LoadPending,
         RefuseDecision, vars, CallStep, AppendRequest, AppendDecision, Execute,
         AppendExecuted, Broadcast, Fault, Crash, StoreRaises, HandlerRaises,
         Appending
<1>2. CASE log' = log
  BY <1>2 DEF LatestStates, LatestState, History
<1> QED BY <1>1, <1>2, AppendIsLifecycleStep

\* The detailed workflow implements the life cycle of ADR 0006 when no two
\* decisions on a record overlap: for a reader of the store, each record walks
\* once from request to decision to result, across crashes and failing appends.
THEOREM Refinement == SerialSpec => FollowsLifecycle
<1> QED BY LifecycleInit, LifecycleStep, SerialInvariance, PTL
       DEF SerialSpec, FollowsLifecycle, Lifecycle!Spec
=============================================================================
