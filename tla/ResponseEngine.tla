--------------------------- MODULE ResponseEngine ---------------------------
(***************************************************************************)
(* The approval workflow of app/engines/response.py as the API routes of   *)
(* app/api/incidents.py drive it, over the append-only audit table of      *)
(* PostgresApprovalStore (app/stores/postgres.py).                         *)
(*                                                                         *)
(* Each HTTP request is a call.  A call makes several awaits (a read, one  *)
(* or two appends, the handler, the broadcast), every store access opens   *)
(* its own database session, and calls interleave at every await: nothing  *)
(* ties the PENDING snapshot that approve or reject reads to the decision  *)
(* it appends later.  The process may crash between any two awaits, and    *)
(* any append may raise, before or after its commit took effect.           *)
(***************************************************************************)
EXTENDS Integers, Sequences, FiniteSets, FiniteSetsExt

CONSTANTS
    Calls,        \* concurrent HTTP requests the API serves
    Records,      \* identifiers uuid4() may give to response requests
    Subjects,     \* authenticated approvers (the Auth0 "sub" claims)
    Requestable,  \* action types that requests name
    Handlers,     \* action types with a registered handler
    RealMode,     \* action types whose integration is configured and enabled
    Nobody        \* decided_by of a snapshot without a decision (None)

\* ResponseActionType.
ResponseActionType ==
    {"quarantine_device", "disable_user", "block_ip", "close_session",
     "require_mfa", "notify_administrator", "create_incident",
     "require_manual_approval"}

\* RecommendedAction.PRIVILEGED_ACTIONS.
PRIVILEGED_ACTIONS ==
    {"quarantine_device", "disable_user", "block_ip", "close_session",
     "require_mfa", "require_manual_approval"}

ASSUME ActionsAssumption ==
    /\ Requestable \subseteq ResponseActionType
    /\ Handlers \subseteq ResponseActionType
    /\ RealMode \subseteq ResponseActionType

ASSUME NobodyAssumption == Nobody \notin Subjects

ApprovalStatus == {"pending", "approved", "rejected", "auto_approved"}
ExecutionStatus == {"not_executed", "simulated", "failed"}

\* ActionAuditRecord.  "target" says whether the persisted ActionContext names
\* the device, account, address or session that the handler acts on.
Snapshot == [rec: Records, type: ResponseActionType, target: BOOLEAN,
             approval: ApprovalStatus, by: Subjects \cup {Nobody},
             exec: ExecutionStatus]

NoSnapshot == [rec |-> Nobody]

VARIABLES
    log,      \* response_action_audit, ordered by sequence_id
    issued,   \* record ids handed out so far
    pc,       \* next await of every call
    snap,     \* the snapshot a call holds in its local variable
    runs,     \* history: every handler invocation
    faulted,  \* history: records one of whose calls crashed or raised
    board     \* latest ACTION_UPDATED payload sent for every record

vars == <<log, issued, pc, snap, runs, faulted, board>>

Active == {"append_request", "append_decision", "execute",
           "append_executed", "broadcast"}

\* A handler invocation: who ran it, for which record, on whose decision, how
\* many snapshots the audit table held, whether an external system changed.
Run == [call: Calls, rec: Records, type: ResponseActionType,
        by: Subjects \cup {Nobody}, at: Nat, exec: ExecutionStatus,
        effect: BOOLEAN]

TypeOK ==
    /\ log \in Seq(Snapshot)
    /\ issued \subseteq Records
    /\ pc \in [Calls -> Active \cup {"idle"}]
    /\ snap \in [Calls -> Snapshot \cup {NoSnapshot}]
    /\ \A c \in Calls : pc[c] \in Active => snap[c] \in Snapshot
    /\ runs \subseteq Run
    /\ faulted \subseteq Records
    /\ board \in [Records -> Snapshot \cup {NoSnapshot}]

Init ==
    /\ log = <<>>
    /\ issued = {}
    /\ pc = [c \in Calls |-> "idle"]
    /\ snap = [c \in Calls |-> NoSnapshot]
    /\ runs = {}
    /\ faulted = {}
    /\ board = [r \in Records |-> NoSnapshot]
-----------------------------------------------------------------------------
\* The store.

\* Positions of the snapshots of r: PostgresApprovalStore.history.
History(r) == {i \in DOMAIN log : log[i].rec = r}

\* i is the row that PostgresApprovalStore.get returns for r.
IsLatest(i, r) == i \in History(r) /\ \A j \in History(r) : j <= i

\* Mutants of Pending: approve may repeat an approval; any PENDING row will do.
PendingOrApproved(i, r) == IsLatest(i, r) /\ log[i].approval \in {"pending", "approved"}
OncePending(i, r) == i \in History(r) /\ log[i].approval = "pending"

\* What _pending_record lets through: the latest snapshot is PENDING.
Pending(i, r) == IsLatest(i, r) /\ log[i].approval = "pending"

Move(c, where) == pc' = [pc EXCEPT ![c] = where]
Hold(c, s) == snap' = [snap EXCEPT ![c] = s]
-----------------------------------------------------------------------------
\* POST /incidents/{id}/actions: ResponseEngine.request_action up to its first
\* append.  A request may come without requires_approval for a privileged type
\* (RecommendedAction.model_construct skips the validator): the engine's own
\* membership test decides.
NeedsFlag(type, requires_approval) == requires_approval   \* mutant: trusts the flag
NeedsApproval(type, requires_approval) ==
    type \in PRIVILEGED_ACTIONS \/ requires_approval

RequestAction(c, r, type, requires_approval, target) ==
    /\ pc[c] = "idle"
    /\ r \notin issued
    /\ issued' = issued \cup {r}
    /\ Hold(c, [rec |-> r, type |-> type, target |-> target,
                approval |-> IF NeedsApproval(type, requires_approval)
                             THEN "pending" ELSE "auto_approved",
                by |-> Nobody, exec |-> "not_executed"])
    /\ Move(c, "append_request")
    /\ UNCHANGED <<log, runs, faulted, board>>

\* Mutant of AppendRequest: an auto-approved action runs without being recorded.
RunUnrecorded(c) ==
    /\ pc[c] = "append_request"
    /\ log' = IF snap[c].approval = "pending" THEN Append(log, snap[c]) ELSE log
    /\ Move(c, IF snap[c].approval = "pending" THEN "broadcast" ELSE "execute")
    /\ UNCHANGED <<issued, snap, runs, faulted, board>>

\* The append of request_action: a pending record goes back to the caller, an
\* auto-approved one straight to _execute.
AppendRequest(c) ==
    /\ pc[c] = "append_request"
    /\ log' = Append(log, snap[c])
    /\ Move(c, IF snap[c].approval = "pending" THEN "broadcast" ELSE "execute")
    /\ UNCHANGED <<issued, snap, runs, faulted, board>>

\* approve and reject: _pending_record reads the latest snapshot, the call
\* copies it with the decision.  404 and 409 leave everything as it was.
LoadPending(c, r, decision, p) ==
    /\ pc[c] = "idle"
    /\ \E i \in DOMAIN log :
         /\ Pending(i, r)
         /\ Hold(c, [log[i] EXCEPT !.approval = decision, !.by = p])
    /\ Move(c, "append_decision")
    /\ UNCHANGED <<log, issued, runs, faulted, board>>

RefuseDecision(c, r) ==
    /\ pc[c] = "idle"
    /\ ~\E i \in DOMAIN log : Pending(i, r)
    /\ UNCHANGED vars

Approve(c, r, p) == LoadPending(c, r, "approved", p)
Reject(c, r, p) == LoadPending(c, r, "rejected", p)

\* Mutants of AppendDecision: a rejection falls through to _execute; approve
\* returns before _execute.
DecideTo(c, where) ==
    /\ pc[c] = "append_decision"
    /\ log' = Append(log, snap[c])
    /\ Move(c, where)
    /\ UNCHANGED <<issued, snap, runs, faulted, board>>

RejectFallsThrough(c) == DecideTo(c, "execute")
ApproveOnly(c) == DecideTo(c, "broadcast")

\* The append of approve (then _execute) and of reject (then the reply).  The
\* store does not look at what was appended since the read.
AppendDecision(c) ==
    /\ pc[c] = "append_decision"
    /\ log' = Append(log, snap[c])
    /\ Move(c, IF snap[c].approval = "approved" THEN "execute" ELSE "broadcast")
    /\ UNCHANGED <<issued, snap, runs, faulted, board>>
-----------------------------------------------------------------------------
\* The handlers.

\* Action types whose handler raises SimulationTargetError when the context
\* does not name its target.
NeedsTarget == {"quarantine_device", "disable_user", "block_ip",
                "close_session", "require_mfa"}

\* Action types whose handler calls out when its integration is in real mode;
\* the manual-approval handler only reports the decision it is passed.
CallsOut == ResponseActionType \ {"require_manual_approval"}

TargetError(s) ==
    \/ s.type \in NeedsTarget /\ ~s.target
    \/ s.type = "require_manual_approval" /\ s.by = Nobody

\* What handler.simulate can come back with.  A real integration that fails
\* (time-out, refused confirmation) may still have changed the other system.
HandlerOutcomes(s) ==
    IF s.type \notin Handlers \/ TargetError(s)
    THEN {[exec |-> "failed", effect |-> FALSE]}
    ELSE IF s.type \in RealMode \cap CallsOut
    THEN {[exec |-> "simulated", effect |-> TRUE]} \cup
         {[exec |-> "failed", effect |-> e] : e \in BOOLEAN}
    ELSE {[exec |-> "simulated", effect |-> FALSE]}

\* Mutant of Execute: a failed execution returns without its snapshot.
ReturnOnFailure(c) ==
    /\ pc[c] = "execute"
    /\ \E o \in HandlerOutcomes(snap[c]) :
         /\ Hold(c, snap[c])
         /\ runs' = runs \cup
              {[call |-> c, rec |-> snap[c].rec, type |-> snap[c].type,
                by |-> snap[c].by, at |-> Len(log), exec |-> o.exec,
                effect |-> o.effect]}
         /\ Move(c, IF o.exec = "failed" THEN "broadcast" ELSE "append_executed")
    /\ UNCHANGED <<log, issued, faulted, board>>

\* _execute up to its append.
Execute(c) ==
    /\ pc[c] = "execute"
    /\ \E o \in HandlerOutcomes(snap[c]) :
         /\ Hold(c, [snap[c] EXCEPT !.exec = o.exec])
         /\ runs' = runs \cup
              {[call |-> c, rec |-> snap[c].rec, type |-> snap[c].type,
                by |-> snap[c].by, at |-> Len(log), exec |-> o.exec,
                effect |-> o.effect]}
    /\ Move(c, "append_executed")
    /\ UNCHANGED <<log, issued, faulted, board>>

AppendExecuted(c) ==
    /\ pc[c] = "append_executed"
    /\ log' = Append(log, snap[c])
    /\ Move(c, "broadcast")
    /\ UNCHANGED <<issued, snap, runs, faulted, board>>

\* _broadcast_action: the dashboards get the snapshot the call holds, which
\* need no longer be the latest one.  Then the reply.
Broadcast(c) ==
    /\ pc[c] = "broadcast"
    /\ board' = [board EXCEPT ![snap[c].rec] = snap[c]]
    /\ Move(c, "idle")
    /\ Hold(c, NoSnapshot)
    /\ UNCHANGED <<log, issued, runs, faulted>>
-----------------------------------------------------------------------------
\* Faults.

Lose(c) ==
    /\ Move(c, "idle")
    /\ Hold(c, NoSnapshot)
    /\ faulted' = faulted \cup {snap[c].rec}
    /\ UNCHANGED <<issued, runs, board>>

Appending == {"append_request", "append_decision", "append_executed"}

\* store.append raises; the row may or may not be in the table.
StoreRaises(c) ==
    /\ pc[c] \in Appending
    /\ log' = log \/ log' = Append(log, snap[c])
    /\ Lose(c)

\* A handler raises something other than the two exceptions that _execute
\* catches (the secret provider, or a malformed integration URL).
HandlerRaises(c) ==
    /\ pc[c] = "execute"
    /\ snap[c].type \in Handlers \cap CallsOut
    /\ ~TargetError(snap[c])
    /\ Lose(c)
    /\ UNCHANGED log

\* The API process dies and restarts: every call in flight is gone.
Crash ==
    /\ \E c \in Calls : pc[c] \in Active
    /\ pc' = [c \in Calls |-> "idle"]
    /\ snap' = [c \in Calls |-> NoSnapshot]
    /\ faulted' = faulted \cup {snap[c].rec : c \in {d \in Calls : pc[d] \in Active}}
    /\ UNCHANGED <<log, issued, runs, board>>

CallStep(c) ==
    \/ AppendRequest(c)
    \/ AppendDecision(c)
    \/ Execute(c)
    \/ AppendExecuted(c)
    \/ Broadcast(c)

Request ==
    \E c \in Calls, r \in Records, t \in Requestable, req, tgt \in BOOLEAN :
        RequestAction(c, r, t, req, tgt)

Decide ==
    \E c \in Calls, r \in Records :
        \/ \E p \in Subjects : Approve(c, r, p) \/ Reject(c, r, p)
        \/ RefuseDecision(c, r)

Fault == Crash \/ \E c \in Calls : StoreRaises(c) \/ HandlerRaises(c)

Next == Request \/ Decide \/ (\E c \in Calls : CallStep(c)) \/ Fault

Spec == Init /\ [][Next]_vars

\* The interleavings left when no two decisions on one record are between read
\* and append at once: InMemoryApprovalStore never suspends, so approve and
\* reject reach their append in the same event-loop step.
SerialLoads ==
    \A c, d \in Calls :
        (/\ pc[c] = "idle"
         /\ pc'[c] = "append_decision"
         /\ pc[d] = "append_decision")
        => snap[d].rec # snap'[c].rec

SerialNext == Next /\ SerialLoads

\* A coroutine that is not killed is resumed: the event loop schedules every
\* ready task, and each await ends (the stores and the integration clients
\* return or raise).
SerialSpec ==
    Init /\ [][SerialNext]_vars /\ \A c \in Calls : WF_vars(CallStep(c))
-----------------------------------------------------------------------------
\* Properties.

\* The snapshots that a later one must repeat: the decision an execution result
\* rests on, and the request a human decision rests on.
Decided(s) == [s EXCEPT !.exec = "not_executed"]
Requested(s) == [Decided(s) EXCEPT !.approval = "pending", !.by = Nobody]

\* Row k approves the invocation h in the name of the person that the handler is told
\* of, and decides a row that waited for it.
HumanGate(h, k) ==
    /\ log[k].approval = "approved"
    /\ log[k].by = h.by
    /\ h.by \in Subjects
    /\ \E j \in 1..(k - 1) : log[j].rec = h.rec /\ log[j].approval = "pending"

\* Row k approves the invocation h without a person: of a type that is not privileged
\* and for a request that was never told to wait.
AutomaticGate(h, k) ==
    /\ log[k].approval = "auto_approved"
    /\ h.type \notin PRIVILEGED_ACTIONS
    /\ \A j \in 1..h.at : log[j].rec = h.rec => log[j].approval # "pending"

\* ADR 0006: a privileged request is never passed to a handler until approve has
\* recorded an identified human decision.  No handler, whatever the type of its
\* action, is invoked before the audit table holds the approval that lets it: a
\* person's, for privileged types and whatever was stored as PENDING, or the automatic
\* one of a request that needs no approval.
ApprovalGate ==
    \A h \in runs : \E k \in 1..h.at :
        log[k].rec = h.rec /\ (HumanGate(h, k) \/ AutomaticGate(h, k))

\* The audit trail explains itself whatever interleaves: an execution result
\* repeats, field for field, an earlier APPROVED or AUTO_APPROVED snapshot of
\* the record, and a human decision an earlier PENDING one.
AuditTrail ==
    \A k \in DOMAIN log :
        /\ log[k].exec # "not_executed" =>
             \E j \in 1..(k - 1) :
                /\ log[j] = Decided(log[k])
                /\ log[j].approval \in {"approved", "auto_approved"}
        /\ log[k].approval \in {"approved", "rejected"} =>
             \E j \in 1..(k - 1) :
                log[j] = Requested(log[k])

\* A record starts once: only its first snapshot is PENDING or AUTO_APPROVED
\* without a result, so a decided record can never be decided afresh, and what
\* was auto-approved is never approved or rejected by a person.
StartsOnce ==
    \A j, k \in DOMAIN log :
        (j < k /\ log[j].rec = log[k].rec) =>
            /\ log[k].approval # "pending"
            /\ log[j].approval = "auto_approved" <=> log[k].approval = "auto_approved"
            /\ log[k].approval = "auto_approved" => log[k].exec # "not_executed"

\* A handler invocation that the audit table does not show was cut short: its
\* result is appended, about to be appended, or its call crashed or raised.
UnauditedOnlyByFault ==
    \A h \in runs :
        \/ h.rec \in faulted
        \/ /\ pc[h.call] = "append_executed"
           /\ snap[h.call].rec = h.rec
           /\ snap[h.call].by = h.by
           /\ snap[h.call].exec = h.exec
        \/ \E k \in DOMAIN log :
             /\ k > h.at
             /\ log[k].rec = h.rec
             /\ log[k].by = h.by
             /\ log[k].exec = h.exec

\* The dashboards are never told of a state that is not in the audit table.
BroadcastsAreCommitted ==
    \A r \in Records : board[r] # NoSnapshot =>
        \E k \in DOMAIN log : log[k] = board[r]

\* What was appended stays: snapshots are neither rewritten nor removed, and at
\* most one is added at a time.
AppendOnly ==
    [][/\ Len(log') \in {Len(log), Len(log) + 1}
       /\ \A i \in DOMAIN log : log'[i] = log[i]]_vars

\* ADR 0006: "Rejection appends a REJECTED snapshot and never executes."  The
\* code keeps it when no two decisions on a record overlap.
RejectionNeverExecutes ==
    \A k \in DOMAIN log : log[k].approval = "rejected" =>
        \A h \in runs : h.rec # log[k].rec

\* One response request, at most one handler invocation.
HandlerRunsOnce ==
    \A g, h \in runs : g.rec = h.rec => g = h

\* An approval that no fault cuts short gets its execution result.
ApprovalIsExecuted ==
    \A r \in Records :
        (\E i \in History(r) : log[i].approval \in {"approved", "auto_approved"})
        ~> (\/ r \in faulted
            \/ \E i \in History(r) : log[i].exec # "not_executed")
-----------------------------------------------------------------------------
\* The refinement of ApprovalLifecycle.

\* The state of r in its latest snapshot: what get returns to a reader.
LatestState(r) ==
    IF History(r) = {}
    THEN [approval |-> "absent", by |-> Nobody, exec |-> "not_executed"]
    ELSE LET s == log[Max(History(r))]
         IN [approval |-> s.approval, by |-> s.by, exec |-> s.exec]

LatestStates == [r \in Records |-> LatestState(r)]

Lifecycle == INSTANCE ApprovalLifecycle WITH latest <- LatestStates

\* The API's view of a record follows the one-way life cycle of ADR 0006 when
\* no two decisions on it overlap, crashes and failing appends included.
FollowsLifecycle == Lifecycle!Spec
-----------------------------------------------------------------------------
\* The inductive invariant behind the safety properties: what a call holds
\* between two awaits rests on a snapshot that is already in the table.

Logged(s) == \E k \in DOMAIN log : log[k] = s

HoldsRequest(c) ==
    /\ snap[c].approval \in {"pending", "auto_approved"}
    /\ snap[c].by = Nobody
    /\ snap[c].exec = "not_executed"
    /\ snap[c].type \in PRIVILEGED_ACTIONS => snap[c].approval = "pending"
    /\ \A k \in DOMAIN log : log[k].rec # snap[c].rec
    /\ \A d \in Calls \ {c} :
         pc[d] = "append_request" => snap[d].rec # snap[c].rec

HoldsDecision(c) ==
    /\ snap[c].approval \in {"approved", "rejected"}
    /\ snap[c].by \in Subjects
    /\ snap[c].exec = "not_executed"
    /\ Logged(Requested(snap[c]))

HoldsApproved(c) ==
    /\ snap[c].approval \in {"approved", "auto_approved"}
    /\ snap[c].exec = "not_executed"
    /\ Logged(snap[c])

HoldsResult(c) ==
    /\ snap[c].approval \in {"approved", "auto_approved"}
    /\ snap[c].exec # "not_executed"
    /\ Logged(Decided(snap[c]))

CallInv(c) ==
    /\ pc[c] \in Active => snap[c].rec \in issued
    /\ pc[c] = "append_request" => HoldsRequest(c)
    /\ pc[c] = "append_decision" => HoldsDecision(c)
    /\ pc[c] = "execute" => HoldsApproved(c)
    /\ pc[c] = "append_executed" => HoldsResult(c)
    /\ pc[c] = "broadcast" => Logged(snap[c])

LogInv ==
    /\ AuditTrail
    /\ StartsOnce
    /\ \A k \in DOMAIN log :
         /\ log[k].rec \in issued
         /\ log[k].approval = "auto_approved" => log[k].type \notin PRIVILEGED_ACTIONS
         /\ log[k].approval = "approved" => log[k].by \in Subjects
         /\ log[k].approval = "pending" => log[k].by = Nobody

RunInv ==
    /\ \A h \in runs : h.at <= Len(log)
    /\ ApprovalGate
    /\ UnauditedOnlyByFault

IInv ==
    /\ TypeOK
    /\ \A c \in Calls : CallInv(c)
    /\ LogInv
    /\ RunInv
    /\ BroadcastsAreCommitted
=============================================================================
