\* Decisions on a record do not overlap between read and append; faults happen,
\* and a call that no fault ends is resumed until it replies.
SPECIFICATION SerialSpec
CONSTANTS
    Calls = {c1, c2, c3}
    Records = {r1}
    Subjects = {alice, bob}
    Requestable = {"quarantine_device", "require_manual_approval", "notify_administrator", "create_incident"}
    Handlers = {"quarantine_device", "require_manual_approval", "notify_administrator"}
    RealMode = {"quarantine_device", "notify_administrator"}
    Nobody = Nobody
INVARIANTS RejectionNeverExecutes HandlerRunsOnce
PROPERTIES FollowsLifecycle ApprovalIsExecuted
