\* Three calls race over one record; every interleaving and every fault.
SPECIFICATION Spec
CONSTANTS
    Calls = {c1, c2, c3}
    Records = {r1}
    Subjects = {alice, bob}
    Requestable = {"quarantine_device", "notify_administrator"}
    Handlers = {"quarantine_device", "notify_administrator"}
    RealMode = {"quarantine_device"}
    Nobody = Nobody
SYMMETRY Symmetry
INVARIANTS ApprovalGate AuditTrail UnauditedOnlyByFault
