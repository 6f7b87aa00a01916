\* ADR 0006 on rejection, against every interleaving of approve and reject.
SPECIFICATION Spec
CONSTANTS
    Calls = {c1, c2}
    Records = {r1}
    Subjects = {alice, bob}
    Requestable = {"quarantine_device"}
    Handlers = {"quarantine_device"}
    RealMode = {"quarantine_device"}
    Nobody = Nobody
INVARIANTS RejectionNeverExecutes
