------------------------------ MODULE Scoring ------------------------------
(***************************************************************************)
(* PolicyEngine (app/engines/policy.py) and RiskEngine (app/engines/       *)
(* risk.py) over the evidence of one incident.  Of an event they read its  *)
(* type and severity, the identifiers of its device entities and the       *)
(* origin of a session.                                                    *)
(***************************************************************************)
EXTENDS Integers, FiniteSets, FiniteSetsExt

CONSTANTS
    TierZeroAssets,   \* PolicyConfig; the API passes none, so the three sets
    PawDevices,       \* are empty there and filled by whoever calls
    IsolatedDevices,  \* run_pipeline with a configuration
    Identifier(_)     \* what strip and casefold make of an identifier

\* DEFAULT_EVENT_WEIGHTS.
EventWeights ==
    [auth_failed |-> 8, auth_succeeded |-> 2, account_locked_out |-> 20,
     device_unknown |-> 8, device_registered |-> 2, device_quarantined |-> 24,
     vlan_assigned |-> 5, session_started |-> 12, session_ended |-> 3,
     privileged_command_executed |-> 15, session_anomaly_detected |-> 25,
     password_spray_detected |-> 24, group_membership_changed |-> 18,
     tier_violation_detected |-> 25, traffic_blocked |-> 8,
     lateral_movement_attempt |-> 25, port_scan_detected |-> 18,
     unexpected_east_west_traffic |-> 20]

\* DEFAULT_SEVERITY_WEIGHTS.
SeverityWeights == [low |-> 2, medium |-> 6, high |-> 12, critical |-> 20]

Severity == DOMAIN SeverityWeights

CorrelatedEventBonus == 4
PolicyViolationBonus == 15

\* _normalized_set; PolicyConfig.__post_init__ applies it to the configured sets.
Identifiers(ids) == {Identifier(x) : x \in ids}

\* TierZeroFromNonPawRule.  "origin" holds source_device or remote_addr, or
\* nothing: a session without an origin is not reported.
TierZeroFromNonPaw(e) ==
    /\ e.type = "session_started"
    /\ Identifiers(e.targets) \cap Identifiers(TierZeroAssets) # {}
    /\ e.origin # {}
    /\ Identifiers(e.origin) \cap Identifiers(PawDevices) = {}

\* QuarantineBypassRule.
QuarantineBypass(e) ==
    /\ e.source = "packetfence"
    /\ e.type \in {"auth_succeeded", "vlan_assigned"}
    /\ Identifiers(e.devices) \cap Identifiers(IsolatedDevices) # {}

\* PolicyEngine.evaluate: rule and event of every violation.
Violations(C) ==
    {<<"tier_zero_from_non_paw", e.id>> : e \in {d \in C : TierZeroFromNonPaw(d)}} \cup
    {<<"quarantine_bypass_attempt", e.id>> : e \in {d \in C : QuarantineBypass(d)}}

\* Mutant of RiskScore: the score wraps where the code caps it.
WrappedScore(C, violations) ==
    (MapThenSumSet(LAMBDA e : EventWeights[e.type] + SeverityWeights[e.severity], C)
     + (Cardinality(C) - 1) * CorrelatedEventBonus
     + (IF violations # {} THEN PolicyViolationBonus ELSE 0)) % 101

\* RiskEngine.score of non-empty evidence.
RiskScore(C, violations) ==
    LET base == MapThenSumSet(LAMBDA e : EventWeights[e.type] + SeverityWeights[e.severity], C)
        correlation_bonus == (Cardinality(C) - 1) * CorrelatedEventBonus
        violation_bonus == IF violations # {} THEN PolicyViolationBonus ELSE 0
    IN Min({100, base + correlation_bonus + violation_bonus})

\* _risk_band.
RiskBand(score) ==
    CASE score >= 75 -> "critical"
      [] score >= 50 /\ score < 75 -> "high"
      [] score >= 25 /\ score < 50 -> "medium"
      [] score < 25 -> "low"
=============================================================================
