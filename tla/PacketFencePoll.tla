--------------------------- MODULE PacketFencePoll ---------------------------
(***************************************************************************)
(* The scheduled PacketFence quarantine poll: app/tasks/packetfence.py.    *)
(*                                                                         *)
(* A cycle has JumpServer run pfcmd, which lists the devices in the        *)
(* Quarantine category, subtracts the set of MACs that the last successful *)
(* cycle left in Redis, posts a DEVICE_QUARANTINED event for every MAC     *)
(* that remains and only then replaces the Redis set by what it listed.    *)
(* Beat starts cycles without looking at the running ones, and the backlog *)
(* of a worker that was down starts several at once.                       *)
(*                                                                         *)
(* A device may enter quarantine several times; each stay is an episode.   *)
(***************************************************************************)
EXTENDS Integers, FiniteSets

CONSTANTS
    Workers,      \* Celery worker processes
    Macs,         \* devices
    MaxEpisodes,  \* bound on the stays of one device in quarantine
    MaxFaults     \* bound on cycles that are cut short

ASSUME BoundsAssumption == MaxEpisodes \in Nat \ {0} /\ MaxFaults \in Nat

VARIABLES
    quarantined,  \* devices in the Quarantine category now
    episode,      \* how often each device has entered it
    known,        \* the Redis set known_quarantine
    pc, current, fresh,  \* the cycle each worker runs: listed and new MACs
    seen,         \* history: the episode counters when the cycle listed them
    alerts,       \* number of DEVICE_QUARANTINED events stored per device and stay
    absent,       \* history: last stay that a successful cycle saw to be over
    present,      \* history: last stay in which a successful cycle listed the device
    faults,       \* cycles cut short so far
    unacked,      \* those of them whose batch the API had accepted
    overlapped    \* history: two cycles have been running at once

cycle == <<pc, current, fresh, seen>>
vars == <<quarantined, episode, known, cycle, alerts, absent, present, faults, unacked,
          overlapped>>

Episodes == 0..MaxEpisodes

TypeOK ==
    /\ quarantined \subseteq Macs
    /\ episode \in [Macs -> Episodes]
    /\ known \subseteq Macs
    /\ pc \in [Workers -> {"idle", "read", "post", "replace"}]
    /\ current \in [Workers -> SUBSET Macs]
    /\ fresh \in [Workers -> SUBSET Macs]
    /\ seen \in [Workers -> [Macs -> Episodes]]
    /\ alerts \in [Macs -> [Episodes -> Nat]]
    /\ absent \in [Macs -> Episodes]
    /\ present \in [Macs -> Episodes]
    /\ faults \in Nat
    /\ unacked \in Nat
    /\ overlapped \in BOOLEAN

Init ==
    /\ quarantined = {}
    /\ episode = [m \in Macs |-> 0]
    /\ known = {}
    /\ pc = [w \in Workers |-> "idle"]
    /\ current = [w \in Workers |-> {}]
    /\ fresh = [w \in Workers |-> {}]
    /\ seen = [w \in Workers |-> [m \in Macs |-> 0]]
    /\ alerts = [m \in Macs |-> [k \in Episodes |-> 0]]
    /\ absent = [m \in Macs |-> 0]
    /\ present = [m \in Macs |-> 0]
    /\ faults = 0
    /\ unacked = 0
    /\ overlapped = FALSE
-----------------------------------------------------------------------------
\* PacketFence moves devices in and out of quarantine.
Enter(m) ==
    /\ m \notin quarantined
    /\ episode[m] < MaxEpisodes
    /\ quarantined' = quarantined \cup {m}
    /\ episode' = [episode EXCEPT ![m] = @ + 1]
    /\ UNCHANGED <<known, cycle, alerts, absent, present, faults, unacked, overlapped>>

Leave(m) ==
    /\ m \in quarantined
    /\ quarantined' = quarantined \ {m}
    /\ UNCHANGED <<episode, known, cycle, alerts, absent, present, faults, unacked,
                   overlapped>>

Goto(w, where) == pc' = [pc EXCEPT ![w] = where]

\* The Ops job: pfcmd node view category="Quarantine".
ListQuarantine(w) ==
    /\ pc[w] = "idle"
    /\ current' = [current EXCEPT ![w] = quarantined]
    /\ seen' = [seen EXCEPT ![w] = episode]
    /\ overlapped' = (overlapped \/ \E v \in Workers : pc[v] # "idle")
    /\ Goto(w, "read")
    /\ UNCHANGED <<quarantined, episode, known, fresh, alerts, absent, present,
                   faults, unacked>>

\* Mutant of ReadKnown: the stored set is not subtracted.
AllAreNew(w) ==
    /\ pc[w] = "read"
    /\ fresh' = [fresh EXCEPT ![w] = current[w]]
    /\ Goto(w, IF current[w] = {} THEN "replace" ELSE "post")
    /\ UNCHANGED <<quarantined, episode, known, current, seen, alerts, absent,
                   present, faults, unacked, overlapped>>

\* Mutant of ReadKnown: without a stored set the cycle returns early.
ReturnWithoutBaseline(w) ==
    /\ pc[w] = "read"
    /\ fresh' = [fresh EXCEPT ![w] = current[w] \ known]
    /\ Goto(w, CASE known = {} -> "idle"
                 [] current[w] \subseteq known -> "replace"
                 [] OTHER -> "post")
    /\ UNCHANGED <<quarantined, episode, known, current, seen, alerts, absent,
                   present, faults, unacked, overlapped>>

\* new_macs = current - await state.get(); without new MACs nothing is posted.
ReadKnown(w) ==
    /\ pc[w] = "read"
    /\ fresh' = [fresh EXCEPT ![w] = current[w] \ known]
    /\ Goto(w, IF current[w] \subseteq known THEN "replace" ELSE "post")
    /\ UNCHANGED <<quarantined, episode, known, current, seen, alerts, absent,
                   present, faults, unacked, overlapped>>

Store(w) ==
    alerts' = [m \in Macs |-> IF m \in fresh[w]
                              THEN [alerts[m] EXCEPT ![seen[w][m]] = @ + 1]
                              ELSE alerts[m]]

Post(w) ==
    /\ pc[w] = "post"
    /\ Store(w)
    /\ Goto(w, "replace")
    /\ UNCHANGED <<quarantined, episode, known, current, fresh, seen, absent,
                   present, faults, unacked, overlapped>>

Later(j, k) == IF j < k THEN k ELSE j

\* The cycle leaves macs in the Redis set.
ReplaceBy(w, macs) ==
    /\ pc[w] = "replace"
    /\ known' = macs
    /\ absent' = [m \in Macs |->
                    IF m \in current[w] THEN absent[m] ELSE Later(absent[m], seen[w][m])]
    /\ present' = [m \in Macs |->
                    IF m \in current[w] THEN Later(present[m], seen[w][m]) ELSE present[m]]
    /\ current' = [current EXCEPT ![w] = {}]
    /\ fresh' = [fresh EXCEPT ![w] = {}]
    /\ seen' = [seen EXCEPT ![w] = [m \in Macs |-> 0]]
    /\ Goto(w, "idle")
    /\ UNCHANGED <<quarantined, episode, alerts, faults, unacked, overlapped>>

\* Mutant of Replace: an ever-seen set.
KeepEverSeen(w) == ReplaceBy(w, known \cup current[w])

\* state.replace in one Redis transaction: the stored set becomes what this
\* cycle listed, whatever other cycles stored meanwhile.
Replace(w) == ReplaceBy(w, current[w])

Drop(w) ==
    /\ faults < MaxFaults
    /\ faults' = faults + 1
    /\ current' = [current EXCEPT ![w] = {}]
    /\ fresh' = [fresh EXCEPT ![w] = {}]
    /\ seen' = [seen EXCEPT ![w] = [m \in Macs |-> 0]]
    /\ Goto(w, "idle")
    /\ UNCHANGED <<quarantined, episode, known, absent, present, overlapped>>

\* Mutant of CutShort: a failed cycle saves its listing too.
FailAndSave(w) ==
    /\ pc[w] # "idle"
    /\ faults < MaxFaults
    /\ faults' = faults + 1
    /\ known' = current[w]
    /\ Goto(w, "idle")
    /\ UNCHANGED <<quarantined, episode, current, fresh, seen, alerts, absent, present,
                   unacked, overlapped>>

\* The cycle ends early: failed job, refused post, Redis error, killed worker.
CutShort(w) ==
    /\ pc[w] # "idle"
    /\ Drop(w)
    /\ unacked' = IF pc[w] = "replace" /\ fresh[w] # {} THEN unacked + 1 ELSE unacked
    /\ UNCHANGED alerts

\* The API accepted the batch, the answer was lost.
PostUnanswered(w) ==
    /\ pc[w] = "post"
    /\ Store(w)
    /\ Drop(w)
    /\ unacked' = unacked + 1

CycleStep(w) == ListQuarantine(w) \/ ReadKnown(w) \/ Post(w) \/ Replace(w)

Next ==
    \/ \E m \in Macs : Enter(m) \/ Leave(m)
    \/ \E w \in Workers : CycleStep(w) \/ CutShort(w) \/ PostUnanswered(w)

Spec == Init /\ [][Next]_vars

\* Beat keeps starting cycles and a running cycle goes on: the Ops job is given
\* 60 seconds and every HTTP call 30.
FairSpec == Spec /\ \A w \in Workers : WF_vars(CycleStep(w))
-----------------------------------------------------------------------------
Alerted(m) == \E k \in Episodes : alerts[m][k] > 0

\* The poll forgets no device silently: one that the Redis set suppresses has
\* had a DEVICE_QUARANTINED event accepted, whatever cycles overlapped or died.
KnownWasAlerted == \A m \in known : Alerted(m)

\* README: the snapshot "correctly re-alerts if a device leaves and later
\* re-enters quarantine".  Successful cycles have seen a stay of the device to be
\* over and have listed a later one: once the Redis set suppresses the device, an
\* event has been stored for a stay after the one that ended.
ReentryAlerted ==
    \A m \in known : present[m] > absent[m] =>
        \E k \in Episodes : absent[m] < k /\ alerts[m][k] > 0

\* As long as no two cycles have run at once, the snapshot does re-alert.
SerialReentryAlerted == ~overlapped => ReentryAlerted

\* As long as no two cycles have run at once, a stay is reported again only
\* because a cycle was cut short after the API had accepted its batch.
RepeatsOwedToRetries ==
    ~overlapped => \A m \in Macs, k \in Episodes : alerts[m][k] <= 1 + unacked

\* A device that stays in quarantine gets into the Redis set, and so has been
\* reported, although cycles are cut short.
EventuallyKnown ==
    \A m \in Macs : (m \in quarantined) ~> (m \in known \/ m \notin quarantined)
=============================================================================
