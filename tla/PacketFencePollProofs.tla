------------------------ MODULE PacketFencePollProofs ------------------------
(***************************************************************************)
(* KnownWasAlerted for any set of devices and any number of overlapping    *)
(* poll cycles.  A cycle replaces the Redis set by a listing it made       *)
(* before, so what it is about to write must be part of the invariant:     *)
(* every listed device is already reported, or is in the batch about to    *)
(* be posted.                                                              *)
(***************************************************************************)
EXTENDS PacketFencePoll, TLAPS

\* The type invariant holds: the episode a listing saw is the one its event
\* is stored for.
THEOREM QuarantineTypeCorrect == Spec => []TypeOK
<1>1. Init => TypeOK
  <2>1. Init => overlapped \in BOOLEAN
    BY Zenon DEF Init
  <2> QED
    BY <2>1, BoundsAssumption DEF Init, TypeOK, Episodes
<1>2. TypeOK /\ [Next]_vars => TypeOK'
  <2> SUFFICES ASSUME TypeOK, [Next]_vars PROVE TypeOK'
    OBVIOUS
  <2> USE BoundsAssumption DEF TypeOK, Episodes
  <2>1. CASE \E m \in Macs : Enter(m) \/ Leave(m)
    <3>1. ASSUME NEW m \in Macs, Enter(m) PROVE TypeOK'
      <4>1. episode[m] + 1 \in 0..MaxEpisodes
        BY <3>1 DEF Enter
      <4>2. episode' \in [Macs -> 0..MaxEpisodes]
        BY <3>1, <4>1 DEF Enter
      <4> QED
        BY <3>1, <4>2 DEF Enter, cycle
    <3>2. ASSUME NEW m \in Macs, Leave(m) PROVE TypeOK'
      BY <3>2 DEF Leave, cycle
    <3> QED
      BY <2>1, <3>1, <3>2
  <2>2. ASSUME NEW w \in Workers, Store(w) PROVE (alerts \in [Macs -> [Episodes -> Nat]])'
    BY <2>2 DEF Store
  <2>3. ASSUME NEW w \in Workers, CycleStep(w) PROVE TypeOK'
    <3>1. CASE ListQuarantine(w)
      BY <3>1 DEF ListQuarantine, Goto
    <3>2. CASE ReadKnown(w)
      BY <3>2 DEF ReadKnown, Goto
    <3>3. CASE Post(w)
      BY <3>3, <2>2 DEF Post, Goto
    <3>4. CASE Replace(w)
      BY <3>4 DEF Replace, ReplaceBy, Goto, Later
    <3> QED
      BY <2>3, <3>1, <3>2, <3>3, <3>4 DEF CycleStep
  <2>4. ASSUME NEW w \in Workers, CutShort(w) PROVE TypeOK'
    BY <2>4 DEF CutShort, Drop, Goto
  <2>5. ASSUME NEW w \in Workers, PostUnanswered(w) PROVE TypeOK'
    BY <2>5, <2>2 DEF PostUnanswered, Drop, Goto
  <2>6. CASE UNCHANGED vars
    BY <2>6 DEF vars, cycle
  <2> QED
    BY <2>1, <2>3, <2>4, <2>5, <2>6 DEF Next
<1> QED
  BY <1>1, <1>2, PTL DEF Spec

\* What a cycle in flight promises for the set it will write.
ListedInv ==
    \A w \in Workers :
        /\ pc[w] = "post" => \A m \in current[w] \ fresh[w] : Alerted(m)
        /\ pc[w] = "replace" => \A m \in current[w] : Alerted(m)

\* Stored events are never taken back.
LEMMA AlertsStay ==
    ASSUME TypeOK, TypeOK', [Next]_vars, NEW m \in Macs, Alerted(m)
    PROVE  Alerted(m)'
<1> USE DEF Alerted
<1>1. PICK k \in Episodes : alerts[m][k] > 0
  OBVIOUS
<1>2. ASSUME NEW w \in Workers, Store(w) PROVE alerts'[m][k] > 0
  <2>1. alerts[m] \in [Episodes -> Nat] /\ seen[w][m] \in Episodes
    BY DEF TypeOK
  <2>2. CASE m \in fresh[w]
    <3>1. alerts'[m] = [alerts[m] EXCEPT ![seen[w][m]] = @ + 1]
      BY <1>2, <2>2 DEF Store
    <3>2. alerts'[m][k] = alerts[m][k] \/ alerts'[m][k] = alerts[m][k] + 1
      BY <2>1, <3>1
    <3> QED
      BY <1>1, <2>1, <3>2
  <2>3. CASE m \notin fresh[w]
    BY <1>1, <1>2, <2>3 DEF Store
  <2> QED
    BY <2>2, <2>3
<1>3. CASE alerts' = alerts
  BY <1>1, <1>3
<1>4. CASE \E w \in Workers : Store(w)
  BY <1>1, <1>2, <1>4
<1> QED
  BY <1>3, <1>4 DEF Next, vars, Enter, Leave, CycleStep, ListQuarantine, ReadKnown,
     Post, Replace, ReplaceBy, CutShort, PostUnanswered

\* A batch that was stored alerts every device in it.
LEMMA StoreAlerts ==
    ASSUME TypeOK, NEW w \in Workers, Store(w), NEW m \in fresh[w]
    PROVE  Alerted(m)'
<1>1. m \in Macs /\ seen[w][m] \in Episodes
  BY DEF TypeOK
<1>2. alerts'[m] = [alerts[m] EXCEPT ![seen[w][m]] = @ + 1]
  BY <1>1 DEF Store
<1>3. alerts[m] \in [Episodes -> Nat]
  BY <1>1 DEF TypeOK
<1>4. alerts'[m][seen[w][m]] > 0
  BY <1>1, <1>2, <1>3
<1> QED
  BY <1>1, <1>4 DEF Alerted

\* A device the Redis set suppresses has been reported, for every number of
\* overlapping, failing and dying cycles.
THEOREM SuppressedWereAlerted == Spec => []KnownWasAlerted
<1> DEFINE Inv == KnownWasAlerted /\ ListedInv
<1>1. Init => Inv
  BY DEF Init, KnownWasAlerted, ListedInv
<1>2. TypeOK /\ TypeOK' /\ Inv /\ [Next]_vars => Inv'
  <2> SUFFICES ASSUME TypeOK, TypeOK', KnownWasAlerted, ListedInv, [Next]_vars
               PROVE  KnownWasAlerted' /\ ListedInv'
    OBVIOUS
  <2>0. \A m \in Macs : Alerted(m) => Alerted(m)'
    BY AlertsStay
  <2>1. ASSUME known' \subseteq known PROVE KnownWasAlerted'
    BY <2>0, <2>1 DEF KnownWasAlerted, TypeOK
  <2>2. ASSUME NEW w \in Workers,
               pc'[w] = pc[w], current'[w] = current[w], fresh'[w] = fresh[w]
        PROVE  /\ pc'[w] = "post" => \A m \in current'[w] \ fresh'[w] : Alerted(m)'
               /\ pc'[w] = "replace" => \A m \in current'[w] : Alerted(m)'
    BY <2>0, <2>2 DEF ListedInv, TypeOK
  <2>3. ASSUME UNCHANGED <<pc, current, fresh>> PROVE ListedInv'
    BY <2>2, <2>3 DEF ListedInv
  <2>4. ASSUME NEW w \in Workers,
               pc' = [pc EXCEPT ![w] = pc'[w]],
               \A v \in Workers \ {w} : current'[v] = current[v] /\ fresh'[v] = fresh[v],
               pc'[w] = "post" => \A m \in current'[w] \ fresh'[w] : Alerted(m)',
               pc'[w] = "replace" => \A m \in current'[w] : Alerted(m)'
        PROVE  ListedInv'
    <3>1. \A v \in Workers \ {w} : pc'[v] = pc[v]
      BY <2>4 DEF TypeOK
    <3> QED
      BY <2>2, <2>4, <3>1 DEF ListedInv
  <2>5. CASE \E m \in Macs : Enter(m) \/ Leave(m)
    BY <2>1, <2>3, <2>5 DEF Enter, Leave, cycle
  <2>6. ASSUME NEW w \in Workers, ListQuarantine(w) PROVE KnownWasAlerted' /\ ListedInv'
    BY <2>1, <2>4, <2>6 DEF ListQuarantine, Goto, TypeOK
  <2>7. ASSUME NEW w \in Workers, ReadKnown(w) PROVE KnownWasAlerted' /\ ListedInv'
    <3>1. /\ pc'[w] = IF current[w] \subseteq known THEN "replace" ELSE "post"
          /\ fresh'[w] = current[w] \ known
          /\ current' = current
      BY <2>7 DEF ReadKnown, Goto, TypeOK
    <3>2. \A m \in current[w] \cap known : Alerted(m)'
      BY <2>0 DEF KnownWasAlerted, TypeOK
    <3> QED
      BY <2>1, <2>4, <2>7, <3>1, <3>2 DEF ReadKnown, Goto, TypeOK
  <2>8. ASSUME NEW w \in Workers, Post(w) PROVE KnownWasAlerted' /\ ListedInv'
    <3>1. \A m \in fresh[w] : Alerted(m)'
      BY <2>8, StoreAlerts DEF Post
    <3>2. \A m \in current[w] \ fresh[w] : Alerted(m)'
      BY <2>0, <2>8 DEF ListedInv, Post, TypeOK
    <3>3. pc'[w] = "replace" /\ current' = current /\ fresh' = fresh
      BY <2>8 DEF Post, Goto, TypeOK
    <3> QED
      BY <2>1, <2>4, <2>8, <3>1, <3>2, <3>3 DEF Post, Goto
  <2>9. ASSUME NEW w \in Workers, Replace(w) PROVE KnownWasAlerted' /\ ListedInv'
    <3>1. \A m \in known' : Alerted(m)'
      BY <2>0, <2>9 DEF Replace, ReplaceBy, ListedInv, TypeOK
    <3>2. pc'[w] = "idle"
      BY <2>9 DEF Replace, ReplaceBy, Goto, TypeOK
    <3>3. ListedInv'
      BY <2>4, <2>9, <3>2 DEF Replace, ReplaceBy, Goto, TypeOK
    <3> QED
      BY <3>1, <3>3 DEF KnownWasAlerted
  <2>10. ASSUME NEW w \in Workers, Drop(w) PROVE KnownWasAlerted' /\ ListedInv'
    <3>1. pc'[w] = "idle"
      BY <2>10 DEF Drop, Goto, TypeOK
    <3> QED
      BY <2>1, <2>4, <2>10, <3>1 DEF Drop, Goto, TypeOK
  <2>11. CASE UNCHANGED vars
    BY <2>1, <2>3, <2>11 DEF vars, cycle
  <2> QED
    BY <2>5, <2>6, <2>7, <2>8, <2>9, <2>10, <2>11
       DEF Next, CycleStep, CutShort, PostUnanswered
<1> QED
  BY <1>1, <1>2, QuarantineTypeCorrect, PTL DEF Spec
-----------------------------------------------------------------------------
\* Stays and listings, whatever cycles overlap.

\* The stay that a cycle saw to be over is not the one the device is in now, and
\* no event is stored for a stay that has not begun.
StayInv ==
    /\ \A m \in Macs :
         /\ absent[m] <= episode[m]
         /\ m \in quarantined => absent[m] < episode[m]
         /\ \A k \in Episodes : episode[m] < k => alerts[m][k] = 0
    /\ \A w \in Workers : pc[w] # "idle" =>
         \A m \in Macs :
            /\ seen[w][m] <= episode[m]
            /\ (m \in quarantined /\ m \notin current[w]) => seen[w][m] < episode[m]

\* As long as no two cycles have run at once.

\* An event is stored for a stay after the last one seen to be over.
Marked(m) == \E k \in Episodes : absent[m] < k /\ alerts[m][k] > 0

\* The one cycle works on the set that is still stored.
AloneInv(w) ==
    /\ \A v \in Workers \ {w} : pc[v] = "idle"
    /\ \A m \in Macs, k \in Episodes : seen[w][m] < k => alerts[m][k] = 0
    /\ \A m \in current[w] : absent[m] < seen[w][m]
    /\ pc[w] \in {"post", "replace"} => fresh[w] = current[w] \ known
    /\ pc[w] = "replace" => \A m \in current[w] : Marked(m)

\* An accepted event whose cycle has neither replaced the set nor been cut short.
InHand(m, k) ==
    \E w \in Workers : pc[w] = "replace" /\ m \in fresh[w] /\ seen[w][m] = k

SnapshotInv ==
    ~overlapped =>
        /\ \A w \in Workers : pc[w] # "idle" => AloneInv(w)
        /\ \A m \in known : Marked(m)
        /\ \A m \in Macs, k \in Episodes :
             /\ alerts[m][k] <= 1 + unacked
             /\ (m \notin known /\ absent[m] < k /\ ~InHand(m, k)) => alerts[m][k] <= unacked

\* What an accepted batch adds: one event per new device, for the stay listed.
LEMMA StoreCounts ==
    ASSUME TypeOK, NEW w \in Workers, Store(w), NEW m \in Macs, NEW k \in Episodes
    PROVE  alerts'[m][k] = IF m \in fresh[w] /\ k = seen[w][m]
                           THEN alerts[m][k] + 1 ELSE alerts[m][k]
<1>1. alerts[m] \in [Episodes -> Nat] /\ seen[w][m] \in Episodes
  BY DEF TypeOK
<1>2. alerts'[m] = IF m \in fresh[w] THEN [alerts[m] EXCEPT ![seen[w][m]] = @ + 1]
                                     ELSE alerts[m]
  BY DEF Store
<1> QED BY <1>1, <1>2

\* Every step keeps stays and listings apart.
LEMMA StayStep == TypeOK /\ TypeOK' /\ StayInv /\ [Next]_vars => StayInv'
<1> SUFFICES ASSUME TypeOK, TypeOK', StayInv, [Next]_vars PROVE StayInv'
  OBVIOUS
<1>p. /\ \A m \in Macs : episode[m] \in Nat /\ absent[m] \in Nat
      /\ \A w \in Workers, m \in Macs : seen[w][m] \in Nat /\ seen[w][m] \in Episodes
      /\ \A k \in Episodes : k \in Nat
      /\ \A w \in Workers : fresh[w] \subseteq Macs /\ current[w] \subseteq Macs
  BY BoundsAssumption DEF TypeOK, Episodes
<1> DEFINE Stay(m) == /\ absent'[m] <= episode'[m]
                      /\ m \in quarantined' => absent'[m] < episode'[m]
                      /\ \A k \in Episodes : episode'[m] < k => alerts'[m][k] = 0
           Listing(w) == \A m \in Macs :
                            /\ seen'[w][m] <= episode'[m]
                            /\ (m \in quarantined' /\ m \notin current'[w]) => seen'[w][m] < episode'[m]
<1>q. ASSUME \A m \in Macs : Stay(m), \A w \in Workers : pc'[w] # "idle" => Listing(w)
      PROVE  StayInv'
  BY <1>q DEF StayInv
<1>1. ASSUME NEW m \in Macs, Enter(m) PROVE StayInv'
  <2>1. /\ m \notin quarantined /\ quarantined' = quarantined \cup {m}
        /\ episode'[m] = episode[m] + 1
        /\ \A n \in Macs \ {m} : episode'[n] = episode[n]
        /\ UNCHANGED <<pc, current, seen, alerts, absent>>
    BY <1>1 DEF Enter, cycle, TypeOK
  <2>2. ASSUME NEW n \in Macs PROVE Stay(n)
    <3>1. CASE n = m
      BY <1>p, <2>1, <3>1 DEF StayInv
    <3>2. CASE n # m
      BY <1>p, <2>1, <3>2 DEF StayInv
    <3> QED BY <3>1, <3>2
  <2>3. ASSUME NEW w \in Workers, pc'[w] # "idle" PROVE Listing(w)
    <3> SUFFICES ASSUME NEW n \in Macs
                 PROVE  /\ seen'[w][n] <= episode'[n]
                        /\ (n \in quarantined' /\ n \notin current'[w]) => seen'[w][n] < episode'[n]
      OBVIOUS
    <3>1. CASE n = m
      BY <1>p, <2>1, <2>3, <3>1 DEF StayInv
    <3>2. CASE n # m
      BY <1>p, <2>1, <2>3, <3>2 DEF StayInv
    <3> QED BY <3>1, <3>2
  <2> HIDE DEF Stay, Listing
  <2> QED BY <1>q, <2>2, <2>3
<1>2. ASSUME NEW m \in Macs, Leave(m) PROVE StayInv'
  BY <1>2 DEF Leave, cycle, StayInv
<1>3. ASSUME NEW w \in Workers, ListQuarantine(w) PROVE StayInv'
  <2>1. /\ current'[w] = quarantined /\ seen'[w] = episode
        /\ \A v \in Workers \ {w} : pc'[v] = pc[v] /\ current'[v] = current[v] /\ seen'[v] = seen[v]
        /\ UNCHANGED <<quarantined, episode, alerts, absent>>
    BY <1>3 DEF ListQuarantine, Goto, TypeOK
  <2> QED BY <1>p, <2>1 DEF StayInv
<1>4. ASSUME NEW w \in Workers, ReadKnown(w) PROVE StayInv'
  <2>1. /\ pc[w] # "idle" /\ \A v \in Workers \ {w} : pc'[v] = pc[v]
        /\ UNCHANGED <<quarantined, episode, current, seen, alerts, absent>>
    BY <1>4 DEF ReadKnown, Goto, TypeOK
  <2> QED BY <2>1 DEF StayInv
<1>5. ASSUME NEW w \in Workers, Store(w), pc[w] # "idle" PROVE
             \A m \in Macs, k \in Episodes : episode[m] < k => alerts'[m][k] = 0
  BY <1>5, <1>p, StoreCounts DEF StayInv
<1>6. ASSUME NEW w \in Workers, Post(w) PROVE StayInv'
  <2>1. /\ pc[w] # "idle" /\ \A v \in Workers \ {w} : pc'[v] = pc[v]
        /\ UNCHANGED <<quarantined, episode, current, seen, absent>> /\ Store(w)
    BY <1>6 DEF Post, Goto, TypeOK
  <2> QED BY <1>5, <2>1 DEF StayInv
<1>7. ASSUME NEW w \in Workers, Replace(w) PROVE StayInv'
  <2>1. /\ pc[w] # "idle" /\ pc'[w] = "idle"
        /\ \A v \in Workers \ {w} : pc'[v] = pc[v] /\ current'[v] = current[v] /\ seen'[v] = seen[v]
        /\ \A m \in Macs : absent'[m] = IF m \in current[w] THEN absent[m]
                                        ELSE Later(absent[m], seen[w][m])
        /\ UNCHANGED <<quarantined, episode, alerts>>
    BY <1>7 DEF Replace, ReplaceBy, Goto, TypeOK
  <2>2. \A m \in Macs : /\ absent'[m] <= episode[m]
                        /\ m \in quarantined => absent'[m] < episode[m]
    BY <1>p, <2>1 DEF StayInv, Later
  <2> QED BY <2>1, <2>2 DEF StayInv
<1>8. ASSUME NEW w \in Workers, CutShort(w) \/ PostUnanswered(w) PROVE StayInv'
  <2>1. /\ pc[w] # "idle" /\ pc'[w] = "idle"
        /\ \A v \in Workers \ {w} : pc'[v] = pc[v] /\ current'[v] = current[v] /\ seen'[v] = seen[v]
        /\ UNCHANGED <<quarantined, episode, absent>>
        /\ alerts' = alerts \/ Store(w)
    BY <1>8 DEF CutShort, PostUnanswered, Drop, Goto, TypeOK
  <2> QED BY <1>5, <2>1 DEF StayInv
<1>9. CASE UNCHANGED vars
  BY <1>9 DEF vars, cycle, StayInv
<1> QED BY <1>1, <1>2, <1>3, <1>4, <1>6, <1>7, <1>8, <1>9 DEF Next, CycleStep

\* Every step keeps the serial invariant, as long as no two cycles overlap.
LEMMA SnapshotStep ==
    TypeOK /\ TypeOK' /\ StayInv /\ SnapshotInv /\ [Next]_vars => SnapshotInv'
<1> SUFFICES ASSUME TypeOK, TypeOK', StayInv, SnapshotInv, [Next]_vars, ~overlapped'
             PROVE  SnapshotInv'
  BY DEF SnapshotInv
<1>o. ~overlapped
  BY DEF Next, Enter, Leave, CycleStep, ListQuarantine, ReadKnown, Post, Replace, ReplaceBy,
         CutShort, PostUnanswered, Drop, vars
<1>i. /\ \A w \in Workers : pc[w] # "idle" => AloneInv(w)
      /\ \A m \in known : Marked(m)
      /\ \A m \in Macs, k \in Episodes :
           /\ alerts[m][k] <= 1 + unacked
           /\ (m \notin known /\ absent[m] < k /\ ~InHand(m, k)) => alerts[m][k] <= unacked
  BY <1>o DEF SnapshotInv
<1>p. /\ \A m \in Macs : episode[m] \in Nat /\ absent[m] \in Nat
      /\ \A w \in Workers, m \in Macs : seen[w][m] \in Nat /\ seen[w][m] \in Episodes
      /\ \A k \in Episodes : k \in Nat
      /\ \A w \in Workers : fresh[w] \subseteq Macs /\ current[w] \subseteq Macs
      /\ \A m \in Macs, k \in Episodes : alerts[m][k] \in Nat
      /\ unacked \in Nat /\ known \subseteq Macs
  BY BoundsAssumption DEF TypeOK, Episodes
<1>q. ASSUME \A w \in Workers : pc'[w] # "idle" => AloneInv(w)',
             \A m \in known' : Marked(m)',
             \A m \in Macs, k \in Episodes :
               /\ alerts'[m][k] <= 1 + unacked'
               /\ (m \notin known' /\ absent'[m] < k /\ ~InHand(m, k)') => alerts'[m][k] <= unacked'
      PROVE  SnapshotInv'
  BY <1>q DEF SnapshotInv
<1>f. UNCHANGED <<absent, alerts>> => \A m : Marked(m)' <=> Marked(m)
  BY DEF Marked
<1>s. ASSUME NEW w \in Workers, Store(w), absent' = absent, NEW m \in Macs
      PROVE  /\ Marked(m) => Marked(m)'
             /\ (m \in fresh[w] /\ absent[m] < seen[w][m]) => Marked(m)'
  <2>1. \A k \in Episodes : alerts'[m][k] >= alerts[m][k]
    BY <1>p, <1>s, StoreCounts
  <2>2. Marked(m) => Marked(m)'
    BY <1>p, <1>s, <2>1, StoreCounts DEF Marked
  <2>3. m \in fresh[w] => alerts'[m][seen[w][m]] > 0
    BY <1>p, <1>s, StoreCounts
  <2> QED BY <1>p, <1>s, <2>2, <2>3 DEF Marked
<1>u. ASSUME UNCHANGED <<known, cycle, alerts, absent, unacked>> PROVE SnapshotInv'
  <2>1. \A w \in Workers : pc'[w] # "idle" => AloneInv(w)'
    BY <1>f, <1>i, <1>u DEF AloneInv, cycle
  <2>2. \A m, k : InHand(m, k)' <=> InHand(m, k)
    BY <1>u DEF InHand, cycle
  <2> QED BY <1>f, <1>i, <1>q, <1>u, <2>1, <2>2
<1>1. CASE \E m \in Macs : Enter(m) \/ Leave(m)
  BY <1>1, <1>u DEF Enter, Leave
<1>2. ASSUME NEW w \in Workers, ListQuarantine(w) PROVE SnapshotInv'
  <2>1. /\ \A v \in Workers : pc[v] = "idle"
        /\ pc'[w] = "read" /\ \A v \in Workers \ {w} : pc'[v] = "idle"
        /\ current'[w] = quarantined /\ seen'[w] = episode
        /\ UNCHANGED <<known, alerts, absent, unacked>>
    BY <1>2 DEF ListQuarantine, Goto, TypeOK
  <2>2. AloneInv(w)'
    <3>1. \A m \in Macs, k \in Episodes : seen'[w][m] < k => alerts'[m][k] = 0
      BY <2>1 DEF StayInv
    <3>2. \A m \in current'[w] : absent'[m] < seen'[w][m]
      BY <2>1 DEF StayInv, TypeOK
    <3> QED BY <2>1, <3>1, <3>2 DEF AloneInv
  <2>3. \A m, k : ~InHand(m, k) /\ ~InHand(m, k)'
    BY <2>1 DEF InHand
  <2> QED BY <1>f, <1>i, <1>q, <2>1, <2>2, <2>3
<1>3. ASSUME NEW w \in Workers, ReadKnown(w) PROVE SnapshotInv'
  <2>1. /\ pc[w] = "read" /\ pc'[w] = IF current[w] \subseteq known THEN "replace" ELSE "post"
        /\ \A v \in Workers \ {w} : pc'[v] = pc[v]
        /\ fresh'[w] = current[w] \ known
        /\ UNCHANGED <<known, current, seen, alerts, absent, unacked>>
    BY <1>3 DEF ReadKnown, Goto, TypeOK
  <2>2. AloneInv(w) /\ \A v \in Workers \ {w} : pc[v] = "idle" /\ pc'[v] = "idle"
    BY <1>i, <2>1 DEF AloneInv
  <2>3. pc'[w] = "replace" => fresh'[w] = {} /\ \A m \in current[w] : Marked(m)
    BY <1>i, <2>1
  <2>4. AloneInv(w)'
    BY <1>f, <2>1, <2>2, <2>3 DEF AloneInv
  <2>5. \A m, k : ~InHand(m, k) /\ ~InHand(m, k)'
    BY <2>1, <2>2, <2>3 DEF InHand
  <2> QED BY <1>f, <1>i, <1>q, <2>1, <2>2, <2>4, <2>5
<1>4. ASSUME NEW w \in Workers, pc[w] = "post", AloneInv(w), Store(w)
      PROVE  \A m \in Macs, k \in Episodes :
               /\ alerts'[m][k] <= 1 + unacked
               /\ (m \notin known /\ absent[m] < k /\ ~(m \in fresh[w] /\ seen[w][m] = k))
                    => alerts'[m][k] <= unacked
  <2> SUFFICES ASSUME NEW m \in Macs, NEW k \in Episodes
               PROVE  /\ alerts'[m][k] <= 1 + unacked
                      /\ (m \notin known /\ absent[m] < k /\ ~(m \in fresh[w] /\ seen[w][m] = k))
                           => alerts'[m][k] <= unacked
    OBVIOUS
  <2>1. ~InHand(m, k)
    BY <1>4 DEF InHand, AloneInv
  <2>2. CASE m \in fresh[w] /\ seen[w][m] = k
    <3>1. m \notin known /\ absent[m] < k
      BY <1>4, <2>2 DEF AloneInv
    <3> QED BY <1>4, <1>i, <1>p, <2>1, <2>2, <3>1, StoreCounts
  <2>3. CASE ~(m \in fresh[w] /\ seen[w][m] = k)
    BY <1>4, <1>i, <1>p, <2>1, <2>3, StoreCounts
  <2> QED BY <2>2, <2>3
<1>5. ASSUME NEW w \in Workers, Post(w) PROVE SnapshotInv'
  <2>1. /\ pc[w] = "post" /\ pc'[w] = "replace" /\ Store(w)
        /\ \A v \in Workers \ {w} : pc'[v] = pc[v]
        /\ UNCHANGED <<known, current, fresh, seen, absent, unacked>>
    BY <1>5 DEF Post, Goto, TypeOK
  <2>2. AloneInv(w) /\ \A v \in Workers \ {w} : pc[v] = "idle" /\ pc'[v] = "idle"
    BY <1>i, <2>1 DEF AloneInv
  <2>3. \A m \in current[w] : Marked(m)'
    <3>1. ASSUME NEW m \in current[w] PROVE Marked(m)'
      <4>0. m \in Macs
        BY <1>p
      <4>1. CASE m \in known
        BY <1>i, <1>s, <2>1, <4>0, <4>1
      <4>2. CASE m \notin known
        <5>1. m \in fresh[w] /\ absent[m] < seen[w][m]
          BY <2>1, <2>2, <4>2 DEF AloneInv
        <5> QED BY <1>s, <2>1, <4>0, <5>1
      <4> QED BY <4>1, <4>2
    <3> QED BY <3>1
  <2>4. \A m \in Macs, k \in Episodes : seen[w][m] < k => alerts'[m][k] = 0
    BY <1>p, <2>1, <2>2, StoreCounts DEF AloneInv
  <2>5. AloneInv(w)'
    BY <2>1, <2>2, <2>3, <2>4 DEF AloneInv
  <2>6. \A m, k : InHand(m, k)' <=> (m \in fresh[w] /\ seen[w][m] = k)
    BY <2>1, <2>2 DEF InHand
  <2>7. \A m \in known : Marked(m)'
    BY <1>i, <1>p, <1>s, <2>1
  <2> QED BY <1>4, <1>q, <2>1, <2>2, <2>5, <2>6, <2>7
<1>6. ASSUME NEW w \in Workers, Replace(w) PROVE SnapshotInv'
  <2>1. /\ pc[w] = "replace" /\ known' = current[w]
        /\ \A v \in Workers \ {w} : pc'[v] = pc[v]
        /\ pc'[w] = "idle"
        /\ \A m \in Macs : absent'[m] = IF m \in current[w] THEN absent[m]
                                        ELSE Later(absent[m], seen[w][m])
        /\ UNCHANGED <<alerts, unacked>>
    BY <1>6 DEF Replace, ReplaceBy, Goto, TypeOK
  <2>2. AloneInv(w) /\ \A v \in Workers : pc'[v] = "idle"
    BY <1>i, <2>1 DEF AloneInv
  <2>3. \A m \in known' : Marked(m)'
    BY <1>p, <2>1, <2>2 DEF AloneInv, Marked
  <2>4. ASSUME NEW m \in Macs, NEW k \in Episodes, m \notin known', absent'[m] < k
        PROVE  alerts[m][k] <= unacked
    <3>1. seen[w][m] < k
      BY <1>p, <2>1, <2>4 DEF Later
    <3> QED BY <1>p, <2>2, <3>1 DEF AloneInv
  <2> QED BY <1>i, <1>q, <2>1, <2>2, <2>3, <2>4
<1>7. ASSUME NEW w \in Workers, CutShort(w) \/ PostUnanswered(w) PROVE SnapshotInv'
  <2>1. /\ pc[w] # "idle" /\ pc'[w] = "idle"
        /\ \A v \in Workers \ {w} : pc'[v] = pc[v]
        /\ UNCHANGED <<known, absent>>
    BY <1>7 DEF CutShort, PostUnanswered, Drop, Goto, TypeOK
  <2>2. AloneInv(w) /\ \A v \in Workers : pc'[v] = "idle"
    BY <1>i, <2>1 DEF AloneInv
  <2>3. \A m, k : InHand(m, k) => pc[w] = "replace" /\ m \in fresh[w]
    BY <2>2 DEF InHand, AloneInv
  <2>4. CASE CutShort(w)
    <3>1. alerts' = alerts /\ unacked' = IF pc[w] = "replace" /\ fresh[w] # {} THEN unacked + 1 ELSE unacked
      BY <2>4 DEF CutShort
    <3>2. \A m \in Macs, k \in Episodes :
             /\ alerts'[m][k] <= 1 + unacked'
             /\ (m \notin known /\ absent[m] < k) => alerts'[m][k] <= unacked'
      BY <1>i, <1>p, <2>3, <3>1
    <3> QED BY <1>f, <1>i, <1>q, <2>1, <2>2, <3>1, <3>2
  <2>5. CASE PostUnanswered(w)
    <3>1. pc[w] = "post" /\ Store(w) /\ unacked' = unacked + 1
      BY <2>5 DEF PostUnanswered
    <3>2. \A m \in Macs, k \in Episodes :
             /\ alerts'[m][k] <= 1 + unacked'
             /\ (m \notin known /\ absent[m] < k) => alerts'[m][k] <= unacked'
      <4>1. \A m \in Macs, k \in Episodes : alerts'[m][k] \in Nat
        BY BoundsAssumption DEF TypeOK, Episodes
      <4> QED BY <1>4, <1>p, <2>2, <3>1, <4>1
    <3>3. \A m \in known : Marked(m)'
      BY <1>i, <1>p, <1>s, <2>1, <3>1
    <3> QED BY <1>q, <2>1, <2>2, <3>2, <3>3
  <2> QED BY <1>7, <2>4, <2>5
<1>8. CASE UNCHANGED vars
  BY <1>8, <1>u DEF vars
<1> QED BY <1>1, <1>2, <1>3, <1>5, <1>6, <1>7, <1>8 DEF Next, CycleStep

\* The two together hold in every reachable state.
LEMMA SnapshotInvariance == Spec => [](StayInv /\ SnapshotInv)
<1>1. Init => StayInv
  BY BoundsAssumption DEF Init, StayInv, Episodes
<1>2. Init => SnapshotInv
  <2> SUFFICES ASSUME Init PROVE SnapshotInv
    OBVIOUS
  <2>1. /\ \A w \in Workers : pc[w] = "idle"
        /\ known = {} /\ unacked = 0
        /\ \A m \in Macs, k \in Episodes : alerts[m][k] = 0
    BY DEF Init
  <2> QED BY <2>1 DEF SnapshotInv
<1> QED BY <1>1, <1>2, StayStep, SnapshotStep, QuarantineTypeCorrect, PTL DEF Spec

\* As long as no two cycles have run at once, the snapshot "correctly re-alerts if
\* a device leaves and later re-enters quarantine" (README), through every crash
\* and lost answer.
THEOREM SerialCyclesRealert == Spec => []SerialReentryAlerted
<1>1. SnapshotInv => SerialReentryAlerted
  BY DEF SnapshotInv, SerialReentryAlerted, ReentryAlerted, Marked
<1> QED BY <1>1, SnapshotInvariance, PTL

\* And a stay is reported again only because a cycle was cut short after the API
\* had accepted its batch.
THEOREM RepeatsAreRetries == Spec => []RepeatsOwedToRetries
<1>1. SnapshotInv => RepeatsOwedToRetries
  BY DEF SnapshotInv, RepeatsOwedToRetries
<1> QED BY <1>1, SnapshotInvariance, PTL
=============================================================================
