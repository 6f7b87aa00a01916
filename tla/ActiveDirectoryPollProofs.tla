---------------------- MODULE ActiveDirectoryPollProofs ----------------------
(***************************************************************************)
(* For any number of overlapping cycles and interruptions, the Active      *)
(* Directory poll skips a failed logon only in the second of a cutoff or   *)
(* where a silenced query left it out; and without overlapping cycles an   *)
(* event is stored again only by the retry of a post that was not          *)
(* answered.                                                               *)
(***************************************************************************)
EXTENDS ActiveDirectoryPoll, TLAPS

\* Printing whole seconds moves a time back by less than a second.
LEMMA StampBounds ==
    ASSUME NEW t \in Int
    PROVE  Stamp(t) \in Int /\ Stamp(t) <= t /\ t < Stamp(t) + TicksPerSecond
<1>1. t % TicksPerSecond \in 0..(TicksPerSecond - 1)
  BY TimeAssumption
<1> QED BY <1>1, TimeAssumption DEF Stamp

\* A time between a stamp and the moment that was stamped has the same stamp.
LEMMA SameSecond ==
    ASSUME NEW t \in Int, NEW h \in Int, h <= t, Stamp(t) <= h
    PROVE  Stamp(t) = Stamp(h)
<1> DEFINE n == TicksPerSecond
           a == t \div n
           b == h \div n
<1>1. n \in Nat /\ n > 0
  BY TimeAssumption
<1>2. /\ a \in Int /\ b \in Int
      /\ t = n * a + (t % n) /\ h = n * b + (h % n)
      /\ 0 <= t % n /\ t % n < n /\ 0 <= h % n /\ h % n < n
      /\ t % n \in Int /\ h % n \in Int
  BY <1>1
<1> HIDE DEF a, b, n
<1>3. Stamp(t) = n * a /\ Stamp(h) = n * b
  BY <1>1, <1>2 DEF Stamp, n
<1>4. n * a \in Int /\ n * b \in Int /\ n * a <= h /\ h <= t /\ t < n * a + n
       /\ n * b <= h /\ h < n * b + n
  BY <1>1, <1>2, <1>3
<1>5. ~(a < b)
  <2> SUFFICES ASSUME a + 1 <= b PROVE FALSE
    BY <1>2
  <2>1. n * (a + 1) <= n * b
    BY <1>1, <1>2
  <2>2. n * (a + 1) = n * a + n
    BY <1>1, <1>2
  <2> QED BY <1>1, <1>4, <2>1, <2>2
<1>6. ~(b < a)
  <2> SUFFICES ASSUME b + 1 <= a PROVE FALSE
    BY <1>2
  <2>1. n * (b + 1) <= n * a
    BY <1>1, <1>2
  <2>2. n * (b + 1) = n * b + n
    BY <1>1, <1>2
  <2> QED BY <1>1, <1>4, <2>1, <2>2
<1> QED BY <1>2, <1>3, <1>5, <1>6

\* Every step of a poll cycle, of the clock and of the log keeps the types.
LEMMA TypeStep == TypeOK /\ [Next]_vars => TypeOK'
<1> SUFFICES ASSUME TypeOK, [Next]_vars PROVE TypeOK'
  OBVIOUS
<1> USE DEF TypeOK, cycle, history
<1>1. CASE Tick
  BY <1>1 DEF Tick
<1>2. ASSUME NEW e \in Events, Occur(e) PROVE TypeOK'
  BY <1>2 DEF Occur
<1>3. ASSUME NEW w \in Workers, Begin(w) PROVE TypeOK'
  BY <1>3 DEF Begin, Goto
<1>4. ASSUME NEW w \in Workers, ReadWatermark(w) PROVE TypeOK'
  BY <1>4, TimeAssumption DEF ReadWatermark, Goto, NoMark
<1>5. ASSUME NEW w \in Workers, RunQuery(w) PROVE TypeOK'
  BY <1>5 DEF RunQuery, Take, Listed, Goto
<1>12. ASSUME NEW w \in Workers, QuerySilenced(w) PROVE TypeOK'
  <2>1. PICK part \in SUBSET (Listed(w) \ Malformed) :
          /\ Take(w, part)
          /\ missed' = [missed EXCEPT ![w] = {e \in Listed(w) \ part : InWindow(e, since[w], cutoff[w])}]
    BY <1>12 DEF QuerySilenced
  <2>2. batch' \in [Workers -> SUBSET Events] /\ missed' \in [Workers -> SUBSET Events]
    BY <2>1 DEF Take, Listed
  <2>3. pc' \in [Workers -> {"idle", "read", "query", "post", "commit"}]
    BY <2>1 DEF Take, Goto
  <2> QED BY <1>12, <2>2, <2>3 DEF QuerySilenced
<1>11. ASSUME NEW w \in Workers, RefuseListing(w) PROVE TypeOK'
  BY <1>11 DEF RefuseListing, Finish, Goto
<1>6. ASSUME NEW w \in Workers, Post(w) PROVE TypeOK'
  BY <1>6 DEF Post, Store, Goto
<1>7. ASSUME NEW w \in Workers, Commit(w) PROVE TypeOK'
  <2>0. Stamp(cutoff[w]) \in Int
    <3>1. cutoff[w] \in Int
      OBVIOUS
    <3> QED BY <3>1, StampBounds
  <2>1. cutoffs' \subseteq Int
    BY <1>7, <2>0 DEF Commit, CommitAt
  <2> QED BY <1>7, <2>1 DEF Commit, CommitAt, Finish, Goto
<1>8. ASSUME NEW w \in Workers, CutShort(w) PROVE TypeOK'
  BY <1>8 DEF CutShort, Finish, Goto
<1>9. ASSUME NEW w \in Workers, PostUnanswered(w) PROVE TypeOK'
  BY <1>9 DEF PostUnanswered, Store, Finish, Goto
<1>10. CASE UNCHANGED vars
  BY <1>10 DEF vars
<1> QED BY <1>1, <1>2, <1>3, <1>4, <1>5, <1>6, <1>7, <1>8, <1>9, <1>10, <1>11, <1>12
       DEF Next, CycleStep

\* Before the first cycle every variable has its type.
LEMMA PollInit == Init => TypeOK
<1>1. Init => overlapped \in BOOLEAN
  BY Zenon DEF Init
<1> QED BY <1>1 DEF Init, TypeOK, NoMark

\* The variables of the poll always have their types.
THEOREM PollTypeCorrect == Spec => []TypeOK
  BY PollInit, TypeStep, PTL DEF Spec
-----------------------------------------------------------------------------
\* What the chain of windows has covered.

Stamped(e, lo, hi) == e \in occurred /\ lo < Stamp(at[e]) /\ Stamp(at[e]) <= hi

Accounted(e) == ingested[e] >= 1 \/ e \in lost \/ InCutoffSecond(at[e])

\* Every event stamped in ]lo, hi] is accounted for, and hi was a cutoff: an
\* event to come that is stamped in the window falls in the second of hi.
Chained(lo, hi) ==
    /\ \A e \in Events : Stamped(e, lo, hi) => Accounted(e)
    /\ Stamp(hi) \in cutoffs
    /\ hi <= now

\* What the cycle of w has found or missed, but for the second of its cutoff.
HasFound(w) ==
    \A e \in Events : Stamped(e, since[w], cutoff[w]) =>
        e \in batch[w] \/ e \in missed[w] \/ Stamp(at[e]) = Stamp(cutoff[w])

WindowInv(w) ==
    /\ pc[w] # "idle" => cutoff[w] <= now
    /\ pc[w] \in {"query", "post", "commit"} =>
         floor[w] = since[w] \/ Chained(floor[w], since[w])
    /\ pc[w] = "post" => HasFound(w)
    /\ pc[w] = "commit" =>
         \A e \in Events : Stamped(e, since[w], cutoff[w]) =>
            Accounted(e) \/ e \in missed[w] \/ Stamp(at[e]) = Stamp(cutoff[w])

WindowsInv ==
    /\ watermark # NoMark => Chained(base, watermark)
    /\ \A w \in Workers : WindowInv(w)

\* What every step leaves alone or only adds to.
LEMMA Monotone ==
    ASSUME TypeOK, [Next]_vars
    PROVE  /\ now <= now'
           /\ cutoffs \subseteq cutoffs' /\ lost \subseteq lost'
           /\ \A e \in Events : ingested'[e] >= ingested[e]
           /\ \A e \in Events : \/ at'[e] = at[e] /\ (e \in occurred' <=> e \in occurred)
                                \/ e \notin occurred /\ e \in occurred' /\ at'[e] = now
<1>0. now \in Nat /\ \A e \in Events : ingested[e] \in Nat
  BY DEF TypeOK
<1>1. CASE Tick
  BY <1>0, <1>1 DEF Tick, history
<1>2. ASSUME NEW e \in Events, Occur(e)
      PROVE  /\ UNCHANGED <<now, cutoffs, lost, ingested>>
             /\ \A f \in Events : \/ at'[f] = at[f] /\ (f \in occurred' <=> f \in occurred)
                                  \/ f \notin occurred /\ f \in occurred' /\ at'[f] = now
  BY <1>2 DEF Occur, history, TypeOK
<1>3. ASSUME NEW w \in Workers, CycleStep(w) \/ QuerySilenced(w) \/ CutShort(w) \/ PostUnanswered(w)
      PROVE  /\ UNCHANGED <<now, occurred, at>> /\ cutoffs \subseteq cutoffs' /\ lost \subseteq lost'
             /\ ingested' = ingested \/ Store(w)
  BY <1>3 DEF CycleStep, Begin, ReadWatermark, RunQuery, QuerySilenced, RefuseListing, Post, Commit,
              CommitAt, CutShort, PostUnanswered, history
<1>4. ASSUME NEW w \in Workers, Store(w) PROVE \A e \in Events : ingested'[e] >= ingested[e]
  BY <1>0, <1>4 DEF Store
<1>5. CASE UNCHANGED vars
  BY <1>0, <1>5 DEF vars, history
<1> QED BY <1>0, <1>1, <1>2, <1>3, <1>4, <1>5 DEF Next

\* An event that is accounted for stays so.
LEMMA AccountedStays ==
    ASSUME TypeOK, [Next]_vars, NEW e \in occurred, Accounted(e)
    PROVE  Accounted(e)'
<1>0. e \in Events
  BY DEF TypeOK
<1>1. at'[e] = at[e] /\ cutoffs \subseteq cutoffs' /\ lost \subseteq lost'
  BY <1>0, Monotone
<1>2. ingested[e] >= 1 => ingested'[e] >= 1
  <2>1. ingested[e] \in Nat /\ ingested'[e] \in Nat
    BY <1>0, TypeStep DEF TypeOK
  <2> QED BY <1>0, <2>1, Monotone
<1>3. InCutoffSecond(at[e]) => InCutoffSecond(at[e])'
  BY <1>1 DEF InCutoffSecond, Stamp
<1> QED BY <1>1, <1>2, <1>3 DEF Accounted

\* A window that has ended gets no new event, except in the second of its end.
LEMMA WindowKept ==
    ASSUME TypeOK, [Next]_vars, NEW lo \in Int, NEW hi \in Int, hi <= now, NEW G,
           \A e \in Events : Stamped(e, lo, hi) => e \in G \/ Stamp(at[e]) = Stamp(hi)
    PROVE  \A e \in Events : Stamped(e, lo, hi)' => e \in G \/ Stamp(at'[e]) = Stamp(hi)
<1> SUFFICES ASSUME NEW e \in Events, Stamped(e, lo, hi)'
             PROVE  e \in G \/ Stamp(at'[e]) = Stamp(hi)
  OBVIOUS
<1>1. e \in occurred' /\ lo < Stamp(at'[e]) /\ Stamp(at'[e]) <= hi
  BY DEF Stamped, Stamp
<1>2. CASE at'[e] = at[e] /\ e \in occurred
  BY <1>1, <1>2 DEF Stamped
<1>3. CASE at'[e] = now
  BY <1>1, <1>3, SameSecond DEF TypeOK
<1> QED BY <1>1, <1>2, <1>3, Monotone

\* The chain of windows up to hi stays covered.
LEMMA ChainKept ==
    ASSUME TypeOK, [Next]_vars, NEW lo \in Int, NEW hi \in Int, Chained(lo, hi)
    PROVE  Chained(lo, hi)'
<1> DEFINE G == {e \in Events : e \in occurred /\ Accounted(e)}
<1>1. \A e \in Events : Stamped(e, lo, hi) => e \in G
  BY DEF Chained, Stamped
<1>2. \A e \in Events : Stamped(e, lo, hi)' => e \in G \/ Stamp(at'[e]) = Stamp(hi)
  BY <1>1, WindowKept DEF Chained
<1>3. Stamp(hi) \in cutoffs' /\ hi <= now'
  <2>1. now \in Int /\ now' \in Int
    BY TypeStep DEF TypeOK
  <2> QED BY <2>1, Monotone DEF Chained
<1>4. \A e \in G : Accounted(e)'
  BY AccountedStays
<1>5. \A e \in Events : Stamp(at'[e]) = Stamp(hi) => Accounted(e)'
  BY <1>3 DEF Accounted, InCutoffSecond, Stamp
<1>6. Stamp(hi)' = Stamp(hi)
  BY DEF Stamp
<1> QED BY <1>2, <1>3, <1>4, <1>5, <1>6 DEF Chained

\* A cycle keeps what it relies on while other steps happen.
LEMMA CycleKept ==
    ASSUME TypeOK, [Next]_vars, NEW w \in Workers, WindowInv(w), pc'[w] = pc[w],
           cutoff'[w] = cutoff[w], since'[w] = since[w], floor'[w] = floor[w],
           batch'[w] = batch[w], missed'[w] = missed[w]
    PROVE  WindowInv(w)'
<1>0. PICK lo \in Int : lo = since[w]
  BY DEF TypeOK
<1>1. PICK hi \in Int : hi = cutoff[w]
  BY DEF TypeOK
<1>2. PICK fl \in Int : fl = floor[w]
  BY DEF TypeOK
<1>3. PICK b : b = batch[w]
  OBVIOUS
<1>m. PICK m : m = missed[w]
  OBVIOUS
<1>4. since'[w] = lo /\ cutoff'[w] = hi /\ floor'[w] = fl /\ batch'[w] = b /\ missed'[w] = m
  BY <1>0, <1>1, <1>2, <1>3, <1>m
<1>5. now \in Int /\ now' \in Int /\ now <= now'
  BY TypeStep, Monotone DEF TypeOK
<1>6. pc[w] # "idle" => hi <= now /\ hi <= now'
  BY <1>1, <1>5 DEF WindowInv
<1>7. pc[w] \in {"query", "post", "commit"} => fl = lo \/ Chained(fl, lo)'
  BY <1>0, <1>2, ChainKept DEF WindowInv
<1>8. pc[w] = "post" =>
        \A e \in Events : Stamped(e, lo, hi)' => e \in b \/ e \in m \/ Stamp(at'[e]) = Stamp(hi)
  <2> SUFFICES ASSUME pc[w] = "post"
               PROVE  \A e \in Events : Stamped(e, lo, hi)' =>
                         e \in b \/ e \in m \/ Stamp(at'[e]) = Stamp(hi)
    OBVIOUS
  <2> DEFINE G == b \cup m
  <2>1. \A e \in Events : Stamped(e, lo, hi) => e \in G \/ Stamp(at[e]) = Stamp(hi)
    BY <1>0, <1>1, <1>3, <1>m DEF WindowInv, HasFound
  <2> HIDE DEF G
  <2>2. hi <= now
    BY <1>6
  <2>3. \A e \in Events : Stamped(e, lo, hi)' => e \in G \/ Stamp(at'[e]) = Stamp(hi)
    BY <2>1, <2>2, WindowKept
  <2> QED BY <2>3 DEF G
<1>9. pc[w] = "commit" =>
        \A e \in Events : Stamped(e, lo, hi)' =>
            Accounted(e)' \/ e \in m \/ Stamp(at'[e]) = Stamp(hi)
  <2> SUFFICES ASSUME pc[w] = "commit"
               PROVE  \A e \in Events : Stamped(e, lo, hi)' =>
                         Accounted(e)' \/ e \in m \/ Stamp(at'[e]) = Stamp(hi)
    OBVIOUS
  <2> DEFINE G == {e \in Events : e \in m \/ (e \in occurred /\ Accounted(e))}
  <2>1. \A e \in Events : Stamped(e, lo, hi) => e \in G \/ Stamp(at[e]) = Stamp(hi)
    BY <1>0, <1>1, <1>m DEF WindowInv, Stamped
  <2>2. \A e \in Events : Stamped(e, lo, hi)' => e \in G \/ Stamp(at'[e]) = Stamp(hi)
    BY <1>6, <2>1, WindowKept
  <2> QED BY <2>2, AccountedStays
<1>11. pc[w] = "post" => HasFound(w)'
  BY <1>4, <1>8 DEF HasFound, Stamped, Stamp
<1>12. pc[w] = "commit" =>
         \A e \in Events : Stamped(e, since[w], cutoff[w])' =>
             Accounted(e)' \/ e \in missed'[w] \/ Stamp(at[e])' = Stamp(cutoff[w])'
  BY <1>4, <1>9 DEF Stamped, Stamp
<1>13. pc[w] \in {"query", "post", "commit"} =>
        (floor[w] = since[w])' \/ Chained(floor[w], since[w])'
  BY <1>4, <1>7 DEF Chained, Stamped, Stamp
<1>14. pc[w] # "idle" => (cutoff[w] <= now)'
  BY <1>4, <1>6
<1> QED BY <1>11, <1>12, <1>13, <1>14 DEF WindowInv

\* The chain that ends at the watermark stays covered until a cycle moves it.
LEMMA MarkKept ==
    ASSUME TypeOK, WindowsInv, [Next]_vars, UNCHANGED <<watermark, base>>
    PROVE  (watermark # NoMark => Chained(base, watermark))'
<1> SUFFICES ASSUME watermark # NoMark PROVE Chained(base, watermark)'
  OBVIOUS
<1>0. PICK lo \in Int : lo = base
  BY DEF TypeOK
<1>1. PICK hi \in Int : hi = watermark
  BY DEF TypeOK, NoMark
<1>2. Chained(lo, hi)'
  BY <1>0, <1>1, ChainKept DEF WindowsInv
<1>3. base' = lo /\ watermark' = hi
  BY <1>0, <1>1
<1> QED BY <1>2, <1>3 DEF Chained, Stamped, Stamp

\* Every step keeps the windows covered.
LEMMA WindowsStep == TypeOK /\ WindowsInv /\ [Next]_vars => WindowsInv'
<1> SUFFICES ASSUME TypeOK, WindowsInv, [Next]_vars PROVE WindowsInv'
  OBVIOUS
<1>t. TypeOK'
  BY TypeStep
<1>p. /\ \A e \in Events : at[e] \in Int /\ Stamp(at[e]) \in Int /\ Stamp(at[e]) <= at[e]
      /\ \A w \in Workers : since[w] \in Int /\ floor[w] \in Int /\ cutoff[w] \in Int
      /\ now \in Int
  <2>1. \A e \in Events : at[e] \in Int
    BY DEF TypeOK
  <2>2. /\ \A w \in Workers : since[w] \in Int /\ floor[w] \in Int /\ cutoff[w] \in Int
        /\ now \in Int
    BY DEF TypeOK
  <2> QED BY <2>1, <2>2, StampBounds
<1> DEFINE Same(v) == /\ pc'[v] = pc[v] /\ cutoff'[v] = cutoff[v] /\ since'[v] = since[v]
                      /\ batch'[v] = batch[v] /\ floor'[v] = floor[v] /\ missed'[v] = missed[v]
<1>k. ASSUME NEW v \in Workers, Same(v) PROVE WindowInv(v)'
  BY <1>k, CycleKept DEF WindowsInv
<1>m. UNCHANGED <<watermark, base>> => (watermark # NoMark => Chained(base, watermark))'
  BY MarkKept
<1>1. ASSUME NEW w \in Workers, UNCHANGED <<watermark, base>>, WindowInv(w)',
             \A v \in Workers \ {w} : Same(v)
      PROVE  WindowsInv'
  <2> HIDE DEF Same
  <2> QED BY <1>1, <1>k, <1>m DEF WindowsInv
<1>2. CASE UNCHANGED <<watermark, base, cycle>>
  BY <1>2, <1>k, <1>m DEF WindowsInv, cycle
<1>3. ASSUME NEW w \in Workers, Begin(w) PROVE WindowsInv'
  <2>1. /\ pc'[w] = "read" /\ cutoff'[w] = now /\ UNCHANGED <<watermark, base, now>>
        /\ \A v \in Workers \ {w} : Same(v)
    BY <1>3 DEF Begin, Goto, TypeOK
  <2>2. WindowInv(w)'
    BY <1>p, <2>1 DEF WindowInv
  <2> QED BY <1>1, <2>1, <2>2
<1>4. ASSUME NEW w \in Workers, ReadWatermark(w) PROVE WindowsInv'
  <2>1. /\ pc[w] = "read" /\ pc'[w] = "query"
        /\ UNCHANGED <<watermark, base, now, occurred, at, ingested, lost, cutoffs, cutoff>>
        /\ \A v \in Workers \ {w} : Same(v)
        /\ \/ floor'[w] = since'[w]
           \/ watermark # NoMark /\ since'[w] = watermark /\ floor'[w] = base
    BY <1>4 DEF ReadWatermark, Goto, TypeOK, history
  <2>2. (floor[w] = since[w])' \/ Chained(floor[w], since[w])'
    <3>1. CASE floor'[w] = since'[w]
      BY <3>1
    <3>2. CASE watermark # NoMark /\ since'[w] = watermark /\ floor'[w] = base
      <4>1. Chained(base, watermark)
        BY <3>2 DEF WindowsInv
      <4> QED BY <2>1, <3>2, <4>1 DEF Chained, Stamped, Accounted, InCutoffSecond, Stamp
    <3> QED BY <2>1, <3>1, <3>2
  <2>3. cutoff[w] <= now
    BY <2>1 DEF WindowsInv, WindowInv
  <2>4. WindowInv(w)'
    BY <2>1, <2>2, <2>3 DEF WindowInv
  <2> QED BY <1>1, <2>1, <2>4
<1>5. ASSUME NEW w \in Workers, NEW found,
             pc[w] = "query", pc'[w] = IF found = {} THEN "commit" ELSE "post", batch'[w] = found,
             UNCHANGED <<watermark, base, now, occurred, at, ingested, lost, cutoffs, cutoff, since, floor>>,
             \A v \in Workers \ {w} : Same(v),
             \A e \in Listed(w) : InWindow(e, since[w], cutoff[w]) => e \in found \/ e \in missed'[w]
      PROVE  WindowsInv'
  <2>1. ASSUME NEW e \in Events, Stamped(e, since[w], cutoff[w])
        PROVE  e \in found \/ e \in missed'[w]
    BY <1>5, <1>p, <2>1 DEF Stamped, Listed, InWindow
  <2>2. (floor[w] = since[w])' \/ Chained(floor[w], since[w])'
    <3>1. floor[w] = since[w] \/ Chained(floor[w], since[w])
      BY <1>5 DEF WindowsInv, WindowInv
    <3> QED BY <1>5, <3>1 DEF Chained, Stamped, Accounted, InCutoffSecond, Stamp
  <2>3. (cutoff[w] <= now)'
    BY <1>5 DEF WindowsInv, WindowInv
  <2>4. CASE found = {}
    <3>1. \A e \in Events : Stamped(e, since[w], cutoff[w])' => e \in missed'[w]
      BY <1>5, <2>1, <2>4 DEF Stamped, Stamp
    <3>2. WindowInv(w)'
      BY <1>5, <2>2, <2>3, <2>4, <3>1 DEF WindowInv
    <3> QED BY <1>1, <1>5, <3>2
  <2>5. CASE found # {}
    <3>1. HasFound(w)'
      BY <1>5, <2>1 DEF HasFound, Stamped, Stamp
    <3>2. WindowInv(w)'
      BY <1>5, <2>2, <2>3, <2>5, <3>1 DEF WindowInv
    <3> QED BY <1>1, <1>5, <3>2
  <2> QED BY <2>4, <2>5
<1>6. ASSUME NEW w \in Workers, RunQuery(w) PROVE WindowsInv'
  <2> DEFINE found == {e \in Listed(w) \ Malformed : InWindow(e, since[w], cutoff[w])}
  <2>1. /\ pc[w] = "query" /\ Listed(w) \cap Malformed = {}
        /\ pc'[w] = IF found = {} THEN "commit" ELSE "post"
        /\ batch'[w] = found
        /\ UNCHANGED <<watermark, base, now, occurred, at, ingested, lost, cutoffs, cutoff, since, floor>>
        /\ \A v \in Workers \ {w} : Same(v)
    BY <1>6 DEF RunQuery, Take, Refused, Goto, TypeOK, history
  <2>2. \A e \in Listed(w) : InWindow(e, since[w], cutoff[w]) => e \in found
    BY <2>1
  <2> HIDE DEF found, Same
  <2> QED BY <1>5, <2>1, <2>2
<1>7. ASSUME NEW w \in Workers, QuerySilenced(w) PROVE WindowsInv'
  <2>0. PICK part \in SUBSET (Listed(w) \ Malformed) :
          /\ Take(w, part)
          /\ missed' = [missed EXCEPT ![w] = {e \in Listed(w) \ part : InWindow(e, since[w], cutoff[w])}]
    BY <1>7 DEF QuerySilenced
  <2> DEFINE found == {e \in part : InWindow(e, since[w], cutoff[w])}
  <2>1. /\ pc[w] = "query"
        /\ UNCHANGED <<watermark, base, now, occurred, at, ingested, lost, cutoffs, cutoff, since, floor>>
    BY <1>7 DEF QuerySilenced, history
  <2>2. /\ pc'[w] = IF found = {} THEN "commit" ELSE "post"
        /\ batch'[w] = found
        /\ missed'[w] = {e \in Listed(w) \ part : InWindow(e, since[w], cutoff[w])}
        /\ \A v \in Workers \ {w} : Same(v)
    BY <2>0, <2>1 DEF Take, Goto, TypeOK
  <2>3. \A e \in Listed(w) : InWindow(e, since[w], cutoff[w]) => e \in found \/ e \in missed'[w]
    BY <2>2
  <2> HIDE DEF found, Same
  <2> QED BY <1>5, <2>1, <2>2, <2>3
<1>8. ASSUME NEW w \in Workers, Post(w) PROVE WindowsInv'
  <2>1. /\ pc[w] = "post" /\ pc'[w] = "commit" /\ Store(w)
        /\ UNCHANGED <<watermark, base, now, occurred, at, lost, cutoffs, cutoff, since, floor, batch, missed>>
        /\ \A v \in Workers \ {w} : Same(v)
    BY <1>8 DEF Post, Goto, TypeOK, history
  <2>2. \A e \in Events : e \in batch[w] => ingested'[e] >= 1
    BY <2>1 DEF Store, TypeOK
  <2>3. HasFound(w)
    BY <2>1 DEF WindowsInv, WindowInv
  <2>4. \A e \in Events : Stamped(e, since[w], cutoff[w])' =>
             Accounted(e)' \/ e \in missed'[w] \/ Stamp(at[e])' = Stamp(cutoff[w])'
    BY <2>1, <2>2, <2>3 DEF HasFound, Stamped, Accounted, Stamp
  <2>5. floor[w] = since[w] \/ Chained(floor[w], since[w])'
    <3>1. floor[w] = since[w] \/ Chained(floor[w], since[w])
      BY <2>1 DEF WindowsInv, WindowInv
    <3>2. ASSUME Chained(floor[w], since[w]) PROVE Chained(floor[w], since[w])'
      <4>1. ASSUME NEW e \in Events, Stamped(e, floor[w], since[w])' PROVE Accounted(e)'
        <5>1. Stamped(e, floor[w], since[w]) /\ e \in occurred
          BY <2>1, <4>1 DEF Stamped, Stamp
        <5> QED BY <3>2, <5>1, AccountedStays DEF Chained
      <4> QED BY <2>1, <3>2, <4>1 DEF Chained, Stamp
    <3> QED BY <3>1, <3>2
  <2>6. (cutoff[w] <= now)'
    BY <2>1 DEF WindowsInv, WindowInv
  <2>7. WindowInv(w)'
    BY <2>1, <2>4, <2>5, <2>6 DEF WindowInv
  <2> QED BY <1>1, <2>1, <2>7
<1>9. ASSUME NEW w \in Workers, Finish(w), UNCHANGED <<watermark, base>> PROVE WindowsInv'
  <2>1. pc'[w] = "idle" /\ \A v \in Workers \ {w} : Same(v)
    BY <1>9 DEF Finish, Goto, TypeOK
  <2>2. WindowInv(w)'
    BY <2>1 DEF WindowInv
  <2> QED BY <1>1, <1>9, <2>1, <2>2
<1>10. ASSUME NEW w \in Workers, Commit(w) PROVE WindowsInv'
  <2>1. /\ pc[w] = "commit" /\ watermark' = cutoff[w] /\ base' = floor[w]
        /\ lost' = lost \cup missed[w]
        /\ cutoffs' = cutoffs \cup {Stamp(cutoff[w])} /\ Finish(w)
        /\ UNCHANGED <<now, occurred, at, ingested>>
    BY <1>10 DEF Commit, CommitAt
  <2>2. pc'[w] = "idle" /\ \A v \in Workers \ {w} : Same(v)
    BY <2>1 DEF Finish, Goto, TypeOK
  <2>3. /\ floor[w] = since[w] \/ Chained(floor[w], since[w])
        /\ cutoff[w] <= now
        /\ \A e \in Events : Stamped(e, since[w], cutoff[w]) =>
              Accounted(e) \/ e \in missed[w] \/ Stamp(at[e]) = Stamp(cutoff[w])
    BY <2>1 DEF WindowsInv, WindowInv
  <2>4. ASSUME NEW e \in Events, Stamped(e, floor[w], cutoff[w])
        PROVE  Accounted(e) \/ e \in missed[w] \/ Stamp(at[e]) = Stamp(cutoff[w])
    <3>1. CASE since[w] < Stamp(at[e])
      BY <2>3, <2>4, <3>1 DEF Stamped
    <3>2. CASE Stamp(at[e]) <= since[w]
      <4>1. floor[w] # since[w]
        BY <1>p, <2>4, <3>2 DEF Stamped
      <4> QED BY <2>3, <2>4, <3>2, <4>1 DEF Chained, Stamped
    <3> QED BY <1>p, <3>1, <3>2
  <2>5. Chained(base, watermark)'
    <3>1. ASSUME NEW e \in Events, Stamped(e, base, watermark)' PROVE Accounted(e)'
      <4>1. Stamped(e, floor[w], cutoff[w])
        BY <2>1, <3>1 DEF Stamped, Stamp
      <4>2. Accounted(e) => Accounted(e)'
        BY <4>1, AccountedStays DEF Stamped
      <4>3. Stamp(at[e]) = Stamp(cutoff[w]) => Accounted(e)'
        BY <2>1 DEF Accounted, InCutoffSecond, Stamp
      <4>4. e \in missed[w] => Accounted(e)'
        BY <2>1 DEF Accounted
      <4> QED BY <2>4, <4>1, <4>2, <4>3, <4>4
    <3> QED BY <2>1, <2>3, <3>1 DEF Chained, Stamp
  <2>6. WindowInv(w)'
    BY <2>2 DEF WindowInv
  <2>7. \A v \in Workers \ {w} : WindowInv(v)'
    BY <1>k, <2>2
  <2> QED BY <2>5, <2>6, <2>7 DEF WindowsInv
<1>11. ASSUME NEW w \in Workers, CutShort(w) \/ PostUnanswered(w) \/ RefuseListing(w)
       PROVE  Finish(w) /\ UNCHANGED <<watermark, base>>
  BY <1>11 DEF CutShort, PostUnanswered, RefuseListing
<1>12. Tick \/ (\E e \in Events : Occur(e)) \/ UNCHANGED vars
         => UNCHANGED <<watermark, base, cycle>>
  BY DEF Tick, Occur, vars
<1> QED BY <1>2, <1>3, <1>4, <1>6, <1>7, <1>8, <1>9, <1>10, <1>11, <1>12 DEF Next, CycleStep

\* Whatever the overlap of cycles and the interruptions, and whenever the query
\* runs, the watermark passes no failed logon that was not ingested, but for
\* those of a cutoff's second and those that a silenced query left out.
THEOREM NoLogonSkipped == Spec => []NothingSkipped
<1>1. Init => WindowsInv
  BY DEF Init, WindowsInv, WindowInv
<1>2. TypeOK /\ WindowsInv => NothingSkipped
  <2> SUFFICES ASSUME TypeOK, WindowsInv, NEW e \in occurred,
                      base < Stamp(at[e]), at[e] <= watermark
               PROVE  ingested[e] >= 1 \/ e \in lost \/ InCutoffSecond(at[e])
    BY DEF NothingSkipped
  <2>1. e \in Events /\ at[e] \in Nat /\ watermark \in Int
    BY DEF TypeOK, NoMark
  <2>2. watermark # NoMark
    BY <2>1 DEF NoMark
  <2>3. Stamp(at[e]) <= watermark
    BY <2>1, StampBounds
  <2>4. Accounted(e)
    BY <2>1, <2>2, <2>3 DEF WindowsInv, Chained, Stamped
  <2> QED BY <2>4 DEF Accounted
<1> QED BY <1>1, <1>2, WindowsStep, PollTypeCorrect, PTL DEF Spec
-----------------------------------------------------------------------------
\* Copies of an event, as long as no two cycles have run at once.

\* No committed window holds e: a later cycle may still find it.
Fresh(e) == e \notin occurred \/ watermark = NoMark \/ watermark < Stamp(at[e])

\* The one cycle's window starts at the watermark that is still stored.
AloneInv(w) ==
    /\ \A v \in Workers \ {w} : pc[v] = "idle"
    /\ watermark <= cutoff[w] /\ cutoff[w] <= now
    /\ (pc[w] \in {"query", "post", "commit"} /\ watermark # NoMark) => since[w] = watermark
    /\ pc[w] \in {"post", "commit"} =>
         \A e \in batch[w] : e \in occurred /\ Fresh(e) /\ Stamp(at[e]) <= cutoff[w]

\* An accepted batch whose cycle is neither committed nor cut short yet.
InHand(e) == \E w \in Workers : pc[w] = "commit" /\ e \in batch[w]

CopiesInv ==
    ~overlapped =>
        /\ watermark <= now
        /\ \A w \in Workers : pc[w] # "idle" => AloneInv(w)
        /\ \A e \in Events :
             /\ ingested[e] <= 1 + unacked
             /\ (Fresh(e) /\ ~InHand(e)) => ingested[e] <= unacked

\* Every step keeps the count of copies, as long as no two cycles overlap.
LEMMA CopiesStep == TypeOK /\ CopiesInv /\ [Next]_vars => CopiesInv'
<1> SUFFICES ASSUME TypeOK, CopiesInv, [Next]_vars, ~overlapped' PROVE CopiesInv'
  BY DEF CopiesInv
<1>t. TypeOK /\ TypeOK'
  BY TypeStep
<1>o. ~overlapped
  BY DEF Next, Tick, Occur, CycleStep, Begin, ReadWatermark, RunQuery, QuerySilenced, RefuseListing,
         Post, Commit, CommitAt, CutShort, PostUnanswered, vars
<1>i. /\ watermark <= now
      /\ \A w \in Workers : pc[w] # "idle" => AloneInv(w)
      /\ \A e \in Events : /\ ingested[e] <= 1 + unacked
                           /\ (Fresh(e) /\ ~InHand(e)) => ingested[e] <= unacked
  BY <1>o DEF CopiesInv
<1>p. /\ \A e \in Events : ingested[e] \in Nat /\ at[e] \in Nat /\ Stamp(at[e]) \in Int
      /\ unacked \in Nat /\ now \in Nat /\ watermark \in Int /\ occurred \subseteq Events
      /\ \A w \in Workers : cutoff[w] \in Nat /\ since[w] \in Int /\ batch[w] \subseteq Events
  BY StampBounds DEF TypeOK, NoMark
<1>f. UNCHANGED <<occurred, at, watermark>> => \A e : Fresh(e)' <=> Fresh(e)
  BY DEF Fresh, Stamp
<1>q. ASSUME watermark' <= now',
             \A w \in Workers : pc'[w] # "idle" => AloneInv(w)',
             \A e \in Events : /\ ingested'[e] <= 1 + unacked'
                               /\ (Fresh(e)' /\ ~InHand(e)') => ingested'[e] <= unacked'
      PROVE  CopiesInv'
  BY <1>q DEF CopiesInv
<1>u. ASSUME UNCHANGED <<occurred, at, watermark, cycle, ingested, unacked>>, now <= now', now' \in Nat
      PROVE  CopiesInv'
  <2>1. \A w \in Workers : pc'[w] # "idle" => AloneInv(w)'
    BY <1>f, <1>i, <1>p, <1>u DEF AloneInv, cycle, Stamp
  <2>2. \A e : InHand(e)' <=> InHand(e)
    BY <1>u DEF InHand, cycle
  <2>3. watermark' <= now'
    BY <1>i, <1>p, <1>u
  <2> QED BY <1>f, <1>i, <1>q, <1>u, <2>1, <2>2, <2>3
<1>1. CASE Tick
  BY <1>1, <1>u, <1>p DEF Tick
<1>2. ASSUME NEW f \in Events, Occur(f) PROVE CopiesInv'
  <2>1. /\ f \notin occurred /\ occurred' = occurred \cup {f}
        /\ \A e \in Events \ {f} : at'[e] = at[e]
        /\ UNCHANGED <<now, watermark, cycle, ingested, unacked>>
    BY <1>2, <1>t DEF Occur, TypeOK
  <2>2. \A e \in Events \ {f} : (Fresh(e)' <=> Fresh(e)) /\ Stamp(at[e])' = Stamp(at[e])
    BY <2>1 DEF Fresh, Stamp
  <2>3. ~InHand(f) /\ Fresh(f)
    BY <1>i, <2>1 DEF InHand, AloneInv, Fresh
  <2>4. \A e : InHand(e)' <=> InHand(e)
    BY <2>1 DEF InHand, cycle
  <2>5. ASSUME NEW w \in Workers, pc'[w] # "idle" PROVE AloneInv(w)'
    <3>1. AloneInv(w) /\ UNCHANGED <<pc, cutoff, since, batch>>
      BY <1>i, <2>1, <2>5 DEF cycle
    <3>2. pc[w] \in {"post", "commit"} =>
            \A e \in batch[w] : e \in occurred' /\ Fresh(e)' /\ Stamp(at[e])' <= cutoff[w]
      BY <1>p, <2>1, <2>2, <3>1 DEF AloneInv
    <3> QED BY <2>1, <3>1, <3>2 DEF AloneInv
  <2> QED BY <1>i, <1>q, <2>1, <2>2, <2>3, <2>4, <2>5
<1>3. ASSUME NEW w \in Workers, Begin(w) PROVE CopiesInv'
  <2>1. /\ \A v \in Workers : pc[v] = "idle"
        /\ pc'[w] = "read" /\ cutoff'[w] = now
        /\ \A v \in Workers \ {w} : pc'[v] = "idle"
        /\ UNCHANGED <<now, occurred, at, watermark, ingested, unacked>>
    BY <1>3, <1>t DEF Begin, Goto, TypeOK
  <2>2. AloneInv(w)'
    BY <1>i, <1>p, <2>1 DEF AloneInv
  <2>3. \A e : ~InHand(e) /\ ~InHand(e)'
    BY <2>1 DEF InHand
  <2> QED BY <1>f, <1>i, <1>q, <2>1, <2>2, <2>3
<1>4. ASSUME NEW w \in Workers, ReadWatermark(w) PROVE CopiesInv'
  <2>1. /\ pc[w] = "read" /\ pc'[w] = "query"
        /\ watermark # NoMark => since'[w] = watermark
        /\ \A v \in Workers \ {w} : pc'[v] = pc[v]
        /\ UNCHANGED <<now, occurred, at, watermark, cutoff, ingested, unacked>>
    BY <1>4, <1>t DEF ReadWatermark, Goto, TypeOK
  <2>2. AloneInv(w) /\ \A v \in Workers \ {w} : pc'[v] = "idle"
    BY <1>i, <2>1 DEF AloneInv
  <2>3. AloneInv(w)'
    BY <2>1, <2>2 DEF AloneInv
  <2>4. \A e : ~InHand(e) /\ ~InHand(e)'
    BY <2>1, <2>2 DEF InHand, AloneInv
  <2> QED BY <1>f, <1>i, <1>q, <2>1, <2>2, <2>3, <2>4
<1>5. ASSUME NEW w \in Workers, NEW found \in SUBSET Listed(w),
             \A e \in found : InWindow(e, since[w], cutoff[w]),
             pc[w] = "query", pc'[w] = IF found = {} THEN "commit" ELSE "post", batch'[w] = found,
             \A v \in Workers \ {w} : pc'[v] = pc[v],
             UNCHANGED <<now, occurred, at, watermark, cutoff, since, ingested, unacked>>
      PROVE  CopiesInv'
  <2>2. AloneInv(w) /\ \A v \in Workers \ {w} : pc[v] = "idle" /\ pc'[v] = "idle"
    BY <1>i, <1>5 DEF AloneInv
  <2>3. \A e \in found : e \in occurred /\ Fresh(e) /\ Stamp(at[e]) <= cutoff[w]
    BY <1>5, <2>2 DEF AloneInv, InWindow, Listed, Fresh
  <2>4. \A e : ~InHand(e) /\ ~InHand(e)'
    <3>1. pc'[w] = "commit" => batch'[w] = {}
      BY <1>5
    <3> QED BY <1>5, <2>2, <3>1 DEF InHand
  <2>5. AloneInv(w)'
    BY <1>f, <1>5, <2>2, <2>3 DEF AloneInv, Stamp
  <2> QED BY <1>f, <1>i, <1>q, <1>5, <2>2, <2>4, <2>5
<1>10. ASSUME NEW w \in Workers, RunQuery(w) PROVE CopiesInv'
  <2> DEFINE found == {e \in Listed(w) \ Malformed : InWindow(e, since[w], cutoff[w])}
  <2>1. /\ pc[w] = "query" /\ pc'[w] = IF found = {} THEN "commit" ELSE "post"
        /\ batch'[w] = found
        /\ \A v \in Workers \ {w} : pc'[v] = pc[v]
        /\ UNCHANGED <<now, occurred, at, watermark, cutoff, since, ingested, unacked>>
    BY <1>10, <1>t DEF RunQuery, Take, Goto, TypeOK
  <2>2. found \in SUBSET Listed(w) /\ \A e \in found : InWindow(e, since[w], cutoff[w])
    OBVIOUS
  <2> HIDE DEF found
  <2> QED BY <1>5, <2>1, <2>2
<1>11. ASSUME NEW w \in Workers, QuerySilenced(w) PROVE CopiesInv'
  <2>0. PICK part \in SUBSET (Listed(w) \ Malformed) : Take(w, part)
    BY <1>11 DEF QuerySilenced
  <2> DEFINE found == {e \in part : InWindow(e, since[w], cutoff[w])}
  <2>1. /\ pc[w] = "query"
        /\ UNCHANGED <<now, occurred, at, watermark, cutoff, since, ingested, unacked>>
    BY <1>11 DEF QuerySilenced
  <2>2. /\ pc'[w] = IF found = {} THEN "commit" ELSE "post"
        /\ batch'[w] = found
        /\ \A v \in Workers \ {w} : pc'[v] = pc[v]
    BY <1>t, <2>0, <2>1 DEF Take, Goto, TypeOK
  <2>3. found \in SUBSET Listed(w) /\ \A e \in found : InWindow(e, since[w], cutoff[w])
    OBVIOUS
  <2> HIDE DEF found
  <2> QED BY <1>5, <2>1, <2>2, <2>3
<1>6. ASSUME NEW w \in Workers, Post(w) PROVE CopiesInv'
  <2>1. /\ pc[w] = "post" /\ pc'[w] = "commit"
        /\ \A v \in Workers \ {w} : pc'[v] = pc[v]
        /\ UNCHANGED <<now, occurred, at, watermark, cutoff, since, batch, unacked>>
        /\ \A e \in Events : ingested'[e] = IF e \in batch[w] THEN ingested[e] + 1 ELSE ingested[e]
    BY <1>6, <1>t DEF Post, Store, Goto, TypeOK
  <2>2. AloneInv(w) /\ \A v \in Workers \ {w} : pc[v] = "idle" /\ pc'[v] = "idle"
    BY <1>i, <2>1 DEF AloneInv
  <2>3. AloneInv(w)'
    BY <1>f, <2>1, <2>2 DEF AloneInv, Stamp
  <2>4. \A e : ~InHand(e) /\ (InHand(e)' <=> e \in batch[w])
    BY <2>1, <2>2 DEF InHand
  <2>5. \A e \in batch[w] : Fresh(e)
    BY <2>1, <2>2 DEF AloneInv
  <2> QED BY <1>f, <1>i, <1>p, <1>q, <2>1, <2>2, <2>3, <2>4, <2>5
<1>7. ASSUME NEW w \in Workers, Commit(w) PROVE CopiesInv'
  <2>1. /\ pc[w] = "commit" /\ watermark' = cutoff[w] /\ pc'[w] = "idle"
        /\ \A v \in Workers \ {w} : pc'[v] = pc[v]
        /\ UNCHANGED <<now, occurred, at, ingested, unacked>>
    BY <1>7, <1>t DEF Commit, CommitAt, Finish, Goto, TypeOK
  <2>2. AloneInv(w) /\ \A v \in Workers : pc'[v] = "idle"
    BY <1>i, <2>1 DEF AloneInv
  <2>3. ASSUME NEW e \in Events, Fresh(e)' PROVE ingested[e] <= unacked
    <3>1. e \notin occurred \/ cutoff[w] < Stamp(at[e])
      BY <1>p, <2>1, <2>3 DEF Fresh, NoMark, Stamp
    <3>2. e \notin batch[w] /\ Fresh(e)
      BY <1>p, <2>1, <2>2, <3>1 DEF AloneInv, Fresh
    <3>3. ~InHand(e)
      BY <2>1, <2>2, <3>2 DEF InHand, AloneInv
    <3> QED BY <1>i, <3>2, <3>3
  <2>4. watermark' <= now'
    BY <2>1, <2>2 DEF AloneInv
  <2> QED BY <1>i, <1>q, <2>1, <2>2, <2>3, <2>4
<1>8. ASSUME NEW w \in Workers, CutShort(w) \/ PostUnanswered(w) \/ RefuseListing(w)
      PROVE  CopiesInv'
  <2>1. /\ pc[w] # "idle" /\ pc'[w] = "idle"
        /\ \A v \in Workers \ {w} : pc'[v] = pc[v]
        /\ UNCHANGED <<now, occurred, at, watermark>>
    BY <1>8, <1>t DEF CutShort, PostUnanswered, RefuseListing, Finish, Goto, TypeOK
  <2>2. AloneInv(w) /\ \A v \in Workers : pc'[v] = "idle"
    BY <1>i, <2>1 DEF AloneInv
  <2>3. \A e : InHand(e) => pc[w] = "commit" /\ e \in batch[w]
    BY <2>2 DEF InHand, AloneInv
  <2>4. \A e \in Events : ingested'[e] <= 1 + unacked' /\ (Fresh(e) => ingested'[e] <= unacked')
    <3>1. CASE UNCHANGED <<ingested, unacked>> /\ ~(pc[w] = "commit" /\ batch[w] # {})
      BY <1>i, <2>3, <3>1
    <3>2. CASE ingested' = ingested /\ unacked' = unacked + 1
      BY <1>i, <1>p, <3>2
    <3>3. CASE /\ pc[w] = "post" /\ unacked' = unacked + 1
               /\ \A e \in Events : ingested'[e] = IF e \in batch[w] THEN ingested[e] + 1 ELSE ingested[e]
      <4>1. \A e : ~InHand(e)
        BY <2>3, <3>3
      <4>2. \A e \in batch[w] : Fresh(e)
        BY <2>2, <3>3 DEF AloneInv
      <4>3. ASSUME NEW e \in Events
            PROVE  ingested'[e] <= 1 + unacked' /\ (Fresh(e) => ingested'[e] <= unacked')
        <5>1. CASE e \in batch[w]
          BY <1>i, <1>p, <3>3, <4>1, <4>2, <5>1
        <5>2. CASE e \notin batch[w]
          BY <1>i, <1>p, <3>3, <5>2
        <5> QED BY <5>1, <5>2
      <4> QED BY <4>3
    <3>4. \/ UNCHANGED <<ingested, unacked>> /\ ~(pc[w] = "commit" /\ batch[w] # {})
          \/ ingested' = ingested /\ unacked' = unacked + 1
          \/ /\ pc[w] = "post" /\ unacked' = unacked + 1
             /\ \A e \in Events : ingested'[e] = IF e \in batch[w] THEN ingested[e] + 1 ELSE ingested[e]
      BY <1>8 DEF CutShort, PostUnanswered, RefuseListing, Store
    <3> QED BY <3>1, <3>2, <3>3, <3>4
  <2> QED BY <1>f, <1>i, <1>q, <2>1, <2>2, <2>4
<1>9. CASE UNCHANGED vars
  BY <1>9, <1>u, <1>p DEF vars
<1> QED BY <1>1, <1>2, <1>3, <1>4, <1>6, <1>7, <1>8, <1>9, <1>10, <1>11 DEF Next, CycleStep

\* As long as no two cycles have run at once, each extra copy of an event is owed
\* to a cycle cut short after the API had accepted its batch, whatever the delay
\* of the query and the number of interruptions.
THEOREM CopiesOwedToRetries == Spec => []DuplicatesOwedToRetries
<1>1. Init => CopiesInv
  BY DEF Init, CopiesInv, NoMark
<1>2. CopiesInv => DuplicatesOwedToRetries
  BY DEF CopiesInv, DuplicatesOwedToRetries
<1> QED BY <1>1, <1>2, CopiesStep, PollTypeCorrect, PTL DEF Spec
=============================================================================
