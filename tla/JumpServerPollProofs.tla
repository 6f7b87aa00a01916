------------------------ MODULE JumpServerPollProofs ------------------------
(***************************************************************************)
(* Theorems about JumpServerPoll.                                          *)
(***************************************************************************)
EXTENDS JumpServerPoll, FiniteSetTheorems, TLAPS

\* Truncation to the second gives a time on the clock that is not later.
LEMMA StampOnClock == ASSUME NEW t \in Time PROVE Stamp(t) \in Time
<1>1. t % TicksPerSecond \in Nat /\ t % TicksPerSecond <= t
  <2>1. t \in Nat /\ TicksPerSecond \in Nat \ {0}
    BY TimeAssumption DEF Time
  <2> QED BY <2>1
<1> QED BY <1>1, TimeAssumption DEF Stamp, Time

\* What a cycle fetches, reports or drops are events.
LEMMA FetchedAreEvents ==
    ASSUME NEW w \in Workers
    PROVE  /\ Fetched(w, Logins) \subseteq AllEvents
           /\ Fetched(w, Commands) \subseteq AllEvents
           /\ Transitions(w) \subseteq AllEvents
  BY DEF Fetched, Transitions, AllEvents, SessionEvents, Records

\* Every step of the poll, of JumpServer and of the faults keeps the types.
LEMMA JumpServerTypeStep == TypeOK /\ [Next]_vars => TypeOK'
<1> SUFFICES ASSUME TypeOK, [Next]_vars PROVE TypeOK'
  OBVIOUS
<1> USE TimeAssumption DEF TypeOK, source, cycle, history
<1>1. CASE Tick
  BY <1>1 DEF Tick, Time
<1>2. ASSUME NEW r \in Records, LogRecord(r) PROVE TypeOK'
  BY <1>2 DEF LogRecord
<1>3. ASSUME NEW s \in Sessions, OpenSession(s) \/ EndSession(s) PROVE TypeOK'
  BY <1>3 DEF OpenSession, EndSession
<1>4. ASSUME NEW w \in Workers, Begin(w) PROVE TypeOK'
  BY <1>4 DEF Begin, Goto
<1>5. ASSUME NEW w \in Workers, ReadWatermark(w) PROVE TypeOK'
  BY <1>5 DEF ReadWatermark, Goto, Time, NoMark
<1>6. ASSUME NEW w \in Workers, FetchLogins(w) PROVE TypeOK'
  BY <1>6, FetchedAreEvents DEF FetchLogins, Goto
<1>7. ASSUME NEW w \in Workers, FetchSessions(w) PROVE TypeOK'
  BY <1>7 DEF FetchSessions, Goto, Seen
<1>8. ASSUME NEW w \in Workers, FetchCommands(w) PROVE TypeOK'
  <2>1. memory' \in [Workers -> [Sessions -> Seen]]
    BY <1>8 DEF FetchCommands, Remember
  <2>2. listed' \in [Workers -> [Sessions -> Seen]]
    BY <1>8 DEF FetchCommands, NoSessions, Seen
  <2>3. batch' \in [Workers -> SUBSET AllEvents] /\ batched' \subseteq SessionEvents
    BY <1>8, FetchedAreEvents DEF FetchCommands
  <2> QED BY <1>8, <2>1, <2>2, <2>3 DEF FetchCommands, Goto
<1>9. ASSUME NEW w \in Workers, Leave(w)
      PROVE  /\ pc' \in [Workers -> {"idle", "read", "logins", "sessions", "commands",
                                     "post", "commit"}]
             /\ cutoff' \in [Workers -> Time]
             /\ since' \in [Workers -> Int] /\ floor' \in [Workers -> Int]
             /\ listed' \in [Workers -> [Sessions -> Seen]]
             /\ batch' \in [Workers -> SUBSET AllEvents]
  BY <1>9 DEF Leave, Goto, NoSessions, Seen, Time
<1>10. ASSUME NEW w \in Workers, Post(w) PROVE TypeOK'
  BY <1>10 DEF Post, Store, Goto
<1>11. ASSUME NEW w \in Workers, Commit(w) PROVE TypeOK'
  BY <1>9, <1>11, StampOnClock DEF Commit, CommitAt
<1>12. ASSUME NEW w \in Workers, CutShort(w) PROVE TypeOK'
  BY <1>9, <1>12 DEF CutShort
<1>13. ASSUME NEW w \in Workers, PostUnanswered(w) PROVE TypeOK'
  BY <1>9, <1>13 DEF PostUnanswered, Store
<1>14. ASSUME NEW w \in Workers, Restart(w) PROVE TypeOK'
  BY <1>9, <1>14 DEF Restart, NoSessions, Seen
<1>15. CASE UNCHANGED vars
  BY <1>15 DEF vars
<1> QED BY <1>1, <1>2, <1>3, <1>4, <1>5, <1>6, <1>7, <1>8, <1>10, <1>11, <1>12, <1>13, <1>14, <1>15
       DEF Next, CycleStep

\* The variables of the poll always have their types; in particular neither the
\* watermark nor a remembered cutoff is ahead of the clock's range.
THEOREM JumpServerTypeCorrect == Spec => []TypeOK
<1>1. Init => TypeOK
  BY TimeAssumption DEF Init, TypeOK, Time, NoSessions, Seen
<1> QED BY <1>1, JumpServerTypeStep, PTL DEF Spec
-----------------------------------------------------------------------------
\* What no window skips: logins and commands.

\* r is stamped in ]lo, hi].
Stamped(r, lo, hi) == at[r] # NoMark /\ lo < Stamp(at[r]) /\ Stamp(at[r]) <= hi

Ingested(r) == stored[<<"record", r>>] >= 1 \/ InCutoffSecond(at[r])

\* Every record stamped in ]lo, hi], now or later, is ingested or falls in the
\* second of a cutoff: a later one can only fall in the second of hi.
Chained(lo, hi) ==
    /\ \A r \in Records : Stamped(r, lo, hi) => Ingested(r)
    /\ Stamp(hi) \in cutoffs
    /\ hi <= now

\* What a cycle has fetched of a log, except for the second of its own cutoff.
HasFetched(w, log) ==
    \A r \in log : Stamped(r, since[w], cutoff[w]) =>
        <<"record", r>> \in batch[w] \/ Stamp(at[r]) = Stamp(cutoff[w])

WindowInv(w) ==
    /\ pc[w] # "idle" => cutoff[w] <= now
    /\ pc[w] \in {"logins", "sessions", "commands", "post", "commit"} =>
         floor[w] = since[w] \/ Chained(floor[w], since[w])
    /\ pc[w] \in {"sessions", "commands"} => HasFetched(w, Logins)
    /\ pc[w] = "post" => HasFetched(w, Records)
    /\ pc[w] = "commit" =>
         \A r \in Records : Stamped(r, since[w], cutoff[w]) =>
            Ingested(r) \/ Stamp(at[r]) = Stamp(cutoff[w])

WindowsInv ==
    /\ watermark # NoMark => Chained(base, watermark)
    /\ \A w \in Workers : WindowInv(w)
-----------------------------------------------------------------------------
\* What one process reports of a session.

Past(w, e) ==
    \/ e[1] = "started" /\ memory[w][e[2]] # "unknown"
    \/ e[1] = "ended" /\ memory[w][e[2]] = "finished"

\* The process of w may still have e stored.
MayStore(w, e) == ~Past(w, e) \/ (pc[w] = "post" /\ e \in batch[w])

ReportInv(w) ==
    /\ pc[w] \in {"sessions", "commands"} => batch[w] \cap SessionEvents = {}
    /\ pc[w] = "post" => \A e \in batch[w] \cap SessionEvents : Past(w, e)
    /\ \A s \in Sessions : memory[w][s] = "finished" =>
         /\ closed[s] # NoMark
         /\ pc[w] = "commands" => listed[w][s] # "open"
    /\ \A s \in Sessions : (pc[w] = "commands" /\ listed[w][s] = "finished") => closed[s] # NoMark

ReportsInv ==
    /\ \A w \in Workers : ReportInv(w)
    /\ \A e \in SessionEvents :
         stored[e] + Cardinality({w \in Workers : MayStore(w, e)})
            <= Cardinality(Workers) + restarts

\* Printing whole seconds moves a time back by less than a second.
LEMMA StampBounds ==
    ASSUME NEW t \in Int
    PROVE  Stamp(t) \in Int /\ Stamp(t) <= t /\ t < Stamp(t) + TicksPerSecond
<1>1. t % TicksPerSecond \in 0..(TicksPerSecond - 1)
  BY TimeAssumption
<1> QED BY <1>1, TimeAssumption DEF Stamp

\* A time between a stamp and the moment that was stamped has the same stamp.
LEMMA SameSecond ==
    ASSUME NEW t \in Int, NEW h \in Int, h <= t, Stamp(t) <= h
    PROVE  Stamp(t) = Stamp(h)
<1> DEFINE n == TicksPerSecond
           a == t \div n
           b == h \div n
<1>1. n \in Nat /\ n > 0
  BY TimeAssumption
<1>2. /\ a \in Int /\ b \in Int
      /\ t = n * a + (t % n) /\ h = n * b + (h % n)
      /\ 0 <= t % n /\ t % n < n /\ 0 <= h % n /\ h % n < n
      /\ t % n \in Int /\ h % n \in Int
  BY <1>1
<1> HIDE DEF a, b, n
<1>3. Stamp(t) = n * a /\ Stamp(h) = n * b
  BY <1>1, <1>2 DEF Stamp, n
<1>4. n * a \in Int /\ n * b \in Int /\ n * a <= h /\ h <= t /\ t < n * a + n
       /\ n * b <= h /\ h < n * b + n
  BY <1>1, <1>2, <1>3
<1>5. ~(a < b)
  <2> SUFFICES ASSUME a + 1 <= b PROVE FALSE
    BY <1>2
  <2>1. n * (a + 1) <= n * b
    BY <1>1, <1>2
  <2>2. n * (a + 1) = n * a + n
    BY <1>1, <1>2
  <2> QED BY <1>1, <1>4, <2>1, <2>2
<1>6. ~(b < a)
  <2> SUFFICES ASSUME b + 1 <= a PROVE FALSE
    BY <1>2
  <2>1. n * (b + 1) <= n * a
    BY <1>1, <1>2
  <2>2. n * (b + 1) = n * b + n
    BY <1>1, <1>2
  <2> QED BY <1>1, <1>4, <2>1, <2>2
<1> QED BY <1>2, <1>3, <1>5, <1>6

\* What every step leaves alone or only adds to.
LEMMA Monotone ==
    ASSUME TypeOK, [Next]_vars
    PROVE  /\ now <= now'
           /\ cutoffs \subseteq cutoffs'
           /\ \A e \in AllEvents : stored'[e] >= stored[e]
           /\ \A r \in Records : at'[r] = at[r] \/ (at[r] = NoMark /\ at'[r] = now)
<1>0. now \in Nat /\ \A e \in AllEvents : stored[e] \in Nat
  BY TimeAssumption DEF TypeOK, Time
<1>1. CASE Tick
  BY <1>0, <1>1 DEF Tick, source, history
<1>2. ASSUME NEW r \in Records, LogRecord(r)
      PROVE  /\ UNCHANGED <<now, cutoffs, stored>>
             /\ \A x \in Records : at'[x] = at[x] \/ (at[x] = NoMark /\ at'[x] = now)
  BY <1>2 DEF LogRecord, history, TypeOK
<1>3. ASSUME NEW s \in Sessions, OpenSession(s) \/ EndSession(s)
      PROVE  UNCHANGED <<now, cutoffs, stored, at>>
  BY <1>3 DEF OpenSession, EndSession, history
<1>4. ASSUME NEW w \in Workers, CycleStep(w) \/ CutShort(w) \/ PostUnanswered(w) \/ Restart(w)
      PROVE  /\ UNCHANGED <<now, at>> /\ cutoffs \subseteq cutoffs'
             /\ stored' = stored \/ Store(w)
  BY <1>4 DEF CycleStep, Begin, ReadWatermark, FetchLogins, FetchSessions, FetchCommands, Post,
              Commit, CommitAt, CutShort, PostUnanswered, Restart, source, history
<1>5. ASSUME NEW w \in Workers, Store(w) PROVE \A e \in AllEvents : stored'[e] >= stored[e]
  BY <1>0, <1>5 DEF Store
<1>6. CASE UNCHANGED vars
  BY <1>0, <1>6 DEF vars, source, history
<1> QED BY <1>0, <1>1, <1>2, <1>3, <1>4, <1>5, <1>6 DEF Next

\* A record that was ingested, or skipped in a cutoff's second, stays so.
LEMMA IngestedStays ==
    ASSUME TypeOK, [Next]_vars, NEW r \in Records, at[r] # NoMark, Ingested(r)
    PROVE  Ingested(r)'
<1>1. at'[r] = at[r] /\ cutoffs \subseteq cutoffs'
  BY Monotone
<1>2. stored[<<"record", r>>] >= 1 => stored'[<<"record", r>>] >= 1
  <2>1. <<"record", r>> \in AllEvents
    BY DEF AllEvents
  <2>2. stored[<<"record", r>>] \in Nat /\ stored'[<<"record", r>>] \in Nat
    BY <2>1, JumpServerTypeStep DEF TypeOK
  <2> QED BY <2>1, <2>2, Monotone
<1>3. InCutoffSecond(at[r]) => InCutoffSecond(at[r])'
  BY <1>1 DEF InCutoffSecond, Stamp
<1> QED BY <1>2, <1>3 DEF Ingested

\* A window that has ended gets no new record, except in the second of its end.
LEMMA WindowKept ==
    ASSUME TypeOK, [Next]_vars, NEW lo \in Int, NEW hi \in Int, hi <= now,
           NEW log \in SUBSET Records, NEW G,
           \A r \in log : Stamped(r, lo, hi) => r \in G \/ Stamp(at[r]) = Stamp(hi)
    PROVE  \A r \in log : Stamped(r, lo, hi)' => r \in G \/ Stamp(at'[r]) = Stamp(hi)
<1> SUFFICES ASSUME NEW r \in log, Stamped(r, lo, hi)'
             PROVE  r \in G \/ Stamp(at'[r]) = Stamp(hi)
  OBVIOUS
<1>1. at'[r] # NoMark /\ lo < Stamp(at'[r]) /\ Stamp(at'[r]) <= hi
  BY DEF Stamped, Stamp
<1>2. CASE at'[r] = at[r]
  BY <1>1, <1>2 DEF Stamped
<1>3. CASE at'[r] = now
  BY <1>1, <1>3, SameSecond DEF TypeOK, Time
<1> QED BY <1>2, <1>3, Monotone

\* The chain of windows up to hi stays covered.
LEMMA ChainKept ==
    ASSUME TypeOK, [Next]_vars, NEW lo \in Int, NEW hi \in Int, Chained(lo, hi)
    PROVE  Chained(lo, hi)'
<1> DEFINE G == {r \in Records : at[r] # NoMark /\ Ingested(r)}
<1>1. \A r \in Records : Stamped(r, lo, hi) => r \in G
  BY DEF Chained, Stamped
<1>2. \A r \in Records : Stamped(r, lo, hi)' => r \in G \/ Stamp(at'[r]) = Stamp(hi)
  BY <1>1, WindowKept DEF Chained
<1>3. Stamp(hi) \in cutoffs' /\ hi <= now'
  <2>1. now \in Int /\ now' \in Int
    BY JumpServerTypeStep DEF TypeOK, Time
  <2> QED BY <2>1, Monotone DEF Chained
<1>4. \A r \in G : Ingested(r)'
  BY IngestedStays
<1>5. \A r \in Records : Stamp(at'[r]) = Stamp(hi) => Ingested(r)'
  BY <1>3 DEF Ingested, InCutoffSecond, Stamp
<1>6. Stamp(hi)' = Stamp(hi)
  BY DEF Stamp
<1> QED BY <1>2, <1>3, <1>4, <1>5, <1>6 DEF Chained

\* A cycle keeps what it relies on while other steps happen.
LEMMA CycleKept ==
    ASSUME TypeOK, [Next]_vars, NEW w \in Workers, WindowInv(w), pc'[w] = pc[w],
           cutoff'[w] = cutoff[w], since'[w] = since[w], floor'[w] = floor[w], batch'[w] = batch[w]
    PROVE  WindowInv(w)'
<1>0. PICK lo \in Int : lo = since[w]
  BY DEF TypeOK
<1>1. PICK hi \in Int : hi = cutoff[w]
  BY TimeAssumption DEF TypeOK, Time
<1>2. PICK fl \in Int : fl = floor[w]
  BY DEF TypeOK
<1>3. PICK b : b = batch[w]
  OBVIOUS
<1>4. since'[w] = lo /\ cutoff'[w] = hi /\ floor'[w] = fl /\ batch'[w] = b
  BY <1>0, <1>1, <1>2, <1>3
<1>5. now \in Int /\ now' \in Int /\ now <= now'
  BY JumpServerTypeStep, Monotone DEF TypeOK, Time
<1>6. pc[w] # "idle" => hi <= now /\ hi <= now'
  BY <1>1, <1>5 DEF WindowInv
<1>7. pc[w] \in {"logins", "sessions", "commands", "post", "commit"} =>
        fl = lo \/ Chained(fl, lo)'
  BY <1>0, <1>2, ChainKept DEF WindowInv
<1>8. ASSUME NEW log \in SUBSET Records, HasFetched(w, log), pc[w] # "idle"
      PROVE  \A r \in log : Stamped(r, lo, hi)' => <<"record", r>> \in b \/ Stamp(at'[r]) = Stamp(hi)
  <2> DEFINE G == {r \in Records : <<"record", r>> \in b}
  <2>1. \A r \in log : Stamped(r, lo, hi) => r \in G \/ Stamp(at[r]) = Stamp(hi)
    BY <1>0, <1>1, <1>3, <1>8 DEF HasFetched
  <2> HIDE DEF G
  <2>2. hi <= now
    BY <1>6, <1>8
  <2>3. \A r \in log : Stamped(r, lo, hi)' => r \in G \/ Stamp(at'[r]) = Stamp(hi)
    BY <2>1, <2>2, WindowKept
  <2> QED BY <2>3 DEF G
<1>9. pc[w] = "commit" =>
        \A r \in Records : Stamped(r, lo, hi)' => Ingested(r)' \/ Stamp(at'[r]) = Stamp(hi)
  <2> SUFFICES ASSUME pc[w] = "commit"
               PROVE  \A r \in Records : Stamped(r, lo, hi)' => Ingested(r)' \/ Stamp(at'[r]) = Stamp(hi)
    OBVIOUS
  <2> DEFINE G == {r \in Records : at[r] # NoMark /\ Ingested(r)}
  <2>1. \A r \in Records : Stamped(r, lo, hi) => r \in G \/ Stamp(at[r]) = Stamp(hi)
    BY <1>0, <1>1 DEF WindowInv, Stamped
  <2>2. \A r \in Records : Stamped(r, lo, hi)' => r \in G \/ Stamp(at'[r]) = Stamp(hi)
    BY <1>6, <2>1, WindowKept
  <2> QED BY <2>2, IngestedStays
<1>10. Logins \in SUBSET Records /\ Records \in SUBSET Records
  BY DEF Records
<1>11. pc[w] \in {"sessions", "commands"} => HasFetched(w, Logins)'
  BY <1>4, <1>8, <1>10 DEF WindowInv, HasFetched, Stamped, Stamp
<1>12. pc[w] = "post" => HasFetched(w, Records)'
  BY <1>4, <1>8, <1>10 DEF WindowInv, HasFetched, Stamped, Stamp
<1>13. pc[w] = "commit" =>
         \A r \in Records : Stamped(r, since[w], cutoff[w])' =>
             Ingested(r)' \/ Stamp(at[r])' = Stamp(cutoff[w])'
  BY <1>4, <1>9 DEF Stamped, Stamp
<1>14. pc[w] \in {"logins", "sessions", "commands", "post", "commit"} =>
        (floor[w] = since[w])' \/ Chained(floor[w], since[w])'
  BY <1>4, <1>7 DEF Chained, Stamped, Stamp
<1>15. pc[w] # "idle" => (cutoff[w] <= now)'
  BY <1>4, <1>6
<1> QED BY <1>11, <1>12, <1>13, <1>14, <1>15 DEF WindowInv

\* The chain that ends at the watermark stays covered until a cycle moves it.
LEMMA MarkKept ==
    ASSUME TypeOK, WindowsInv, [Next]_vars, UNCHANGED <<watermark, base>>
    PROVE  (watermark # NoMark => Chained(base, watermark))'
<1> SUFFICES ASSUME watermark # NoMark PROVE Chained(base, watermark)'
  OBVIOUS
<1>0. PICK lo \in Int : lo = base
  BY DEF TypeOK
<1>1. PICK hi \in Int : hi = watermark
  BY TimeAssumption DEF TypeOK, Time, NoMark
<1>2. Chained(lo, hi)'
  BY <1>0, <1>1, ChainKept DEF WindowsInv
<1>3. base' = lo /\ watermark' = hi
  BY <1>0, <1>1
<1> QED BY <1>2, <1>3 DEF Chained, Stamped, Stamp

\* Every step keeps the windows covered.
LEMMA WindowsStep == TypeOK /\ WindowsInv /\ [Next]_vars => WindowsInv'
<1> SUFFICES ASSUME TypeOK, WindowsInv, [Next]_vars PROVE WindowsInv'
  OBVIOUS
<1>t. TypeOK'
  BY JumpServerTypeStep
<1>p. /\ \A r \in Records : at[r] \in Int /\ Stamp(at[r]) \in Int
      /\ \A w \in Workers : since[w] \in Int /\ floor[w] \in Int /\ cutoff[w] \in Int
                            /\ Stamp(since[w]) \in Int /\ Stamp(since[w]) <= since[w]
      /\ now \in Int
  <2>1. \A r \in Records : at[r] \in Int
    BY TimeAssumption DEF TypeOK, Time, NoMark
  <2>2. /\ \A w \in Workers : since[w] \in Int /\ floor[w] \in Int /\ cutoff[w] \in Int
        /\ now \in Int
    BY TimeAssumption DEF TypeOK, Time
  <2> QED BY <2>1, <2>2, StampBounds
<1>k. ASSUME NEW v \in Workers, pc'[v] = pc[v], cutoff'[v] = cutoff[v],
             since'[v] = since[v], batch'[v] = batch[v], floor'[v] = floor[v]
      PROVE  WindowInv(v)'
  BY <1>k, CycleKept DEF WindowsInv
<1>m. UNCHANGED <<watermark, base>> => (watermark # NoMark => Chained(base, watermark))'
  BY MarkKept
<1>1. ASSUME NEW w \in Workers, UNCHANGED <<watermark, base>>, WindowInv(w)',
             \A v \in Workers \ {w} :
                /\ pc'[v] = pc[v] /\ cutoff'[v] = cutoff[v] /\ since'[v] = since[v]
                /\ batch'[v] = batch[v] /\ floor'[v] = floor[v]
      PROVE  WindowsInv'
  BY <1>1, <1>k, <1>m DEF WindowsInv
<1>2. CASE UNCHANGED <<watermark, base, pc, cutoff, since, floor, batch>>
  BY <1>2, <1>k, <1>m DEF WindowsInv
<1>3. ASSUME NEW w \in Workers, Begin(w) PROVE WindowsInv'
  <2>1. /\ pc'[w] = "read" /\ cutoff'[w] = now /\ UNCHANGED <<watermark, base, now>>
        /\ \A v \in Workers \ {w} :
              /\ pc'[v] = pc[v] /\ cutoff'[v] = cutoff[v] /\ since'[v] = since[v]
              /\ batch'[v] = batch[v] /\ floor'[v] = floor[v]
    BY <1>3 DEF Begin, Goto, TypeOK
  <2>2. WindowInv(w)'
    BY <1>p, <2>1 DEF WindowInv
  <2> QED BY <1>1, <2>1, <2>2
<1>4. ASSUME NEW w \in Workers, ReadWatermark(w) PROVE WindowsInv'
  <2>1. /\ pc[w] = "read" /\ pc'[w] = "logins"
        /\ UNCHANGED <<watermark, base, now, at, stored, cutoffs, cutoff>>
        /\ \A v \in Workers \ {w} :
              /\ pc'[v] = pc[v] /\ cutoff'[v] = cutoff[v] /\ since'[v] = since[v]
              /\ batch'[v] = batch[v] /\ floor'[v] = floor[v]
        /\ \/ floor'[w] = since'[w]
           \/ watermark # NoMark /\ since'[w] = watermark /\ floor'[w] = base
    BY <1>4 DEF ReadWatermark, Goto, TypeOK, source, history
  <2>2. (floor[w] = since[w])' \/ Chained(floor[w], since[w])'
    <3>1. CASE floor'[w] = since'[w]
      BY <3>1
    <3>2. CASE watermark # NoMark /\ since'[w] = watermark /\ floor'[w] = base
      <4>1. Chained(base, watermark)
        BY <3>2 DEF WindowsInv
      <4> QED BY <2>1, <3>2, <4>1 DEF Chained, Stamped, Ingested, InCutoffSecond, Stamp
    <3> QED BY <2>1, <3>1, <3>2
  <2>3. cutoff[w] <= now
    BY <2>1 DEF WindowsInv, WindowInv
  <2>4. WindowInv(w)'
    BY <2>1, <2>2, <2>3 DEF WindowInv
  <2> QED BY <1>1, <2>1, <2>4
<1>c. ASSUME NEW w \in Workers, UNCHANGED <<now, at, stored, cutoffs, since, floor, cutoff>>,
             floor[w] = since[w] \/ Chained(floor[w], since[w])
      PROVE  (floor[w] = since[w])' \/ Chained(floor[w], since[w])'
  BY <1>c DEF Chained, Stamped, Ingested, InCutoffSecond, Stamp
<1>f. ASSUME NEW w \in Workers, NEW log \in SUBSET Records, NEW r \in log,
             Stamped(r, since[w], cutoff[w])
      PROVE  <<"record", r>> \in Fetched(w, log)
  <2>1. at[r] # NoMark /\ Stamp(at[r]) >= Stamp(since[w])
    BY <1>f, <1>p DEF Stamped
  <2> QED BY <1>f, <2>1 DEF Fetched
<1>5. ASSUME NEW w \in Workers, FetchLogins(w) PROVE WindowsInv'
  <2>1. /\ pc[w] = "logins" /\ pc'[w] = "sessions" /\ batch'[w] = Fetched(w, Logins)
        /\ UNCHANGED <<watermark, base, now, at, stored, cutoffs, cutoff, since, floor>>
        /\ \A v \in Workers \ {w} :
              /\ pc'[v] = pc[v] /\ cutoff'[v] = cutoff[v] /\ since'[v] = since[v]
              /\ batch'[v] = batch[v] /\ floor'[v] = floor[v]
    BY <1>5 DEF FetchLogins, Goto, TypeOK, source, history
  <2>2. \A r \in Logins : Stamped(r, since[w], cutoff[w]) => <<"record", r>> \in batch'[w]
    BY <1>f, <2>1 DEF Records
  <2>3. HasFetched(w, Logins)'
    BY <2>1, <2>2 DEF HasFetched, Stamped, Stamp
  <2>4. (floor[w] = since[w])' \/ Chained(floor[w], since[w])'
    BY <1>c, <2>1 DEF WindowsInv, WindowInv
  <2>5. (cutoff[w] <= now)'
    BY <2>1 DEF WindowsInv, WindowInv
  <2>6. WindowInv(w)'
    BY <2>1, <2>3, <2>4, <2>5 DEF WindowInv
  <2> QED BY <1>1, <2>1, <2>6
<1>6. ASSUME NEW w \in Workers, FetchSessions(w) PROVE WindowsInv'
  <2>1. /\ pc[w] = "sessions" /\ pc'[w] = "commands"
        /\ UNCHANGED <<watermark, base, now, at, stored, cutoffs, cutoff, since, floor, batch>>
        /\ \A v \in Workers \ {w} : pc'[v] = pc[v]
    BY <1>6 DEF FetchSessions, Goto, TypeOK, source, history
  <2>2. HasFetched(w, Logins)
    BY <2>1 DEF WindowsInv, WindowInv
  <2>3. HasFetched(w, Logins)'
    BY <2>1, <2>2 DEF HasFetched, Stamped, Stamp
  <2>4. (floor[w] = since[w])' \/ Chained(floor[w], since[w])'
    BY <1>c, <2>1 DEF WindowsInv, WindowInv
  <2>5. (cutoff[w] <= now)'
    BY <2>1 DEF WindowsInv, WindowInv
  <2>6. WindowInv(w)'
    BY <2>1, <2>3, <2>4, <2>5 DEF WindowInv
  <2> QED BY <1>1, <2>1, <2>6
<1>7. ASSUME NEW w \in Workers, FetchCommands(w) PROVE WindowsInv'
  <2> DEFINE events == batch[w] \cup Transitions(w) \cup Fetched(w, Commands)
             kept == {e \in events : since[w] < OccurredAt(e) /\ OccurredAt(e) <= cutoff[w]}
  <2>1. /\ pc[w] = "commands" /\ pc'[w] = IF kept = {} THEN "commit" ELSE "post"
        /\ batch'[w] = kept
        /\ UNCHANGED <<watermark, base, now, at, stored, cutoffs, cutoff, since, floor>>
        /\ \A v \in Workers \ {w} : pc'[v] = pc[v] /\ batch'[v] = batch[v]
    BY <1>7 DEF FetchCommands, Goto, TypeOK, source, history
  <2>2. ASSUME NEW r \in Records, Stamped(r, since[w], cutoff[w])
        PROVE  <<"record", r>> \in kept \/ Stamp(at[r]) = Stamp(cutoff[w])
    <3>1. <<"record", r>> \in events \/ Stamp(at[r]) = Stamp(cutoff[w])
      <4>1. CASE r \in Logins
        <5>1. HasFetched(w, Logins)
          BY <2>1 DEF WindowsInv, WindowInv
        <5> QED BY <2>2, <4>1, <5>1 DEF HasFetched
      <4>2. CASE r \in Commands
        BY <1>f, <2>2, <4>2 DEF Records
      <4> QED BY <4>1, <4>2 DEF Records
    <3>2. OccurredAt(<<"record", r>>) = Stamp(at[r])
      <4>1. <<"record", r>>[1] = "record" /\ <<"record", r>>[2] = r
        OBVIOUS
      <4> QED BY <4>1, Zenon DEF OccurredAt
    <3> QED BY <2>2, <3>1, <3>2 DEF Stamped
  <2>3. (floor[w] = since[w])' \/ Chained(floor[w], since[w])'
    BY <1>c, <2>1 DEF WindowsInv, WindowInv
  <2>4. (cutoff[w] <= now)'
    BY <2>1 DEF WindowsInv, WindowInv
  <2> HIDE DEF kept
  <2>5. CASE kept = {}
    <3>1. \A r \in Records : Stamped(r, since[w], cutoff[w])' => Stamp(at[r])' = Stamp(cutoff[w])'
      BY <2>1, <2>2, <2>5 DEF Stamped, Stamp
    <3>2. WindowInv(w)'
      BY <2>1, <2>3, <2>4, <2>5, <3>1 DEF WindowInv
    <3> QED BY <1>1, <2>1, <3>2
  <2>6. CASE kept # {}
    <3>1. HasFetched(w, Records)'
      BY <2>1, <2>2 DEF HasFetched, Stamped, Stamp
    <3>2. WindowInv(w)'
      BY <2>1, <2>3, <2>4, <2>6, <3>1 DEF WindowInv
    <3> QED BY <1>1, <2>1, <3>2
  <2> QED BY <2>5, <2>6
<1>8. ASSUME NEW w \in Workers, Post(w) PROVE WindowsInv'
  <2>1. /\ pc[w] = "post" /\ pc'[w] = "commit" /\ Store(w)
        /\ UNCHANGED <<watermark, base, now, at, cutoffs, cutoff, since, floor, batch>>
        /\ \A v \in Workers \ {w} : pc'[v] = pc[v]
    BY <1>8 DEF Post, Goto, TypeOK, source, history
  <2>2. \A r \in Records : <<"record", r>> \in batch[w] => stored'[<<"record", r>>] >= 1
    <3>1. \A r \in Records : <<"record", r>> \in AllEvents
      BY DEF AllEvents
    <3> QED BY <2>1, <3>1 DEF Store, TypeOK
  <2>3. HasFetched(w, Records)
    BY <2>1 DEF WindowsInv, WindowInv
  <2>4. \A r \in Records : Stamped(r, since[w], cutoff[w])' =>
             Ingested(r)' \/ Stamp(at[r])' = Stamp(cutoff[w])'
    BY <2>1, <2>2, <2>3 DEF HasFetched, Stamped, Ingested, Stamp
  <2>5. floor[w] = since[w] \/ Chained(floor[w], since[w])'
    <3>1. floor[w] = since[w] \/ Chained(floor[w], since[w])
      BY <2>1 DEF WindowsInv, WindowInv
    <3>2. ASSUME Chained(floor[w], since[w]) PROVE Chained(floor[w], since[w])'
      <4>1. ASSUME NEW r \in Records, Stamped(r, floor[w], since[w])' PROVE Ingested(r)'
        <5>1. Stamped(r, floor[w], since[w]) /\ at[r] # NoMark
          BY <2>1, <4>1 DEF Stamped, Stamp
        <5> QED BY <3>2, <5>1, IngestedStays DEF Chained
      <4> QED BY <2>1, <3>2, <4>1 DEF Chained, Stamp
    <3> QED BY <3>1, <3>2
  <2>6. (cutoff[w] <= now)'
    BY <2>1 DEF WindowsInv, WindowInv
  <2>7. WindowInv(w)'
    BY <2>1, <2>4, <2>5, <2>6 DEF WindowInv
  <2> QED BY <1>1, <2>1, <2>7
<1>9. ASSUME NEW w \in Workers, Leave(w), UNCHANGED <<watermark, base>> PROVE WindowsInv'
  <2>1. /\ pc'[w] = "idle"
        /\ \A v \in Workers \ {w} :
              /\ pc'[v] = pc[v] /\ cutoff'[v] = cutoff[v] /\ since'[v] = since[v]
              /\ batch'[v] = batch[v] /\ floor'[v] = floor[v]
    BY <1>9 DEF Leave, Goto, TypeOK
  <2>2. WindowInv(w)'
    BY <2>1 DEF WindowInv
  <2> QED BY <1>1, <1>9, <2>1, <2>2
<1>10. ASSUME NEW w \in Workers, Commit(w) PROVE WindowsInv'
  <2>1. /\ pc[w] = "commit" /\ watermark' = cutoff[w] /\ base' = floor[w]
        /\ cutoffs' = cutoffs \cup {Stamp(cutoff[w])} /\ Leave(w)
        /\ UNCHANGED <<now, at, stored>>
    BY <1>10 DEF Commit, CommitAt, source
  <2>2. /\ pc'[w] = "idle"
        /\ \A v \in Workers \ {w} :
              /\ pc'[v] = pc[v] /\ cutoff'[v] = cutoff[v] /\ since'[v] = since[v]
              /\ batch'[v] = batch[v] /\ floor'[v] = floor[v]
    BY <2>1 DEF Leave, Goto, TypeOK
  <2>3. /\ floor[w] = since[w] \/ Chained(floor[w], since[w])
        /\ cutoff[w] <= now
        /\ \A r \in Records : Stamped(r, since[w], cutoff[w]) =>
              Ingested(r) \/ Stamp(at[r]) = Stamp(cutoff[w])
    BY <2>1 DEF WindowsInv, WindowInv
  <2>4. ASSUME NEW r \in Records, Stamped(r, floor[w], cutoff[w])
        PROVE  Ingested(r) \/ Stamp(at[r]) = Stamp(cutoff[w])
    <3>1. CASE since[w] < Stamp(at[r])
      BY <2>3, <2>4, <3>1 DEF Stamped
    <3>2. CASE Stamp(at[r]) <= since[w]
      <4>1. floor[w] # since[w]
        BY <1>p, <2>4, <3>2 DEF Stamped
      <4> QED BY <2>3, <2>4, <3>2, <4>1 DEF Chained, Stamped
    <3> QED BY <1>p, <3>1, <3>2
  <2>5. Chained(base, watermark)'
    <3>1. ASSUME NEW r \in Records, Stamped(r, base, watermark)' PROVE Ingested(r)'
      <4>1. Stamped(r, floor[w], cutoff[w])
        BY <2>1, <3>1 DEF Stamped, Stamp
      <4>2. Ingested(r) => Ingested(r)'
        BY <4>1, IngestedStays DEF Stamped
      <4>3. Stamp(at[r]) = Stamp(cutoff[w]) => Ingested(r)'
        BY <2>1 DEF Ingested, InCutoffSecond, Stamp
      <4> QED BY <2>4, <4>1, <4>2, <4>3
    <3> QED BY <2>1, <2>3, <3>1 DEF Chained, Stamp
  <2>6. WindowInv(w)'
    BY <2>2 DEF WindowInv
  <2> QED BY <1>k, <2>2, <2>5, <2>6 DEF WindowsInv
<1>11. ASSUME NEW w \in Workers, CutShort(w) \/ PostUnanswered(w) \/ Restart(w)
       PROVE  WindowsInv'
  BY <1>9, <1>11 DEF CutShort, PostUnanswered, Restart
<1>12. ASSUME \/ Tick \/ (\E r \in Records : LogRecord(r))
              \/ (\E s \in Sessions : OpenSession(s) \/ EndSession(s)) \/ UNCHANGED vars
       PROVE  UNCHANGED <<watermark, base, pc, cutoff, since, floor, batch>>
  BY <1>12 DEF Tick, LogRecord, OpenSession, EndSession, vars, cycle
<1> QED BY <1>2, <1>3, <1>4, <1>5, <1>6, <1>7, <1>8, <1>10, <1>11, <1>12 DEF Next, CycleStep

\* Whatever cycles overlap or are cut short, the watermark passes no login or
\* command unless it was ingested or falls in the second of a cycle's cutoff.
THEOREM SkipsOnlyCutoffSeconds == Spec => []OnlyCutoffSecondSkipped
<1>1. Init => WindowsInv
  BY DEF Init, WindowsInv, WindowInv
<1>2. TypeOK /\ WindowsInv => OnlyCutoffSecondSkipped
  <2> SUFFICES ASSUME TypeOK, WindowsInv, NEW r \in Records,
                      at[r] # NoMark, base < Stamp(at[r]), at[r] <= watermark
               PROVE  Ingested(r)
    BY DEF OnlyCutoffSecondSkipped, Ingested
  <2>1. at[r] \in Nat /\ watermark \in Int
    BY TimeAssumption DEF TypeOK, Time, NoMark
  <2>2. watermark # NoMark /\ Stamp(at[r]) <= watermark
    BY <2>1, StampBounds DEF NoMark
  <2> QED BY <2>2 DEF WindowsInv, Chained, Stamped
<1> QED BY <1>1, <1>2, WindowsStep, JumpServerTypeCorrect, PTL DEF Spec
-----------------------------------------------------------------------------
\* Bookkeeping: a process less, a copy more; a process more, a restart more.
LEMMA CountKept ==
    ASSUME NEW A \in SUBSET Workers, NEW B \in SUBSET Workers,
           NEW n \in Nat, NEW m \in Nat, NEW r \in Nat, NEW q \in Nat,
           n + Cardinality(A) <= Cardinality(Workers) + r,
           \/ B \subseteq A /\ m = n /\ q = r
           \/ \E w \in A : B \subseteq A \ {w} /\ m = n + 1 /\ q = r
           \/ \E w \in Workers : B \subseteq A \cup {w} /\ m = n /\ q = r + 1
    PROVE  m + Cardinality(B) <= Cardinality(Workers) + q
<1>0. /\ IsFiniteSet(A) /\ IsFiniteSet(B)
      /\ Cardinality(A) \in Nat /\ Cardinality(B) \in Nat /\ Cardinality(Workers) \in Nat
  BY WorkersAssumption, FS_Subset, FS_CardinalityType
<1>1. CASE B \subseteq A /\ m = n /\ q = r
  <2>1. Cardinality(B) <= Cardinality(A)
    BY <1>0, <1>1, FS_Subset
  <2> QED BY <1>0, <1>1, <2>1
<1>2. ASSUME NEW w \in A, B \subseteq A \ {w}, m = n + 1, q = r
      PROVE  m + Cardinality(B) <= Cardinality(Workers) + q
  <2>1. IsFiniteSet(A \ {w}) /\ Cardinality(A \ {w}) = Cardinality(A) - 1
    BY <1>0, FS_RemoveElement
  <2>2. Cardinality(B) <= Cardinality(A \ {w})
    BY <1>2, <2>1, FS_Subset
  <2> QED BY <1>0, <1>2, <2>1, <2>2
<1>3. ASSUME NEW w \in Workers, B \subseteq A \cup {w}, m = n, q = r + 1
      PROVE  m + Cardinality(B) <= Cardinality(Workers) + q
  <2>1. /\ IsFiniteSet(A \cup {w})
        /\ Cardinality(A \cup {w}) = IF w \in A THEN Cardinality(A) ELSE Cardinality(A) + 1
    BY <1>0, FS_AddElement
  <2>2. Cardinality(B) <= Cardinality(A \cup {w})
    BY <1>3, <2>1, FS_Subset
  <2> QED BY <1>0, <1>3, <2>1, <2>2
<1> QED BY <1>1, <1>2, <1>3

\* Every step keeps the processes' reports.
LEMMA ReportStep ==
    ASSUME TypeOK, [Next]_vars, \A w \in Workers : ReportInv(w)
    PROVE  /\ \A w \in Workers : ReportInv(w)'
           /\ \A e \in SessionEvents :
                LET A == {w \in Workers : MayStore(w, e)}
                    B == {w \in Workers : MayStore(w, e)'}
                IN  \/ B \subseteq A /\ stored'[e] = stored[e] /\ restarts' = restarts
                    \/ \E w \in A : B \subseteq A \ {w} /\ stored'[e] = stored[e] + 1 /\ restarts' = restarts
                    \/ \E w \in Workers : B \subseteq A \cup {w} /\ stored'[e] = stored[e] /\ restarts' = restarts + 1
<1> DEFINE Same(v) == pc'[v] = pc[v] /\ batch'[v] = batch[v] /\ memory'[v] = memory[v] /\ listed'[v] = listed[v]
           Count(e) == LET A == {w \in Workers : MayStore(w, e)}
                           B == {w \in Workers : MayStore(w, e)'}
                       IN  \/ B \subseteq A /\ stored'[e] = stored[e] /\ restarts' = restarts
                           \/ \E w \in A : B \subseteq A \ {w} /\ stored'[e] = stored[e] + 1 /\ restarts' = restarts
                           \/ \E w \in Workers : B \subseteq A \cup {w} /\ stored'[e] = stored[e] /\ restarts' = restarts + 1
<1>a. \A s \in Sessions : closed[s] # NoMark => closed'[s] # NoMark
  BY DEF Next, Tick, LogRecord, OpenSession, EndSession, CycleStep, Begin, ReadWatermark,
         FetchLogins, FetchSessions, FetchCommands, Post, Commit, CommitAt, CutShort,
         PostUnanswered, Restart, vars, source, TypeOK
<1>b. \A e \in SessionEvents : e \in AllEvents /\ e[1] \in {"started", "ended"} /\ e[2] \in Sessions
  BY DEF SessionEvents, AllEvents
<1>s. ASSUME NEW v \in Workers, Same(v)
      PROVE  ReportInv(v)' /\ \A e : MayStore(v, e)' <=> MayStore(v, e)
  BY <1>a, <1>s DEF ReportInv, MayStore, Past
<1> HIDE DEF Same
<1>q. ASSUME NEW w \in Workers, \A v \in Workers \ {w} : Same(v), ReportInv(w)',
             UNCHANGED <<stored, restarts>>,
             \A e \in SessionEvents : MayStore(w, e)' => MayStore(w, e)
      PROVE  /\ \A v \in Workers : ReportInv(v)'
             /\ \A e \in SessionEvents : Count(e)
  <2>1. \A v \in Workers : ReportInv(v)'
    BY <1>q, <1>s
  <2>2. ASSUME NEW e \in SessionEvents
        PROVE  {v \in Workers : MayStore(v, e)'} \subseteq {v \in Workers : MayStore(v, e)}
    BY <1>q, <1>s
  <2> QED BY <1>q, <2>1, <2>2
<1>p. ASSUME NEW w \in Workers, \A v \in Workers \ {w} : Same(v), ReportInv(w)',
             pc[w] = "post", pc'[w] # "post", memory'[w] = memory[w], Store(w), restarts' = restarts
      PROVE  /\ \A v \in Workers : ReportInv(v)'
             /\ \A e \in SessionEvents : Count(e)
  <2>1. \A v \in Workers : ReportInv(v)'
    BY <1>p, <1>s
  <2>2. ASSUME NEW e \in SessionEvents PROVE Count(e)
    <3> DEFINE A == {v \in Workers : MayStore(v, e)}
               B == {v \in Workers : MayStore(v, e)'}
    <3>1. CASE e \in batch[w]
      <4>1. w \in A
        BY <1>p, <3>1 DEF MayStore
      <4>2. Past(w, e)
        BY <1>p, <3>1 DEF ReportInv
      <4>3. w \notin B
        BY <1>p, <4>2 DEF MayStore, Past
      <4>4. B \subseteq A \ {w}
        BY <1>p, <1>s, <4>3
      <4>5. stored'[e] = stored[e] + 1
        BY <1>b, <1>p, <3>1 DEF Store
      <4> HIDE DEF A, B
      <4>6. \E v \in A : B \subseteq A \ {v} /\ stored'[e] = stored[e] + 1 /\ restarts' = restarts
        BY <1>p, <4>1, <4>4, <4>5
      <4> QED BY <4>6 DEF A, B
    <3>2. CASE e \notin batch[w]
      <4>1. w \in B => w \in A
        BY <1>p, <3>2 DEF MayStore, Past
      <4>2. B \subseteq A
        BY <1>s, <1>p, <4>1
      <4>3. stored'[e] = stored[e]
        BY <1>b, <1>p, <3>2 DEF Store
      <4> QED BY <1>p, <4>2, <4>3
    <3> QED BY <3>1, <3>2
  <2> HIDE DEF Count
  <2> QED BY <2>1, <2>2
<1>1. ASSUME UNCHANGED <<memory, pc, batch, listed, stored, restarts>>
      PROVE  /\ \A v \in Workers : ReportInv(v)'
             /\ \A e \in SessionEvents : Count(e)
  <2>1. \A v \in Workers : Same(v)
    BY <1>1 DEF Same
  <2>2. \A v \in Workers : ReportInv(v)'
    BY <1>s, <2>1
  <2>3. ASSUME NEW e \in SessionEvents
        PROVE  {v \in Workers : MayStore(v, e)'} \subseteq {v \in Workers : MayStore(v, e)}
    BY <1>s, <2>1
  <2> QED BY <1>1, <2>2, <2>3
<1>2. ASSUME NEW w \in Workers, Begin(w) \/ ReadWatermark(w)
      PROVE  /\ \A v \in Workers : ReportInv(v)'
             /\ \A e \in SessionEvents : Count(e)
  <2>1. /\ \A v \in Workers \ {w} : Same(v)
        /\ pc'[w] \in {"read", "logins"} /\ memory' = memory
        /\ UNCHANGED <<stored, restarts, closed>>
    BY <1>2 DEF Begin, ReadWatermark, Goto, TypeOK, Same, source
  <2>2. ReportInv(w)'
    BY <2>1 DEF ReportInv
  <2>3. \A e : MayStore(w, e)' => MayStore(w, e)
    BY <2>1 DEF MayStore, Past
  <2> HIDE DEF Count
  <2> QED BY <1>q, <2>1, <2>2, <2>3
<1>3. ASSUME NEW w \in Workers, FetchLogins(w)
      PROVE  /\ \A v \in Workers : ReportInv(v)'
             /\ \A e \in SessionEvents : Count(e)
  <2>1. /\ \A v \in Workers \ {w} : Same(v)
        /\ pc'[w] = "sessions" /\ memory' = memory /\ batch'[w] = Fetched(w, Logins)
        /\ UNCHANGED <<stored, restarts, closed>>
    BY <1>3 DEF FetchLogins, Goto, TypeOK, Same, source
  <2>2. Fetched(w, Logins) \cap SessionEvents = {}
    BY DEF Fetched, SessionEvents
  <2>3. ReportInv(w)'
    BY <2>1, <2>2 DEF ReportInv
  <2>4. \A e : MayStore(w, e)' => MayStore(w, e)
    BY <2>1 DEF MayStore, Past
  <2> HIDE DEF Count
  <2> QED BY <1>q, <2>1, <2>3, <2>4
<1>4. ASSUME NEW w \in Workers, FetchSessions(w)
      PROVE  /\ \A v \in Workers : ReportInv(v)'
             /\ \A e \in SessionEvents : Count(e)
  <2>1. /\ \A v \in Workers \ {w} : Same(v)
        /\ pc[w] = "sessions" /\ pc'[w] = "commands" /\ memory' = memory /\ batch' = batch
        /\ UNCHANGED <<stored, restarts, closed>>
        /\ \A s \in Sessions :
             listed'[w][s] = CASE opened[s] = NoMark \/ opened[s] < since[w] -> "unknown"
                               [] closed[s] = NoMark                         -> "open"
                               [] OTHER                                      -> "finished"
    BY <1>4 DEF FetchSessions, Goto, TypeOK, Same, source
  <2>2. \A s \in Sessions : /\ closed[s] # NoMark => listed'[w][s] # "open"
                            /\ listed'[w][s] = "finished" => closed[s] # NoMark
    BY <2>1
  <2>3. ReportInv(w)'
    BY <2>1, <2>2 DEF ReportInv
  <2>4. \A e : MayStore(w, e)' => MayStore(w, e)
    BY <2>1 DEF MayStore, Past
  <2> HIDE DEF Count
  <2> QED BY <1>q, <2>1, <2>3, <2>4
<1>5. ASSUME NEW w \in Workers, FetchCommands(w)
      PROVE  /\ \A v \in Workers : ReportInv(v)'
             /\ \A e \in SessionEvents : Count(e)
  <2>1. /\ \A v \in Workers \ {w} : Same(v)
        /\ pc[w] = "commands" /\ pc'[w] \in {"commit", "post"}
        /\ batch'[w] \subseteq batch[w] \cup Transitions(w) \cup Fetched(w, Commands)
        /\ UNCHANGED <<stored, restarts, closed>>
        /\ \A s \in Sessions :
             memory'[w][s] = IF listed[w][s] = "unknown" THEN memory[w][s] ELSE listed[w][s]
    BY <1>5 DEF FetchCommands, Remember, Goto, TypeOK, Same, source
  <2>2. batch[w] \cap SessionEvents = {}
    BY <2>1 DEF ReportInv
  <2>3. Fetched(w, Commands) \cap SessionEvents = {}
    BY DEF Fetched, SessionEvents
  <2>4. batch'[w] \cap SessionEvents \subseteq Transitions(w)
    BY <2>1, <2>2, <2>3
  <2>5. \A e \in Transitions(w) : ~Past(w, e) /\ Past(w, e)'
    BY <2>1 DEF Transitions, Past
  <2>6. \A e \in SessionEvents : Past(w, e) => Past(w, e)'
    <3>1. \A s \in Sessions : listed[w][s] \in Seen
      BY DEF TypeOK
    <3>2. \A s \in Sessions : memory[w][s] = "finished" => memory'[w][s] = "finished"
      BY <2>1, <3>1 DEF ReportInv, Seen
    <3>3. \A s \in Sessions : memory[w][s] # "unknown" => memory'[w][s] # "unknown"
      BY <2>1
    <3> QED BY <1>b, <3>2, <3>3 DEF Past
  <2>7. \A s \in Sessions : memory'[w][s] = "finished" => closed'[s] # NoMark
    BY <2>1 DEF ReportInv
  <2>8. ReportInv(w)'
    BY <2>1, <2>4, <2>5, <2>7 DEF ReportInv
  <2>9. \A e \in SessionEvents : MayStore(w, e)' => MayStore(w, e)
    BY <2>4, <2>5, <2>6 DEF MayStore
  <2> HIDE DEF Count
  <2> QED BY <1>q, <2>1, <2>8, <2>9
<1>l. ASSUME NEW w \in Workers, Leave(w), memory' = memory
      PROVE  /\ \A v \in Workers \ {w} : Same(v)
             /\ pc'[w] = "idle"
             /\ ReportInv(w)'
             /\ \A e : MayStore(w, e)' => MayStore(w, e)
  <2>1. pc'[w] = "idle" /\ \A v \in Workers \ {w} : Same(v)
    BY <1>l DEF Leave, Goto, TypeOK, Same
  <2>2. ReportInv(w)'
    BY <1>a, <1>l, <2>1 DEF ReportInv
  <2> QED BY <1>l, <2>1, <2>2 DEF MayStore, Past
<1>6. ASSUME NEW w \in Workers, Commit(w) \/ CutShort(w)
      PROVE  /\ \A v \in Workers : ReportInv(v)'
             /\ \A e \in SessionEvents : Count(e)
  <2>1. Leave(w) /\ UNCHANGED <<memory, stored, restarts>>
    BY <1>6 DEF Commit, CommitAt, CutShort
  <2> HIDE DEF Count
  <2> QED BY <1>l, <1>q, <2>1
<1>7. ASSUME NEW w \in Workers, PostUnanswered(w)
      PROVE  /\ \A v \in Workers : ReportInv(v)'
             /\ \A e \in SessionEvents : Count(e)
  <2>1. pc[w] = "post" /\ Leave(w) /\ Store(w) /\ UNCHANGED <<memory, restarts>>
    BY <1>7 DEF PostUnanswered
  <2> HIDE DEF Count
  <2> QED BY <1>l, <1>p, <2>1
<1>8. ASSUME NEW w \in Workers, Post(w)
      PROVE  /\ \A v \in Workers : ReportInv(v)'
             /\ \A e \in SessionEvents : Count(e)
  <2>1. /\ \A v \in Workers \ {w} : Same(v)
        /\ pc[w] = "post" /\ pc'[w] = "commit" /\ memory' = memory /\ Store(w)
        /\ restarts' = restarts
    BY <1>8 DEF Post, Goto, TypeOK, Same
  <2>2. ReportInv(w)'
    BY <1>a, <2>1 DEF ReportInv
  <2> HIDE DEF Count
  <2> QED BY <1>p, <2>1, <2>2
<1>9. ASSUME NEW w \in Workers, Restart(w)
      PROVE  /\ \A v \in Workers : ReportInv(v)'
             /\ \A e \in SessionEvents : Count(e)
  <2>1. /\ \A v \in Workers \ {w} : Same(v)
        /\ pc'[w] = "idle" /\ \A s \in Sessions : memory'[w][s] = "unknown"
        /\ stored' = stored /\ restarts' = restarts + 1
    BY <1>9 DEF Restart, Leave, Goto, TypeOK, Same, NoSessions
  <2>2. ReportInv(w)'
    BY <2>1 DEF ReportInv
  <2>3. \A v \in Workers : ReportInv(v)'
    BY <1>s, <2>1, <2>2
  <2>4. ASSUME NEW e \in SessionEvents
        PROVE  {v \in Workers : MayStore(v, e)'} \subseteq {v \in Workers : MayStore(v, e)} \cup {w}
    BY <1>s, <2>1
  <2> QED BY <2>1, <2>3, <2>4
<1>10. ASSUME \/ Tick \/ (\E r \in Records : LogRecord(r))
              \/ (\E s \in Sessions : OpenSession(s) \/ EndSession(s)) \/ UNCHANGED vars
       PROVE  UNCHANGED <<memory, pc, batch, listed, stored, restarts>>
  BY <1>10 DEF Tick, LogRecord, OpenSession, EndSession, vars, cycle
<1> HIDE DEF Count
<1>11. /\ \A v \in Workers : ReportInv(v)'
       /\ \A e \in SessionEvents : Count(e)
  BY <1>1, <1>2, <1>3, <1>4, <1>5, <1>6, <1>7, <1>8, <1>9, <1>10 DEF Next, CycleStep
<1> QED BY <1>11 DEF Count

\* The start and the end of a session are stored at most once per process,
\* whatever cycles are retried, cut short or overlap.
THEOREM ReportsOncePerProcess == Spec => []SessionEventsOncePerProcess
<1>1. Init => ReportsInv
  <2> SUFFICES ASSUME Init PROVE ReportsInv
    OBVIOUS
  <2>1. \A w \in Workers : ReportInv(w)
    BY DEF Init, ReportInv, NoSessions
  <2>2. ASSUME NEW e \in SessionEvents
        PROVE  stored[e] + Cardinality({w \in Workers : MayStore(w, e)}) <= Cardinality(Workers) + restarts
    <3>1. stored[e] = 0 /\ restarts = 0
      BY DEF Init, AllEvents
    <3>2. Cardinality({w \in Workers : MayStore(w, e)}) <= Cardinality(Workers)
      BY WorkersAssumption, FS_Subset
    <3>3. Cardinality(Workers) \in Nat /\ Cardinality({w \in Workers : MayStore(w, e)}) \in Nat
      BY WorkersAssumption, FS_Subset, FS_CardinalityType
    <3> QED BY <3>1, <3>2, <3>3
  <2> QED BY <2>1, <2>2 DEF ReportsInv
<1>2. TypeOK /\ ReportsInv /\ [Next]_vars => ReportsInv'
  <2> SUFFICES ASSUME TypeOK, ReportsInv, [Next]_vars PROVE ReportsInv'
    OBVIOUS
  <2>1. \A w \in Workers : ReportInv(w)'
    BY ReportStep DEF ReportsInv
  <2>2. ASSUME NEW e \in SessionEvents
        PROVE  stored'[e] + Cardinality({w \in Workers : MayStore(w, e)'})
                 <= Cardinality(Workers) + restarts'
    <3> DEFINE A == {w \in Workers : MayStore(w, e)}
               B == {w \in Workers : MayStore(w, e)'}
    <3>1. \/ B \subseteq A /\ stored'[e] = stored[e] /\ restarts' = restarts
          \/ \E w \in A : B \subseteq A \ {w} /\ stored'[e] = stored[e] + 1 /\ restarts' = restarts
          \/ \E w \in Workers : B \subseteq A \cup {w} /\ stored'[e] = stored[e] /\ restarts' = restarts + 1
      BY ReportStep DEF ReportsInv
    <3>2. A \in SUBSET Workers /\ B \in SUBSET Workers
      OBVIOUS
    <3>3. stored[e] + Cardinality(A) <= Cardinality(Workers) + restarts
      BY DEF ReportsInv
    <3>4. stored[e] \in Nat /\ stored'[e] \in Nat /\ restarts \in Nat /\ restarts' \in Nat
      BY JumpServerTypeStep DEF TypeOK, AllEvents
    <3> HIDE DEF A, B
    <3>5. stored'[e] + Cardinality(B) <= Cardinality(Workers) + restarts'
      BY <3>1, <3>2, <3>3, <3>4, CountKept
    <3> QED BY <3>5 DEF B
  <2> QED BY <2>1, <2>2 DEF ReportsInv
<1>3. TypeOK /\ ReportsInv => SessionEventsOncePerProcess
  <2> SUFFICES ASSUME TypeOK, ReportsInv, NEW e \in SessionEvents
               PROVE  stored[e] <= Cardinality(Workers) + restarts
    BY DEF SessionEventsOncePerProcess
  <2> DEFINE n == Cardinality({w \in Workers : MayStore(w, e)})
  <2>1. n \in Nat /\ Cardinality(Workers) \in Nat
    BY WorkersAssumption, FS_Subset, FS_CardinalityType
  <2>2. stored[e] + n <= Cardinality(Workers) + restarts
    BY DEF ReportsInv
  <2>3. stored[e] \in Nat /\ restarts \in Nat
    BY DEF TypeOK, AllEvents
  <2> HIDE DEF n
  <2> QED BY <2>1, <2>2, <2>3
<1> QED BY <1>1, <1>2, <1>3, JumpServerTypeCorrect, PTL DEF Spec
=============================================================================
