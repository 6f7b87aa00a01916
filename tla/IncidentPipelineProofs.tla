----------------------- MODULE IncidentPipelineProofs -----------------------
(***************************************************************************)
(* Safety of IncidentPipeline for any number of calls, any events and any  *)
(* window.  The argument is PipelineInv: every match a call still holds    *)
(* rests on retained events, because events are never removed, and every   *)
(* incident a call works on after its upsert is in the store.              *)
(***************************************************************************)
EXTENDS IncidentPipeline, FiniteSetTheorems, WellFoundedInduction, TLAPS

-----------------------------------------------------------------------------
\* Correlation: the scan picks its clusters from the events it is given.

\* A match of _shared_entity_keys is carried by every event, and a MAC address
\* counts only with an event that has no username.
LEMMA SharedIsAbout ==
    ASSUME NEW C, C # {}, NEW k \in SharedEntityKeys(C)
    PROVE  AboutEntity(C, k) /\ k \in AllKeys(C)
<1>1. CASE \A e \in C : UserKeys(e) # {}
  <2>1. \A e \in C : k \in UserKeys(e)
    BY <1>1 DEF SharedEntityKeys
  <2>2. PICK e \in C : k \in UserKeys(e)
    BY <2>1
  <2>3. k[1] = "user"
    BY <2>2 DEF UserKeys
  <2> QED
    BY <2>1, <2>2, <2>3 DEF AboutEntity, AllKeys, EntityKeys
<1>2. CASE ~\A e \in C : UserKeys(e) # {}
  <2>1. \A e \in C : k \in DeviceKeys(e)
    BY <1>2 DEF SharedEntityKeys
  <2>2. PICK d \in C : UserKeys(d) = {}
    BY <1>2
  <2>3. d.usernames = {}
    BY <2>2 DEF UserKeys
  <2> QED
    BY <2>1, <2>2, <2>3 DEF AboutEntity, AllKeys, EntityKeys
<1> QED
  BY <1>1, <1>2

\* Every match is a set of the given events that the rule's promise describes.
LEMMA MatchesAreSound ==
    ASSUME NEW S \in SUBSET Events, NEW C \in FindMatches(S)
    PROVE  /\ C \subseteq S
           /\ \E k \in AllKeys(C) : Compromise(C, k)
<1>0. PICK k \in CandidateKeys(S) :
         \E e \in Starts(EntityEvents(S, k), k) : C = Cluster(EntityEvents(S, k), e)
  BY DEF FindMatches
<1>1. PICK e \in Starts(EntityEvents(S, k), k) : C = Cluster(EntityEvents(S, k), e)
  BY <1>0
<1> DEFINE E == EntityEvents(S, k)
<1>2. e \in E /\ Qualifies(C, k)
  BY <1>1 DEF Starts
<1>3. /\ C \subseteq E
      /\ E \subseteq S
      /\ \A f \in E : Requirement(f) \in Requirements
  BY <1>1 DEF Cluster, EntityEvents
<1>4. {Requirement(f) : f \in C} = Requirements
  BY <1>2, <1>3 DEF Qualifies, Bucket
<1>5. WithinWindow(C)
  <2> SUFFICES ASSUME NEW f \in C, NEW g \in C
               PROVE  g.at <= f.at + Window
    BY DEF WithinWindow
  <2>1. e.at \in Nat /\ f.at \in Nat /\ g.at \in Nat /\ Window \in Nat
    BY <1>2, <1>3, EventsAssumption, WindowAssumption
  <2>2. ~Before(f, e) /\ g.at <= e.at + Window
    BY <1>1 DEF Cluster
  <2>3. e.at <= f.at
    BY <2>1, <2>2 DEF Before
  <2> QED
    BY <2>1, <2>2, <2>3
<1>6. C # {}
  BY <1>4 DEF Requirements
<1>7. AboutEntity(C, k) /\ k \in AllKeys(C)
  BY <1>2, <1>6, SharedIsAbout DEF Qualifies
<1> QED
  BY <1>3, <1>4, <1>5, <1>7 DEF Compromise

-----------------------------------------------------------------------------
\* The scan is complete: its recursion is well founded, so that an event it does not
\* start at was consumed by a match that it did start.

\* The sort key orders events strictly.
LEMMA BeforeOrders ==
    ASSUME NEW d \in Events, NEW e \in Events, NEW f \in Events
    PROVE  /\ Before(d, e) /\ Before(e, f) => Before(d, f)
           /\ ~Before(e, e)
<1>1. /\ d.at \in Nat /\ e.at \in Nat /\ f.at \in Nat
      /\ d.id \in Nat /\ e.id \in Nat /\ f.id \in Nat
  BY EventsAssumption
<1> QED BY <1>1 DEF Before

\* A non-empty set of numbers has a least one.
LEMMA Least ==
    ASSUME NEW T \in SUBSET Nat, T # {}
    PROVE  \E x \in T : \A y \in T : x <= y
<1>1. PICK x \in T : \A y \in T : ~(<<y, x>> \in OpToRel(<, Nat))
  BY NatLessThanWellFounded, WFMin
<1>2. \A y \in T : ~(y < x)
  BY <1>1 DEF OpToRel
<1> QED BY <1>2

\* The scan's order has a first event in every set of events.
LEMMA Earliest ==
    ASSUME NEW T \in SUBSET Events, T # {}
    PROVE  \E e \in T : \A f \in T : ~Before(f, e)
<1> DEFINE A == {e.at : e \in T}
<1>0. \A e \in T : e.at \in Nat /\ e.id \in Nat
  BY EventsAssumption
<1>1. A \in SUBSET Nat /\ A # {}
  BY <1>0
<1>2. PICK a \in A : \A b \in A : a <= b
  BY <1>1, Least
<1> DEFINE I == {e.id : e \in {f \in T : f.at = a}}
<1>3. I \in SUBSET Nat /\ I # {}
  BY <1>0, <1>2
<1>4. PICK i \in I : \A j \in I : i <= j
  BY <1>3, Least
<1>5. PICK e \in T : e.at = a /\ e.id = i
  BY <1>4
<1>6. ASSUME NEW f \in T PROVE ~Before(f, e)
  <2>1. f.at \in Nat /\ f.id \in Nat /\ e.at \in Nat /\ e.id \in Nat
    BY <1>0
  <2>2. e.at <= f.at
    BY <1>2, <1>5
  <2>3. f.at = e.at => e.id <= f.id
    BY <1>4, <1>5
  <2> QED BY <2>1, <2>2, <2>3 DEF Before
<1> QED BY <1>6

\* D holds, with an event of E, all earlier ones.
Closed(D, E) == D \subseteq E /\ \A e \in D, d \in E : Before(d, e) => d \in D

\* W are the events of D that no event of W consumes.
Run(W, D, B) == W \subseteq D /\ \A e \in D : e \in W <=> ~\E d \in W : <<d, e>> \in B

\* Two runs agree where both are defined.
LEMMA RunsAgree ==
    ASSUME NEW E \in SUBSET Events, NEW B,
           \A d, e \in E : <<d, e>> \in B => Before(d, e),
           NEW V, NEW C, Closed(C, E), Run(V, C, B),
           NEW W, NEW D, Closed(D, E), Run(W, D, B),
           NEW e \in C \cap D
    PROVE  e \in V <=> e \in W
<1> DEFINE T == {x \in C \cap D : ~(x \in V <=> x \in W)}
<1> SUFFICES ASSUME T # {} PROVE FALSE
  OBVIOUS
<1>1. T \in SUBSET Events
  BY DEF Closed
<1>2. PICK x \in T : \A y \in T : ~Before(y, x)
  BY <1>1, Earliest
<1>3. \A d \in E : <<d, x>> \in B => d \in C \cap D /\ (d \in V <=> d \in W)
  BY <1>2 DEF Closed
<1>4. (\E d \in V : <<d, x>> \in B) <=> (\E d \in W : <<d, x>> \in B)
  BY <1>3 DEF Closed, Run
<1> QED BY <1>2, <1>4 DEF Run

\* The recursion of the scan defines the events it reaches.
LEMMA RunExists ==
    ASSUME NEW E \in SUBSET Events, NEW B,
           \A d, e \in E : <<d, e>> \in B => Before(d, e)
    PROVE  \E W : Run(W, E, B)
<1> DEFINE Defined(e) == \E W, D \in SUBSET E : Closed(D, E) /\ Run(W, D, B) /\ e \in D
           U == {e \in E : \E W, D \in SUBSET E : Closed(D, E) /\ Run(W, D, B) /\ e \in W}
<1>1. ASSUME NEW D0 \in SUBSET E, Closed(D0, E), \A e \in D0 : Defined(e)
      PROVE  Run(U \cap D0, D0, B)
  <2> SUFFICES ASSUME NEW e \in D0
               PROVE  e \in U <=> ~\E d \in U \cap D0 : <<d, e>> \in B
    BY DEF Run
  <2>1. PICK W \in SUBSET E : \E D \in SUBSET E : Closed(D, E) /\ Run(W, D, B) /\ e \in D
    BY <1>1
  <2>2. PICK D \in SUBSET E : Closed(D, E) /\ Run(W, D, B) /\ e \in D
    BY <2>1
  <2>3. ASSUME NEW d \in D PROVE d \in U <=> d \in W
    <3>1. d \in W => d \in U
      BY <2>2
    <3>2. ASSUME d \in U PROVE d \in W
      <4>1. PICK V \in SUBSET E : \E C \in SUBSET E : Closed(C, E) /\ Run(V, C, B) /\ d \in V
        BY <3>2
      <4>2. PICK C \in SUBSET E : Closed(C, E) /\ Run(V, C, B) /\ d \in V
        BY <4>1
      <4>3. d \in C
        BY <4>2 DEF Run
      <4> HIDE DEF U
      <4> QED BY <2>2, <2>3, <4>2, <4>3, RunsAgree
    <3> QED BY <3>1, <3>2
  <2> HIDE DEF U
  <2>4. \A d \in E : <<d, e>> \in B => d \in D /\ d \in D0
    BY <1>1, <2>2 DEF Closed
  <2>5. e \in W <=> ~\E d \in W : <<d, e>> \in B
    BY <2>2 DEF Run
  <2>6. e \in U <=> e \in W
    BY <2>2, <2>3
  <2>7. (\E d \in U \cap D0 : <<d, e>> \in B) <=> (\E d \in W : <<d, e>> \in B)
    BY <2>3, <2>4
  <2> QED BY <2>5, <2>6, <2>7
<1>2. \A e \in E : Defined(e)
  <2> DEFINE T == {e \in E : ~Defined(e)}
  <2> SUFFICES ASSUME T # {} PROVE FALSE
    OBVIOUS
  <2>1. PICK e \in T : \A f \in T : ~Before(f, e)
    BY Earliest
  <2> DEFINE D0 == {d \in E : Before(d, e)}
             W0 == U \cap D0
             D1 == D0 \cup {e}
             W1 == IF \E d \in W0 : <<d, e>> \in B THEN W0 ELSE W0 \cup {e}
  <2>2. \A d \in D0 : Defined(d)
    BY <2>1
  <2>3. Closed(D0, E)
    BY <2>1, BeforeOrders DEF Closed
  <2>4. Run(W0, D0, B)
    BY <1>1, <2>2, <2>3
  <2> HIDE DEF U, Defined
  <2>5. Closed(D1, E)
    BY <2>1, <2>3 DEF Closed
  <2>6. ~Before(e, e) /\ \A d \in D0 : ~Before(e, d) /\ d # e
    BY <2>1, BeforeOrders
  <2>7. \A d \in D1 : <<e, d>> \notin B
    BY <2>1, <2>6
  <2> HIDE DEF D0, W0
  <2>8. Run(W1, D1, B)
    <3>1. W1 \subseteq D1 /\ W0 \subseteq D0 /\ W0 \subseteq W1 /\ W1 \subseteq W0 \cup {e}
      BY <2>4 DEF Run
    <3>2. \A f \in D1 : (\E d \in W1 : <<d, f>> \in B) <=> (\E d \in W0 : <<d, f>> \in B)
      BY <2>7, <3>1
    <3>3. \A f \in D0 : f \in W1 <=> f \in W0
      BY <2>6
    <3>4. e \in W1 <=> ~\E d \in W0 : <<d, e>> \in B
      BY <2>6, <3>1
    <3>5. \A f \in D0 : f \in W0 <=> ~\E d \in W0 : <<d, f>> \in B
      BY <2>4 DEF Run
    <3> HIDE DEF W1
    <3> QED BY <3>1, <3>2, <3>3, <3>4, <3>5 DEF Run
  <2>9. e \in D1 /\ D1 \in SUBSET E /\ W1 \in SUBSET E
    BY <2>1, <2>5, <2>8 DEF Closed, Run
  <2>10. Defined(e)
    <3> HIDE DEF W1, D1
    <3> QED BY <2>5, <2>8, <2>9 DEF Defined
  <2> QED BY <2>1, <2>10
<1>3. Closed(E, E)
  BY DEF Closed
<1>4. Run(U \cap E, E, B)
  BY <1>1, <1>2, <1>3
<1> HIDE DEF U
<1> QED BY <1>4

\* The scan reaches every event that could start a match, or has consumed it.
LEMMA ScanReaches ==
    ASSUME NEW E \in SUBSET Events, NEW k, NEW e \in E, Qualifies(Cluster(E, e), k)
    PROVE  \E d \in Starts(E, k) : e \in Cluster(E, d)
<1> DEFINE Blocked(d, x) == Before(d, x) /\ x \in Cluster(E, d) /\ Qualifies(Cluster(E, d), k)
           B == {p \in E \X E : Blocked(p[1], p[2])}
           V == CHOOSE f : f = [x \in E |-> ~\E d \in E : /\ Before(d, x)
                                                          /\ x \in Cluster(E, d)
                                                          /\ Qualifies(Cluster(E, d), k)
                                                          /\ f[d]]
<1>1. Starts(E, k) = {x \in E : V[x] /\ Qualifies(Cluster(E, x), k)}
  BY DEF Starts
<1>2. \A d, x \in E : <<d, x>> \in B <=> Blocked(d, x)
  OBVIOUS
<1>3. PICK W : Run(W, E, B)
  <2>1. \A d, x \in E : <<d, x>> \in B => Before(d, x)
    BY <1>2
  <2> HIDE DEF B
  <2> QED BY <2>1, RunExists
<1>4. V = [x \in E |-> ~\E d \in E : /\ Before(d, x)
                                     /\ x \in Cluster(E, d)
                                     /\ Qualifies(Cluster(E, d), k)
                                     /\ V[d]]
  <2> DEFINE f == [x \in E |-> x \in W]
  <2>1. ASSUME NEW x \in E
        PROVE  (x \in W) = ~\E d \in E : /\ Before(d, x)
                                         /\ x \in Cluster(E, d)
                                         /\ Qualifies(Cluster(E, d), k)
                                         /\ f[d]
    <3>1. W \subseteq E /\ (x \in W <=> ~\E d \in W : <<d, x>> \in B)
      BY <1>3 DEF Run
    <3>2. \A d \in E : f[d] <=> d \in W
      OBVIOUS
    <3> HIDE DEF B, f
    <3>3. (\E d \in W : <<d, x>> \in B) <=> (\E d \in E : Blocked(d, x) /\ f[d])
      BY <1>2, <3>1, <3>2, Zenon
    <3>4. x \in W <=> ~\E d \in E : /\ Before(d, x)
                                    /\ x \in Cluster(E, d)
                                    /\ Qualifies(Cluster(E, d), k)
                                    /\ f[d]
      BY <3>1, <3>3, Zenon
    <3> QED BY <3>4, SMT
  <2>2. f = [x \in E |-> ~\E d \in E : /\ Before(d, x)
                                       /\ x \in Cluster(E, d)
                                       /\ Qualifies(Cluster(E, d), k)
                                       /\ f[d]]
    BY <2>1
  <2> HIDE DEF f
  <2>3. \E g : g = [x \in E |-> ~\E d \in E : /\ Before(d, x)
                                              /\ x \in Cluster(E, d)
                                              /\ Qualifies(Cluster(E, d), k)
                                              /\ g[d]]
    BY <2>2
  <2> QED BY <2>3, Zenon
<1> HIDE DEF V
<1>5. V[e] <=> ~\E d \in E : Blocked(d, e) /\ V[d]
  BY <1>4, Zenon
<1>6. e \in Cluster(E, e)
  BY BeforeOrders, EventsAssumption, WindowAssumption DEF Cluster
<1> QED BY <1>1, <1>5, <1>6

\* A chain about k starts a cluster that qualifies.
LEMMA ChainQualifies ==
    ASSUME NEW S \in SUBSET Events, NEW k, NEW C \in Chains(S, k)
    PROVE  /\ k \in CandidateKeys(S)
           /\ \E e \in C \cap EntityEvents(S, k) : Qualifies(Cluster(EntityEvents(S, k), e), k)
<1> DEFINE E == EntityEvents(S, k)
<1>1. PICK a \in Bucket(S, AuthFailed), q \in Bucket(S, DeviceQuarantined),
           s \in Bucket(S, SessionStarted) : C = {a, q, s}
  BY DEF Chains
<1>2. Compromise(C, k)
  BY DEF Chains
<1>3. /\ C \subseteq S /\ C # {} /\ \A e \in C : k \in EntityKeys(e)
      /\ \A r \in Requirements : \E e \in C : Requirement(e) = r
      /\ \A e \in C : Requirement(e) \in Requirements
  BY <1>1, <1>2 DEF Bucket, Compromise, AboutEntity, Requirements
<1>4. k \in CandidateKeys(S)
  BY <1>3 DEF CandidateKeys, Bucket, Requirements
<1>5. C \subseteq E
  BY <1>3 DEF EntityEvents
<1>6. PICK e \in C : \A f \in C : ~Before(f, e)
  BY <1>3, Earliest
<1> DEFINE M == Cluster(E, e)
<1>7. C \subseteq M
  BY <1>2, <1>5, <1>6 DEF Cluster, Compromise, WithinWindow
<1>8. M \subseteq E /\ \A f \in M : k \in EntityKeys(f)
  BY DEF Cluster, EntityEvents
<1>9. \A r \in Requirements : Bucket(M, r) # {}
  BY <1>3, <1>7 DEF Bucket
<1>10. k \in SharedEntityKeys(M)
  <2> HIDE DEF M
  <2>1. CASE k[1] = "user"
    <3>1. \A f \in M : k \in UserKeys(f)
      BY <1>8, <2>1 DEF EntityKeys, DeviceKeys
    <3> QED BY <1>3, <1>7, <3>1 DEF SharedEntityKeys
  <2>2. CASE k[1] # "user"
    <3>1. \A f \in M : k \in DeviceKeys(f)
      BY <1>8, <2>2 DEF EntityKeys, UserKeys
    <3>2. PICK d \in C : d.usernames = {}
      BY <1>2, <2>2 DEF Compromise, AboutEntity
    <3>3. d \in M /\ UserKeys(d) = {}
      BY <1>7, <3>2 DEF UserKeys
    <3> QED BY <3>1, <3>3 DEF SharedEntityKeys
  <2> QED BY <2>1, <2>2
<1> QED BY <1>4, <1>5, <1>6, <1>9, <1>10 DEF Qualifies

\* A chain has an event in some match about its entity.
LEMMA ChainMeetsMatch ==
    ASSUME NEW S \in SUBSET Events, NEW k, NEW C \in Chains(S, k)
    PROVE  \E M \in FindMatches(S) : M \cap C # {} /\ AboutEntity(M, k)
<1> DEFINE E == EntityEvents(S, k)
<1>1. k \in CandidateKeys(S)
  BY ChainQualifies
<1>2. PICK e \in C \cap E : Qualifies(Cluster(E, e), k)
  BY ChainQualifies
<1>3. E \in SUBSET Events
  BY DEF EntityEvents
<1> HIDE DEF E
<1>4. PICK d \in Starts(E, k) : e \in Cluster(E, d)
  BY <1>2, <1>3, ScanReaches
<1>5. Cluster(E, d) # {} /\ k \in SharedEntityKeys(Cluster(E, d))
  BY <1>4 DEF Starts, Qualifies
<1>6. AboutEntity(Cluster(E, d), k)
  BY <1>5, SharedIsAbout
<1>7. Cluster(E, d) \in FindMatches(S)
  BY <1>1, <1>4 DEF FindMatches, E
<1> QED BY <1>2, <1>4, <1>6, <1>7

\* Evidence for an incident about k contains a chain about k.
LEMMA EvidenceHasChain ==
    ASSUME NEW S \in SUBSET Events, NEW D \in SUBSET S, NEW k, Compromise(D, k)
    PROVE  \E C \in Chains(S, k) : C \subseteq D
<1>1. /\ \A r \in Requirements : \E e \in D : Requirement(e) = r
      /\ \A e \in D : Requirement(e) \in Requirements
  BY DEF Compromise
<1>2. PICK d \in D : k[1] = "user" \/ d.usernames = {}
  BY <1>1 DEF Compromise, AboutEntity, Requirements
<1> DEFINE Pick(r) == IF Requirement(d) = r THEN d ELSE CHOOSE e \in D : Requirement(e) = r
<1>3. \A r \in Requirements : Pick(r) \in D /\ Requirement(Pick(r)) = r
  BY <1>1, <1>2
<1>4. \E r \in Requirements : d = Pick(r)
  BY <1>1
<1> HIDE DEF Pick
<1> DEFINE C == {Pick(AuthFailed), Pick(DeviceQuarantined), Pick(SessionStarted)}
<1>5. C \subseteq D /\ d \in C /\ {Requirement(e) : e \in C} = Requirements
  BY <1>3, <1>4 DEF Requirements
<1>6. Compromise(C, k)
  BY <1>2, <1>5 DEF Compromise, WithinWindow, AboutEntity
<1>7. /\ Pick(AuthFailed) \in Bucket(S, AuthFailed)
      /\ Pick(DeviceQuarantined) \in Bucket(S, DeviceQuarantined)
      /\ Pick(SessionStarted) \in Bucket(S, SessionStarted)
  BY <1>3 DEF Bucket, Requirements
<1>8. C \in Chains(S, k)
  BY <1>6, <1>7 DEF Chains
<1> QED BY <1>5, <1>8
-----------------------------------------------------------------------------
\* The score adds up the evidence, in whatever order the fold goes through it.

\* Among finite sets there is one that no removal of an element keeps among them.
LEMMA SmallestSet ==
    ASSUME NEW D, IsFiniteSet(D), NEW F \in SUBSET SUBSET D, F # {}
    PROVE  \E s \in F : \A x \in s : s \ {x} \notin F
<1> DEFINE N == {Cardinality(s) : s \in F}
<1>1. \A s \in F : IsFiniteSet(s) /\ Cardinality(s) \in Nat
  BY FS_Subset, FS_CardinalityType
<1>2. N \in SUBSET Nat /\ N # {}
  BY <1>1
<1>3. PICK n \in N : \A m \in N : n <= m
  BY <1>2, Least
<1>4. PICK s \in F : Cardinality(s) = n
  BY <1>3
<1>5. ASSUME NEW x \in s PROVE s \ {x} \notin F
  <2>1. Cardinality(s \ {x}) = n - 1 /\ n \in Nat
    BY <1>1, <1>4, FS_RemoveElement
  <2>2. s \ {x} \in F => n <= n - 1
    BY <1>3, <2>1
  <2> QED BY <2>1, <2>2
<1> QED BY <1>5

\* m adds up the weights w of the elements of every subset of D, in whatever order.
Measure(m, D, w) ==
    /\ m \in [SUBSET D -> Nat]
    /\ m[{}] = 0
    /\ \A s \in SUBSET D : \A x \in s : m[s] = w[x] + m[s \ {x}]

\* A finite set has such a sum.
LEMMA MeasureExists ==
    ASSUME NEW D, IsFiniteSet(D), NEW w \in [D -> Nat]
    PROVE  \E m : Measure(m, D, w)
<1> DEFINE F == {C \in SUBSET D : ~\E m : Measure(m, C, w)}
<1> SUFFICES ASSUME F # {} PROVE FALSE
  OBVIOUS
<1>1. PICK C \in F : \A x \in C : C \ {x} \notin F
  BY SmallestSet
<1>2. CASE C = {}
  <2>1. Measure([s \in SUBSET C |-> 0], C, w)
    BY <1>2 DEF Measure
  <2> QED BY <1>1, <2>1
<1>3. CASE C # {}
  <2>1. PICK x \in C : TRUE
    BY <1>3
  <2>2. PICK m : Measure(m, C \ {x}, w)
    BY <1>1, <2>1
  <2> DEFINE n == [s \in SUBSET C |-> IF x \in s THEN w[x] + m[s \ {x}] ELSE m[s]]
  <2>3. w[x] \in Nat /\ \A y \in C : w[y] \in Nat
    BY <1>1, <2>1
  <2>4. /\ \A s \in SUBSET (C \ {x}) : m[s] \in Nat
        /\ m[{}] = 0
        /\ \A s \in SUBSET (C \ {x}) : \A y \in s : m[s] = w[y] + m[s \ {y}]
    BY <2>2 DEF Measure
  <2>5. \A s \in SUBSET C : /\ x \in s => s \ {x} \in SUBSET (C \ {x})
                            /\ x \notin s => s \in SUBSET (C \ {x})
    OBVIOUS
  <2>6. n \in [SUBSET C -> Nat] /\ n[{}] = 0
    BY <2>3, <2>4, <2>5
  <2>7. ASSUME NEW s \in SUBSET C, NEW y \in s PROVE n[s] = w[y] + n[s \ {y}]
    <3>1. CASE x \notin s
      <4>1. n[s] = m[s] /\ n[s \ {y}] = m[s \ {y}]
        BY <2>7, <3>1
      <4> QED BY <2>4, <2>5, <3>1, <4>1
    <3>2. CASE x \in s /\ y = x
      <4>1. n[s] = w[x] + m[s \ {x}] /\ n[s \ {x}] = m[s \ {x}]
        BY <2>7, <3>2
      <4> HIDE DEF n
      <4> QED BY <3>2, <4>1
    <3>3. CASE x \in s /\ y # x
      <4>1. n[s] = w[x] + m[s \ {x}] /\ n[s \ {y}] = w[x] + m[(s \ {y}) \ {x}]
        BY <2>7, <3>3
      <4>2. (s \ {y}) \ {x} = (s \ {x}) \ {y} /\ y \in s \ {x} /\ s \ {x} \in SUBSET (C \ {x})
        BY <2>7, <3>3
      <4>3. m[s \ {x}] = w[y] + m[(s \ {x}) \ {y}]
        BY <2>4, <4>2
      <4>4. m[(s \ {x}) \ {y}] \in Nat /\ w[x] \in Nat /\ w[y] \in Nat
        BY <2>3, <2>4, <4>2
      <4> DEFINE r == m[(s \ {x}) \ {y}]
      <4> HIDE DEF n
      <4>5. n[s] = w[x] + (w[y] + r) /\ n[s \ {y}] = w[x] + r
        BY <4>1, <4>2, <4>3, Zenon
      <4> HIDE DEF r
      <4>6. r \in Nat
        BY <4>4 DEF r
      <4> QED BY <4>4, <4>5, <4>6
    <3> QED BY <3>1, <3>2, <3>3
  <2> HIDE DEF n
  <2>8. Measure(n, C, w)
    BY <2>6, <2>7 DEF Measure
  <2> QED BY <1>1, <2>8
<1> QED BY <1>2, <1>3

\* More elements never weigh less.
LEMMA MeasureGrows ==
    ASSUME NEW D, IsFiniteSet(D), NEW w \in [D -> Nat], NEW m, Measure(m, D, w), NEW C \in SUBSET D
    PROVE  m[C] <= m[D]
<1> DEFINE F == {s \in SUBSET D : C \subseteq s /\ ~(m[C] <= m[s])}
<1> SUFFICES ASSUME ~(m[C] <= m[D]) PROVE FALSE
  OBVIOUS
<1>0. F \in SUBSET SUBSET D /\ D \in F
  OBVIOUS
<1>1. PICK s \in F : \A x \in s : s \ {x} \notin F
  <2> HIDE DEF F
  <2> QED BY <1>0, SmallestSet
<1>2. CASE s = C
  BY <1>1, <1>2 DEF Measure
<1>3. CASE s # C
  <2>1. PICK x \in s : x \notin C
    BY <1>1, <1>3
  <2>2. m[C] <= m[s \ {x}] /\ m[s] = w[x] + m[s \ {x}]
    BY <1>1, <2>1 DEF Measure
  <2>3. m[C] \in Nat /\ m[s] \in Nat /\ m[s \ {x}] \in Nat /\ w[x] \in Nat
    BY <1>1, <2>1 DEF Measure
  <2> QED BY <1>1, <2>2, <2>3
<1> QED BY <1>2, <1>3

\* The weights that RiskEngine.score sums up.
Weight == [e \in Events |-> EventWeights[e.type] + SeverityWeights[e.severity]]

\* Weights are natural numbers.
LEMMA WeightType == Weight \in [Events -> Nat]
<1>1. \A t \in DOMAIN EventWeights : EventWeights[t] \in Nat
  BY DEF EventWeights
<1>2. \A v \in Severity : SeverityWeights[v] \in Nat
  BY DEF Severity, SeverityWeights
<1>3. ASSUME NEW e \in Events PROVE EventWeights[e.type] + SeverityWeights[e.severity] \in Nat
  <2>1. e.type \in DOMAIN EventWeights /\ e.severity \in Severity
    BY EventsAssumption
  <2>2. EventWeights[e.type] \in Nat /\ SeverityWeights[e.severity] \in Nat
    BY <1>1, <1>2, <2>1
  <2> QED BY <2>2
<1> QED BY <1>3 DEF Weight

\* The fold over the evidence computes its sum, whatever order it goes in.
LEMMA BaseIsSum ==
    ASSUME NEW D \in SUBSET Events, IsFiniteSet(D), NEW m, Measure(m, D, Weight), NEW C \in SUBSET D
    PROVE  MapThenSumSet(LAMBDA e : EventWeights[e.type] + SeverityWeights[e.severity], C) = m[C]
<1> DEFINE W(e) == EventWeights[e.type] + SeverityWeights[e.severity]
           Step(f) == [s \in SUBSET C |->
                         IF s = {} THEN 0
                         ELSE W(CHOOSE x \in s : TRUE) + f[s \ {CHOOSE x \in s : TRUE}]]
           iter == CHOOSE f : f = Step(f)
<1>1. MapThenSumSet(LAMBDA e : EventWeights[e.type] + SeverityWeights[e.severity], C) = iter[C]
  BY DEF MapThenSumSet, MapThenFoldSet
<1>2. /\ \A s \in SUBSET C : m[s] \in Nat
      /\ m[{}] = 0
      /\ \A s \in SUBSET C : \A x \in s : m[s] = W(x) + m[s \ {x}]
  <2>1. \A x \in C : Weight[x] = W(x)
    BY DEF Weight
  <2> HIDE DEF W
  <2> QED BY <2>1 DEF Measure
<1> HIDE DEF W
<1>3. iter = Step(iter)
  <2> DEFINE f == [s \in SUBSET C |-> m[s]]
  <2>1. ASSUME NEW s \in SUBSET C
        PROVE  f[s] = IF s = {} THEN 0
                      ELSE W(CHOOSE x \in s : TRUE) + f[s \ {CHOOSE x \in s : TRUE}]
    <3>1. CASE s = {}
      BY <1>2, <3>1
    <3>2. CASE s # {}
      <4> DEFINE x == CHOOSE y \in s : TRUE
      <4>1. x \in s
        BY <3>2
      <4> HIDE DEF x
      <4>2. f[s] = m[s] /\ f[s \ {x}] = m[s \ {x}] /\ m[s] = W(x) + m[s \ {x}]
        BY <1>2, <4>1
      <4> QED BY <3>2, <4>2 DEF x
    <3> QED BY <3>1, <3>2
  <2>2. f = Step(f)
    BY <2>1
  <2>3. \E g : g = Step(g)
    <3> HIDE DEF f, Step
    <3> QED BY <2>2
  <2> QED BY <2>3, Zenon
<1> HIDE DEF iter
<1>4. \A s \in SUBSET C : iter[s] = m[s]
  <2> DEFINE F == {s \in SUBSET C : iter[s] # m[s]}
  <2> SUFFICES ASSUME F # {} PROVE FALSE
    OBVIOUS
  <2>0. IsFiniteSet(C) /\ F \in SUBSET SUBSET C
    BY FS_Subset
  <2>1. PICK s \in F : \A x \in s : s \ {x} \notin F
    <3> HIDE DEF F
    <3> QED BY <2>0, SmallestSet
  <2>2. iter[s] = IF s = {} THEN 0
                  ELSE W(CHOOSE x \in s : TRUE) + iter[s \ {CHOOSE x \in s : TRUE}]
    BY <1>3, <2>1
  <2>3. CASE s = {}
    BY <1>2, <2>1, <2>2, <2>3
  <2>4. CASE s # {}
    <3> DEFINE x == CHOOSE y \in s : TRUE
    <3>1. x \in s /\ iter[s] = W(x) + iter[s \ {x}]
      BY <2>2, <2>4
    <3> HIDE DEF x
    <3>2. iter[s \ {x}] = m[s \ {x}]
      BY <2>1, <3>1
    <3> QED BY <1>2, <2>1, <3>1, <3>2
  <2> QED BY <2>3, <2>4
<1> QED BY <1>1, <1>4

\* The smaller of two numbers.
LEMMA MinIs ==
    ASSUME NEW a \in Int, NEW b \in Int
    PROVE  Min({a, b}) = IF a <= b THEN a ELSE b
<1> DEFINE k == IF a <= b THEN a ELSE b
<1>1. k \in {a, b} /\ k \in Int /\ \A y \in {a, b} : k <= y
  OBVIOUS
<1>2. Min({a, b}) \in {a, b} /\ \A y \in {a, b} : Min({a, b}) <= y
  <2>1. \E x \in {a, b} : \A y \in {a, b} : x <= y
    BY <1>1
  <2> QED BY <2>1, Zenon DEF Min
<1> DEFINE n == Min({a, b})
<1> HIDE DEF n
<1>3. n \in {a, b} /\ n <= a /\ n <= b
  BY <1>2 DEF n
<1>4. n = k
  BY <1>3
<1> QED BY <1>4 DEF n

\* More evidence has at least the violations and the score of less.
LEMMA ScoreGrows ==
    ASSUME NEW D \in SUBSET Events, IsFiniteSet(D), NEW C \in SUBSET D
    PROVE  /\ Violations(C) \subseteq Violations(D)
           /\ RiskScore(C, Violations(C)) <= RiskScore(D, Violations(D))
<1> DEFINE Base(E) == MapThenSumSet(LAMBDA e : EventWeights[e.type] + SeverityWeights[e.severity], E)
           Bonus(E) == IF Violations(E) # {} THEN PolicyViolationBonus ELSE 0
           Sum(E) == Base(E) + (Cardinality(E) - 1) * CorrelatedEventBonus + Bonus(E)
<1>1. Violations(C) \subseteq Violations(D)
  BY DEF Violations
<1>2. [e \in D |-> Weight[e]] \in [D -> Nat]
  BY WeightType
<1>3. PICK m : Measure(m, D, [e \in D |-> Weight[e]])
  BY <1>2, MeasureExists
<1>4. Measure(m, D, Weight)
  <2>1. \A s \in SUBSET D : \A x \in s : [e \in D |-> Weight[e]][x] = Weight[x]
    OBVIOUS
  <2> QED BY <1>3, <2>1 DEF Measure
<1>5. Base(C) = m[C] /\ Base(D) = m[D]
  BY <1>4, BaseIsSum
<1>6. m[C] <= m[D] /\ m[C] \in Nat /\ m[D] \in Nat
  BY <1>2, <1>3, MeasureGrows DEF Measure
<1>7. Cardinality(C) \in Nat /\ Cardinality(D) \in Nat /\ Cardinality(C) <= Cardinality(D)
  BY FS_Subset, FS_CardinalityType
<1>8. Bonus(C) \in Nat /\ Bonus(D) \in Nat /\ Bonus(C) <= Bonus(D)
  BY <1>1 DEF PolicyViolationBonus
<1> HIDE DEF Base, Bonus
<1>9. Sum(C) \in Int /\ Sum(D) \in Int /\ Sum(C) <= Sum(D)
  BY <1>5, <1>6, <1>7, <1>8 DEF CorrelatedEventBonus
<1>10. /\ RiskScore(C, Violations(C)) = Min({100, Sum(C)})
       /\ RiskScore(D, Violations(D)) = Min({100, Sum(D)})
  BY DEF RiskScore, Base, Bonus
<1> HIDE DEF Sum
<1>11. Min({100, Sum(C)}) <= Min({100, Sum(D)})
  BY <1>9, MinIs
<1> QED BY <1>1, <1>10, <1>11
-----------------------------------------------------------------------------
\* The pipeline keeps the events of a match.
LEMMA EnrichedEvents ==
    ASSUME NEW C
    PROVE  Enriched(C).events = C
BY DEF Enriched

\* An incident the pipeline can build rests on normalized events.
LEMMA IncidentEvents ==
    ASSUME NEW i \in Incident
    PROVE  i.events \in SUBSET Events
BY EnrichedEvents DEF Incident

\* run_pipeline over the stored events only reports incidents they justify.
LEMMA PipelineIsSound ==
    ASSUME events \subseteq Events, NEW i \in RunPipeline(events)
    PROVE  i \in Incident /\ Justified(i)
<1>1. PICK C \in FindMatches(events) : i = Enriched(C)
  BY DEF RunPipeline
<1>2. C \subseteq events /\ \E k \in AllKeys(C) : Compromise(C, k)
  BY <1>1, MatchesAreSound
<1>3. i.events = C
  BY <1>1, EnrichedEvents
<1> QED
  BY <1>1, <1>2, <1>3 DEF Incident, Justified
-----------------------------------------------------------------------------
\* The stores only grow.

\* Evidence stays evidence: the event store only grows.
LEMMA JustifiedKept ==
    ASSUME NEW i, Justified(i), events \subseteq events'
    PROVE  Justified(i)'
BY DEF Justified

\* upsert leaves its incident in the store and takes none out.
LEMMA PutStores ==
    ASSUME NEW i, Put(i)
    PROVE  /\ Stored(i.events)'
           /\ \A C : Stored(C) => Stored(C)'
BY DEF Put, Stored

\* No step takes an event or an incident out of its store.
LEMMA Monotone ==
    ASSUME Next \/ UNCHANGED vars
    PROVE  /\ events \subseteq events'
           /\ \A C : Stored(C) => Stored(C)'
<1>1. ASSUME NEW c \in Calls, NEW B \in Batches, Ingest(c, B)
      PROVE  /\ events \subseteq events'
             /\ \A C : Stored(C) => Stored(C)'
  BY <1>1 DEF Ingest, Stored
<1>2. ASSUME NEW c \in Calls, Upsert(c)
      PROVE  /\ events \subseteq events'
             /\ \A C : Stored(C) => Stored(C)'
  BY <1>2, PutStores DEF Upsert
<1>3. ASSUME NEW c \in Calls, CallRaises(c)
      PROVE  /\ events \subseteq events'
             /\ \A C : Stored(C) => Stored(C)'
  <2>1. CASE UNCHANGED incidents
    BY <1>3, <2>1 DEF CallRaises, Stored
  <2>2. ASSUME NEW i, Put(i)
        PROVE  \A C : Stored(C) => Stored(C)'
    BY <2>2, PutStores
  <2> QED
    BY <1>3, <2>1, <2>2 DEF CallRaises
<1>4. ASSUME NEW c \in Calls,
             GetAll(c) \/ Announce(c) \/ GetMany(c) \/ Generate(c) \/ SaveAnalysis(c)
      PROVE  UNCHANGED <<events, incidents>>
  BY <1>4 DEF GetAll, Announce, GetMany, Generate, SaveAnalysis
<1>5. ASSUME NEW B \in Batches, IngestRaises(B)
      PROVE  events \subseteq events' /\ UNCHANGED incidents
  BY <1>5 DEF IngestRaises
<1>6. ASSUME NEW c \in Calls, NEW i \in incidents, Analyze(c, i)
      PROVE  UNCHANGED <<events, incidents>>
  BY <1>6 DEF Analyze
<1>7. CASE Crash
  BY <1>7 DEF Crash, Stored
<1>8. CASE UNCHANGED vars
  BY <1>8 DEF vars, Stored
<1>9. UNCHANGED incidents => \A C : Stored(C) => Stored(C)'
  BY DEF Stored
<1> QED
  BY <1>1, <1>2, <1>3, <1>4, <1>5, <1>6, <1>7, <1>8, <1>9
     DEF Next, Arrive, CallStep, Fault

\* Incidents without an analysis stay, and analyses are replaced, never removed.
LEMMA PutAnalysisKeeps ==
    ASSUME NEW c, PutAnalysis(c)
    PROVE  /\ \A a \in analyses : \E b \in analyses' : b.of = a.of
           /\ \A b \in analyses' : \/ b \in analyses
                                    \/ /\ b.of = held[c].events
                                       /\ b.cites = cites[c]
                                       /\ b \in [of : {held[c].events}, cites : {cites[c]}]
<1> DEFINE new == [of |-> held[c].events, cites |-> cites[c]]
<1>1. new.of = held[c].events /\ new.cites = cites[c]
  OBVIOUS
<1>2. new \in [of : {held[c].events}, cites : {cites[c]}]
  OBVIOUS
<1>3. analyses' = {a \in analyses : a.of # held[c].events} \cup {new}
  BY DEF PutAnalysis
<1> HIDE DEF new
<1> QED
  BY <1>1, <1>2, <1>3
-----------------------------------------------------------------------------
\* The inductive invariant.

\* The inductive invariant holds of the empty stores.
THEOREM InitiallyPipelineInv == Init => PipelineInv
<1> SUFFICES ASSUME Init PROVE PipelineInv
  OBVIOUS
<1> USE DEF Init
<1>1. TypeOK
  BY DEF TypeOK
<1>2. IncidentsJustified /\ CreatedOnce /\ AnalysesGrounded
  BY DEF IncidentsJustified, CreatedOnce, AnalysesGrounded
<1>3. \A c \in Calls : CallInv(c)
  BY DEF CallInv, Looping, Holding, Analyzing
<1>4. NoMatchLost
  <2>1. \A k : CandidateKeys({}) = {}
    BY DEF CandidateKeys
  <2> QED
    BY <2>1 DEF NoMatchLost, FindMatches
<1> QED
  BY <1>1, <1>2, <1>3, <1>4 DEF PipelineInv

\* POST /events storing its batch keeps the invariant.
LEMMA IngestKeeps ==
    ASSUME PipelineInv, events \subseteq events', \A C : Stored(C) => Stored(C)',
           NEW c \in Calls, NEW B \in Batches, Ingest(c, B)
    PROVE  PipelineInv'
<1> USE DEF Ingest, Batches, PipelineInv, Goto, Hold
<1>1. TypeOK'
  BY DEF TypeOK, Ingesting, Analyzing
<1>2. IncidentsJustified'
  BY JustifiedKept DEF IncidentsJustified
<1>3. \A d \in Calls : CallInv(d)'
  BY JustifiedKept DEF CallInv, TypeOK, Looping, Holding, Analyzing
<1>4. \A C \in announced' : Stored(C)'
  BY DEF CallInv, Holding
<1>5. CreatedOnce'
  BY DEF CreatedOnce, TypeOK
<1>6. NoMatchLost'
  BY DEF NoMatchLost, TypeOK
<1>7. AnalysesGrounded'
  BY DEF AnalysesGrounded
<1> QED
  BY <1>1, <1>2, <1>3, <1>4, <1>5, <1>6, <1>7

\* Reading all events and correlating them keeps it: the call now owes every match.
LEMMA GetAllKeeps ==
    ASSUME PipelineInv, events \subseteq events', \A C : Stored(C) => Stored(C)',
           NEW c \in Calls, GetAll(c)
    PROVE  PipelineInv'
<1> USE DEF GetAll, PipelineInv, Goto, Hold
<1>1. TypeOK'
  <2>1. RunPipeline(events) \in SUBSET Incident
    BY PipelineIsSound DEF TypeOK
  <2>2. pc' \in [Calls -> Ingesting \cup Analyzing \cup {"idle"}]
    BY DEF TypeOK, Ingesting
  <2>3. todo' \in [Calls -> SUBSET Incident]
    BY <2>1 DEF TypeOK
  <2> QED
    BY <2>2, <2>3 DEF TypeOK
<1>2. IncidentsJustified'
  BY JustifiedKept DEF IncidentsJustified
<1>3. \A d \in Calls : CallInv(d)'
  <2>1. \A i \in RunPipeline(events) : Justified(i)
    BY PipelineIsSound DEF TypeOK
  <2>2. \A i \in RunPipeline(events) : Justified(i)'
    BY <2>1, JustifiedKept
  <2>3. CallInv(c)'
    <3>1. todo'[c] = RunPipeline(events)
      BY DEF TypeOK
    <3>2. pc'[c] = IF RunPipeline(events) = {} THEN "idle" ELSE "upsert"
      BY DEF TypeOK
    <3> QED
      BY <2>2, <3>1, <3>2 DEF CallInv, Looping, Holding, Analyzing
  <2>4. ASSUME NEW d \in Calls, d # c
        PROVE  CallInv(d)'
    <3>1. pc'[d] = pc[d] /\ todo'[d] = todo[d] /\ CallInv(d)
      BY <2>4 DEF TypeOK
    <3> QED
      BY <3>1, JustifiedKept DEF CallInv
  <2> QED
    BY <2>3, <2>4
<1>4. \A C \in announced' : Stored(C)'
  BY DEF CallInv, Holding
<1>5. CreatedOnce'
  BY DEF CreatedOnce, TypeOK
<1>6. NoMatchLost'
  <2>1. todo'[c] = RunPipeline(events)
    BY DEF TypeOK
  <2>2. ASSUME NEW C \in FindMatches(events)
        PROVE  \E i \in todo'[c] : i.events = C
    BY <2>1, EnrichedEvents DEF RunPipeline
  <2>3. FindMatches(events)' = FindMatches(events)
    OBVIOUS
  <2> QED
    BY <2>2, <2>3 DEF NoMatchLost
<1>7. AnalysesGrounded'
  BY DEF AnalysesGrounded
<1> QED
  BY <1>1, <1>2, <1>3, <1>4, <1>5, <1>6, <1>7

\* Storing one match keeps it: the match is no longer owed, because it is stored.
LEMMA UpsertKeeps ==
    ASSUME PipelineInv, events \subseteq events', \A C : Stored(C) => Stored(C)',
           NEW c \in Calls, Upsert(c)
    PROVE  PipelineInv'
<1> USE DEF PipelineInv, Goto, Hold
<1>0. PICK i \in todo[c] :
         /\ Put(i)
         /\ held' = [held EXCEPT ![c] = i]
         /\ todo' = [todo EXCEPT ![c] = @ \ {i}]
         /\ pc' = [pc EXCEPT ![c] = IF Stored(i.events) THEN "announce_updated"
                                   ELSE "announce_created"]
  BY DEF Upsert
<1>a. /\ pc[c] = "upsert"
      /\ UNCHANGED <<events, analyses, announced, cites, stale>>
  BY DEF Upsert
<1>b. /\ i \in Incident
      /\ Justified(i)
      /\ Stored(i.events)'
  BY <1>0, PutStores DEF TypeOK, CallInv
<1>c. /\ pc'[c] = IF Stored(i.events) THEN "announce_updated" ELSE "announce_created"
      /\ held'[c] = i
      /\ todo'[c] = todo[c] \ {i}
      /\ \A d \in Calls \ {c} :
           pc'[d] = pc[d] /\ held'[d] = held[d] /\ todo'[d] = todo[d]
  BY <1>0 DEF TypeOK
<1>1. TypeOK'
  <2>1. incidents' \subseteq Incident
    BY <1>0, <1>b DEF TypeOK, Put
  <2>2. pc' \in [Calls -> Ingesting \cup Analyzing \cup {"idle"}]
    BY <1>0 DEF TypeOK, Ingesting
  <2>3. todo' \in [Calls -> SUBSET Incident]
    BY <1>0 DEF TypeOK
  <2>4. held' \in [Calls -> Incident \cup {NoIncident}]
    BY <1>0, <1>b DEF TypeOK
  <2> QED
    BY <1>a, <2>1, <2>2, <2>3, <2>4 DEF TypeOK
<1>2. IncidentsJustified'
  <2>1. \A j \in incidents' : Justified(j)
    BY <1>0, <1>b DEF Put, IncidentsJustified
  <2> QED
    BY <2>1, JustifiedKept DEF IncidentsJustified
<1>3. \A d \in Calls : CallInv(d)'
  <2>1. CallInv(c)'
    BY <1>a, <1>b, <1>c, JustifiedKept DEF CallInv, Looping, Holding, Analyzing
  <2>2. ASSUME NEW d \in Calls \ {c} PROVE CallInv(d)'
    BY <1>a, <1>c, JustifiedKept DEF CallInv
  <2> QED
    BY <2>1, <2>2
<1>4. \A C \in announced' : Stored(C)'
  BY <1>a
<1>5. CreatedOnce'
  <2>1. ASSUME pc'[c] = "announce_created"
        PROVE  /\ i.events \notin announced
               /\ \A d \in Calls \ {c} :
                    pc[d] = "announce_created" => held[d].events # i.events
    <3>1. ~Stored(i.events)
      BY <1>c, <2>1
    <3> QED
      BY <3>1 DEF CallInv, Holding
  <2> QED
    BY <1>a, <1>c, <2>1 DEF CreatedOnce
<1>6. NoMatchLost'
  <2>1. ASSUME NEW C, NEW d \in Calls,
               pc[d] = "get_all" \/ \E j \in todo[d] : j.events = C
        PROVE  \/ Stored(C)'
               \/ pc'[d] = "get_all"
               \/ \E j \in todo'[d] : j.events = C
    BY <2>1, <1>a, <1>b, <1>c
  <2> QED
    BY <1>a, <2>1 DEF NoMatchLost
<1>7. AnalysesGrounded'
  BY <1>a DEF AnalysesGrounded
<1> QED
  BY <1>1, <1>2, <1>3, <1>4, <1>5, <1>6, <1>7

\* Broadcasting a stored incident keeps it.
LEMMA AnnounceKeeps ==
    ASSUME PipelineInv, events \subseteq events', \A C : Stored(C) => Stored(C)',
           NEW c \in Calls, Announce(c)
    PROVE  PipelineInv'
<1> USE DEF Announce, PipelineInv, Goto, Hold
<1>1. TypeOK'
  <2>1. announced' \subseteq SUBSET Events
    BY IncidentEvents DEF TypeOK, CallInv, Holding
  <2>2. pc' \in [Calls -> Ingesting \cup Analyzing \cup {"idle"}]
    BY DEF TypeOK, Ingesting
  <2> QED
    BY <2>1, <2>2 DEF TypeOK
<1>2. IncidentsJustified'
  BY JustifiedKept DEF IncidentsJustified
<1>3. \A d \in Calls : CallInv(d)'
  BY JustifiedKept DEF CallInv, TypeOK, Looping, Holding, Analyzing
<1>4. \A C \in announced' : Stored(C)'
  BY DEF CallInv, Holding
<1>5. CreatedOnce'
  BY DEF CreatedOnce, TypeOK
<1>6. NoMatchLost'
  BY DEF NoMatchLost, TypeOK
<1>7. AnalysesGrounded'
  BY DEF AnalysesGrounded
<1> QED
  BY <1>1, <1>2, <1>3, <1>4, <1>5, <1>6, <1>7

\* Loading the incident to analyze keeps it.
LEMMA AnalyzeKeeps ==
    ASSUME PipelineInv, events \subseteq events', \A C : Stored(C) => Stored(C)',
           NEW c \in Calls, NEW i \in incidents, Analyze(c, i)
    PROVE  PipelineInv'
<1> USE DEF Analyze, PipelineInv, Goto, Hold
<1>1. TypeOK'
  BY DEF TypeOK, Ingesting, Analyzing
<1>2. IncidentsJustified'
  BY JustifiedKept DEF IncidentsJustified
<1>3. \A d \in Calls : CallInv(d)'
  <2>1. Stored(i.events) /\ i \in Incident
    BY DEF Stored, TypeOK
  <2>2. CallInv(c)'
    <3>1. pc'[c] = "get_many" /\ held'[c] = i /\ todo'[c] = todo[c] /\ todo[c] = {}
      BY DEF TypeOK, CallInv, Looping
    <3> QED
      BY <2>1, <3>1 DEF CallInv
  <2>3. ASSUME NEW d \in Calls \ {c} PROVE CallInv(d)'
    <3>1. pc'[d] = pc[d] /\ held'[d] = held[d]
      BY DEF TypeOK
    <3> QED
      BY <3>1, JustifiedKept DEF CallInv
  <2> QED
    BY <2>2, <2>3
<1>4. \A C \in announced' : Stored(C)'
  BY DEF CallInv, Holding
<1>5. CreatedOnce'
  BY DEF CreatedOnce, TypeOK
<1>6. NoMatchLost'
  BY DEF NoMatchLost, TypeOK
<1>7. AnalysesGrounded'
  BY DEF AnalysesGrounded
<1> QED
  BY <1>1, <1>2, <1>3, <1>4, <1>5, <1>6, <1>7

\* Loading the incident's events keeps it.
LEMMA GetManyKeeps ==
    ASSUME PipelineInv, events \subseteq events', \A C : Stored(C) => Stored(C)',
           NEW c \in Calls, GetMany(c)
    PROVE  PipelineInv'
<1> USE DEF GetMany, Reply, PipelineInv, Goto, Hold
<1>1. TypeOK'
  BY DEF TypeOK, Ingesting, Analyzing
<1>2. IncidentsJustified'
  BY JustifiedKept DEF IncidentsJustified
<1>3. \A d \in Calls : CallInv(d)'
  BY JustifiedKept DEF CallInv, TypeOK, Looping, Holding, Analyzing
<1>4. \A C \in announced' : Stored(C)'
  BY DEF CallInv, Holding
<1>5. CreatedOnce'
  BY DEF CreatedOnce, TypeOK
<1>6. NoMatchLost'
  BY DEF NoMatchLost, TypeOK
<1>7. AnalysesGrounded'
  BY DEF AnalysesGrounded
<1> QED
  BY <1>1, <1>2, <1>3, <1>4, <1>5, <1>6, <1>7

\* The provider's answer, validated or refused, keeps it.
LEMMA GenerateKeeps ==
    ASSUME PipelineInv, events \subseteq events', \A C : Stored(C) => Stored(C)',
           NEW c \in Calls, Generate(c)
    PROVE  PipelineInv'
<1> USE DEF Generate, Reply, PipelineInv, Goto, Hold
<1>1. TypeOK'
  <2>1. held[c].events \in SUBSET Events
    BY IncidentEvents DEF CallInv, Holding, Analyzing
  <2>2. cites' \in [Calls -> SUBSET Events]
    BY <2>1 DEF TypeOK
  <2>3. pc' \in [Calls -> Ingesting \cup Analyzing \cup {"idle"}]
    BY DEF TypeOK, Analyzing
  <2>4. held' \in [Calls -> Incident \cup {NoIncident}]
    BY DEF TypeOK
  <2> QED
    BY <2>2, <2>3, <2>4 DEF TypeOK
<1>2. IncidentsJustified'
  BY JustifiedKept DEF IncidentsJustified
<1>3. \A d \in Calls : CallInv(d)'
  BY JustifiedKept DEF CallInv, TypeOK, Looping, Holding, Analyzing
<1>4. \A C \in announced' : Stored(C)'
  BY DEF CallInv, Holding
<1>5. CreatedOnce'
  BY DEF CreatedOnce, TypeOK
<1>6. NoMatchLost'
  BY DEF NoMatchLost, TypeOK
<1>7. AnalysesGrounded'
  BY DEF AnalysesGrounded
<1> QED
  BY <1>1, <1>2, <1>3, <1>4, <1>5, <1>6, <1>7

\* Attaching the analysis to the stored incident keeps it.
LEMMA SaveAnalysisKeeps ==
    ASSUME PipelineInv, events \subseteq events', \A C : Stored(C) => Stored(C)',
           NEW c \in Calls, SaveAnalysis(c)
    PROVE  PipelineInv'
<1> USE DEF SaveAnalysis, Reply, PipelineInv, Goto, Hold
<1>0. held[c].events \in SUBSET Events /\ cites[c] \subseteq held[c].events
  BY IncidentEvents DEF CallInv, Holding, Analyzing
<1>a. \A b \in analyses' : \/ b \in analyses
                          \/ /\ b.of = held[c].events
                             /\ b.cites = cites[c]
                             /\ b \in [of : {held[c].events}, cites : {cites[c]}]
  BY PutAnalysisKeeps
<1>1. TypeOK'
  <2>1. cites[c] \in SUBSET Events
    BY DEF TypeOK
  <2>2. analyses' \subseteq [of: SUBSET Events, cites: SUBSET Events]
    BY <1>0, <1>a, <2>1 DEF TypeOK
  <2>3. pc' \in [Calls -> Ingesting \cup Analyzing \cup {"idle"}]
    BY DEF TypeOK
  <2>4. /\ held' \in [Calls -> Incident \cup {NoIncident}]
        /\ cites' \in [Calls -> SUBSET Events]
    BY DEF TypeOK
  <2> QED
    BY <2>2, <2>3, <2>4 DEF TypeOK
<1>2. IncidentsJustified'
  BY JustifiedKept DEF IncidentsJustified
<1>3. \A d \in Calls : CallInv(d)'
  BY JustifiedKept DEF CallInv, TypeOK, Looping, Holding, Analyzing
<1>4. \A C \in announced' : Stored(C)'
  BY DEF CallInv, Holding
<1>5. CreatedOnce'
  BY DEF CreatedOnce, TypeOK
<1>6. NoMatchLost'
  BY DEF NoMatchLost, TypeOK
<1>7. AnalysesGrounded'
  <2>1. Stored(held[c].events) /\ held[c].events \subseteq events
    BY DEF CallInv, Holding, Analyzing, Stored, IncidentsJustified, Justified
  <2> QED
    BY <1>0, <1>a, <2>1 DEF AnalysesGrounded
<1> QED
  BY <1>1, <1>2, <1>3, <1>4, <1>5, <1>6, <1>7

\* An ingest whose store call fails keeps it.
LEMMA IngestRaisesKeeps ==
    ASSUME PipelineInv, events \subseteq events', \A C : Stored(C) => Stored(C)',
           NEW B \in Batches, IngestRaises(B)
    PROVE  PipelineInv'
<1> USE DEF IngestRaises, Batches, PipelineInv, Goto, Hold
<1>1. TypeOK'
  BY DEF TypeOK, Ingesting, Analyzing
<1>2. IncidentsJustified'
  BY JustifiedKept DEF IncidentsJustified
<1>3. \A d \in Calls : CallInv(d)'
  BY JustifiedKept DEF CallInv, TypeOK, Looping, Holding, Analyzing
<1>4. \A C \in announced' : Stored(C)'
  BY DEF CallInv, Holding
<1>5. CreatedOnce'
  BY DEF CreatedOnce, TypeOK
<1>6. NoMatchLost'
  BY DEF NoMatchLost, TypeOK
<1>7. AnalysesGrounded'
  BY DEF AnalysesGrounded
<1> QED
  BY <1>1, <1>2, <1>3, <1>4, <1>5, <1>6, <1>7

\* A call ended by an exception keeps it; an ingest cut short leaves its debt on record.
LEMMA CallRaisesKeeps ==
    ASSUME PipelineInv, events \subseteq events', \A C : Stored(C) => Stored(C)',
           NEW c \in Calls, CallRaises(c)
    PROVE  PipelineInv'
<1> USE DEF PipelineInv, Goto, Hold
<1>0. /\ pc[c] # "idle"
      /\ Drop(c)
      /\ UNCHANGED <<events, announced>>
      /\ \/ UNCHANGED <<incidents, analyses>>
         \/ pc[c] = "upsert" /\ (\E i \in todo[c] : Put(i)) /\ UNCHANGED analyses
         \/ pc[c] = "save_analysis" /\ PutAnalysis(c) /\ UNCHANGED incidents
  BY DEF CallRaises
<1>a. /\ pc' = [pc EXCEPT ![c] = "idle"]
      /\ held' = [held EXCEPT ![c] = NoIncident]
      /\ cites' = [cites EXCEPT ![c] = {}]
      /\ todo' = [todo EXCEPT ![c] = {}]
      /\ stale' = (stale \/ pc[c] \in Ingesting)
  BY <1>0 DEF Drop, Reply
<1>b. /\ pc'[c] = "idle" /\ todo'[c] = {}
      /\ \A d \in Calls \ {c} : /\ pc'[d] = pc[d] /\ held'[d] = held[d]
                               /\ todo'[d] = todo[d] /\ cites'[d] = cites[d]
  BY <1>a DEF TypeOK
<1>c. \A j \in incidents' : j \in incidents \/ j \in todo[c]
  BY <1>0 DEF Put
<1>d. \A b \in analyses' :
         \/ b \in analyses
         \/ /\ pc[c] = "save_analysis"
            /\ b.of = held[c].events
            /\ b.cites = cites[c]
            /\ b \in [of : {held[c].events}, cites : {cites[c]}]
  BY <1>0, PutAnalysisKeeps
<1>e. pc[c] = "save_analysis" =>
         /\ held[c].events \in SUBSET Events
         /\ cites[c] \subseteq held[c].events
         /\ Stored(held[c].events)
         /\ held[c].events \subseteq events
  <2> SUFFICES ASSUME pc[c] = "save_analysis"
               PROVE  /\ held[c].events \in SUBSET Events
                      /\ cites[c] \subseteq held[c].events
                      /\ Stored(held[c].events)
                      /\ held[c].events \subseteq events
    OBVIOUS
  <2>1. held[c] \in Incident /\ Stored(held[c].events) /\ cites[c] \subseteq held[c].events
    BY DEF CallInv, Holding, Analyzing
  <2>2. held[c].events \subseteq events
    BY <2>1 DEF Stored, IncidentsJustified, Justified
  <2> QED
    BY <2>1, <2>2, IncidentEvents
<1>1. TypeOK'
  <2>1. incidents' \subseteq Incident
    BY <1>c DEF TypeOK
  <2>2. analyses' \subseteq [of: SUBSET Events, cites: SUBSET Events]
    <3>1. cites[c] \in SUBSET Events
      BY DEF TypeOK
    <3> QED
      BY <1>d, <1>e, <3>1 DEF TypeOK
  <2>3. pc' \in [Calls -> Ingesting \cup Analyzing \cup {"idle"}]
    BY <1>a DEF TypeOK
  <2>4. /\ held' \in [Calls -> Incident \cup {NoIncident}]
        /\ cites' \in [Calls -> SUBSET Events]
        /\ todo' \in [Calls -> SUBSET Incident]
    BY <1>a DEF TypeOK
  <2>5. stale' \in BOOLEAN
    BY <1>a DEF TypeOK
  <2> QED
    BY <1>0, <2>1, <2>2, <2>3, <2>4, <2>5 DEF TypeOK
<1>2. IncidentsJustified'
  <2>1. \A j \in incidents' : Justified(j)
    BY <1>c DEF IncidentsJustified, CallInv
  <2> QED
    BY <2>1, JustifiedKept DEF IncidentsJustified
<1>3. \A d \in Calls : CallInv(d)'
  BY <1>b, JustifiedKept DEF CallInv, Holding, Analyzing, Looping
<1>4. \A C \in announced' : Stored(C)'
  BY <1>0
<1>5. CreatedOnce'
  BY <1>0, <1>b DEF CreatedOnce
<1>6. NoMatchLost'
  <2>1. CASE pc[c] \in Ingesting
    BY <1>a, <2>1 DEF NoMatchLost
  <2>2. CASE pc[c] \notin Ingesting
    <3>1. pc[c] # "get_all" /\ todo[c] = {}
      BY <2>2 DEF CallInv, Ingesting, Looping
    <3>2. stale => stale'
      BY <1>a
    <3>3. ASSUME NEW C, NEW d \in Calls,
                 pc[d] = "get_all" \/ \E j \in todo[d] : j.events = C
          PROVE  pc'[d] = "get_all" \/ \E j \in todo'[d] : j.events = C
      BY <1>b, <3>1, <3>3
    <3> QED
      BY <1>0, <3>2, <3>3 DEF NoMatchLost
  <2> QED
    BY <2>1, <2>2
<1>7. AnalysesGrounded'
  BY <1>0, <1>d, <1>e DEF AnalysesGrounded
<1> QED
  BY <1>1, <1>2, <1>3, <1>4, <1>5, <1>6, <1>7

\* A restart of the API process keeps it.
LEMMA CrashKeeps ==
    ASSUME PipelineInv, events \subseteq events', \A C : Stored(C) => Stored(C)',
           Crash
    PROVE  PipelineInv'
<1> USE DEF Crash, PipelineInv, Goto, Hold
<1>1. TypeOK'
  BY DEF TypeOK, Ingesting, Analyzing
<1>2. IncidentsJustified'
  BY JustifiedKept DEF IncidentsJustified
<1>3. \A d \in Calls : CallInv(d)'
  BY JustifiedKept DEF CallInv, TypeOK, Looping, Holding, Analyzing
<1>4. \A C \in announced' : Stored(C)'
  BY DEF CallInv, Holding
<1>5. CreatedOnce'
  BY DEF CreatedOnce, TypeOK
<1>6. NoMatchLost'
  <2>1. CASE \E c \in Calls : pc[c] \in Ingesting
    BY <2>1 DEF NoMatchLost
  <2>2. CASE \A c \in Calls : pc[c] \notin Ingesting
    <3>1. \A c \in Calls : pc[c] # "get_all" /\ todo[c] = {}
      BY <2>2 DEF CallInv, Ingesting, Looping
    <3>2. stale => stale'
      OBVIOUS
    <3> QED
      BY <3>1, <3>2 DEF NoMatchLost
  <2> QED
    BY <2>1, <2>2
<1>7. AnalysesGrounded'
  BY DEF AnalysesGrounded
<1> QED
  BY <1>1, <1>2, <1>3, <1>4, <1>5, <1>6, <1>7

\* A step that changes nothing keeps it.
LEMMA StutterKeeps ==
    ASSUME PipelineInv, events \subseteq events', \A C : Stored(C) => Stored(C)',
           UNCHANGED vars
    PROVE  PipelineInv'
<1> USE DEF vars, PipelineInv, Goto, Hold
<1>1. TypeOK'
  BY DEF TypeOK, Ingesting, Analyzing
<1>2. IncidentsJustified'
  BY JustifiedKept DEF IncidentsJustified
<1>3. \A d \in Calls : CallInv(d)'
  BY JustifiedKept DEF CallInv, TypeOK, Looping, Holding, Analyzing
<1>4. \A C \in announced' : Stored(C)'
  BY DEF CallInv, Holding
<1>5. CreatedOnce'
  BY DEF CreatedOnce, TypeOK
<1>6. NoMatchLost'
  BY DEF NoMatchLost, TypeOK
<1>7. AnalysesGrounded'
  BY DEF AnalysesGrounded
<1> QED
  BY <1>1, <1>2, <1>3, <1>4, <1>5, <1>6, <1>7

\* Every step of every call, and every fault, keeps the inductive invariant.
THEOREM PipelineInvStep == PipelineInv /\ [Next]_vars => PipelineInv'
<1> SUFFICES ASSUME PipelineInv, Next \/ UNCHANGED vars
             PROVE  PipelineInv'
  OBVIOUS
<1>1. events \subseteq events' /\ \A C : Stored(C) => Stored(C)'
  BY Monotone
<1>2. ASSUME NEW c \in Calls, CallStep(c) PROVE PipelineInv'
  BY <1>1, <1>2, GetAllKeeps, UpsertKeeps, AnnounceKeeps, GetManyKeeps,
     GenerateKeeps, SaveAnalysisKeeps DEF CallStep
<1>3. CASE Arrive
  BY <1>1, <1>3, IngestKeeps, AnalyzeKeeps DEF Arrive
<1>4. CASE Fault
  BY <1>1, <1>4, IngestRaisesKeeps, CallRaisesKeeps, CrashKeeps DEF Fault
<1>5. CASE UNCHANGED vars
  BY <1>1, <1>5, StutterKeeps
<1> QED
  BY <1>2, <1>3, <1>4, <1>5 DEF Next

\* The inductive invariant holds in every reachable state.
THEOREM PipelineInvariance == Spec => []PipelineInv
<1>1. Init => PipelineInv
  BY InitiallyPipelineInv
<1>2. PipelineInv /\ [Next]_vars => PipelineInv'
  BY PipelineInvStep
<1> QED
  BY <1>1, <1>2, PTL DEF Spec
-----------------------------------------------------------------------------
\* Consequences.

\* Type correctness.
THEOREM PipelineTypeCorrect == Spec => []TypeOK
<1>1. PipelineInv => TypeOK
  BY DEF PipelineInv
<1> QED
  BY <1>1, PipelineInvariance, PTL

\* Every incident in the store, whoever computed it from whatever part of the
\* history, has retained evidence that satisfies the correlation rule.
THEOREM IncidentsRestOnEvidence == Spec => []IncidentsJustified
<1>1. PipelineInv => IncidentsJustified
  BY DEF PipelineInv
<1> QED
  BY <1>1, PipelineInvariance, PTL

\* Concurrent ingests lose no match: the last one to read the history back
\* stores what it finds, unless it is cut short.
THEOREM MatchesAreStored == Spec => []NoMatchLost
<1>1. PipelineInv => NoMatchLost
  BY DEF PipelineInv
<1> QED
  BY <1>1, PipelineInvariance, PTL

\* INCIDENT_CREATED is broadcast at most once for an incident.
THEOREM IncidentsAnnouncedOnce == Spec => []CreatedOnce
<1>1. PipelineInv => CreatedOnce
  BY DEF PipelineInv
<1> QED
  BY <1>1, PipelineInvariance, PTL

\* Saved analyses belong to stored incidents and cite their evidence.
THEOREM AnalysesCiteEvidence == Spec => []AnalysesGrounded
<1>1. PipelineInv => AnalysesGrounded
  BY DEF PipelineInv
<1> QED
  BY <1>1, PipelineInvariance, PTL

\* No step removes an incident or leaves one without the analysis it had.
THEOREM StoresForgetNothing == Spec => NothingForgotten
<1> DEFINE Kept == /\ \A i \in incidents : \E j \in incidents' : j.events = i.events
                   /\ \A a \in analyses : \E b \in analyses' : b.of = a.of
<1>1. Next => Kept
  <2> SUFFICES ASSUME Next PROVE Kept
    OBVIOUS
  <2>1. \A i \in incidents : \E j \in incidents' : j.events = i.events
    <3>1. \A i \in incidents : Stored(i.events)
      BY DEF Stored
    <3> QED
      BY <3>1, Monotone DEF Stored
  <2>2. \/ UNCHANGED analyses
        \/ \E c \in Calls : PutAnalysis(c)
    BY DEF Next, Arrive, CallStep, Fault, Ingest, Analyze, GetAll, Upsert, Announce,
           GetMany, Generate, SaveAnalysis, IngestRaises, CallRaises, Crash
  <2>3. \A a \in analyses : \E b \in analyses' : b.of = a.of
    BY <2>2, PutAnalysisKeeps
  <2> QED
    BY <2>1, <2>3
<1>2. [Next]_vars => [Kept]_vars
  BY <1>1
<1> QED
  BY <1>2, PTL DEF Spec, NothingForgotten

\* Whatever the scan consumed before, a failure, a quarantine and a session that belong
\* together have an event in an incident about their entity that is stored or about to
\* be, unless an ingest was cut short or is still to read the history.
THEOREM ChainsAreMet == Spec => []EveryChainMet
<1>1. PipelineInv => EveryChainMet
  <2> SUFFICES ASSUME PipelineInv, ~stale, \A c \in Calls : pc[c] # "get_all",
                      NEW k \in AllKeys(events), NEW C \in Chains(events, k)
               PROVE  \E i \in incidents \cup UNION {todo[c] : c \in Calls} :
                         i.events \cap C # {} /\ AboutEntity(i.events, k)
    BY DEF EveryChainMet
  <2>1. PICK M \in FindMatches(events) : M \cap C # {} /\ AboutEntity(M, k)
    BY ChainMeetsMatch DEF PipelineInv, TypeOK
  <2>2. Stored(M) \/ \E c \in Calls : \E i \in todo[c] : i.events = M
    BY <2>1 DEF PipelineInv, NoMatchLost
  <2>3. PICK i \in incidents \cup UNION {todo[c] : c \in Calls} : i.events = M
    BY <2>2 DEF Stored
  <2> QED BY <2>1, <2>3
<1> QED
  BY <1>1, PipelineInvariance, PTL

\* An incident whose cluster has grown since shares an event and the entity with an
\* incident that the retained history yields.
THEOREM GrownIncidentsOverlap == Spec => []GrownClustersOverlap
<1>1. PipelineInv => GrownClustersOverlap
  <2> SUFFICES ASSUME PipelineInv, NEW i \in incidents
               PROVE  \E C \in FindMatches(events) :
                         /\ C \cap i.events # {}
                         /\ \E k \in AllKeys(i.events) : AboutEntity(i.events, k) /\ AboutEntity(C, k)
    BY DEF GrownClustersOverlap
  <2>1. i.events \in SUBSET events /\ \E k \in AllKeys(i.events) : Compromise(i.events, k)
    BY DEF PipelineInv, IncidentsJustified, Justified
  <2>2. PICK k \in AllKeys(i.events) : Compromise(i.events, k)
    BY <2>1
  <2>3. events \in SUBSET Events
    BY DEF PipelineInv, TypeOK
  <2>4. PICK C \in Chains(events, k) : C \subseteq i.events
    BY <2>1, <2>2, <2>3, EvidenceHasChain
  <2>5. PICK M \in FindMatches(events) : M \cap C # {} /\ AboutEntity(M, k)
    BY <2>3, ChainMeetsMatch
  <2> QED BY <2>2, <2>4, <2>5 DEF Compromise
<1> QED
  BY <1>1, PipelineInvariance, PTL

\* Requests bring finitely many events, so that finitely many are retained.
LEMMA EventsFinite == Spec => []IsFiniteSet(events)
<1>1. Init => IsFiniteSet(events)
  BY FS_EmptySet DEF Init
<1>2. IsFiniteSet(events) /\ [Next]_vars => IsFiniteSet(events)'
  <2> SUFFICES ASSUME IsFiniteSet(events), [Next]_vars PROVE IsFiniteSet(events')
    OBVIOUS
  <2>1. events' = events \/ \E B \in Batches : events' = events \cup B
    BY DEF Next, Arrive, CallStep, Fault, Ingest, Analyze, GetAll, Upsert, Announce, GetMany,
           Generate, SaveAnalysis, IngestRaises, CallRaises, Crash, vars
  <2>2. \A B \in Batches : IsFiniteSet(events \cup B)
    BY FS_Union DEF Batches
  <2> QED BY <2>1, <2>2
<1> QED
  BY <1>1, <1>2, PTL DEF Spec

\* An incident with more evidence never ranks below one it contains: the cap, the sum
\* and the bonuses of RiskEngine.score are monotone.
THEOREM MoreEvidenceMoreRisk == Spec => []RiskGrowsWithEvidence
<1>1. PipelineInv /\ IsFiniteSet(events) => RiskGrowsWithEvidence
  <2> SUFFICES ASSUME PipelineInv, IsFiniteSet(events), NEW i \in incidents, NEW j \in incidents,
                      i.events \subseteq j.events
               PROVE  i.score <= j.score /\ i.violations \subseteq j.violations
    BY DEF RiskGrowsWithEvidence
  <2>1. PICK C \in SUBSET Events : i = Enriched(C)
    BY DEF PipelineInv, TypeOK, Incident
  <2>2. PICK D \in SUBSET Events : j = Enriched(D)
    BY DEF PipelineInv, TypeOK, Incident
  <2>3. /\ i.events = C /\ i.violations = Violations(C) /\ i.score = RiskScore(C, Violations(C))
        /\ j.events = D /\ j.violations = Violations(D) /\ j.score = RiskScore(D, Violations(D))
    BY <2>1, <2>2 DEF Enriched
  <2>4. D \in SUBSET events
    BY <2>3 DEF PipelineInv, IncidentsJustified, Justified
  <2>5. IsFiniteSet(D)
    BY <2>4, FS_Subset
  <2> QED BY <2>3, <2>5, ScoreGrows
<1> QED
  BY <1>1, PipelineInvariance, EventsFinite, PTL
=============================================================================
