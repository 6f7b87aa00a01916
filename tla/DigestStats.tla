----------------------------- MODULE DigestStats -----------------------------
(***************************************************************************)
(* The aggregate statistics of a digest: _aggregate and _rank_entities of  *)
(* app/engines/digest.py, over the facts that a build has selected.        *)
(* An entity is the number that its case-folded display name has in        *)
(* lexical order.                                                          *)
(***************************************************************************)
EXTENDS Digest, SequencesExt

CONSTANTS
    Kind,         \* Kind[e]: which ranking event e counts for, or "other"
    Named,        \* Named[e]: entities of that ranking's type that e names
    Severity,     \* Severity[i]
    RealMode,     \* requests whose handler executes for real
    RankingLimit  \* ten in the code

\* An event has one primary entity and a list of related ones.
ASSUME StatsAssumption ==
    /\ \A e \in Events : Named[e] \subseteq Nat /\ IsFiniteSet(Named[e])
    /\ RankingLimit \in Nat

Rankings == {"failed_authentication_by_user", "device_security_activity",
             "privileged_activity_by_user"}

Severities == {"low", "medium", "high", "critical"}

\* An event counts once for an entity that it names several times.
Count(events, ranking, x) == Cardinality({e \in events : Kind[e] = ranking /\ x \in Named[e]})

NamedIn(events, ranking) == UNION {Named[e] : e \in {f \in events : Kind[f] = ranking}}

\* The sort key: most events first, then the name.
Precedes(events, ranking, x, y) ==
    \/ Count(events, ranking, x) > Count(events, ranking, y)
    \/ Count(events, ranking, x) = Count(events, ranking, y) /\ x < y

Truncated(s) == SubSeq(s, 1, IF Len(s) < RankingLimit THEN Len(s) ELSE RankingLimit)

\* sorted: the keys are distinct, so that one sequence is in order.
Ordered(S, events, ranking) ==
    CHOOSE s \in SetToSeqs(S) :
        \A i, j \in DOMAIN s : i < j => Precedes(events, ranking, s[i], s[j])

\* Mutant of RankEntities: the limit is applied before the order.
FirstNamed(events, ranking) ==
    Ordered(Range(Truncated(SetToSortSeq(NamedIn(events, ranking), <))), events, ranking)

RankEntities(events, ranking) == Truncated(Ordered(NamedIn(events, ranking), events, ranking))

Aggregate(facts) ==
    LET approved == {a \in facts.actions : a[2] = "approved"}
        executed == {a \in facts.actions : a[3]}
        real == {a \in executed : a[1] \in RealMode}
    IN [ranked |-> [k \in Rankings |-> RankEntities(facts.events, k)],
        severity |-> [s \in Severities |->
                        Cardinality({i \in facts.incidents : Severity[i] = s})],
        approved |-> Cardinality(approved),
        rejected |-> Cardinality(facts.actions \ approved),
        real |-> Cardinality(real),
        simulated |-> Cardinality(executed \ real)]

\* Every ranking of a digest lists exactly the entities that fewer than
\* RankingLimit others beat, each at the place that the number of those that
\* beat it gives, whatever events and in whatever order they were stored.
RankingsAreTop ==
    \A d \in digests, k \in Rankings :
        LET list == Aggregate(d.facts).ranked[k]
            Ahead(x) == {y \in NamedIn(d.facts.events, k) : Precedes(d.facts.events, k, y, x)}
        IN \A x \in NamedIn(d.facts.events, k) :
             LET place == Cardinality(Ahead(x)) + 1
             IN IF place <= RankingLimit
                THEN place \in DOMAIN list /\ list[place] = x
                ELSE x \notin Range(list)
=============================================================================
