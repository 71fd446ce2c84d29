------------------------------- MODULE MCSyncOds ------------------------------
\* Small instances of SyncOds: hierarchies over one or two organisations.
EXTENDS SyncOds, TLC

CONSTANTS a, b

Flat(S) == [e \in S |-> Root]

\* One organisation, present or not.
OneTree == {Flat({}), Flat({a})}

\* Two organisations: without a hierarchy, or one below the other.
TwoTrees == {Flat(S) : S \in SUBSET {a, b}} \cup {[Flat({a, b}) EXCEPT ![b] = a]}

\* The same with either one on top.
AllTrees == TwoTrees \cup {[Flat({a, b}) EXCEPT ![a] = b]}

\* Synchronisations are interchangeable; nothing is chosen by them.
Symmetry == Permutations(Sync)
==============================================================================
