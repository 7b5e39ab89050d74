----------------------------- MODULE MCTagCache -----------------------------
(* Instances of TagCache for TLC.                                          *)
EXTENDS TagCache, TLC

CONSTANTS i1, i2, k1, k2, t1, r1, r2, w1, w2

MCOne     == {i1}
MCTwo     == {i1, i2}
MCKey     == {k1}
MCKeys    == {k1, k2}
MCTag     == {t1}
MCOneTagOf == [k \in MCKey |-> MCTag]
MCOneTagEach == [k \in MCKeys |-> MCTag]
MCReaders == {r1, r2}
MCWriter  == {w1}
MCWriters == {w1, w2}
MCTogetherOne == [a \in MCReaders \cup MCWriter |-> i1]
MCApart   == [a \in MCReaders \cup MCWriters |-> IF a \in {r1, w1} THEN i1 ELSE i2]
\* Sound where all of them run on one instance and the keys carry one tag.
MCSymmetry == Permutations(MCReaders) \cup Permutations(MCWriters) \cup Permutations(MCKeys)
=============================================================================
