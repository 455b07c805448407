------------------------------- MODULE MCMemory -------------------------------
EXTENDS MemoryInit

\* Two regions between these addresses, usable or not: the zero page inside and
\* outside, bounds off the frame grid, an empty region, two regions that touch.
Region(from, to) == {[start |-> a, end |-> b, usable |-> u] :
                       a \in from, b \in to, u \in BOOLEAN}

TwoRegions == {<<r, q>> : r \in Region({0, 3}, {3, 7, 8}), q \in Region({8, 9}, {11, 20})}
=============================================================================
