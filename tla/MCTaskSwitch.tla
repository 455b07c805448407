---------------------------- MODULE MCTaskSwitch ----------------------------
EXTENDS TaskSwitch, TLC

\* Stack windows are interchangeable heap blocks.
WindowSymmetry == Permutations(Windows)
=============================================================================
