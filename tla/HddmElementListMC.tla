---------------------------- MODULE HddmElementListMC ----------------------------
(* Instances of HddmElementList for TLC.                                    *)
EXTENDS HddmElementList, TLC

CONSTANTS c1, c2, c3, c4, c5, p1, p2, p3, end, null

\* Neither the cells nor the container elements have an order of their own.
Interchangeable == Permutations(Nodes) \cup Permutations(Parents)
================================================================================
