---------------------------- MODULE MCAddrTracker ---------------------------
(* TLC instance: the tracker of the arenas.  Eight ranges below AfterHi and *)
(* the MAP_FAILED of a failed mmap make trees of up to nine nodes and four  *)
(* levels: every rotation of an insert, every removal and every climb that  *)
(* goes on above a rotation.  A second node for one of the addresses and    *)
(* one beyond the limit are refused.                                        *)
EXTENDS AddrTracker

Entry(n, a, s) == [node |-> n, addr |-> a, size |-> s]

MCNodes == 1 .. 9

MCRanges ==
    {Entry(n, n, 1) : n \in 1 .. 6} \cup
    {Entry(7, 7, 2), Entry(8, 10, 1), Entry(9, 31, 2),
     Entry(9, 4, 1), Entry(9, 10, 2)}

MCProbes == {0, 2, 3, 7, 8, 9, 10, 11}
=============================================================================
