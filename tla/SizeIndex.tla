------------------------------ MODULE SizeIndex -----------------------------
(***************************************************************************)
(* What radix.c promises an allocator: a set of nodes, each filed under a  *)
(* key of its own choosing, to which nodes come and from which they go one *)
(* at a time.                                                              *)
(***************************************************************************)
CONSTANTS Nodes, Keys

VARIABLE filed          \* node |-> key, for the nodes in the index

Init == filed = [n \in {} |-> n]

Insert(n) ==
    /\ n \notin DOMAIN filed
    /\ filed' \in [DOMAIN filed \cup {n} -> Keys]
    /\ \A x \in DOMAIN filed : filed'[x] = filed[x]

Remove(n) ==
    /\ n \in DOMAIN filed
    /\ filed' = [x \in DOMAIN filed \ {n} |-> filed[x]]

Next == \E n \in Nodes : Insert(n) \/ Remove(n)

Spec == Init /\ [][Next]_filed
=============================================================================
