------------------------------- MODULE VaSpec -------------------------------
(***************************************************************************)
(* What va_alloc, va_free and va_allocator_destroy promise to a caller,    *)
(* whichever implementation answers: an address is handed out only with    *)
(* address space behind it that nobody else holds, and it is taken back    *)
(* by nobody but its owner.  Nothing is said of how space is found.        *)
(***************************************************************************)
EXTENDS Naturals

CONSTANTS Addr,        \* the addresses the kernel may give out
          Sizes        \* the sizes callers ask for


VARIABLES mapped,      \* addresses reserved for the allocator (RESERVE_VA)
          live         \* address handed out |-> size the caller asked for

vars == <<mapped, live>>

Span(a, s) == a .. (a + s - 1)

Init ==
    /\ mapped \in SUBSET Addr
    /\ live = [a \in {} |-> 0]

\* The allocator may reserve more space, with or without serving a request.
Reserve ==
    /\ mapped' \in SUBSET Addr
    /\ mapped \subseteq mapped'
    /\ UNCHANGED live

Alloc(a, s) ==
    /\ a \notin DOMAIN live
    /\ live' = [b \in DOMAIN live \cup {a} |-> IF b = a THEN s ELSE live[b]]
    /\ mapped' \in SUBSET Addr
    /\ mapped \subseteq mapped'
    /\ a \in mapped' /\ Span(a, s) \subseteq mapped'
    /\ \A b \in DOMAIN live : Span(a, s) \cap Span(b, live[b]) = {}

Free(a) ==
    /\ a \in DOMAIN live
    /\ live' = [b \in DOMAIN live \ {a} |-> live[b]]
    /\ UNCHANGED mapped

Destroy ==
    /\ live' = [a \in {} |-> 0]
    /\ mapped' \in SUBSET mapped

Next ==
    \/ Reserve
    \/ \E a \in Addr, s \in Sizes : Alloc(a, s)
    \/ \E a \in Addr : Free(a)
    \/ Destroy

Spec == Init /\ [][Next]_vars
=============================================================================
