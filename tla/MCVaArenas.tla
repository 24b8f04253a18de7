----------------------------- MODULE MCVaArenas -----------------------------
(* TLC instance: a slab arena of two blocks of two units, and an object     *)
(* arena whose reservations take one request of 4 units or two of 3; three  *)
(* places make lists of up to three reservations.  A request of 7 is larger *)
(* than a reservation, as one beyond PHYSICAL_MEMORY_SIZE is for the last   *)
(* arena.                                                                   *)
EXTENDS VaArenas

MCTable == << [max_per_alloc_size |-> 2, reservation_size |-> 4],
              [max_per_alloc_size |-> 9, reservation_size |-> 6] >>

\* Nothing the allocator does depends on used_va_size: without it, the view
\* has one state for all the values it wraps through.
MCView == <<impl, arenas, parent_arena, strategy, res_tracker, total, live, faulted>>
=============================================================================
