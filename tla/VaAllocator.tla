------------------------------ MODULE VaAllocator ---------------------------
(***************************************************************************)
(* va_allocator.c: the handle a caller gets is only a pointer to the ops   *)
(* of its type, and the ops of a type are one static struct, impl included *)
(* (get_default_allocator_ops, get_arena_allocator_ops).  What an impl does *)
(* is in VaDefault and VaArenas; here it only counts the blocks in use.    *)
(*                                                                         *)
(* "made", "held" and "lost" are not state of the program: the impl that   *)
(* the init of a handle made, how many blocks of which impl its owner      *)
(* holds, and how many blocks of an impl were freed by an address that was *)
(* handed out by another impl, one that is gone.                           *)
(***************************************************************************)
EXTENDS Naturals, FiniteSetsExt

CONSTANTS Handles, Impls, NULL,
          MaxBlocks,     \* bound: blocks in use, held or lost of one impl
          OneAtATime     \* callers open one handle of a type at a time

Types == {"DEFAULT", "ARENA"}        \* va_allocator_type_t

ASSUME HandlesAssumption ==
    /\ NULL \notin Impls \cup Types /\ IsFiniteSet(Handles)
    /\ MaxBlocks \in Nat /\ OneAtATime \in BOOLEAN

VARIABLES ops,        \* handle |-> type whose ops it points to; NULL: not open
          impl,       \* type |-> ops.impl
          state,      \* impl |-> "unused", "ready" or "destroyed"
          blocks,     \* impl |-> blocks in use
          stopped,    \* what ended the program, "no": nothing yet
          made, held, lost

vars == <<ops, impl, state, blocks, stopped, made, held, lost>>

Open == {h \in Handles : ops[h] # NULL}

TypeOK ==
    /\ ops \in [Handles -> Types \cup {NULL}]
    /\ impl \in [Types -> Impls \cup {NULL}]
    /\ state \in [Impls -> {"unused", "ready", "destroyed"}]
    /\ blocks \in [Impls -> 0 .. MaxBlocks]
    /\ stopped \in {"no", "blocks in use", "unknown address", "bad pointer"}
    /\ made \in [Handles -> Impls \cup {NULL}]
    /\ held \in [Handles -> [Impls -> 0 .. MaxBlocks]]
    /\ lost \in [Impls -> 0 .. MaxBlocks]

NoBlocks == [i \in Impls |-> 0]

Init ==
    /\ ops = [h \in Handles |-> NULL]
    /\ impl = [t \in Types |-> NULL]
    /\ state = [i \in Impls |-> "unused"]
    /\ blocks = NoBlocks
    /\ stopped = "no"
    /\ made = [h \in Handles |-> NULL]
    /\ held = [h \in Handles |-> NoBlocks]
    /\ lost = NoBlocks

MayOpen(h, type) ==
    /\ stopped = "no" /\ ops[h] = NULL
    /\ OneAtATime => \A g \in Open : ops[g] # type

\* Only the first init of a type stores what it made.
va_allocator_init_Slip(h, type) ==
    /\ MayOpen(h, type)
    /\ \E i \in Impls :
          /\ state[i] = "unused"
          /\ state' = [state EXCEPT ![i] = "ready"]
          /\ impl' = IF impl[type] = NULL THEN [impl EXCEPT ![type] = i] ELSE impl
          /\ made' = [made EXCEPT ![h] = i]
    /\ ops' = [ops EXCEPT ![h] = type]
    /\ UNCHANGED <<blocks, stopped, held, lost>>

\* Whatever ops.impl was before, it is now what this init made.
va_allocator_init(h, type) ==
    /\ MayOpen(h, type)
    /\ \E i \in Impls :
          /\ state[i] = "unused"
          /\ state' = [state EXCEPT ![i] = "ready"]
          /\ impl' = [impl EXCEPT ![type] = i]
          /\ made' = [made EXCEPT ![h] = i]
    /\ ops' = [ops EXCEPT ![h] = type]
    /\ UNCHANGED <<blocks, stopped, held, lost>>

\* init_default_allocator or init_arena_allocator returned NULL: the handle
\* is freed, ops.impl keeps the NULL.
InitFails(h, type) ==
    /\ MayOpen(h, type)
    /\ impl' = [impl EXCEPT ![type] = NULL]
    /\ UNCHANGED <<ops, state, blocks, stopped, made, held, lost>>

\* The impl a call by way of h is given.
Target(h) == impl[ops[h]]

Live(i) == i # NULL /\ state[i] = "ready"

\* The caller gets a block of the impl that ops.impl names by now.
va_alloc(h) ==
    /\ stopped = "no" /\ h \in Open /\ Live(Target(h))
    /\ blocks[Target(h)] < MaxBlocks /\ held[h][Target(h)] < MaxBlocks
    /\ blocks' = [blocks EXCEPT ![Target(h)] = @ + 1]
    /\ held' = [held EXCEPT ![h][Target(h)] = @ + 1]
    /\ UNCHANGED <<ops, impl, state, stopped, made, lost>>

\* The impl that gets the address frees one of its blocks, its own or not.
va_free_Slip(h, i) ==
    /\ stopped = "no" /\ h \in Open /\ Live(Target(h))
    /\ held[h][i] > 0 /\ blocks[Target(h)] > 0
    /\ held' = [held EXCEPT ![h][i] = @ - 1]
    /\ blocks' = [blocks EXCEPT ![Target(h)] = @ - 1]
    /\ UNCHANGED <<ops, impl, state, stopped, made, lost>>

\* The block is counted as freed, and again when it is merged.
FreesBlock_Slip(i) ==
    /\ blocks[i] > 0
    /\ blocks' = [blocks EXCEPT ![i] = @ - 2]
    /\ UNCHANGED <<stopped, lost>>

\* The impl finds a block in use where the address points.  It is not the one
\* the caller was given if that one is lost: then it is one handed out since.
FreesBlock(i) ==
    /\ blocks[i] > 0
    /\ blocks' = [blocks EXCEPT ![i] = @ - 1]
    /\ UNCHANGED <<stopped, lost>>

\* The caller's block was lost and nothing is in use there.
FreesLost(i) ==
    /\ lost[i] > 0
    /\ lost' = [lost EXCEPT ![i] = @ - 1]
    /\ UNCHANGED <<blocks, stopped>>

\* Impl i is gone, FREE_VA gave its address space back and mmap gave it out
\* again: there is a block of impl j now, which j frees.
FreesReused(i, j) ==
    /\ state[i] = "destroyed" /\ blocks[j] > 0 /\ lost[j] < MaxBlocks
    /\ blocks' = [blocks EXCEPT ![j] = @ - 1]
    /\ lost' = [lost EXCEPT ![j] = @ + 1]
    /\ UNCHANGED stopped

\* No block of the impl that gets the address starts there: the default one
\* ignores it.  The arenas do if a reservation made since i is gone covers it,
\* and otherwise their assert(0) stops the program.
FreesUnknown(h, i) ==
    /\ \/ stopped' = stopped /\ (ops[h] = "DEFAULT" \/ state[i] = "destroyed")
       \/ stopped' = "unknown address" /\ ops[h] = "ARENA"
    /\ UNCHANGED <<blocks, lost>>

\* The caller gives a block of impl i back, but it is ops.impl that gets the
\* address.
va_free(h, i) ==
    /\ stopped = "no" /\ h \in Open /\ Live(Target(h))
    /\ held[h][i] > 0
    /\ held' = [held EXCEPT ![h][i] = @ - 1]
    /\ IF Target(h) = i THEN FreesBlock(i) \/ FreesLost(i)
       ELSE FreesReused(i, Target(h)) \/ FreesUnknown(h, i)
    /\ UNCHANGED <<ops, impl, state, made>>

\* va_alloc with a NULL impl reads total_va_size through it (default); any
\* call with an impl that was destroyed reads freed memory.
BadCall(h) ==
    /\ stopped = "no" /\ h \in Open
    /\ \/ Target(h) = NULL /\ ops[h] = "DEFAULT"
       \/ Target(h) # NULL /\ state[Target(h)] = "destroyed"
    /\ stopped' = "bad pointer"
    /\ UNCHANGED <<ops, impl, state, blocks, made, held, lost>>

\* The handle is freed and the implementation stays.
va_allocator_destroy_Slip(h) ==
    /\ stopped = "no" /\ h \in Open
    /\ Target(h) = NULL \/ Live(Target(h))
    /\ ops' = [ops EXCEPT ![h] = NULL]
    /\ made' = [made EXCEPT ![h] = NULL]
    /\ held' = [held EXCEPT ![h] = NoBlocks]
    /\ UNCHANGED <<impl, state, blocks, stopped, lost>>

\* ops->destroy(ops->impl), then the handle is freed.  destroy ignores NULL;
\* ops.impl keeps the pointer to what was destroyed.  Blocks that are still in
\* use do not keep it from being destroyed, unless one is in a slab.
va_allocator_destroy(h) ==
    /\ stopped = "no" /\ h \in Open
    /\ Target(h) = NULL \/ Live(Target(h))
    /\ IF Target(h) = NULL THEN UNCHANGED <<state, blocks, lost>>
       ELSE /\ state' = [state EXCEPT ![Target(h)] = "destroyed"]
            /\ blocks' = [blocks EXCEPT ![Target(h)] = 0]
            /\ lost' = [lost EXCEPT ![Target(h)] = 0]
    /\ ops' = [ops EXCEPT ![h] = NULL]
    /\ made' = [made EXCEPT ![h] = NULL]
    /\ held' = [held EXCEPT ![h] = NoBlocks]
    /\ UNCHANGED <<impl, stopped>>

\* assert(!cubitvectorIsAnyBitSet(sa->bitmap)) in deinitialize_slab: one of the
\* blocks in use is in a slab.  Which blocks are is not kept here, so either
\* destroy may happen.
DestroyAborts(h) ==
    /\ stopped = "no" /\ h \in Open
    /\ ops[h] = "ARENA" /\ Live(Target(h)) /\ blocks[Target(h)] > 0
    /\ stopped' = "blocks in use"
    /\ UNCHANGED <<ops, impl, state, blocks, made, held, lost>>

Next ==
    \E h \in Handles :
        \/ \E type \in Types : va_allocator_init(h, type) \/ InitFails(h, type)
        \/ va_alloc(h) \/ (\E i \in Impls : va_free(h, i)) \/ BadCall(h)
        \/ va_allocator_destroy(h) \/ DestroyAborts(h)

Spec == Init /\ [][Next]_vars

----------------------------------------------------------------------------
(***************************************************************************)
(* Properties.                                                             *)
(***************************************************************************)

\* "Implementation-specific data" (va_allocator_types.h:30): the impl that
\* calls reach through a handle is the one made for that handle, and it is
\* there as long as the handle is open.
HandleReachesItsImpl ==
    \A h \in Open : Target(h) = made[h] /\ Live(made[h])

\* No impl outlives the handle it was made for: its address space would never
\* be given back.
NoImplIsLost ==
    \A i \in Impls : Live(i) => \E h \in Open : made[h] = i

\* The one thing that stops the program is the assertion of an arena destroy,
\* and only if the handle's own caller still holds a block: no call meets an
\* impl that is not there, an address of another allocator, or blocks left in
\* use by others.
StopsOnlyInUse ==
    stopped # "no" =>
        /\ stopped = "blocks in use"
        /\ \E h \in Open : ops[h] = "ARENA" /\ held[h][made[h]] > 0

\* A block stays in use as long as its holder and its impl are there, whoever
\* else calls: handles that share an impl do not lose each other's blocks.  The
\* only ones lost are those freed by a stale address, of an impl that is gone.
HeldBlocksAreInUse ==
    \A i \in Impls : Live(i) =>
        MapThenSumSet(LAMBDA h : held[h][i], Handles) <= blocks[i] + lost[i]

\* What ops.impl names, if it is there at all, has an open handle it was made
\* for, also when several inits of one type overlap: a later handle can only
\* take over a dangling pointer, never an abandoned implementation.
ReachedImplHasOwner ==
    \A t \in Types : Live(impl[t]) => \E h \in Open : made[h] = impl[t]
=============================================================================
