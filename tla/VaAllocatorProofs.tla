-------------------------- MODULE VaAllocatorProofs -------------------------
(***************************************************************************)
(* Theorems about VaAllocator, for any number of handles, implementations  *)
(* and blocks.  The first part holds however callers overlap their inits,  *)
(* the second if they open one handle of a type at a time.                 *)
(***************************************************************************)
EXTENDS VaAllocator, NumberInduction

\* A handle that is not open has made nothing, and an open one holds the impl
\* its init made for it.
MadeWhileOpen ==
    \A h \in Handles : made[h] \in Impls <=> ops[h] # NULL

\* An implementation that is named anywhere has been made.
NamedAreMade ==
    /\ \A h \in Handles : made[h] # NULL => state[made[h]] # "unused"
    /\ \A t \in Types : impl[t] # NULL => state[impl[t]] # "unused"

\* ops.impl of a type names an impl made for a handle of that type.
NamedByItsType ==
    \A h \in Open, t \in Types : made[h] = impl[t] => ops[h] = t

\* The types of what names implementations.
NamesOK ==
    /\ ops \in [Handles -> Types \cup {NULL}]
    /\ impl \in [Types -> Impls \cup {NULL}]
    /\ state \in [Impls -> {"unused", "ready", "destroyed"}]
    /\ made \in [Handles -> Impls \cup {NULL}]

OwnerInv ==
    /\ NamesOK /\ MadeWhileOpen /\ NamedAreMade /\ NamedByItsType
    /\ ReachedImplHasOwner

\* The conjuncts of Next that change what names implementations.
LEMMA OwnerInvByInit ==
    ASSUME OwnerInv, NEW h \in Handles, NEW type \in Types,
           va_allocator_init(h, type)
    PROVE  OwnerInv'
<1>1. PICK i \in Impls : /\ state[i] = "unused"
                         /\ state' = [state EXCEPT ![i] = "ready"]
                         /\ impl' = [impl EXCEPT ![type] = i]
                         /\ made' = [made EXCEPT ![h] = i]
  BY DEF va_allocator_init
<1>2. ops' = [ops EXCEPT ![h] = type] /\ ops[h] = NULL /\ type # NULL /\ i # NULL
  BY HandlesAssumption DEF va_allocator_init, MayOpen
<1>3. NamesOK'
  BY <1>1, <1>2 DEF OwnerInv, NamesOK
<1>4. MadeWhileOpen'
  BY <1>1, <1>2 DEF OwnerInv, NamesOK, MadeWhileOpen
<1>5. NamedAreMade'
  BY <1>1, <1>2 DEF OwnerInv, NamesOK, NamedAreMade
<1>6. \A g \in Handles : g # h => made'[g] = made[g] /\ ops'[g] = ops[g] /\ made[g] # i
  BY <1>1, <1>2 DEF OwnerInv, NamesOK, NamedAreMade
<1>7. \A t \in Types : t # type => impl'[t] = impl[t] /\ impl[t] # i
  BY <1>1, <1>2 DEF OwnerInv, NamesOK, NamedAreMade
<1>8. made'[h] = i /\ ops'[h] = type /\ impl'[type] = i
  BY <1>1, <1>2 DEF OwnerInv, NamesOK
<1>9. NamedByItsType'
  BY <1>6, <1>7, <1>8 DEF OwnerInv, NamedByItsType, Open
<1>10. ReachedImplHasOwner'
  <2>1. SUFFICES ASSUME NEW t \in Types, Live(impl[t])'
                 PROVE  \E g \in Open' : made'[g] = impl'[t]
    BY DEF ReachedImplHasOwner
  <2>2. CASE t = type
    BY <2>2, <1>8, <1>2 DEF Open
  <2>3. CASE t # type
    <3>1. impl'[t] = impl[t] /\ state'[impl[t]] = state[impl[t]] /\ Live(impl[t])
      BY <2>1, <2>3, <1>7, <1>1 DEF Live, OwnerInv, NamesOK
    <3>2. PICK g \in Open : made[g] = impl[t]
      BY <3>1 DEF OwnerInv, ReachedImplHasOwner
    <3>3. g # h
      BY <3>2, <1>2 DEF Open
    <3> QED
      BY <3>1, <3>2, <3>3, <1>6 DEF Open
  <2> QED
    BY <2>2, <2>3
<1> QED
  BY <1>3, <1>4, <1>5, <1>9, <1>10 DEF OwnerInv

\* An init that fails keeps the invariant.
LEMMA OwnerInvByFailedInit ==
    ASSUME OwnerInv, NEW h \in Handles, NEW type \in Types, InitFails(h, type)
    PROVE  OwnerInv'
<1>1. impl' = [impl EXCEPT ![type] = NULL] /\ UNCHANGED <<ops, state, made>>
  BY DEF InitFails
<1>2. \A t \in Types : impl'[t] = IF t = type THEN NULL ELSE impl[t]
  BY <1>1 DEF OwnerInv, NamesOK
<1>3. NamesOK' /\ MadeWhileOpen' /\ NamedAreMade'
  BY <1>1, <1>2 DEF OwnerInv, NamesOK, MadeWhileOpen, NamedAreMade
<1>4. NamedByItsType'
  <2>1. \A g \in Open : made[g] # NULL
    BY HandlesAssumption DEF OwnerInv, MadeWhileOpen, Open
  <2> QED
    BY <1>1, <1>2, <2>1 DEF OwnerInv, NamedByItsType, Open
<1>5. ReachedImplHasOwner'
  BY <1>1, <1>2 DEF OwnerInv, ReachedImplHasOwner, Live, Open
<1> QED
  BY <1>3, <1>4, <1>5 DEF OwnerInv

\* What the handle reaches goes with it: it is the impl of the handle, or that
\* of a later one of the same type.
LEMMA OwnerInvByDestroy ==
    ASSUME OwnerInv, NEW h \in Handles, va_allocator_destroy(h)
    PROVE  OwnerInv'
<1>1. /\ h \in Open /\ UNCHANGED impl
      /\ ops' = [ops EXCEPT ![h] = NULL] /\ made' = [made EXCEPT ![h] = NULL]
  BY DEF va_allocator_destroy
<1>2. ops[h] \in Types /\ Target(h) \in Impls \cup {NULL}
  BY <1>1 DEF Open, Target, OwnerInv, NamesOK
<1>3. \A i \in Impls : state'[i] = IF i = Target(h) THEN "destroyed" ELSE state[i]
  <2>1. CASE Target(h) = NULL
    BY <2>1, HandlesAssumption DEF va_allocator_destroy
  <2>2. CASE Target(h) # NULL
    BY <2>2, <1>2 DEF va_allocator_destroy, OwnerInv, NamesOK
  <2> QED
    BY <2>1, <2>2
<1>4. state' \in [Impls -> {"unused", "ready", "destroyed"}]
  <2>1. CASE Target(h) = NULL
    BY <2>1 DEF va_allocator_destroy, OwnerInv, NamesOK
  <2>2. CASE Target(h) # NULL
    BY <2>2, <1>2 DEF va_allocator_destroy, OwnerInv, NamesOK
  <2> QED
    BY <2>1, <2>2
<1>5. \A g \in Handles :
         /\ made'[g] = (IF g = h THEN NULL ELSE made[g])
         /\ ops'[g] = (IF g = h THEN NULL ELSE ops[g])
  BY <1>1 DEF OwnerInv, NamesOK
<1>6. NamesOK' /\ MadeWhileOpen'
  BY <1>1, <1>4, <1>5, HandlesAssumption DEF OwnerInv, NamesOK, MadeWhileOpen
<1>7. NamedAreMade'
  <2>1. \A i \in Impls : state[i] # "unused" => state'[i] # "unused"
    BY <1>3
  <2> QED
    BY <1>1, <1>5, <2>1 DEF OwnerInv, NamesOK, NamedAreMade
<1>8. NamedByItsType'
  BY <1>1, <1>5 DEF OwnerInv, NamedByItsType, Open
<1>9. ReachedImplHasOwner'
  <2>1. SUFFICES ASSUME NEW t \in Types, Live(impl[t])'
                 PROVE  \E g \in Open' : made'[g] = impl[t]
    BY <1>1 DEF ReachedImplHasOwner
  <2>2. impl[t] \in Impls /\ state'[impl[t]] = "ready"
    BY <2>1, <1>1 DEF Live, OwnerInv, NamesOK
  <2>3. impl[t] # Target(h) /\ Live(impl[t])
    BY <2>2, <1>3, HandlesAssumption DEF Live
  <2>4. PICK g \in Open : made[g] = impl[t]
    BY <2>3 DEF OwnerInv, ReachedImplHasOwner
  <2>5. ops[g] = t
    BY <2>4 DEF OwnerInv, NamedByItsType
  <2>6. g # h
    BY <2>3, <2>5 DEF Target
  <2> QED
    BY <2>4, <2>6, <1>5 DEF Open
<1> QED
  BY <1>6, <1>7, <1>8, <1>9 DEF OwnerInv

\* alloc and free keep it.
LEMMA OwnerInvByCall ==
    ASSUME OwnerInv, UNCHANGED <<ops, impl, state, made>>
    PROVE  OwnerInv'
BY DEF OwnerInv, NamesOK, MadeWhileOpen, NamedAreMade, NamedByItsType,
       ReachedImplHasOwner, Open, Live

\* It holds before the first init.
LEMMA OwnerInvInitially == Init => OwnerInv
<1> SUFFICES ASSUME Init PROVE OwnerInv
  OBVIOUS
<1> QED
  BY HandlesAssumption DEF Init, OwnerInv, NamesOK, MadeWhileOpen, NamedAreMade,
     NamedByItsType, ReachedImplHasOwner, Open, Live

\* Every step of the interface keeps it.
LEMMA OwnerInvStep == OwnerInv /\ [Next]_vars => OwnerInv'
<1> SUFFICES ASSUME OwnerInv, [Next]_vars PROVE OwnerInv'
  OBVIOUS
<1>1. CASE UNCHANGED vars
  BY <1>1, OwnerInvByCall DEF vars
<1>2. ASSUME NEW h \in Handles, NEW type \in Types, va_allocator_init(h, type)
      PROVE  OwnerInv'
  BY <1>2, OwnerInvByInit
<1>3. ASSUME NEW h \in Handles, NEW type \in Types, InitFails(h, type)
      PROVE  OwnerInv'
  BY <1>3, OwnerInvByFailedInit
<1>4. ASSUME NEW h \in Handles, va_alloc(h) \/ BadCall(h) \/ DestroyAborts(h)
      PROVE  OwnerInv'
  BY <1>4, OwnerInvByCall DEF va_alloc, BadCall, DestroyAborts
<1>5. ASSUME NEW h \in Handles, NEW i \in Impls, va_free(h, i)
      PROVE  OwnerInv'
  BY <1>5, OwnerInvByCall DEF va_free
<1>6. ASSUME NEW h \in Handles, va_allocator_destroy(h)
      PROVE  OwnerInv'
  BY <1>6, OwnerInvByDestroy
<1> QED
  BY <1>1, <1>2, <1>3, <1>4, <1>5, <1>6 DEF Next

\* However calls overlap, reached implementations have their own open handle.
THEOREM OwnerInvariance == Spec => []OwnerInv
BY OwnerInvInitially, OwnerInvStep, PTL DEF Spec

\* An implementation that calls can reach always has an open handle it was
\* made for, however inits, failed inits and destroys of a type overlap.
THEOREM Owned == Spec => []ReachedImplHasOwner
<1>1. OwnerInv => ReachedImplHasOwner
  BY DEF OwnerInv
<1> QED
  BY <1>1, OwnerInvariance, PTL

----------------------------------------------------------------------------
(***************************************************************************)
(* One handle of a type at a time.                                         *)
(***************************************************************************)

OnePerType == \A g, h \in Open : ops[g] = ops[h] => g = h

\* A handle's owner holds the blocks in use in its impl, and nothing else; none
\* was lost, and an impl that is not there has no blocks.
HoldsItsBlocks ==
    /\ blocks \in [Impls -> 0 .. MaxBlocks]
    /\ held \in [Handles -> [Impls -> 0 .. MaxBlocks]]
    /\ lost = NoBlocks
    /\ \A h \in Handles, i \in Impls :
          held[h][i] = IF made[h] = i THEN blocks[i] ELSE 0
    /\ \A i \in Impls : state[i] # "ready" => blocks[i] = 0

OneInv ==
    /\ OwnerInv
    /\ OnePerType /\ HandleReachesItsImpl /\ NoImplIsLost
    /\ HoldsItsBlocks
    /\ StopsOnlyInUse

\* An open handle, what it reaches, and nobody else reaches it.
LEMMA OpenHandle ==
    ASSUME OneInv, NEW h \in Open
    PROVE  /\ h \in Handles /\ ops[h] \in Types
           /\ made[h] \in Impls /\ Target(h) = made[h] /\ Live(made[h])
           /\ \A g \in Handles : made[g] = made[h] => g = h
<1>1. h \in Handles /\ ops[h] \in Types
  BY DEF Open, OneInv, OwnerInv, NamesOK
<1>2. Target(h) = made[h] /\ Live(made[h])
  BY DEF OneInv, HandleReachesItsImpl
<1>3. made[h] \in Impls
  BY <1>1, <1>2 DEF OneInv, OwnerInv, NamesOK, Live
<1>4. ASSUME NEW g \in Handles, made[g] = made[h] PROVE g = h
  <2>1. g \in Open
    BY <1>3, <1>4 DEF OneInv, OwnerInv, MadeWhileOpen, Open
  <2>2. ops[g] = ops[h]
    BY <1>1, <1>2, <1>4, <2>1 DEF Target, OneInv, OwnerInv, NamedByItsType
  <2> QED
    BY <2>1, <2>2 DEF OneInv, OnePerType
<1> QED
  BY <1>1, <1>2, <1>3, <1>4

\* An init makes one handle with one implementation.
LEMMA OneInvByInit ==
    ASSUME OneAtATime, OneInv, NEW h \in Handles, NEW type \in Types,
           va_allocator_init(h, type)
    PROVE  OneInv'
<1>1. PICK i \in Impls : /\ state[i] = "unused"
                         /\ state' = [state EXCEPT ![i] = "ready"]
                         /\ impl' = [impl EXCEPT ![type] = i]
                         /\ made' = [made EXCEPT ![h] = i]
  BY DEF va_allocator_init
<1>2. /\ ops' = [ops EXCEPT ![h] = type] /\ ops[h] = NULL /\ i # NULL
      /\ UNCHANGED <<blocks, held, lost>> /\ stopped' = "no"
      /\ type # NULL
      /\ \A g \in Open : ops[g] # type
  BY HandlesAssumption DEF va_allocator_init, MayOpen
<1>3. OwnerInv'
  BY OwnerInvByInit DEF OneInv
<1>4. NamesOK /\ NamedAreMade
  BY DEF OneInv, OwnerInv
<1>5. /\ \A g \in Handles : made'[g] = IF g = h THEN i ELSE made[g]
      /\ \A g \in Handles : ops'[g] = IF g = h THEN type ELSE ops[g]
      /\ \A t \in Types : impl'[t] = IF t = type THEN i ELSE impl[t]
      /\ \A j \in Impls : state'[j] = IF j = i THEN "ready" ELSE state[j]
  BY <1>1, <1>2, <1>4 DEF NamesOK
<1>6. \A g \in Open' : g = h \/ g \in Open
  BY <1>5 DEF Open
<1>7. h \in Open' /\ \A g \in Open : g \in Open' /\ g # h
  BY <1>2, <1>5 DEF Open
<1>8. OnePerType'
  BY <1>2, <1>5, <1>6 DEF OneInv, OnePerType, Open
<1>9. HandleReachesItsImpl'
  <2>1. SUFFICES ASSUME NEW g \in Open'
                 PROVE  impl'[ops'[g]] = made'[g] /\ Live(made[g])'
    BY DEF HandleReachesItsImpl, Target
  <2>2. CASE g = h
    BY <2>2, <1>1, <1>2, <1>5 DEF Live
  <2>3. CASE g # h
    <3>1. g \in Open /\ g \in Handles
      BY <2>3, <1>6 DEF Open
    <3>2. /\ ops[g] \in Types /\ ops[g] # type
          /\ impl[ops[g]] = made[g] /\ made[g] \in Impls /\ Live(made[g])
      BY <3>1, <1>2, OpenHandle DEF Target
    <3>3. made'[g] = made[g] /\ ops'[g] = ops[g] /\ impl'[ops[g]] = impl[ops[g]]
      BY <2>3, <3>1, <3>2, <1>5
    <3> QED
      BY <3>2, <3>3, <1>5, <1>1 DEF Live
  <2> QED
    BY <2>2, <2>3
<1>10. NoImplIsLost'
  <2>1. SUFFICES ASSUME NEW j \in Impls, Live(j)'
                 PROVE  \E g \in Open' : made'[g] = j
    BY DEF NoImplIsLost
  <2>2. CASE j = i
    BY <2>2, <1>5, <1>7
  <2>3. CASE j # i
    <3>1. Live(j)
      BY <2>1, <2>3, <1>5 DEF Live
    <3>2. PICK g \in Open : made[g] = j
      BY <3>1 DEF OneInv, NoImplIsLost
    <3> QED
      BY <3>2, <1>5, <1>7 DEF Open
  <2> QED
    BY <2>2, <2>3
<1>11. HoldsItsBlocks'
  <2>1. made[h] \notin Impls /\ blocks[i] = 0
    BY <1>1, <1>2 DEF OneInv, OwnerInv, MadeWhileOpen, HoldsItsBlocks
  <2>2. \A g \in Handles : made[g] # i
    BY <1>1, <1>2, <1>4 DEF NamedAreMade
  <2>3. \A g \in Handles, j \in Impls :
           held[g][j] = IF made'[g] = j THEN blocks[j] ELSE 0
    BY <2>1, <2>2, <1>5 DEF OneInv, HoldsItsBlocks
  <2>4. \A j \in Impls : state'[j] # "ready" => blocks[j] = 0
    BY <1>5 DEF OneInv, HoldsItsBlocks
  <2> QED
    BY <2>3, <2>4, <1>2 DEF OneInv, HoldsItsBlocks
<1> QED
  BY <1>2, <1>3, <1>8, <1>9, <1>10, <1>11 DEF OneInv, StopsOnlyInUse

\* An init that fails makes neither.
LEMMA OneInvByFailedInit ==
    ASSUME OneAtATime, OneInv, NEW h \in Handles, NEW type \in Types,
           InitFails(h, type)
    PROVE  OneInv'
<1>1. /\ impl' = [impl EXCEPT ![type] = NULL]
      /\ UNCHANGED <<ops, state, blocks, made, held, lost>> /\ stopped' = "no"
      /\ \A g \in Open : ops[g] # type
  BY DEF InitFails, MayOpen
<1>2. OwnerInv'
  BY OwnerInvByFailedInit DEF OneInv
<1>3. \A t \in Types : t # type => impl'[t] = impl[t]
  BY <1>1 DEF OneInv, OwnerInv, NamesOK
<1>4. \A g \in Open : impl'[ops[g]] = made[g] /\ Live(made[g])
  BY <1>1, <1>3, OpenHandle DEF Target
<1>5. HandleReachesItsImpl'
  BY <1>1, <1>4 DEF HandleReachesItsImpl, Target, Live, Open
<1>6. HoldsItsBlocks' /\ StopsOnlyInUse'
  BY <1>1 DEF OneInv, HoldsItsBlocks, NoBlocks, StopsOnlyInUse
<1>7. OnePerType' /\ NoImplIsLost'
  BY <1>1 DEF OneInv, OnePerType, NoImplIsLost, Open, Live
<1> QED
  BY <1>2, <1>5, <1>6, <1>7 DEF OneInv

\* A call that changes only what is in use in the impl of h.
LEMMA OneInvByCall ==
    ASSUME OneInv, NEW h \in Open, NEW n \in 0 .. MaxBlocks,
           UNCHANGED <<ops, impl, state, made, lost>>, stopped' = "no",
           blocks' = [blocks EXCEPT ![made[h]] = n],
           held' = [held EXCEPT ![h][made[h]] = n]
    PROVE  OneInv'
<1>1. /\ h \in Handles /\ made[h] \in Impls /\ Live(made[h])
      /\ \A g \in Handles : made[g] = made[h] => g = h
  BY OpenHandle
<1>2. OwnerInv'
  BY OwnerInvByCall DEF OneInv
<1>3. OnePerType' /\ HandleReachesItsImpl' /\ NoImplIsLost'
  BY DEF OneInv, OnePerType, HandleReachesItsImpl, NoImplIsLost, Open, Live, Target
<1>4. HoldsItsBlocks'
  <2>1. /\ blocks' \in [Impls -> 0 .. MaxBlocks]
        /\ held' \in [Handles -> [Impls -> 0 .. MaxBlocks]]
    BY <1>1 DEF OneInv, HoldsItsBlocks
  <2>2. \A i \in Impls : blocks'[i] = IF i = made[h] THEN n ELSE blocks[i]
    BY <1>1 DEF OneInv, HoldsItsBlocks
  <2>3. \A g \in Handles, i \in Impls :
           held'[g][i] = IF g = h /\ i = made[h] THEN n ELSE held[g][i]
    BY <1>1 DEF OneInv, HoldsItsBlocks
  <2>4. \A g \in Handles, i \in Impls :
           held'[g][i] = IF made[g] = i THEN blocks'[i] ELSE 0
    BY <1>1, <2>2, <2>3 DEF OneInv, HoldsItsBlocks
  <2>5. \A i \in Impls : state[i] # "ready" => blocks'[i] = 0
    BY <1>1, <2>2 DEF OneInv, HoldsItsBlocks, Live
  <2> QED
    BY <2>1, <2>4, <2>5 DEF HoldsItsBlocks, OneInv, NoBlocks
<1> QED
  BY <1>2, <1>3, <1>4 DEF OneInv, StopsOnlyInUse

\* va_alloc gives a block to the handle that its call reaches.
LEMMA OneInvByAlloc ==
    ASSUME OneInv, NEW h \in Handles, va_alloc(h)
    PROVE  OneInv'
<1>1. h \in Open
  BY DEF va_alloc
<1>2. Target(h) = made[h] /\ made[h] \in Impls
  BY <1>1, OpenHandle
<1>3. /\ blocks[made[h]] < MaxBlocks
      /\ blocks' = [blocks EXCEPT ![made[h]] = blocks[made[h]] + 1]
      /\ held' = [held EXCEPT ![h][made[h]] = held[h][made[h]] + 1]
      /\ UNCHANGED <<ops, impl, state, made, lost>> /\ stopped' = "no"
  BY <1>2 DEF va_alloc
<1>4. held[h][made[h]] = blocks[made[h]] /\ blocks[made[h]] \in 0 .. MaxBlocks
  BY <1>2 DEF OneInv, HoldsItsBlocks
<1>5. blocks[made[h]] + 1 \in 0 .. MaxBlocks
  BY <1>3, <1>4, HandlesAssumption
<1> QED
  BY <1>1, <1>3, <1>4, <1>5, OneInvByCall

\* va_free takes it from the same handle.
LEMMA OneInvByFree ==
    ASSUME OneInv, NEW h \in Handles, NEW i \in Impls, va_free(h, i)
    PROVE  OneInv'
<1>1. h \in Open /\ held[h][i] > 0
  BY DEF va_free
<1>2. Target(h) = made[h] /\ made[h] \in Impls
  BY <1>1, OpenHandle
<1>3. i = made[h] /\ held[h][i] = blocks[i] /\ blocks[i] \in 0 .. MaxBlocks
  BY <1>1 DEF OneInv, HoldsItsBlocks
<1>4. /\ blocks' = [blocks EXCEPT ![made[h]] = blocks[made[h]] - 1]
      /\ held' = [held EXCEPT ![h][made[h]] = held[h][made[h]] - 1]
      /\ UNCHANGED <<ops, impl, state, made, lost>> /\ stopped' = "no"
  <2>1. Target(h) = i /\ ~ lost[i] > 0
    BY <1>2, <1>3 DEF OneInv, HoldsItsBlocks, NoBlocks
  <2>2. FreesBlock(i)
    BY <2>1 DEF va_free, FreesLost
  <2> QED
    BY <1>3, <2>2 DEF va_free, FreesBlock
<1>5. blocks[made[h]] - 1 \in 0 .. MaxBlocks
  BY <1>1, <1>3, HandlesAssumption
<1> QED
  BY <1>1, <1>3, <1>4, <1>5, OneInvByCall

\* destroy takes a handle and its implementation together.
LEMMA OneInvByDestroy ==
    ASSUME OneInv, NEW h \in Handles, va_allocator_destroy(h)
    PROVE  OneInv'
<1>1. h \in Open
  BY DEF va_allocator_destroy
<1>2. /\ Target(h) = made[h] /\ made[h] \in Impls /\ made[h] # NULL
      /\ \A g \in Handles : made[g] = made[h] => g = h
  BY <1>1, OpenHandle DEF Live
<1>3. /\ state' = [state EXCEPT ![made[h]] = "destroyed"]
      /\ blocks' = [blocks EXCEPT ![made[h]] = 0]
      /\ ops' = [ops EXCEPT ![h] = NULL] /\ made' = [made EXCEPT ![h] = NULL]
      /\ held' = [held EXCEPT ![h] = NoBlocks] /\ UNCHANGED impl
      /\ lost' = [lost EXCEPT ![made[h]] = 0] /\ stopped' = "no"
  BY <1>2 DEF va_allocator_destroy
<1>4. OwnerInv'
  BY OwnerInvByDestroy DEF OneInv
<1>5. NamesOK /\ HoldsItsBlocks
  BY DEF OneInv, OwnerInv
<1>6. /\ \A g \in Handles : made'[g] = IF g = h THEN NULL ELSE made[g]
      /\ \A g \in Handles : ops'[g] = IF g = h THEN NULL ELSE ops[g]
      /\ \A i \in Impls : state'[i] = IF i = made[h] THEN "destroyed" ELSE state[i]
      /\ \A i \in Impls : blocks'[i] = IF i = made[h] THEN 0 ELSE blocks[i]
      /\ \A g \in Handles : held'[g] = IF g = h THEN NoBlocks ELSE held[g]
  BY <1>2, <1>3, <1>5 DEF NamesOK, HoldsItsBlocks
<1>7. \A g \in Open' : g \in Open /\ g # h /\ g \in Handles
  BY <1>6 DEF Open
<1>8. OnePerType'
  BY <1>6, <1>7 DEF OneInv, OnePerType, Open
<1>9. HandleReachesItsImpl'
  <2>1. SUFFICES ASSUME NEW g \in Open'
                 PROVE  impl[ops'[g]] = made'[g] /\ Live(made[g])'
    BY <1>3 DEF HandleReachesItsImpl, Target
  <2>2. g \in Open /\ g # h /\ g \in Handles
    BY <1>7
  <2>3. impl[ops[g]] = made[g] /\ made[g] \in Impls /\ Live(made[g])
    BY <2>2, OpenHandle DEF Target
  <2>4. made'[g] = made[g] /\ ops'[g] = ops[g] /\ made[g] # made[h]
    BY <2>2, <1>2, <1>6
  <2> QED
    BY <2>3, <2>4, <1>6 DEF Live
<1>10. NoImplIsLost'
  <2>1. SUFFICES ASSUME NEW j \in Impls, Live(j)'
                 PROVE  \E g \in Open' : made'[g] = j
    BY DEF NoImplIsLost
  <2>2. j # made[h] /\ Live(j)
    BY <2>1, <1>6 DEF Live
  <2>3. PICK g \in Open : made[g] = j
    BY <2>2 DEF OneInv, NoImplIsLost
  <2> QED
    BY <2>2, <2>3, <1>6 DEF Open
<1>11. HoldsItsBlocks'
  <2>1. NoBlocks \in [Impls -> 0 .. MaxBlocks] /\ \A i \in Impls : NoBlocks[i] = 0
    BY HandlesAssumption DEF NoBlocks
  <2>2. /\ blocks' \in [Impls -> 0 .. MaxBlocks]
        /\ held' \in [Handles -> [Impls -> 0 .. MaxBlocks]]
    BY <1>2, <1>3, <1>5, <2>1, HandlesAssumption DEF HoldsItsBlocks
  <2>3. ASSUME NEW g \in Handles, NEW i \in Impls
        PROVE  held'[g][i] = IF made'[g] = i THEN blocks'[i] ELSE 0
    <3>1. CASE g = h
      BY <3>1, <1>6, <2>1, HandlesAssumption
    <3>2. CASE g # h
      BY <3>2, <1>2, <1>5, <1>6 DEF HoldsItsBlocks
    <3> QED
      BY <3>1, <3>2
  <2>4. \A i \in Impls : state'[i] # "ready" => blocks'[i] = 0
    BY <1>5, <1>6 DEF HoldsItsBlocks
  <2>5. lost' = NoBlocks
    BY <1>3, <1>5 DEF HoldsItsBlocks, NoBlocks
  <2> QED
    BY <2>2, <2>3, <2>4, <2>5 DEF HoldsItsBlocks, NoBlocks
<1> QED
  BY <1>3, <1>4, <1>8, <1>9, <1>10, <1>11 DEF OneInv, StopsOnlyInUse

\* The destroy that meets a block in use is the one of the block's holder.
LEMMA OneInvByAbort ==
    ASSUME OneInv, NEW h \in Handles, DestroyAborts(h)
    PROVE  OneInv'
<1>1. /\ h \in Open /\ ops[h] = "ARENA" /\ blocks[Target(h)] > 0
      /\ stopped' = "blocks in use"
      /\ UNCHANGED <<ops, impl, state, blocks, made, held, lost>>
  BY DEF DestroyAborts
<1>2. Target(h) = made[h] /\ made[h] \in Impls
  BY <1>1, OpenHandle
<1>3. held[h][made[h]] > 0
  BY <1>1, <1>2 DEF OneInv, HoldsItsBlocks
<1>4. StopsOnlyInUse'
  BY <1>1, <1>3 DEF StopsOnlyInUse, Open
<1>5. OwnerInv'
  BY <1>1, OwnerInvByCall DEF OneInv
<1>6. HoldsItsBlocks'
  BY <1>1 DEF OneInv, HoldsItsBlocks, NoBlocks
<1>7. OnePerType' /\ HandleReachesItsImpl' /\ NoImplIsLost'
  BY <1>1 DEF OneInv, OnePerType, HandleReachesItsImpl, NoImplIsLost, Open, Live, Target
<1> QED
  BY <1>4, <1>5, <1>6, <1>7 DEF OneInv

\* The correspondence holds before the first init.
LEMMA OneInvInitially == Init => OneInv
<1> SUFFICES ASSUME Init PROVE OneInv
  OBVIOUS
<1>1. OwnerInv
  BY OwnerInvInitially
<1>2. OnePerType /\ HandleReachesItsImpl /\ NoImplIsLost /\ StopsOnlyInUse
  BY DEF Init, OnePerType, HandleReachesItsImpl, NoImplIsLost, StopsOnlyInUse, Open, Live
<1>3. HoldsItsBlocks
  BY HandlesAssumption DEF Init, HoldsItsBlocks, NoBlocks
<1> QED
  BY <1>1, <1>2, <1>3 DEF OneInv

\* Every step of callers that open one handle of a type keeps it.
LEMMA OneInvStep == ASSUME OneAtATime PROVE OneInv /\ [Next]_vars => OneInv'
<1> SUFFICES ASSUME OneInv, [Next]_vars PROVE OneInv'
  OBVIOUS
<1>1. CASE UNCHANGED vars
  <2>1. OwnerInv'
    BY <1>1, OwnerInvByCall DEF vars, OneInv
  <2>2. OnePerType' /\ HandleReachesItsImpl' /\ NoImplIsLost'
    BY <1>1 DEF vars, OneInv, OnePerType, HandleReachesItsImpl, NoImplIsLost,
       Open, Live, Target
  <2>3. HoldsItsBlocks' /\ StopsOnlyInUse'
    BY <1>1 DEF vars, OneInv, HoldsItsBlocks, NoBlocks, StopsOnlyInUse, Open
  <2> QED
    BY <2>1, <2>2, <2>3 DEF OneInv
<1>2. ASSUME NEW h \in Handles, NEW type \in Types, va_allocator_init(h, type)
      PROVE  OneInv'
  BY <1>2, OneInvByInit
<1>3. ASSUME NEW h \in Handles, NEW type \in Types, InitFails(h, type)
      PROVE  OneInv'
  BY <1>3, OneInvByFailedInit
<1>4. ASSUME NEW h \in Handles, va_alloc(h)
      PROVE  OneInv'
  BY <1>4, OneInvByAlloc
<1>5. ASSUME NEW h \in Handles, NEW i \in Impls, va_free(h, i)
      PROVE  OneInv'
  BY <1>5, OneInvByFree
<1>6. ASSUME NEW h \in Handles, BadCall(h)
      PROVE  OneInv'
  <2>1. h \in Open /\ (Target(h) = NULL \/ state[Target(h)] = "destroyed")
    BY <1>6 DEF BadCall
  <2>2. Target(h) = made[h] /\ Live(made[h])
    BY <2>1, OpenHandle
  <2> QED
    BY <2>1, <2>2 DEF Live
<1>7. ASSUME NEW h \in Handles, va_allocator_destroy(h)
      PROVE  OneInv'
  BY <1>7, OneInvByDestroy
<1>8. ASSUME NEW h \in Handles, DestroyAborts(h)
      PROVE  OneInv'
  BY <1>8, OneInvByAbort
<1> QED
  BY <1>1, <1>2, <1>3, <1>4, <1>5, <1>6, <1>7, <1>8 DEF Next

\* With one handle of a type at a time, every handle has its own implementation
\* and its owner holds all that is in use in it, until the program stops.
THEOREM Exclusive == ASSUME OneAtATime PROVE Spec => []OneInv
BY OneInvInitially, OneInvStep, PTL DEF Spec

\* A handle's calls reach the implementation made for it, across failed inits
\* and handles opened and closed again.
THEOREM OwnImpl == ASSUME OneAtATime PROVE Spec => []HandleReachesItsImpl
<1>1. OneInv => HandleReachesItsImpl
  BY DEF OneInv
<1> QED
  BY <1>1, Exclusive, PTL

\* Every implementation that is there belongs to an open handle, so destroying
\* the handles frees them all.
THEOREM NoLeak == ASSUME OneAtATime PROVE Spec => []NoImplIsLost
<1>1. OneInv => NoImplIsLost
  BY DEF OneInv
<1> QED
  BY <1>1, Exclusive, PTL

\* No call ends in a NULL or dangling implementation or in the assertion that
\* meets the address of another allocator.  Only an arena handle's destroy can
\* stop the program, when its own caller still holds blocks.
THEOREM CallsAreSafe == ASSUME OneAtATime PROVE Spec => []StopsOnlyInUse
<1>1. OneInv => StopsOnlyInUse
  BY DEF OneInv
<1> QED
  BY <1>1, Exclusive, PTL

----------------------------------------------------------------------------
(***************************************************************************)
(* Sums over the handles, by induction on the number of handles.           *)
(***************************************************************************)

Some(S) == CHOOSE h \in S : TRUE

\* f sums up w over the sets of handles in Q, each with its subsets.
SumsUp(f, w, Q) ==
    \A S \in Q : f[S] = IF S = {} THEN 0 ELSE w[Some(S)] + f[S \ {Some(S)}]

\* The sets of up to n handles.
UpTo(n) == {S \in SUBSET Handles : Cardinality(S) <= n}

\* A set of handles without some of them has one less.
LEMMA OneLess ==
    ASSUME NEW S \in SUBSET Handles, S # {}
    PROVE  /\ Some(S) \in S /\ S \ {Some(S)} \in SUBSET Handles
           /\ Cardinality(S) \in Nat \ {0}
           /\ Cardinality(S \ {Some(S)}) = Cardinality(S) - 1
<1>1. Some(S) \in S
  BY DEF Some
<1>2. IsFiniteSet(S)
  BY HandlesAssumption, FS_Subset
<1>3. Cardinality(S) \in Nat /\ Cardinality(S) # 0
  BY <1>2, FS_EmptySet, FS_CardinalityType
<1>4. Cardinality(S \ {Some(S)}) = Cardinality(S) - 1
  BY <1>1, <1>2, FS_RemoveElement
<1> QED
  BY <1>1, <1>3, <1>4

\* The sums there are of sets of up to n handles.
LEMMA SumsUpTo ==
    ASSUME NEW w \in [Handles -> Nat], NEW k \in Nat
    PROVE  \E f \in [UpTo(k) -> Nat] : SumsUp(f, w, UpTo(k))
<1> DEFINE T == {n \in Nat : \E f \in [UpTo(n) -> Nat] : SumsUp(f, w, UpTo(n))}
<1>1. 0 \in T
  <2> DEFINE f == [S \in UpTo(0) |-> 0]
  <2>1. ASSUME NEW S \in UpTo(0) PROVE S = {}
    <3>1. SUFFICES ASSUME S # {} PROVE FALSE
      OBVIOUS
    <3>2. S \in SUBSET Handles /\ Cardinality(S) <= 0
      BY DEF UpTo
    <3>3. Cardinality(S) \in Nat \ {0}
      BY <3>1, <3>2, OneLess
    <3> QED
      BY <3>2, <3>3
  <2>2. f \in [UpTo(0) -> Nat] /\ SumsUp(f, w, UpTo(0))
    BY <2>1 DEF SumsUp
  <2> HIDE DEF f
  <2> QED
    BY <2>2
<1>2. ASSUME NEW n \in T PROVE n + 1 \in T
  <2>1. PICK f \in [UpTo(n) -> Nat] : SumsUp(f, w, UpTo(n))
    OBVIOUS
  <2> DEFINE g == [S \in UpTo(n + 1) |-> IF S = {} THEN 0
                                         ELSE w[Some(S)] + f[S \ {Some(S)}]]
  <2>2. ASSUME NEW S \in UpTo(n + 1), S # {}
        PROVE  /\ Some(S) \in Handles /\ S \ {Some(S)} \in UpTo(n)
               /\ f[S \ {Some(S)}] \in Nat /\ w[Some(S)] \in Nat
    <3>1. S \in SUBSET Handles /\ Cardinality(S) <= n + 1
      BY DEF UpTo
    <3>2. S \ {Some(S)} \in UpTo(n) /\ Some(S) \in Handles
      BY <2>2, <3>1, OneLess DEF UpTo
    <3> QED
      BY <3>2
  <2>3. g \in [UpTo(n + 1) -> Nat]
    <3>1. ASSUME NEW S \in UpTo(n + 1)
          PROVE  (IF S = {} THEN 0 ELSE w[Some(S)] + f[S \ {Some(S)}]) \in Nat
      <4>1. CASE S = {}
        BY <4>1
      <4>2. CASE S # {}
        <5>1. f[S \ {Some(S)}] \in Nat /\ w[Some(S)] \in Nat
          BY <2>2, <4>2
        <5> QED
          BY <4>2, <5>1
      <4> QED
        BY <4>1, <4>2
    <3> QED
      BY <3>1
  <2>4. ASSUME NEW S \in UpTo(n)
        PROVE  S \in UpTo(n + 1) /\ g[S] = f[S]
    <3>1. S \in UpTo(n + 1)
      <4>1. S \in SUBSET Handles /\ Cardinality(S) <= n
        BY DEF UpTo
      <4>2. Cardinality(S) \in Nat
        BY <4>1, HandlesAssumption, FS_Subset, FS_CardinalityType
      <4> QED
        BY <4>1, <4>2 DEF UpTo
    <3>2. f[S] = IF S = {} THEN 0 ELSE w[Some(S)] + f[S \ {Some(S)}]
      BY <2>1 DEF SumsUp
    <3> QED
      BY <3>1, <3>2
  <2>5. ASSUME NEW S \in UpTo(n + 1)
        PROVE  g[S] = IF S = {} THEN 0 ELSE w[Some(S)] + g[S \ {Some(S)}]
    <3>1. CASE S = {}
      BY <3>1
    <3>2. CASE S # {}
      <4>1. g[S \ {Some(S)}] = f[S \ {Some(S)}]
        BY <2>2, <2>4, <3>2
      <4>2. g[S] = w[Some(S)] + f[S \ {Some(S)}]
        BY <3>2
      <4> QED
        BY <3>2, <4>1, <4>2
    <3> QED
      BY <3>1, <3>2
  <2> HIDE DEF g
  <2>6. SumsUp(g, w, UpTo(n + 1))
    BY <2>5 DEF SumsUp
  <2> QED
    BY <2>3, <2>6
<1> HIDE DEF T
<1>3. T = Nat
  BY <1>1, <1>2, AllNumbers DEF T
<1> QED
  BY <1>3 DEF T

\* All of them.
LEMMA SumsExist ==
    ASSUME NEW w \in [Handles -> Nat]
    PROVE  \E f \in [SUBSET Handles -> Nat] : SumsUp(f, w, SUBSET Handles)
<1> DEFINE n == Cardinality(Handles)
<1>1. n \in Nat
  BY HandlesAssumption, FS_CardinalityType
<1>2. UpTo(n) = SUBSET Handles
  BY HandlesAssumption, FS_Subset DEF UpTo
<1> HIDE DEF n
<1>3. \E f \in [UpTo(n) -> Nat] : SumsUp(f, w, UpTo(n))
  BY <1>1, SumsUpTo
<1> QED
  BY <1>2, <1>3

\* They are numbers.
LEMMA SumsTyped ==
    ASSUME NEW w \in [Handles -> Nat], NEW f, SumsUp(f, w, SUBSET Handles)
    PROVE  \A S \in SUBSET Handles : f[S] \in Nat
<1> DEFINE T == {n \in Nat : \A S \in SUBSET Handles : Cardinality(S) = n => f[S] \in Nat}
<1>1. 0 \in T
  <2>1. ASSUME NEW S \in SUBSET Handles, Cardinality(S) = 0
        PROVE  f[S] \in Nat
    <3>1. S = {}
      BY <2>1, OneLess
    <3>2. f[S] = 0
      BY <3>1 DEF SumsUp
    <3> QED
      BY <3>2
  <2> QED
    BY <2>1
<1>2. ASSUME NEW n \in T PROVE n + 1 \in T
  <2>1. ASSUME NEW S \in SUBSET Handles, Cardinality(S) = n + 1
        PROVE  f[S] \in Nat
    <3>1. n \in Nat /\ S # {}
      <4>1. n + 1 # 0
        OBVIOUS
      <4> QED
        BY <2>1, <4>1, FS_EmptySet
    <3>2. /\ Some(S) \in Handles /\ S \ {Some(S)} \in SUBSET Handles
          /\ Cardinality(S \ {Some(S)}) = n
      BY <2>1, <3>1, OneLess
    <3>3. f[S] = w[Some(S)] + f[S \ {Some(S)}]
      BY <3>1 DEF SumsUp
    <3>4. f[S \ {Some(S)}] \in Nat /\ w[Some(S)] \in Nat
      BY <3>2
    <3> QED
      BY <3>3, <3>4
  <2> QED
    BY <2>1
<1> HIDE DEF T
<1>3. T = Nat
  <2>1. T \in SUBSET Nat
    BY DEF T
  <2> QED
    BY <1>1, <1>2, <2>1, AllNumbers
<1>4. \A S \in SUBSET Handles : Cardinality(S) \in Nat
  BY HandlesAssumption, FS_Subset, FS_CardinalityType
<1> QED
  BY <1>3, <1>4 DEF T

\* Only h may have another number.
SameBut(u, w, h) == \A x \in Handles \ {h} : u[x] = w[x]

\* f sums up w and g sums up u, and the sums differ by what h makes.
Balance(f, w, g, u, h) == g[Handles] + w[h] = f[Handles] + u[h]

\* What is different for one handle makes the difference of the sums.
LEMMA SumsDiffer ==
    ASSUME NEW w \in [Handles -> Nat], NEW f, SumsUp(f, w, SUBSET Handles),
           NEW u \in [Handles -> Nat], NEW g, SumsUp(g, u, SUBSET Handles),
           NEW h \in Handles, SameBut(u, w, h)
    PROVE  Balance(f, w, g, u, h)
<1> DEFINE Agree(S) == g[S] + (IF h \in S THEN w[h] ELSE 0)
                         = f[S] + (IF h \in S THEN u[h] ELSE 0)
           T == {n \in Nat : \A S \in SUBSET Handles : Cardinality(S) = n => Agree(S)}
<1>0. \A S \in SUBSET Handles : f[S] \in Nat /\ g[S] \in Nat
  BY SumsTyped
<1>1. 0 \in T
  <2>1. ASSUME NEW S \in SUBSET Handles, Cardinality(S) = 0
        PROVE  Agree(S)
    <3>1. S = {}
      BY <2>1, OneLess
    <3>2. f[S] = 0 /\ g[S] = 0 /\ h \notin S
      BY <3>1 DEF SumsUp
    <3> QED
      BY <3>2
  <2> HIDE DEF Agree
  <2> QED
    BY <2>1
<1>2. ASSUME NEW n \in T PROVE n + 1 \in T
  <2>1. ASSUME NEW S \in SUBSET Handles, Cardinality(S) = n + 1
        PROVE  Agree(S)
    <3> DEFINE x == Some(S)
               R == S \ {x}
    <3>1. n \in Nat /\ S # {}
      <4>1. n + 1 # 0
        OBVIOUS
      <4> QED
        BY <2>1, <4>1, FS_EmptySet
    <3>2. x \in S /\ R \in SUBSET Handles /\ Cardinality(R) = n
      BY <2>1, <3>1, OneLess
    <3>3. f[S] = w[x] + f[R] /\ g[S] = u[x] + g[R]
      BY <3>1 DEF SumsUp
    <3>4. Agree(R)
      BY <3>2
    <3>5. h \in R <=> h \in S /\ h # x
      OBVIOUS
    <3>6. f[R] \in Nat /\ g[R] \in Nat /\ w[x] \in Nat /\ u[x] \in Nat
          /\ w[h] \in Nat /\ u[h] \in Nat
      BY <3>2, <1>0
    <3>7. x # h => u[x] = w[x]
      BY <3>2 DEF SameBut
    <3> HIDE DEF x, R
    <3>8. CASE x = h
      BY <3>2, <3>3, <3>4, <3>5, <3>6, <3>8
    <3>9. CASE x # h
      BY <3>2, <3>3, <3>4, <3>5, <3>6, <3>7, <3>9
    <3> QED
      BY <3>8, <3>9
  <2> HIDE DEF Agree
  <2> QED
    BY <2>1
<1> HIDE DEF T, Agree
<1>3. T = Nat
  <2>1. T \in SUBSET Nat
    BY DEF T
  <2> QED
    BY <1>1, <1>2, <2>1, AllNumbers
<1>4. Cardinality(Handles) \in Nat
  BY HandlesAssumption, FS_CardinalityType
<1>5. Agree(Handles)
  BY <1>3, <1>4 DEF T
<1> QED
  BY <1>5 DEF Agree, Balance

\* The sum of zeros.
LEMMA SumsOfNothing ==
    ASSUME NEW w \in [Handles -> Nat], NEW f, SumsUp(f, w, SUBSET Handles),
           \A h \in Handles : w[h] = 0
    PROVE  f[Handles] = 0
<1> DEFINE T == {n \in Nat : \A S \in SUBSET Handles : Cardinality(S) = n => f[S] = 0}
<1>1. 0 \in T
  <2>1. ASSUME NEW S \in SUBSET Handles, Cardinality(S) = 0
        PROVE  f[S] = 0
    <3>1. S = {}
      BY <2>1, OneLess
    <3> QED
      BY <3>1 DEF SumsUp
  <2> QED
    BY <2>1
<1>2. ASSUME NEW n \in T PROVE n + 1 \in T
  <2>1. ASSUME NEW S \in SUBSET Handles, Cardinality(S) = n + 1
        PROVE  f[S] = 0
    <3>1. n \in Nat /\ S # {}
      <4>1. n + 1 # 0
        OBVIOUS
      <4> QED
        BY <2>1, <4>1, FS_EmptySet
    <3>2. Some(S) \in Handles /\ S \ {Some(S)} \in SUBSET Handles
          /\ Cardinality(S \ {Some(S)}) = n
      BY <2>1, <3>1, OneLess
    <3>3. f[S] = w[Some(S)] + f[S \ {Some(S)}]
      BY <3>1 DEF SumsUp
    <3> QED
      BY <3>1, <3>2, <3>3
  <2> QED
    BY <2>1
<1> HIDE DEF T
<1>3. T = Nat
  <2>1. T \in SUBSET Nat
    BY DEF T
  <2> QED
    BY <1>1, <1>2, <2>1, AllNumbers
<1>4. Cardinality(Handles) \in Nat
  BY HandlesAssumption, FS_CardinalityType
<1> QED
  BY <1>3, <1>4 DEF T

\* The blocks of impl i that x says are held, and by whom.
HeldOf(x, i)  == MapThenSumSet(LAMBDA h : x[h][i], Handles)
HoldersOf(x, i) == [h \in Handles |-> x[h][i]]

Holdings == [Handles -> [Impls -> Nat]]

\* The fold of HeldBlocksAreInUse is such a sum.
LEMMA HeldIsSum ==
    ASSUME NEW x \in Holdings, NEW i \in Impls
    PROVE  /\ HoldersOf(x, i) \in [Handles -> Nat]
           /\ \E f : /\ SumsUp(f, HoldersOf(x, i), SUBSET Handles)
                     /\ HeldOf(x, i) = f[Handles]
<1> DEFINE w == HoldersOf(x, i)
           E(f) == [s \in SUBSET Handles |->
                       IF s = {} THEN 0
                       ELSE LET y == CHOOSE z \in s : TRUE
                            IN  x[y][i] + f[s \ {y}]]
           g == CHOOSE iter : iter = E(iter)
<1>1. w \in [Handles -> Nat]
  BY DEF HoldersOf, Holdings
<1>2. HeldOf(x, i) = g[Handles]
  BY DEF HeldOf, MapThenSumSet, MapThenFoldSet
<1>3. PICK f \in [SUBSET Handles -> Nat] : SumsUp(f, w, SUBSET Handles)
  BY <1>1, SumsExist
<1>4. ASSUME NEW S \in SUBSET Handles
      PROVE  f[S] = E(f)[S]
  <2>1. S # {} => Some(S) \in Handles
    BY OneLess
  <2>2. f[S] = IF S = {} THEN 0 ELSE w[Some(S)] + f[S \ {Some(S)}]
    BY <1>3 DEF SumsUp
  <2> QED
    BY <2>1, <2>2 DEF Some, HoldersOf
<1>5. f = E(f)
  BY <1>4
<1> HIDE DEF E
<1>6. g = E(g)
  BY <1>5
<1> HIDE DEF g
<1>7. ASSUME NEW S \in SUBSET Handles
      PROVE  g[S] = IF S = {} THEN 0 ELSE w[Some(S)] + g[S \ {Some(S)}]
  <2>1. S # {} => Some(S) \in Handles
    BY OneLess
  <2>2. g[S] = E(g)[S]
    BY <1>6
  <2> QED
    BY <2>1, <2>2 DEF E, Some, HoldersOf
<1>8. SumsUp(g, w, SUBSET Handles)
  BY <1>7 DEF SumsUp
<1> QED
  BY <1>1, <1>2, <1>8

\* It is a number of at least the blocks of each handle.
LEMMA HeldAtLeast ==
    ASSUME NEW x \in Holdings, NEW i \in Impls
    PROVE  HeldOf(x, i) \in Nat /\ \A h \in Handles : x[h][i] <= HeldOf(x, i)
<1> DEFINE w == HoldersOf(x, i)
<1>1. w \in [Handles -> Nat]
  BY HeldIsSum
<1>2. PICK f : SumsUp(f, w, SUBSET Handles) /\ HeldOf(x, i) = f[Handles]
  BY HeldIsSum
<1> HIDE DEF w
<1>3. HeldOf(x, i) \in Nat
  BY <1>1, <1>2, SumsTyped
<1>4. ASSUME NEW h \in Handles PROVE w[h] <= HeldOf(x, i)
  <2> DEFINE u == [w EXCEPT ![h] = 0]
  <2>1. u \in [Handles -> Nat] /\ u[h] = 0 /\ \A g \in Handles \ {h} : u[g] = w[g]
    BY <1>1
  <2>2. SameBut(u, w, h)
    BY <2>1 DEF SameBut
  <2> HIDE DEF u
  <2>3. PICK g \in [SUBSET Handles -> Nat] : SumsUp(g, u, SUBSET Handles)
    BY <2>1, SumsExist
  <2>4. Balance(f, w, g, u, h)
    BY <1>1, <1>2, <2>1, <2>3, <2>2, SumsDiffer
  <2>5. g[Handles] + w[h] = f[Handles] + u[h]
    BY <2>4 DEF Balance
  <2>6. g[Handles] \in Nat /\ w[h] \in Nat
    BY <1>1, <2>3
  <2> QED
    BY <1>2, <1>3, <2>1, <2>5, <2>6
<1> QED
  BY <1>3, <1>4 DEF w, HoldersOf

\* It follows what one handle takes or gives back.
LEMMA HeldDiffers ==
    ASSUME NEW x \in Holdings, NEW y \in Holdings, NEW i \in Impls,
           NEW h \in Handles, \A g \in Handles \ {h} : y[g][i] = x[g][i]
    PROVE  HeldOf(y, i) + x[h][i] = HeldOf(x, i) + y[h][i]
<1> DEFINE w == HoldersOf(x, i)
           u == HoldersOf(y, i)
<1>1. w \in [Handles -> Nat] /\ u \in [Handles -> Nat]
  BY HeldIsSum
<1>2. PICK f : SumsUp(f, w, SUBSET Handles) /\ HeldOf(x, i) = f[Handles]
  BY HeldIsSum
<1>3. PICK g : SumsUp(g, u, SUBSET Handles) /\ HeldOf(y, i) = g[Handles]
  BY HeldIsSum
<1>4. SameBut(u, w, h)
  BY DEF HoldersOf, SameBut
<1>5. w[h] = x[h][i] /\ u[h] = y[h][i]
  BY DEF HoldersOf
<1> HIDE DEF w, u
<1>6. Balance(f, w, g, u, h)
  BY <1>1, <1>2, <1>3, <1>4, SumsDiffer
<1> QED
  BY <1>2, <1>3, <1>5, <1>6 DEF Balance

\* Nothing is held of an implementation of which no handle holds a block.
LEMMA HeldOfNone ==
    ASSUME NEW x \in Holdings, NEW i \in Impls, \A h \in Handles : x[h][i] = 0
    PROVE  HeldOf(x, i) = 0
<1> DEFINE w == HoldersOf(x, i)
<1>1. w \in [Handles -> Nat] /\ \A h \in Handles : w[h] = 0
  BY HeldIsSum DEF HoldersOf
<1>2. PICK f : SumsUp(f, w, SUBSET Handles) /\ HeldOf(x, i) = f[Handles]
  BY HeldIsSum
<1> HIDE DEF w
<1> QED
  BY <1>1, <1>2, SumsOfNothing

----------------------------------------------------------------------------
(***************************************************************************)
(* Blocks that are held stay in use, however handles overlap.              *)
(***************************************************************************)

CountsOK ==
    /\ blocks \in [Impls -> 0 .. MaxBlocks]
    /\ held \in [Handles -> [Impls -> 0 .. MaxBlocks]]
    /\ lost \in [Impls -> 0 .. MaxBlocks]

\* An impl that was not destroyed yet has in use what all handles hold of it,
\* apart from what it lost.
HeldInUse ==
    \A i \in Impls :
        state[i] # "destroyed" => HeldOf(held, i) <= blocks[i] + lost[i]

KeptInv == NamesOK /\ CountsOK /\ HeldInUse

\* Counts are numbers.
LEMMA CountsAreNumbers ==
    ASSUME NEW x \in [Handles -> [Impls -> 0 .. MaxBlocks]]
    PROVE  x \in Holdings
<1>1. \A n \in 0 .. MaxBlocks : n \in Nat
  BY HandlesAssumption
<1> QED
  BY <1>1 DEF Holdings

\* The block that va_alloc hands out is counted by the impl that gave it.
LEMMA KeptByAlloc ==
    ASSUME KeptInv, NEW h \in Handles, va_alloc(h)
    PROVE  CountsOK' /\ HeldInUse'
<1> DEFINE i == Target(h)
<1>1. /\ i \in Impls /\ state[i] = "ready" /\ blocks[i] < MaxBlocks
      /\ held[h][i] < MaxBlocks
      /\ blocks' = [blocks EXCEPT ![i] = blocks[i] + 1]
      /\ held' = [held EXCEPT ![h][i] = held[h][i] + 1]
      /\ UNCHANGED <<state, lost>>
  BY DEF va_alloc, Live, Open, Target, KeptInv, NamesOK
<1> HIDE DEF i
<1>2. CountsOK /\ HeldInUse /\ held \in Holdings
  BY CountsAreNumbers DEF KeptInv, CountsOK
<1>3. held[h][i] \in 0 .. MaxBlocks /\ blocks[i] \in 0 .. MaxBlocks
  BY <1>1, <1>2 DEF CountsOK
<1>4. blocks[i] + 1 \in 0 .. MaxBlocks /\ held[h][i] + 1 \in 0 .. MaxBlocks
  BY <1>1, <1>3, HandlesAssumption
<1>5. CountsOK'
  BY <1>1, <1>2, <1>4 DEF CountsOK
<1>6. held' \in Holdings
  BY <1>5, CountsAreNumbers DEF CountsOK
<1>7. ASSUME NEW j \in Impls, state'[j] # "destroyed"
      PROVE  HeldOf(held', j) <= blocks'[j] + lost'[j]
  <2>1. HeldOf(held', j) + held[h][j] = HeldOf(held, j) + held'[h][j]
    <3>1. \A g \in Handles \ {h} : held'[g][j] = held[g][j]
      BY <1>1, <1>2 DEF CountsOK
    <3> QED
      BY <1>2, <1>6, <3>1, HeldDiffers
  <2>2. HeldOf(held, j) \in Nat /\ HeldOf(held', j) \in Nat
    BY <1>2, <1>6, HeldAtLeast
  <2>3. /\ held[h][j] \in Nat /\ blocks[j] \in Nat /\ lost'[j] \in Nat
        /\ HeldOf(held, j) <= blocks[j] + lost'[j]
    BY <1>1, <1>2, <1>7, HandlesAssumption DEF CountsOK, HeldInUse
  <2>4. CASE j = i
    <3>1. held'[h][j] = held[h][j] + 1 /\ blocks'[j] = blocks[j] + 1
      BY <1>1, <1>2, <2>4 DEF CountsOK
    <3> QED
      BY <2>1, <2>2, <2>3, <3>1
  <2>5. CASE j # i
    <3>1. held'[h][j] = held[h][j] /\ blocks'[j] = blocks[j]
      BY <1>1, <1>2, <2>5 DEF CountsOK
    <3> QED
      BY <2>1, <2>2, <2>3, <3>1
  <2> QED
    BY <2>4, <2>5
<1> QED
  BY <1>5, <1>7 DEF HeldInUse

\* Whatever va_free does, the holder has one block less, and so has the impl of
\* that block or its losses, at most.
LEMMA FreedOnce ==
    ASSUME KeptInv, NEW h \in Handles, NEW i \in Impls, va_free(h, i)
    PROVE  /\ blocks' \in [Impls -> 0 .. MaxBlocks]
           /\ lost' \in [Impls -> 0 .. MaxBlocks]
           /\ blocks[i] + lost[i] <= blocks'[i] + lost'[i] + 1
           /\ \A j \in Impls \ {i} : blocks'[j] + lost'[j] = blocks[j] + lost[j]
<1>1. Target(h) \in Impls
  BY DEF va_free, Live, Open, Target, KeptInv, NamesOK
<1> DEFINE t == Target(h)
<1>2. /\ blocks \in [Impls -> 0 .. MaxBlocks] /\ lost \in [Impls -> 0 .. MaxBlocks]
      /\ t \in Impls
  BY <1>1 DEF KeptInv, CountsOK
<1>3. t = i \/ t # i
  OBVIOUS
<1>4. \/ t = i /\ (FreesBlock(i) \/ FreesLost(i))
      \/ t # i /\ (FreesReused(i, t) \/ FreesUnknown(h, i))
  BY DEF va_free
<1> HIDE DEF t
<1>5. CASE FreesBlock(i)
  <2>1. blocks' = [blocks EXCEPT ![i] = blocks[i] - 1] /\ blocks[i] > 0 /\ lost' = lost
    BY <1>5 DEF FreesBlock
  <2>2. blocks[i] - 1 \in 0 .. MaxBlocks
    BY <1>2, <2>1, HandlesAssumption
  <2> QED
    BY <1>2, <2>1, <2>2, HandlesAssumption
<1>6. CASE FreesLost(i)
  <2>1. lost' = [lost EXCEPT ![i] = lost[i] - 1] /\ lost[i] > 0 /\ blocks' = blocks
    BY <1>6 DEF FreesLost
  <2>2. lost[i] - 1 \in 0 .. MaxBlocks
    BY <1>2, <2>1, HandlesAssumption
  <2> QED
    BY <1>2, <2>1, <2>2, HandlesAssumption
<1>7. CASE t # i /\ FreesReused(i, t)
  <2>1. /\ blocks' = [blocks EXCEPT ![t] = blocks[t] - 1] /\ blocks[t] > 0
        /\ lost' = [lost EXCEPT ![t] = lost[t] + 1] /\ lost[t] < MaxBlocks
    BY <1>7 DEF FreesReused
  <2>2. blocks[t] - 1 \in 0 .. MaxBlocks /\ lost[t] + 1 \in 0 .. MaxBlocks
    BY <1>2, <2>1, HandlesAssumption
  <2> QED
    BY <1>2, <1>7, <2>1, <2>2, HandlesAssumption
<1>8. CASE FreesUnknown(h, i)
  <2>1. UNCHANGED <<blocks, lost>>
    BY <1>8 DEF FreesUnknown
  <2> QED
    BY <1>2, <2>1, HandlesAssumption
<1> QED
  BY <1>4, <1>5, <1>6, <1>7, <1>8

\* The block that va_free takes back is its holder's, whichever impl gets the
\* address; a block of another holder that goes with it is one that is lost.
LEMMA KeptByFree ==
    ASSUME KeptInv, NEW h \in Handles, NEW i \in Impls, va_free(h, i)
    PROVE  CountsOK' /\ HeldInUse'
<1>1. /\ held[h][i] > 0 /\ UNCHANGED state
      /\ held' = [held EXCEPT ![h][i] = held[h][i] - 1]
  BY DEF va_free
<1>2. CountsOK /\ HeldInUse /\ held \in Holdings
  BY CountsAreNumbers DEF KeptInv, CountsOK
<1>3. held[h][i] - 1 \in 0 .. MaxBlocks
  <2>1. held[h][i] \in 0 .. MaxBlocks
    BY <1>2 DEF CountsOK
  <2> QED
    BY <1>1, <2>1, HandlesAssumption
<1>4. CountsOK'
  <2>1. held' \in [Handles -> [Impls -> 0 .. MaxBlocks]]
    BY <1>1, <1>2, <1>3 DEF CountsOK
  <2> QED
    BY <2>1, FreedOnce DEF CountsOK
<1>5. held' \in Holdings
  BY <1>4, CountsAreNumbers DEF CountsOK
<1>6. ASSUME NEW j \in Impls, state'[j] # "destroyed"
      PROVE  HeldOf(held', j) <= blocks'[j] + lost'[j]
  <2>1. HeldOf(held', j) + held[h][j] = HeldOf(held, j) + held'[h][j]
    <3>1. \A g \in Handles \ {h} : held'[g][j] = held[g][j]
      BY <1>1, <1>2 DEF CountsOK
    <3> QED
      BY <1>2, <1>5, <3>1, HeldDiffers
  <2>2. HeldOf(held, j) \in Nat /\ HeldOf(held', j) \in Nat
    BY <1>2, <1>5, HeldAtLeast
  <2>3. HeldOf(held, j) <= blocks[j] + lost[j]
    BY <1>1, <1>2, <1>6 DEF HeldInUse
  <2>4. /\ held[h][j] \in Nat /\ blocks[j] \in Nat /\ lost[j] \in Nat
        /\ blocks'[j] \in Nat /\ lost'[j] \in Nat
    BY <1>2, <1>4, HandlesAssumption DEF CountsOK
  <2>5. CASE j = i
    <3>1. held'[h][j] = held[h][j] - 1
      BY <1>1, <1>2, <2>5 DEF CountsOK
    <3>2. blocks[j] + lost[j] <= blocks'[j] + lost'[j] + 1
      BY <2>5, FreedOnce
    <3> HIDE <1>1
    <3> QED
      BY <2>1, <2>2, <2>3, <2>4, <3>1, <3>2
  <2>6. CASE j # i
    <3>1. held'[h][j] = held[h][j]
      BY <1>1, <1>2, <2>6 DEF CountsOK
    <3>2. blocks'[j] + lost'[j] = blocks[j] + lost[j]
      BY <2>6, FreedOnce
    <3> QED
      BY <2>1, <2>2, <2>3, <2>4, <3>1, <3>2
  <2> QED
    BY <2>5, <2>6
<1> QED
  BY <1>4, <1>6 DEF HeldInUse

\* A handle that is destroyed takes the blocks of its impl with it and forgets
\* those it holds of others.
LEMMA KeptByDestroy ==
    ASSUME KeptInv, NEW h \in Handles, va_allocator_destroy(h)
    PROVE  CountsOK' /\ HeldInUse'
<1>1. /\ held' = [held EXCEPT ![h] = NoBlocks]
      /\ \/ Target(h) = NULL /\ UNCHANGED <<state, blocks, lost>>
         \/ /\ Target(h) \in Impls
            /\ state' = [state EXCEPT ![Target(h)] = "destroyed"]
            /\ blocks' = [blocks EXCEPT ![Target(h)] = 0]
            /\ lost' = [lost EXCEPT ![Target(h)] = 0]
  BY DEF va_allocator_destroy, Live, Open, Target, KeptInv, NamesOK
<1>2. CountsOK /\ HeldInUse /\ held \in Holdings /\ NamesOK
  BY CountsAreNumbers DEF KeptInv, CountsOK
<1>3. NoBlocks \in [Impls -> 0 .. MaxBlocks] /\ 0 \in 0 .. MaxBlocks
  BY HandlesAssumption DEF NoBlocks
<1>4. held' \in [Handles -> [Impls -> 0 .. MaxBlocks]]
  BY <1>1, <1>2, <1>3 DEF CountsOK
<1>5. blocks' \in [Impls -> 0 .. MaxBlocks] /\ lost' \in [Impls -> 0 .. MaxBlocks]
  BY <1>1, <1>2, <1>3 DEF CountsOK
<1>6. held' \in Holdings
  BY <1>4, CountsAreNumbers
<1>7. ASSUME NEW j \in Impls, state'[j] # "destroyed"
      PROVE  HeldOf(held', j) <= blocks'[j] + lost'[j]
  <2>1. state[j] # "destroyed" /\ blocks'[j] = blocks[j] /\ lost'[j] = lost[j]
    BY <1>1, <1>2, <1>7 DEF NamesOK, CountsOK
  <2>2. held'[h][j] = 0 /\ \A g \in Handles \ {h} : held'[g][j] = held[g][j]
    BY <1>1, <1>2 DEF CountsOK, NoBlocks
  <2>3. HeldOf(held', j) + held[h][j] = HeldOf(held, j) + held'[h][j]
    BY <1>2, <1>6, <2>2, HeldDiffers
  <2>4. HeldOf(held, j) \in Nat /\ HeldOf(held', j) \in Nat
    BY <1>2, <1>6, HeldAtLeast
  <2>5. /\ held[h][j] \in Nat /\ blocks[j] \in Nat /\ lost[j] \in Nat
        /\ HeldOf(held, j) <= blocks[j] + lost[j]
    BY <1>2, <2>1, HandlesAssumption DEF CountsOK, HeldInUse
  <2> QED
    BY <2>1, <2>2, <2>3, <2>4, <2>5
<1> QED
  BY <1>4, <1>5, <1>7 DEF CountsOK, HeldInUse

\* Neither an init nor a call that stops changes what is held or in use, and
\* what was destroyed is not made again.
LEMMA KeptByOther ==
    ASSUME KeptInv, UNCHANGED <<blocks, held, lost>>,
           \A i \in Impls : state[i] = "destroyed" => state'[i] = "destroyed"
    PROVE  CountsOK' /\ HeldInUse'
<1>1. CountsOK'
  BY DEF KeptInv, CountsOK
<1>2. ASSUME NEW j \in Impls, state'[j] # "destroyed"
      PROVE  HeldOf(held', j) <= blocks'[j] + lost'[j]
  BY <1>2 DEF KeptInv, HeldInUse
<1> QED
  BY <1>1, <1>2 DEF HeldInUse

\* Before the first init nothing is held.
LEMMA KeptInitially == Init => KeptInv
<1> SUFFICES ASSUME Init PROVE KeptInv
  OBVIOUS
<1>1. NamesOK
  BY OwnerInvInitially DEF OwnerInv
<1>2. CountsOK
  BY HandlesAssumption DEF Init, CountsOK, NoBlocks
<1>3. HeldInUse
  <2>1. held \in Holdings
    BY <1>2, CountsAreNumbers DEF CountsOK
  <2>2. ASSUME NEW i \in Impls PROVE HeldOf(held, i) = 0 /\ blocks[i] = 0 /\ lost[i] = 0
    <3>1. \A h \in Handles : held[h][i] = 0
      BY DEF Init, NoBlocks
    <3> QED
      BY <2>1, <3>1, HeldOfNone DEF Init, NoBlocks
  <2> QED
    BY <2>2 DEF HeldInUse
<1> QED
  BY <1>1, <1>2, <1>3 DEF KeptInv

\* Every step keeps it.
LEMMA KeptStep == OwnerInv /\ KeptInv /\ [Next]_vars => KeptInv'
<1> SUFFICES ASSUME OwnerInv, KeptInv, [Next]_vars PROVE KeptInv'
  OBVIOUS
<1>1. NamesOK'
  BY OwnerInvStep DEF OwnerInv
<1>2. SUFFICES CountsOK' /\ HeldInUse'
  BY <1>1 DEF KeptInv
<1>3. CASE UNCHANGED vars
  BY <1>3, KeptByOther DEF vars
<1>4. ASSUME NEW h \in Handles, NEW type \in Types, va_allocator_init(h, type)
      PROVE  CountsOK' /\ HeldInUse'
  <2>1. UNCHANGED <<blocks, held, lost>>
    BY <1>4 DEF va_allocator_init
  <2>2. \A i \in Impls : state[i] = "destroyed" => state'[i] = "destroyed"
    BY <1>4 DEF va_allocator_init, KeptInv, NamesOK
  <2> QED
    BY <2>1, <2>2, KeptByOther
<1>5. ASSUME NEW h \in Handles, NEW type \in Types, InitFails(h, type)
      PROVE  CountsOK' /\ HeldInUse'
  BY <1>5, KeptByOther DEF InitFails
<1>6. ASSUME NEW h \in Handles, va_alloc(h)
      PROVE  CountsOK' /\ HeldInUse'
  BY <1>6, KeptByAlloc
<1>7. ASSUME NEW h \in Handles, NEW i \in Impls, va_free(h, i)
      PROVE  CountsOK' /\ HeldInUse'
  BY <1>7, KeptByFree
<1>8. ASSUME NEW h \in Handles, BadCall(h) \/ DestroyAborts(h)
      PROVE  CountsOK' /\ HeldInUse'
  BY <1>8, KeptByOther DEF BadCall, DestroyAborts
<1>9. ASSUME NEW h \in Handles, va_allocator_destroy(h)
      PROVE  CountsOK' /\ HeldInUse'
  BY <1>9, KeptByDestroy
<1> QED
  BY <1>3, <1>4, <1>5, <1>6, <1>7, <1>8, <1>9 DEF Next

\* However inits, calls and destroys of handles overlap, the counts agree.
THEOREM CountsKept == Spec => []KeptInv
<1>1. Init => OwnerInv /\ KeptInv
  BY OwnerInvInitially, KeptInitially
<1>2. OwnerInv /\ KeptInv /\ [Next]_vars => OwnerInv' /\ KeptInv'
  BY OwnerInvStep, KeptStep
<1> QED
  BY <1>1, <1>2, PTL DEF Spec

\* What ended the program, if anything.
StoppedOK == stopped \in {"no", "blocks in use", "unknown address", "bad pointer"}

\* The variables keep their types: no count of blocks in use falls below zero
\* or past the bound, whatever handles share an implementation.
THEOREM InterfaceTypes == Spec => []TypeOK
<1>1. StoppedOK /\ [Next]_vars => StoppedOK'
  BY DEF StoppedOK, Next, vars, va_allocator_init, InitFails, va_alloc, va_free, FreesBlock,
     FreesLost, FreesReused, FreesUnknown, BadCall, va_allocator_destroy, DestroyAborts
<1>2. Init => StoppedOK
  BY DEF Init, StoppedOK
<1>3. KeptInv /\ StoppedOK => TypeOK
  BY DEF KeptInv, StoppedOK, NamesOK, CountsOK, TypeOK
<1> QED
  BY <1>1, <1>2, <1>3, CountsKept, PTL DEF Spec

\* The blocks that callers hold of an implementation are in use in it as long as
\* it is there: handles that share one lose each other's blocks only to a free
\* of a stale address, of an implementation that is gone, and no more of them
\* than there were such frees.
THEOREM BlocksKept == Spec => []HeldBlocksAreInUse
<1>1. KeptInv => HeldBlocksAreInUse
  <2>1. \A i \in Impls : Live(i) => state[i] # "destroyed"
    BY DEF Live
  <2> QED
    BY <2>1 DEF KeptInv, HeldInUse, HeldBlocksAreInUse, HeldOf
<1> QED
  BY <1>1, CountsKept, PTL
=============================================================================
