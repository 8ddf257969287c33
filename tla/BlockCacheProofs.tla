--------------------------- MODULE BlockCacheProofs -------------------------
(***************************************************************************)
(* Proofs about the block cache for every size of the cache, of the device *)
(* and of the storage behind it, and for any contents of the buffers.      *)
(***************************************************************************)
EXTENDS BlockCache, TLAPS

\* What a slot of the cache may contain.
Slot == [block_num : Blocks \cup {NoBlock}, data : Tokens, dirty : BOOLEAN,
         ref_count : 0 .. (UINT_MOD - 1)]

\* SlotsConsistent without its condition: a slot is good while no count has
\* wrapped.
Sound ==
  \A s \in CacheSlots :
    /\ Referenced(s) <=> block_cache[s].block_num # NoBlock
    /\ block_cache[s].dirty => Referenced(s)
    /\ \A r \in CacheSlots \ {s} : Referenced(s) => ~Holds(r, block_cache[s].block_num)

\* A dirty slot has a block, wrapped or not: a flush of a slot without one
\* would address memory far behind the storage.
DirtyHeld ==
  \A s \in CacheSlots : block_cache[s].dirty => block_cache[s].block_num # NoBlock

\* The inductive invariant.
IInv == TypeOK /\ DirtyHeld /\ (~wrapped => Sound)

\* What a step may do to slot s while it is referenced.
KeepsBlock(s) ==
  Referenced(s) => block_cache'[s].block_num \in {block_cache[s].block_num, NoBlock}

-----------------------------------------------------------------------------

\* 0xFFFFFFFF is no block, and slot and block numbers are naturals.
LEMMA BlocksAreNat == /\ NoBlock \notin Blocks /\ NoBlock \in Int
                      /\ Blocks \subseteq Nat /\ CacheSlots \subseteq Nat
BY BlockCacheAssumption DEF Blocks, NoBlock, CacheSlots

\* The type invariant in terms of Slot.
LEMMA SlotTyped == TypeOK <=> /\ block_cache \in [CacheSlots -> Slot]
                              /\ block_storage \in [Blocks -> Tokens]
                              /\ wrapped \in BOOLEAN
BY DEF TypeOK, Slot

\* Counting up keeps a count in its width, and a count that did not come
\* back to 0 is positive.
LEMMA CountWraps ==
  ASSUME NEW n \in 0 .. (UINT_MOD - 1)
  PROVE  /\ Plus1(n) \in 0 .. (UINT_MOD - 1)
         /\ Plus1(n) # 0 => Plus1(n) > 0
BY BlockCacheAssumption DEF Plus1

\* The invariant holds after block_cache_init.
LEMMA InitIInv == Init => IInv
<1> SUFFICES ASSUME Init PROVE IInv
  OBVIOUS
<1>1. EmptySlot \in Slot
  BY BlockCacheAssumption DEF EmptySlot, Slot, Tokens
<1>2. block_storage \in [Blocks -> Tokens] /\ wrapped \in BOOLEAN
  BY DEF Init, Tokens
<1>3. TypeOK
  BY <1>1, <1>2, SlotTyped DEF Init
<1>4. \A s \in CacheSlots : block_cache[s] = EmptySlot
  BY DEF Init
<1>5. Sound /\ DirtyHeld
  BY <1>4 DEF EmptySlot, Sound, DirtyHeld, Referenced, NoBlock
<1> QED BY <1>3, <1>5 DEF IInv

\* A call that replaces the contents of one slot keeps the types and takes no
\* referenced slot from its block.
LEMMA SlotReplaced ==
  ASSUME IInv, NEW s \in CacheSlots, NEW e \in Slot,
         block_cache' = [block_cache EXCEPT ![s] = e],
         block_storage' \in [Blocks -> Tokens], wrapped' \in BOOLEAN,
         e.dirty => e.block_num # NoBlock,
         Referenced(s) => e.block_num \in {block_cache[s].block_num, NoBlock}
  PROVE  TypeOK' /\ DirtyHeld' /\ \A r \in CacheSlots : KeepsBlock(r)
<1>1. block_cache \in [CacheSlots -> Slot]
  BY SlotTyped DEF IInv
<1>2. /\ block_cache' \in [CacheSlots -> Slot]
      /\ block_cache'[s] = e
      /\ \A r \in CacheSlots : r # s => block_cache'[r] = block_cache[r]
  BY <1>1
<1>3. TypeOK'
  BY <1>2 DEF TypeOK, Slot
<1>4. DirtyHeld'
  BY <1>2 DEF IInv, DirtyHeld
<1>5. \A r \in CacheSlots : KeepsBlock(r)
  BY <1>2 DEF KeepsBlock
<1> QED BY <1>3, <1>4, <1>5

\* It keeps the slots sound when the new contents are sound in themselves and
\* the block is in no other slot.
LEMMA SoundReplaced ==
  ASSUME TypeOK, Sound, NEW s \in CacheSlots, NEW e \in Slot,
         block_cache' = [block_cache EXCEPT ![s] = e],
         e.ref_count > 0 <=> e.block_num # NoBlock,
         e.dirty => e.ref_count > 0,
         e.ref_count > 0 => \A r \in CacheSlots \ {s} : ~Holds(r, e.block_num)
  PROVE  Sound'
<1>1. block_cache \in [CacheSlots -> Slot]
  BY SlotTyped
<1>2. /\ block_cache' \in [CacheSlots -> Slot]
      /\ block_cache'[s] = e
      /\ \A r \in CacheSlots : r # s => block_cache'[r] = block_cache[r]
  BY <1>1
<1>3. SUFFICES ASSUME NEW r \in CacheSlots
               PROVE  /\ Referenced(r)' <=> block_cache'[r].block_num # NoBlock
                      /\ block_cache'[r].dirty => Referenced(r)'
                      /\ \A q \in CacheSlots \ {r} :
                           Referenced(r)' => ~Holds(q, block_cache[r].block_num)'
  BY <1>2 DEF Sound
<1>4. CASE r = s
  BY <1>2, <1>4 DEF Referenced, Holds
<1>5. CASE r # s
  <2>1. /\ Referenced(r) <=> block_cache[r].block_num # NoBlock
        /\ block_cache[r].dirty => Referenced(r)
        /\ \A q \in CacheSlots \ {r} : Referenced(r) => ~Holds(q, block_cache[r].block_num)
    BY DEF Sound
  <2>2. Referenced(r)' <=> Referenced(r)
    BY <1>2, <1>5 DEF Referenced
  <2>3. ASSUME Referenced(r), NEW q \in CacheSlots \ {r}
        PROVE  ~Holds(q, block_cache[r].block_num)'
    <3>1. CASE q = s
      <4>1. e.ref_count > 0 => e.block_num # block_cache[r].block_num
        BY <1>5 DEF Holds
      <4>2. e.block_num # block_cache[r].block_num
        BY <2>1, <2>3, <4>1
      <4> QED BY <1>2, <1>5, <3>1, <4>2 DEF Holds
    <3>2. CASE q # s
      BY <1>2, <1>5, <2>1, <2>3, <3>2 DEF Holds
    <3> QED BY <3>1, <3>2
  <2> QED BY <1>2, <1>5, <2>1, <2>2, <2>3
<1> QED BY <1>4, <1>5

\* block_read of a cached block.
LEMMA ReadHitIInv ==
  ASSUME IInv, NEW b \in Blocks, NEW d \in Contents, ReadHit(b, d)
  PROVE  IInv' /\ \A s \in CacheSlots : KeepsBlock(s)
<1>1. PICK s \in CacheSlots :
        /\ Holds(s, b) /\ Referenced(s)
        /\ block_cache' = [block_cache EXCEPT ![s].data = d, ![s].ref_count = Plus1(@)]
        /\ wrapped' = (wrapped \/ Plus1(block_cache[s].ref_count) = 0)
  BY DEF ReadHit, First
<1> DEFINE n == Plus1(block_cache[s].ref_count)
           e == [block_cache[s] EXCEPT !.data = d, !.ref_count = n]
<1>2. /\ block_cache \in [CacheSlots -> Slot] /\ block_cache[s] \in Slot
      /\ block_storage' \in [Blocks -> Tokens]
  BY SlotTyped DEF IInv, ReadHit
<1>3. n \in 0 .. (UINT_MOD - 1) /\ (n # 0 => n > 0)
  BY <1>2, CountWraps DEF Slot
<1>4. block_cache' = [block_cache EXCEPT ![s] = e]
  BY <1>1, <1>2
<1>5. wrapped' = (wrapped \/ n = 0)
  BY <1>1
<1> HIDE DEF n
<1>6. /\ e \in Slot /\ e.block_num = block_cache[s].block_num
      /\ e.dirty = block_cache[s].dirty /\ e.ref_count = n
  BY <1>2, <1>3 DEF Slot, Tokens
<1> HIDE DEF e
<1>7. e.block_num = b /\ b # NoBlock
  BY <1>1, <1>6, BlocksAreNat DEF Holds
<1>8. TypeOK' /\ DirtyHeld' /\ \A r \in CacheSlots : KeepsBlock(r)
  BY <1>2, <1>4, <1>5, <1>6, <1>7, SlotReplaced
<1>9. ASSUME ~wrapped' PROVE Sound'
  <2>1. Sound /\ e.ref_count > 0
    BY <1>3, <1>5, <1>6, <1>9 DEF IInv
  <2>2. \A r \in CacheSlots \ {s} : ~Holds(r, e.block_num)
    BY <1>1, <1>6, <2>1 DEF Sound
  <2> QED BY <1>4, <1>6, <1>7, <2>1, <2>2, SoundReplaced DEF IInv
<1> QED BY <1>8, <1>9 DEF IInv

\* block_read that loads the block; what it stores may lie behind the storage.
LEMMA ReadMissIInv ==
  ASSUME IInv, NEW b \in Blocks, NEW d \in Contents, ReadMiss(b, d)
  PROVE  IInv' /\ \A s \in CacheSlots : KeepsBlock(s)
<1> DEFINE e == [block_num |-> b, data |-> d, dirty |-> FALSE, ref_count |-> 1]
<1>1. PICK s \in CacheSlots :
        /\ ~Referenced(s)
        /\ block_storage' = Store(b, block_cache[s].data)
        /\ block_cache' = [block_cache EXCEPT ![s] = e]
  BY DEF ReadMiss, First, Vacant
<1>2. /\ block_cache \in [CacheSlots -> Slot] /\ block_cache[s] \in Slot
      /\ block_storage \in [Blocks -> Tokens] /\ wrapped' = wrapped /\ wrapped \in BOOLEAN
  BY SlotTyped DEF IInv, ReadMiss
<1>3. 1 \in 0 .. (UINT_MOD - 1) /\ 1 > 0
  BY BlockCacheAssumption
<1>4. e \in Slot /\ e.ref_count > 0 /\ e.block_num = b /\ b # NoBlock /\ ~e.dirty
  BY <1>3, BlocksAreNat DEF Slot, Tokens
<1>5. block_storage' \in [Blocks -> Tokens]
  BY <1>1, <1>2 DEF Store, Slot
<1> HIDE DEF e
<1>6. TypeOK' /\ DirtyHeld' /\ \A r \in CacheSlots : KeepsBlock(r)
  BY <1>1, <1>2, <1>4, <1>5, SlotReplaced
<1>7. ASSUME ~wrapped' PROVE Sound'
  <2>1. Sound
    BY <1>2, <1>7 DEF IInv
  <2>2. \A r \in CacheSlots : ~Holds(r, e.block_num)
    BY <1>4, <2>1 DEF ReadMiss, Hit, Holds, Sound
  <2> QED BY <1>1, <1>4, <2>1, <2>2, SoundReplaced DEF IInv
<1> QED BY <1>6, <1>7 DEF IInv

\* block_write.
LEMMA WriteIInv ==
  ASSUME IInv, NEW b \in Blocks, Write(b)
  PROVE  IInv' /\ \A s \in CacheSlots : KeepsBlock(s)
<1>1. PICK s \in CacheSlots :
        /\ \/ Holds(s, b)
           \/ ~Referenced(s) /\ \A r \in CacheSlots : ~Holds(r, b)
        /\ block_cache' = [block_cache EXCEPT ![s].block_num = b, ![s].dirty = TRUE,
                                              ![s].ref_count = Plus1(@)]
        /\ wrapped' = (wrapped \/ Plus1(block_cache[s].ref_count) = 0)
  BY DEF Write, First, Vacant
<1> DEFINE n == Plus1(block_cache[s].ref_count)
           e == [block_cache[s] EXCEPT !.block_num = b, !.dirty = TRUE, !.ref_count = n]
<1>2. /\ block_cache \in [CacheSlots -> Slot] /\ block_cache[s] \in Slot
      /\ block_storage' \in [Blocks -> Tokens]
  BY SlotTyped DEF IInv, Write
<1>3. n \in 0 .. (UINT_MOD - 1) /\ (n # 0 => n > 0)
  BY <1>2, CountWraps DEF Slot
<1>4. block_cache' = [block_cache EXCEPT ![s] = e]
  BY <1>1, <1>2
<1>5. wrapped' = (wrapped \/ n = 0)
  BY <1>1
<1> HIDE DEF n
<1>6. e \in Slot /\ e.block_num = b /\ e.ref_count = n
  BY <1>2, <1>3 DEF Slot
<1> HIDE DEF e
<1>7. b # NoBlock /\ (Referenced(s) => e.block_num \in {block_cache[s].block_num, NoBlock})
  BY <1>1, <1>6, BlocksAreNat DEF Holds
<1>8. TypeOK' /\ DirtyHeld' /\ \A r \in CacheSlots : KeepsBlock(r)
  BY <1>2, <1>4, <1>5, <1>6, <1>7, SlotReplaced
<1>9. ASSUME ~wrapped' PROVE Sound'
  <2>1. Sound /\ e.ref_count > 0
    BY <1>3, <1>5, <1>6, <1>9 DEF IInv
  <2>2. \A r \in CacheSlots \ {s} : ~Holds(r, e.block_num)
    BY <1>1, <1>6, <1>7, <2>1 DEF Sound, Holds
  <2> QED BY <1>4, <1>6, <1>7, <2>1, <2>2, SoundReplaced DEF IInv
<1> QED BY <1>8, <1>9 DEF IInv

\* block_free.
LEMMA FreeIInv ==
  ASSUME IInv, NEW b \in Blocks, Free(b)
  PROVE  IInv' /\ \A s \in CacheSlots : KeepsBlock(s)
<1>1. PICK s \in CacheSlots : block_cache' = [block_cache EXCEPT ![s] = Dropped(@)]
  BY DEF Free
<1> DEFINE e == Dropped(block_cache[s])
<1>2. /\ block_cache \in [CacheSlots -> Slot] /\ block_cache[s] \in Slot
      /\ block_storage' \in [Blocks -> Tokens] /\ wrapped' = wrapped /\ wrapped \in BOOLEAN
  BY SlotTyped DEF IInv, Free
<1>3. block_cache' = [block_cache EXCEPT ![s] = e]
  BY <1>1, <1>2
<1>4. 0 \in 0 .. (UINT_MOD - 1) /\ FALSE \in BOOLEAN
  BY BlockCacheAssumption
<1>5. e \in Slot /\ e.ref_count = 0 /\ e.block_num = NoBlock /\ ~e.dirty
  BY <1>2, <1>4 DEF Dropped, Slot
<1> HIDE DEF e
<1>6. ~(e.ref_count > 0)
  BY <1>5
<1>7. TypeOK' /\ DirtyHeld' /\ \A r \in CacheSlots : KeepsBlock(r)
  BY <1>2, <1>3, <1>5, SlotReplaced
<1>8. ASSUME ~wrapped' PROVE Sound'
  <2>1. Sound
    BY <1>2, <1>8 DEF IInv
  <2> QED BY <1>3, <1>5, <1>6, <2>1, SoundReplaced DEF IInv
<1> QED BY <1>7, <1>8 DEF IInv

\* block_cache_flush.
LEMMA FlushIInv ==
  ASSUME IInv, Flush
  PROVE  IInv' /\ \A s \in CacheSlots : KeepsBlock(s)
<1>1. /\ block_cache \in [CacheSlots -> Slot]
      /\ block_storage \in [Blocks -> Tokens] /\ wrapped \in BOOLEAN
      /\ block_storage' = block_storage /\ wrapped' = wrapped
  BY SlotTyped DEF IInv, Flush
<1>2. \A b \in Blocks : Stored(b) \in Tokens
  BY <1>1 DEF Stored
<1>3. ASSUME NEW s \in CacheSlots
      PROVE  /\ block_cache'[s] \in Slot
             /\ block_cache'[s].block_num = block_cache[s].block_num
             /\ block_cache'[s].ref_count = block_cache[s].ref_count
             /\ block_cache'[s].dirty = FALSE
  <2>1. block_cache[s] \in Slot
    BY <1>1
  <2>2. CASE block_cache[s].dirty
    <3>1. block_cache'[s] = [block_cache[s] EXCEPT
                               !.data = Stored(block_cache[s].block_num), !.dirty = FALSE]
      BY <2>2 DEF Flush
    <3>2. Stored(block_cache[s].block_num) \in Tokens
      BY <1>2, <2>1, <2>2 DEF Slot, IInv, DirtyHeld
    <3> QED BY <2>1, <3>1, <3>2 DEF Slot
  <2>3. CASE ~block_cache[s].dirty
    <3>1. block_cache'[s] = block_cache[s]
      BY <2>3 DEF Flush
    <3> QED BY <2>1, <2>3, <3>1 DEF Slot
  <2> QED BY <2>2, <2>3
<1>4. block_cache' \in [CacheSlots -> Slot]
  BY <1>3 DEF Flush
<1>5. TypeOK'
  BY <1>1, <1>4 DEF TypeOK, Slot
<1>6. Sound => Sound'
  BY <1>3 DEF Sound, Referenced, Holds
<1>7. DirtyHeld' /\ \A s \in CacheSlots : KeepsBlock(s)
  BY <1>3 DEF KeepsBlock, DirtyHeld
<1> QED BY <1>1, <1>5, <1>6, <1>7 DEF IInv

\* The owner of memory behind the storage.
LEMMA OwnersIInv ==
  ASSUME IInv, NEW b \in Blocks, OwnersStore(b)
  PROVE  IInv' /\ \A s \in CacheSlots : KeepsBlock(s)
<1>1. block_cache' = block_cache /\ wrapped' = wrapped
  BY DEF OwnersStore
<1>2. block_storage' \in [Blocks -> Tokens]
  BY SlotTyped DEF IInv, OwnersStore, Store, Tokens
<1>3. TypeOK'
  BY <1>1, <1>2 DEF IInv, TypeOK
<1>4. DirtyHeld' /\ (Sound => Sound') /\ \A s \in CacheSlots : KeepsBlock(s)
  BY <1>1 DEF IInv, DirtyHeld, Sound, Referenced, Holds, KeepsBlock
<1> QED BY <1>1, <1>3, <1>4 DEF IInv

\* What the callers' test lets through is a block of the device.
LEMMA AcceptedBlocks == \A b \in Requests : Accepts(b) => b \in Blocks
BY BlockCacheAssumption DEF Requests, Accepts, Blocks

\* Every step keeps the invariant and gives no referenced slot to another
\* block.
LEMMA NextIInv ==
  ASSUME IInv, [Next]_vars
  PROVE  IInv' /\ \A s \in CacheSlots : KeepsBlock(s)
<1>1. CASE UNCHANGED vars
  BY <1>1 DEF vars, IInv, TypeOK, Sound, DirtyHeld, Referenced, Holds, KeepsBlock
<1>2. CASE Read
  BY <1>2, AcceptedBlocks, ReadHitIInv, ReadMissIInv DEF Read
<1>3. CASE WriteAny \/ FreeAny
  BY <1>3, AcceptedBlocks, WriteIInv, FreeIInv DEF WriteAny, FreeAny
<1>4. CASE Flush \/ Owners
  BY <1>4, FlushIInv, OwnersIInv DEF Owners
<1> QED BY <1>1, <1>2, <1>3, <1>4 DEF Next

\* The inductive invariant holds throughout.
LEMMA SpecIInv == Spec => []IInv
<1>1. IInv /\ [Next]_vars => IInv'
  BY NextIInv
<1> QED BY InitIInv, <1>1, PTL DEF Spec

-----------------------------------------------------------------------------

\* No call leaves a field of a slot outside its range, ref_count wrapping at
\* its width, and no block number beyond the device ever reaches a slot.  The
\* storage is not kept within what was allocated: block_read's miss stores to
\* memory behind it (Store), which the theorem includes.
THEOREM BlockCacheTypeOK == Spec => []TypeOK
<1>1. IInv => TypeOK
  BY DEF IInv
<1> QED BY SpecIInv, <1>1, PTL

\* block_read and block_write look a block up with different tests and still
\* always meet the same copy: no block is ever in two slots, and a slot holds
\* a block exactly while it is referenced, until a count wraps.
THEOREM BlockCacheConsistent == Spec => []SlotsConsistent
<1>1. IInv => SlotsConsistent
  BY DEF IInv, Sound, SlotsConsistent
<1> QED BY SpecIInv, <1>1, PTL

\* A cached block leaves its slot only through block_free.
THEOREM BlockCacheNeverEvicted == Spec => NeverEvicted
<1>1. IInv /\ [Next]_vars =>
        [\A s \in CacheSlots : Referenced(s) =>
           block_cache'[s].block_num \in {block_cache[s].block_num, NoBlock}]_vars
  BY NextIInv DEF KeepsBlock
<1> QED BY SpecIInv, <1>1, PTL DEF Spec, NeverEvicted
=============================================================================
