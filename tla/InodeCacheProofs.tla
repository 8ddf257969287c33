--------------------------- MODULE InodeCacheProofs -------------------------
(***************************************************************************)
(* Proofs about the inode cache for every size of the cache, any number of *)
(* inodes and direct pointers and any width of the counters.               *)
(***************************************************************************)
EXTENDS InodeCache, TLAPS

\* What a slot of the cache may contain.
Slot == [inode_id : Inodes \cup {NoInode}, data : Data, dirty : BOOLEAN,
         ref_count : 0 .. (UINT_MOD - 1)]

\* SlotsConsistent without its condition.
Sound ==
  \A s \in CacheSlots :
    /\ Referenced(s) <=> inode_cache[s].inode_id # NoInode
    /\ inode_cache[s].dirty => Referenced(s)
    /\ \A r \in CacheSlots \ {s} : Referenced(s) => ~Holds(r, inode_cache[s].inode_id)

\* Every pointer callers have leads to the slot of its inode.
Good == \A p \in given : Hit(p[1], p[2])

\* The inductive invariant.
IInv == TypeOK /\ (~wrapped => Sound /\ Good)

-----------------------------------------------------------------------------

\* 0xFFFFFFFF is no inode, and slot and inode numbers are naturals.
LEMMA InodesAreNat == /\ NoInode \notin Inodes /\ NoInode \in Int
                      /\ Inodes \subseteq Nat /\ CacheSlots \subseteq Nat
BY InodeCacheAssumption DEF Inodes, NoInode, CacheSlots

\* The type invariant in terms of Slot.
LEMMA SlotTyped == TypeOK <=> /\ inode_cache \in [CacheSlots -> Slot]
                              /\ given \subseteq CacheSlots \X Inodes
                              /\ wrapped \in BOOLEAN
BY DEF TypeOK, Slot

\* Counting up or down keeps a count in its width.
LEMMA CountWraps ==
  ASSUME NEW n \in 0 .. (UINT_MOD - 1)
  PROVE  Plus1(n) \in 0 .. (UINT_MOD - 1) /\ Minus1(n) \in 0 .. (UINT_MOD - 1)
BY InodeCacheAssumption DEF Plus1, Minus1

\* 0 and 1 are counts.
LEMMA SmallCounts == /\ 0 \in 0 .. (UINT_MOD - 1) /\ 1 \in 0 .. (UINT_MOD - 1)
                     /\ 1 > 0 /\ ~(0 > 0)
BY InodeCacheAssumption

\* The invariant holds before the first call.
LEMMA InitIInv == Init => IInv
<1> SUFFICES ASSUME Init PROVE IInv
  OBVIOUS
<1> DEFINE e == [inode_id |-> NoInode, data |-> Zeroed, dirty |-> FALSE, ref_count |-> 0]
<1>1. Zeroed \in Data
  BY InodeCacheAssumption DEF Zeroed, Data
<1>2. e \in Slot
  BY <1>1, InodeCacheAssumption DEF Slot
<1>3. /\ inode_cache \in [CacheSlots -> Slot]
      /\ \A s \in CacheSlots : inode_cache[s] = e
  BY <1>2 DEF Init
<1>4. Sound
  BY <1>3 DEF Sound, Referenced, NoInode
<1>5. given = {} /\ wrapped = FALSE
  BY DEF Init
<1>6. TypeOK /\ Good
  BY <1>3, <1>5, SlotTyped DEF Good
<1> QED BY <1>4, <1>6 DEF IInv

\* A call that replaces the contents of one slot keeps the slots sound when
\* the new contents are sound in themselves and the inode is in no other slot.
LEMMA SoundReplaced ==
  ASSUME TypeOK, Sound, NEW s \in CacheSlots, NEW e \in Slot,
         inode_cache' = [inode_cache EXCEPT ![s] = e],
         e.ref_count > 0 <=> e.inode_id # NoInode,
         e.dirty => e.ref_count > 0,
         e.ref_count > 0 => \A r \in CacheSlots \ {s} : ~Holds(r, e.inode_id)
  PROVE  Sound'
<1>1. inode_cache \in [CacheSlots -> Slot]
  BY SlotTyped
<1>2. /\ inode_cache' \in [CacheSlots -> Slot]
      /\ inode_cache'[s] = e
      /\ \A r \in CacheSlots : r # s => inode_cache'[r] = inode_cache[r]
  BY <1>1
<1>3. ASSUME NEW r \in CacheSlots
      PROVE  /\ Referenced(r)' <=> inode_cache'[r].inode_id # NoInode
             /\ inode_cache'[r].dirty => Referenced(r)'
             /\ \A q \in CacheSlots \ {r} :
                  Referenced(r)' => ~Holds(q, inode_cache[r].inode_id)'
  <2>1. CASE r = s
    BY <1>2, <2>1 DEF Referenced, Holds
  <2>2. CASE r # s
    <3>1. /\ Referenced(r) <=> inode_cache[r].inode_id # NoInode
          /\ inode_cache[r].dirty => Referenced(r)
          /\ \A q \in CacheSlots \ {r} : Referenced(r) => ~Holds(q, inode_cache[r].inode_id)
      BY DEF Sound
    <3>2. Referenced(r)' <=> Referenced(r)
      BY <1>2, <2>2 DEF Referenced
    <3>3. ASSUME Referenced(r), NEW q \in CacheSlots \ {r}
          PROVE  ~Holds(q, inode_cache[r].inode_id)'
      <4>1. CASE q = s
        <5>1. e.ref_count > 0 => e.inode_id # inode_cache[r].inode_id
          BY <2>2 DEF Holds
        <5>2. e.inode_id # inode_cache[r].inode_id
          BY <3>1, <3>3, <5>1
        <5> QED BY <1>2, <2>2, <4>1, <5>2 DEF Holds
      <4>2. CASE q # s
        BY <1>2, <2>2, <3>1, <3>3, <4>2 DEF Holds
      <4> QED BY <4>1, <4>2
    <3> QED BY <1>2, <2>2, <3>1, <3>2, <3>3
  <2> QED BY <2>1, <2>2
<1> QED BY <1>3 DEF Sound

\* A pointer stays good when its slot is left alone, or keeps its inode and
\* stays referenced.
LEMMA PointerKept ==
  ASSUME TypeOK, Good, NEW s \in CacheSlots, NEW e \in Slot,
         inode_cache' = [inode_cache EXCEPT ![s] = e],
         NEW p \in given,
         p[1] = s => e.inode_id = p[2] /\ e.ref_count > 0
  PROVE  Hit(p[1], p[2])'
<1>1. inode_cache \in [CacheSlots -> Slot] /\ p[1] \in CacheSlots
  BY SlotTyped
<1>2. Hit(p[1], p[2])
  BY DEF Good
<1>3. CASE p[1] = s
  BY <1>1, <1>3 DEF Hit, Holds, Referenced
<1>4. CASE p[1] # s
  BY <1>1, <1>2, <1>4 DEF Hit, Holds, Referenced
<1> QED BY <1>3, <1>4

\* The slot inode_read returns: it is of that inode, and referenced unless the
\* count came back to 0.
LEMMA EnteredSlot ==
  ASSUME TypeOK, NEW s \in CacheSlots, NEW id \in Inodes, inode_read(s, id)
  PROVE  \E e \in Slot :
           /\ Entered(s, id) = [inode_cache EXCEPT ![s] = e]
           /\ e.inode_id = id /\ id # NoInode
           /\ wrapped' = (wrapped \/ e.ref_count = 0)
           /\ e.data = inode_cache[s].data
<1>1. inode_cache \in [CacheSlots -> Slot] /\ inode_cache[s] \in Slot
  BY SlotTyped
<1>2. id # NoInode
  BY InodesAreNat
<1>3. wrapped' = (wrapped \/ Entered(s, id)[s].ref_count = 0)
  BY DEF inode_read
<1>4. CASE Hit(s, id)
  <2> DEFINE n == Plus1(inode_cache[s].ref_count)
             e == [inode_cache[s] EXCEPT !.ref_count = n]
  <2>1. Entered(s, id) = [inode_cache EXCEPT ![s] = e]
    BY <1>1, <1>4 DEF Entered
  <2>2. n \in 0 .. (UINT_MOD - 1)
    BY <1>1, CountWraps DEF Slot
  <2> HIDE DEF n
  <2>3. /\ e \in Slot /\ e.inode_id = inode_cache[s].inode_id
        /\ e.data = inode_cache[s].data
    BY <1>1, <2>2 DEF Slot
  <2>4. e.inode_id = id
    BY <1>4, <2>3 DEF Hit, Holds
  <2> HIDE DEF e
  <2>5. Entered(s, id)[s] = e
    BY <1>1, <2>1
  <2> QED BY <1>2, <1>3, <2>1, <2>3, <2>4, <2>5
<1>5. CASE ~Hit(s, id)
  <2> DEFINE e == [inode_cache[s] EXCEPT !.inode_id = id, !.ref_count = 1, !.dirty = FALSE]
  <2>1. Entered(s, id) = [inode_cache EXCEPT ![s] = e]
    BY <1>1, <1>5 DEF Entered
  <2>2. 1 \in 0 .. (UINT_MOD - 1) /\ FALSE \in BOOLEAN
    BY SmallCounts
  <2>3. e \in Slot /\ e.inode_id = id /\ e.data = inode_cache[s].data
    BY <1>1, <2>2 DEF Slot
  <2> HIDE DEF e
  <2>4. Entered(s, id)[s] = e
    BY <1>1, <2>1
  <2> QED BY <1>2, <1>3, <2>1, <2>3, <2>4
<1> QED BY <1>4, <1>5

\* While the slots are sound it is the only slot of its inode, and was so
\* before or was not referenced.
LEMMA ReadSlot ==
  ASSUME Sound, NEW s \in CacheSlots, NEW id \in Inodes, inode_read(s, id)
  PROVE  /\ \A r \in CacheSlots \ {s} : ~Holds(r, id)
         /\ Referenced(s) => Holds(s, id)
<1>1. id # NoInode
  BY InodesAreNat
<1>2. CASE Hit(s, id)
  BY <1>2 DEF Hit, Holds, Sound
<1>3. CASE ~Hit(s, id)
  <2>1. Missed(s, id)
    BY <1>3 DEF inode_read, Found, First
  <2> QED BY <1>1, <2>1 DEF Missed, First, Vacant, Hit, Holds, Sound
<1> QED BY <1>2, <1>3

\* inode_read, followed by a change of the data it points to; the caller may
\* or may not get the pointer.
LEMMA ReadThenChange ==
  ASSUME IInv, NEW s \in CacheSlots, NEW id \in Inodes, inode_read(s, id),
         NEW data \in Data,
         inode_cache' = [Entered(s, id) EXCEPT ![s].data = data],
         given' = given \/ given' = given \cup {<<s, id>>}
  PROVE  IInv'
<1>1. PICK e \in Slot :
        /\ Entered(s, id) = [inode_cache EXCEPT ![s] = e]
        /\ e.inode_id = id /\ id # NoInode
        /\ wrapped' = (wrapped \/ e.ref_count = 0)
  BY EnteredSlot DEF IInv
<1> DEFINE f == [e EXCEPT !.data = data]
<1>2. inode_cache \in [CacheSlots -> Slot] /\ given \subseteq CacheSlots \X Inodes
  BY SlotTyped DEF IInv
<1>3. inode_cache' = [inode_cache EXCEPT ![s] = f]
  BY <1>1, <1>2
<1>4. /\ f \in Slot /\ f.inode_id = id /\ f.ref_count = e.ref_count
      /\ f.ref_count \in 0 .. (UINT_MOD - 1)
  BY <1>1 DEF Slot
<1> HIDE DEF f
<1>5. TypeOK'
  <2>1. inode_cache' \in [CacheSlots -> Slot] /\ wrapped' \in BOOLEAN
    BY <1>1, <1>2, <1>3, <1>4
  <2>2. given' \subseteq CacheSlots \X Inodes
    BY <1>2
  <2> QED BY <2>1, <2>2 DEF TypeOK, Slot
<1>6. ASSUME ~wrapped' PROVE Sound' /\ Good'
  <2>1. Sound /\ Good /\ TypeOK
    BY <1>1, <1>6 DEF IInv
  <2>2. f.ref_count > 0
    <3>1. f.ref_count # 0
      BY <1>1, <1>4, <1>6
    <3> QED BY <1>4, <3>1
  <2>3. /\ \A r \in CacheSlots \ {s} : ~Holds(r, f.inode_id)
        /\ Referenced(s) => Holds(s, id)
    BY <1>4, <2>1, ReadSlot
  <2>4. Sound'
    BY <1>1, <1>3, <1>4, <2>1, <2>2, <2>3, SoundReplaced
  <2>5. ASSUME NEW p \in given PROVE Hit(p[1], p[2])'
    <3>1. p[1] = s => p[2] = id
      BY <2>1, <2>3 DEF Good, Hit, Holds
    <3> QED BY <1>3, <1>4, <2>1, <2>2, <3>1, PointerKept
  <2>6. Hit(s, id)'
    BY <1>2, <1>3, <1>4, <2>2 DEF Hit, Holds, Referenced
  <2>7. ASSUME NEW p \in given' PROVE Hit(p[1], p[2])'
    <3>1. CASE p \in given
      BY <2>5, <3>1
    <3>2. CASE p = <<s, id>>
      BY <2>6, <3>2
    <3> QED BY <2>7, <3>1, <3>2
  <2>8. Good'
    BY <2>7 DEF Good
  <2> QED BY <2>4, <2>8
<1> QED BY <1>5, <1>6 DEF IInv

\* inode_read, and nothing else.
LEMMA ReadOnly ==
  ASSUME IInv, NEW s \in CacheSlots, NEW id \in Inodes, inode_read(s, id),
         inode_cache' = Entered(s, id),
         given' = given \/ given' = given \cup {<<s, id>>}
  PROVE  IInv'
<1>1. PICK e \in Slot : /\ Entered(s, id) = [inode_cache EXCEPT ![s] = e]
                        /\ e.data = inode_cache[s].data
  BY EnteredSlot DEF IInv
<1>2. inode_cache \in [CacheSlots -> Slot]
  BY SlotTyped DEF IInv
<1>3. e.data \in Data /\ [e EXCEPT !.data = e.data] = e
  BY DEF Slot
<1>4. inode_cache' = [Entered(s, id) EXCEPT ![s].data = e.data]
  BY <1>1, <1>2, <1>3
<1> QED BY <1>3, <1>4, ReadThenChange

\* The data of a slot with one pointer and the count changed.
LEMMA DataChanged ==
  ASSUME NEW old \in Data, NEW d \in Direct, NEW b \in BlockNums \cup {NoBlock},
         NEW n \in 0 .. (UINT_MOD - 1)
  PROVE  [old EXCEPT !.direct_blocks[d] = b, !.block_count = n] \in Data
BY DEF Data

\* inode_add_block and inode_remove_block when they find their pointer.
LEMMA PointerIInv ==
  ASSUME IInv, NEW id \in Inodes, NEW b \in BlockNums, AddBlock(id, b) \/ RemoveBlock(id, b)
  PROVE  IInv'
<1>0. inode_cache \in [CacheSlots -> Slot]
  BY SlotTyped DEF IInv
<1>1. PICK s \in CacheSlots, d \in Direct, c \in BlockNums \cup {NoBlock} :
        /\ inode_read(s, id)
        /\ given' = given
        /\ \/ inode_cache' = [Entered(s, id) EXCEPT
                                ![s].data.direct_blocks[d] = c,
                                ![s].data.block_count = Plus1(@)]
           \/ inode_cache' = [Entered(s, id) EXCEPT
                                ![s].data.direct_blocks[d] = c,
                                ![s].data.block_count = Minus1(@)]
  BY DEF AddBlock, RemoveBlock
<1>2. PICK e \in Slot : /\ Entered(s, id) = [inode_cache EXCEPT ![s] = e]
                        /\ e.data = inode_cache[s].data
  BY <1>1, EnteredSlot DEF IInv
<1>3. /\ e.data \in Data /\ e.data.block_count \in 0 .. (UINT_MOD - 1)
      /\ Entered(s, id) \in [CacheSlots -> Slot] /\ Entered(s, id)[s] = e
  BY <1>0, <1>2 DEF Slot, Data
<1>4. PICK n \in 0 .. (UINT_MOD - 1) :
        inode_cache' = [Entered(s, id) EXCEPT ![s].data.direct_blocks[d] = c,
                                              ![s].data.block_count = n]
  BY <1>1, <1>3, CountWraps
<1> DEFINE data == [e.data EXCEPT !.direct_blocks[d] = c, !.block_count = n]
<1>5. data \in Data
  BY <1>3, DataChanged
<1>6. inode_cache' = [Entered(s, id) EXCEPT ![s].data = data]
  BY <1>3, <1>4
<1> HIDE DEF data
<1> QED BY <1>1, <1>5, <1>6, ReadThenChange

\* inode_write stores into the slot the inode has.
LEMMA WriteIInv ==
  ASSUME IInv, NEW id \in Inodes, Write(id)
  PROVE  IInv'
<1>1. PICK s \in CacheSlots :
        /\ Holds(s, id)
        /\ inode_cache' = [inode_cache EXCEPT ![s].data = Blank, ![s].dirty = TRUE]
        /\ given' = given /\ wrapped' = wrapped
  BY DEF Write, First
<1> DEFINE e == [inode_cache[s] EXCEPT !.data = Blank, !.dirty = TRUE]
<1>2. inode_cache \in [CacheSlots -> Slot] /\ inode_cache[s] \in Slot
  BY SlotTyped DEF IInv
<1>3. inode_cache' = [inode_cache EXCEPT ![s] = e]
  BY <1>1, <1>2
<1>4. Blank \in Data
  BY InodeCacheAssumption DEF Blank, Data
<1>5. /\ e \in Slot /\ e.inode_id = inode_cache[s].inode_id
      /\ e.ref_count = inode_cache[s].ref_count
  BY <1>2, <1>4 DEF Slot
<1> HIDE DEF e
<1>6. TypeOK'
  <2>1. inode_cache' \in [CacheSlots -> Slot]
    BY <1>2, <1>3, <1>5
  <2> QED BY <1>1, <2>1, SlotTyped DEF IInv, TypeOK, Slot
<1>7. ASSUME ~wrapped' PROVE Sound' /\ Good'
  <2>1. Sound /\ Good /\ TypeOK
    BY <1>1, <1>7 DEF IInv
  <2>2. Referenced(s) /\ id # NoInode /\ \A r \in CacheSlots \ {s} : ~Holds(r, id)
    BY <1>1, <2>1, InodesAreNat DEF Holds, Sound
  <2>3. e.ref_count > 0 /\ e.inode_id = id
    BY <1>1, <1>5, <2>2 DEF Holds, Referenced
  <2>4. Sound'
    BY <1>3, <1>5, <2>1, <2>2, <2>3, SoundReplaced
  <2>5. ASSUME NEW p \in given PROVE Hit(p[1], p[2])'
    <3>1. p[1] = s => e.inode_id = p[2]
      BY <1>5, <2>1 DEF Good, Hit, Holds
    <3> QED BY <1>3, <1>5, <2>1, <2>3, <3>1, PointerKept
  <2> QED BY <1>1, <2>4, <2>5 DEF Good
<1> QED BY <1>6, <1>7 DEF IInv

\* inode_delete: the pointers to the inode go with it.
LEMMA DeleteIInv ==
  ASSUME IInv, NEW id \in Inodes, Delete(id)
  PROVE  IInv'
<1>1. PICK s \in CacheSlots : /\ Holds(s, id)
                              /\ inode_cache' = [inode_cache EXCEPT ![s] = Dropped(@)]
  BY DEF Delete, First
<1>0. given' = {p \in given : p[2] # id} /\ wrapped' = wrapped
  BY DEF Delete
<1> DEFINE e == Dropped(inode_cache[s])
<1>2. inode_cache \in [CacheSlots -> Slot] /\ inode_cache[s] \in Slot
  BY SlotTyped DEF IInv
<1>3. inode_cache' = [inode_cache EXCEPT ![s] = e]
  BY <1>1, <1>2
<1>4. 0 \in 0 .. (UINT_MOD - 1) /\ FALSE \in BOOLEAN
  BY SmallCounts
<1>5. e \in Slot /\ e.ref_count = 0 /\ e.inode_id = NoInode /\ ~e.dirty
  BY <1>2, <1>4 DEF Dropped, Slot
<1> HIDE DEF e
<1>6. ~(e.ref_count > 0)
  BY <1>5
<1>7. TypeOK'
  <2>1. inode_cache' \in [CacheSlots -> Slot]
    BY <1>2, <1>3, <1>5
  <2> QED BY <1>0, <2>1, SlotTyped DEF IInv, TypeOK, Slot
<1>8. ASSUME ~wrapped' PROVE Sound' /\ Good'
  <2>1. Sound /\ Good /\ TypeOK
    BY <1>0, <1>8 DEF IInv
  <2>2. Sound'
    BY <1>3, <1>5, <1>6, <2>1, SoundReplaced
  <2>3. ASSUME NEW p \in given, p[2] # id PROVE Hit(p[1], p[2])'
    <3>1. p[1] # s
      BY <1>1, <2>1, <2>3 DEF Good, Hit, Holds
    <3> QED BY <1>3, <1>5, <2>1, <3>1, PointerKept
  <2> QED BY <1>0, <2>2, <2>3 DEF Good
<1> QED BY <1>7, <1>8 DEF IInv

\* inode_cache_flush.
LEMMA FlushIInv ==
  ASSUME IInv, Flush
  PROVE  IInv'
<1>1. inode_cache \in [CacheSlots -> Slot] /\ given \subseteq CacheSlots \X Inodes
  BY SlotTyped DEF IInv
<1>2. ASSUME NEW s \in CacheSlots
      PROVE  /\ inode_cache'[s] \in Slot
             /\ inode_cache'[s].inode_id = inode_cache[s].inode_id
             /\ inode_cache'[s].ref_count = inode_cache[s].ref_count
             /\ ~inode_cache'[s].dirty
  <2>1. inode_cache[s] \in Slot /\ inode_cache'[s] = [inode_cache[s] EXCEPT !.dirty = FALSE]
    BY <1>1 DEF Flush
  <2>2. FALSE \in BOOLEAN
    OBVIOUS
  <2> QED BY <2>1, <2>2 DEF Slot
<1>3. given' = given /\ wrapped' = wrapped
  BY DEF Flush
<1>4. inode_cache' \in [CacheSlots -> Slot]
  BY <1>2 DEF Flush
<1>5. TypeOK'
  BY <1>3, <1>4 DEF IInv, TypeOK, Slot
<1>6. Sound => Sound'
  BY <1>2 DEF Sound, Referenced, Holds
<1>7. Good => Good'
  <2> SUFFICES ASSUME Good, NEW p \in given PROVE Hit(p[1], p[2])'
    BY <1>3 DEF Good
  <2>1. p[1] \in CacheSlots /\ Hit(p[1], p[2])
    BY <1>1 DEF Good
  <2> QED BY <1>2, <2>1 DEF Hit, Holds, Referenced
<1> QED BY <1>3, <1>5, <1>6, <1>7 DEF IInv

\* Every step keeps the invariant.
LEMMA NextIInv == IInv /\ [Next]_vars => IInv'
<1> SUFFICES ASSUME IInv, [Next]_vars PROVE IInv'
  OBVIOUS
<1>1. CASE UNCHANGED vars
  BY <1>1 DEF vars, IInv, TypeOK, Sound, Good, Hit, Referenced, Holds
<1>2. CASE Flush
  BY <1>2, FlushIInv
<1>3. ASSUME NEW id \in Inodes, Write(id) \/ Delete(id)
      PROVE  IInv'
  BY <1>3, WriteIInv, DeleteIInv
<1>4. ASSUME NEW id \in Inodes, NEW b \in BlockNums, RemoveMissed(id, b)
      PROVE  IInv'
  BY <1>4, ReadOnly DEF RemoveMissed
<1>5. ASSUME NEW id \in Inodes, Read(id) \/ AddRefused(id)
      PROVE  IInv'
  BY <1>5, ReadOnly DEF Read, AddRefused
<1> QED BY <1>1, <1>2, <1>3, <1>4, <1>5, PointerIInv DEF Next

\* The inductive invariant holds throughout.
LEMMA SpecIInv == Spec => []IInv
BY InitIInv, NextIInv, PTL DEF Spec

-----------------------------------------------------------------------------

\* No call leaves a field of a slot outside its range; ref_count, and
\* block_count, which inode_remove_block may take below zero, wrap at their
\* width.
THEOREM InodeCacheTypeOK == Spec => []TypeOK
<1>1. IInv => TypeOK
  BY DEF IInv
<1> QED BY SpecIInv, <1>1, PTL

\* inode_read and inode_write look an inode up with different tests and still
\* always meet the same copy: no inode is ever in two slots, and a slot holds
\* an inode exactly while it is referenced, until a count wraps.
THEOREM InodeCacheConsistent == Spec => []SlotsConsistent
<1>1. IInv => SlotsConsistent
  BY DEF IInv, Sound, SlotsConsistent
<1> QED BY SpecIInv, <1>1, PTL

\* A pointer inode_read returned for an inode not deleted since leads to the
\* slot where later calls find that inode, and all its readers share it, until
\* a count wraps.
THEOREM InodeCachePointersGood == Spec => []PointersGood
<1>1. ASSUME IInv, ~wrapped, NEW p \in given, NEW q \in given, q[2] = p[2]
      PROVE  q[1] = p[1]
  <2>1. p[1] \in CacheSlots /\ q[1] \in CacheSlots
    BY <1>1, SlotTyped DEF IInv
  <2>2. Hit(p[1], p[2]) /\ Hit(q[1], p[2])
    BY <1>1 DEF IInv, Good
  <2> QED BY <1>1, <2>1, <2>2 DEF IInv, Sound, Hit, Holds
<1>2. IInv => PointersGood
  BY <1>1 DEF IInv, Good, PointersGood
<1> QED BY SpecIInv, <1>2, PTL
=============================================================================
