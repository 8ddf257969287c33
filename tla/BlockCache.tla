----------------------------- MODULE BlockCache -----------------------------
(***************************************************************************)
(* The block cache of src/src/kernel/fs/block.c over its backing storage.  *)
(*                                                                         *)
(* lib.h declares memcpy(From, To, Num): it copies its first argument into *)
(* its second.  block.c passes the destination first, so each of its       *)
(* copies runs against the intended direction, and the model has them so.  *)
(*                                                                         *)
(* A block's contents are one token.  Only STORAGE_BLOCKS blocks are       *)
(* allocated at block_storage, but the pointer is indexed with any block   *)
(* number block_read accepts: block_storage is the memory from there on,   *)
(* and its blocks from STORAGE_BLOCKS on belong to somebody else.  A miss  *)
(* overwrites them all the same, and their owners overwrite what a miss    *)
(* left there (OwnersStore).  block_allocate has no effect and always      *)
(* returns 0; block_clear is block_write of a block of zeros.              *)
(***************************************************************************)
EXTENDS Integers

CONSTANTS
  BLOCK_CACHE_SIZE,
  FS_MAX_BLOCKS,
  STORAGE_BLOCKS,
  Contents,     \* what callers have in their buffers
  UINT_MOD      \* ref_count is counted modulo this (2^32)

ASSUME BlockCacheAssumption ==
  /\ BLOCK_CACHE_SIZE \in Nat \ {0}
  /\ FS_MAX_BLOCKS \in Nat \ {0}
  /\ STORAGE_BLOCKS \in 1 .. FS_MAX_BLOCKS
  /\ UINT_MOD \in Nat \ {0, 1}

VARIABLES
  block_cache,
  block_storage,
  wrapped       \* ghost: some ref_count was counted up to 0

vars == <<block_cache, block_storage, wrapped>>

CacheSlots == 0 .. (BLOCK_CACHE_SIZE - 1)

Blocks == 0 .. (FS_MAX_BLOCKS - 1)

NoBlock == -1    \* 0xFFFFFFFF

EmptySlot == [block_num |-> NoBlock, data |-> "zero", dirty |-> FALSE, ref_count |-> 0]

\* After a block_cache_init whose allocation succeeded; malloc clears nothing.
Init ==
  /\ block_cache = [s \in CacheSlots |-> EmptySlot]
  /\ block_storage = [b \in Blocks |-> "junk"]
  /\ wrapped = FALSE

-----------------------------------------------------------------------------
\* The block numbers callers pass, one past the last included.
Requests == 0 .. FS_MAX_BLOCKS

\* Mutant of Accepts: block_num > FS_MAX_BLOCKS for >=.
AcceptsLast(b) == b <= FS_MAX_BLOCKS

\* The test every call begins with; a call it refuses changes nothing.
Accepts(b) == b < FS_MAX_BLOCKS

\* The block of memory at block_storage + b * FS_BLOCK_SIZE.
Stored(b) == block_storage[b]

\* A copy to that address; nothing tests whether it is inside the storage.
Store(b, d) == [block_storage EXCEPT ![b] = d]

\* ref_count++ on an unsigned counter.
Plus1(n) == (n + 1) % UINT_MOD

First(s, P(_)) == P(s) /\ \A r \in CacheSlots : r < s => ~P(r)

Holds(s, b) == block_cache[s].block_num = b

Referenced(s) == block_cache[s].ref_count > 0

Hit(b) == \E s \in CacheSlots : Holds(s, b) /\ Referenced(s)

\* Mutant of Vacant: a slot in use may be taken.
CleanSlot(s) == ~block_cache[s].dirty

Vacant(s) == ~Referenced(s)

\* block_read(b, buffer) with d in the buffer, block b cached.
\* memcpy(buffer, &data): the buffer goes into the cache.
ReadHit(b, d) ==
  /\ \E s \in CacheSlots :
       /\ First(s, LAMBDA r : Holds(r, b) /\ Referenced(r))
       /\ block_cache' = [block_cache EXCEPT ![s].data = d, ![s].ref_count = Plus1(@)]
       /\ wrapped' = (wrapped \/ Plus1(block_cache[s].ref_count) = 0)
  /\ UNCHANGED block_storage

\* block_read(b, buffer) that loads the block: memcpy(&data, src) and then
\* memcpy(buffer, &data).
ReadMiss(b, d) ==
  /\ ~Hit(b)
  /\ \E s \in CacheSlots :
       /\ First(s, Vacant)
       /\ block_storage' = Store(b, block_cache[s].data)
       /\ block_cache' = [block_cache EXCEPT ![s] =
                            [block_num |-> b, data |-> d, dirty |-> FALSE, ref_count |-> 1]]
  /\ UNCHANGED wrapped

\* block_write(b, buffer), into the slot that holds b or else an unreferenced
\* one.  memcpy(&data, buffer): the cache goes into the buffer, and what the
\* caller had there goes nowhere.
Write(b) ==
  /\ \E s \in CacheSlots :
       /\ IF \E r \in CacheSlots : Holds(r, b)
          THEN First(s, LAMBDA r : Holds(r, b))
          ELSE First(s, Vacant)
       /\ block_cache' = [block_cache EXCEPT ![s].block_num = b, ![s].dirty = TRUE,
                                             ![s].ref_count = Plus1(@)]
       /\ wrapped' = (wrapped \/ Plus1(block_cache[s].ref_count) = 0)
  /\ UNCHANGED block_storage

\* Mutant of Dropped: the slot keeps its block number.
DroppedKeepsBlock(e) == [e EXCEPT !.ref_count = 0, !.dirty = FALSE]

Dropped(e) == [e EXCEPT !.block_num = NoBlock, !.ref_count = 0, !.dirty = FALSE]

\* block_free(b); without a slot for b nothing changes.
Free(b) ==
  /\ \E s \in CacheSlots :
       /\ First(s, LAMBDA r : Holds(r, b))
       /\ block_cache' = [block_cache EXCEPT ![s] = Dropped(@)]
  /\ UNCHANGED <<block_storage, wrapped>>

\* block_cache_flush: memcpy(dst, &data) brings the storage into the cache.
Flush ==
  /\ block_cache' = [s \in CacheSlots |->
                       IF block_cache[s].dirty
                       THEN [block_cache[s] EXCEPT !.data = Stored(block_cache[s].block_num),
                                                   !.dirty = FALSE]
                       ELSE block_cache[s]]
  /\ UNCHANGED <<block_storage, wrapped>>

\* The owner of a block of memory behind the storage stores into it.
OwnersStore(b) ==
  /\ b \in STORAGE_BLOCKS .. (FS_MAX_BLOCKS - 1)
  /\ block_storage' = Store(b, "junk")
  /\ UNCHANGED <<block_cache, wrapped>>

Read == \E b \in Requests, d \in Contents : Accepts(b) /\ (ReadHit(b, d) \/ ReadMiss(b, d))

WriteAny == \E b \in Requests : Accepts(b) /\ Write(b)

FreeAny == \E b \in Requests : Accepts(b) /\ Free(b)

Owners == \E b \in Blocks : OwnersStore(b)

Next == Read \/ WriteAny \/ FreeAny \/ Flush \/ Owners

Spec == Init /\ [][Next]_vars

-----------------------------------------------------------------------------
(***************************************************************************)
(* Properties                                                              *)
(***************************************************************************)
Tokens == Contents \cup {"zero", "junk"}

TypeOK ==
  /\ block_cache \in [CacheSlots -> [block_num : Blocks \cup {NoBlock}, data : Tokens,
                                     dirty : BOOLEAN, ref_count : 0 .. (UINT_MOD - 1)]]
  /\ block_storage \in [Blocks -> Tokens]
  /\ wrapped \in BOOLEAN

\* A slot holds a block exactly while it is referenced, only such a slot is
\* dirty, and no block is in two slots: the read and the write, which look for
\* it with different tests, always meet the same copy.  All of it holds until
\* a ref_count has wrapped; nothing counts down, so 2^32 reads and writes
\* of one block suffice for that, and from then on the block can be in two
\* slots.
SlotsConsistent ==
  ~wrapped =>
    \A s \in CacheSlots :
      /\ Referenced(s) <=> block_cache[s].block_num # NoBlock
      /\ block_cache[s].dirty => Referenced(s)
      /\ \A r \in CacheSlots \ {s} : Referenced(s) => ~Holds(r, block_cache[s].block_num)

\* A cached block leaves the cache only when it is freed.
NeverEvicted ==
  [][\A s \in CacheSlots : Referenced(s) =>
       block_cache'[s].block_num \in {block_cache[s].block_num, NoBlock}]_vars
=============================================================================
