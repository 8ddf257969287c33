----------------------------- MODULE InodeCache -----------------------------
(***************************************************************************)
(* The inode cache of src/src/kernel/fs/inode.c.                           *)
(*                                                                         *)
(* Of an inode's data the model keeps direct_blocks and block_count.       *)
(* inode_create only makes a value (Blank) for inode_write to store, and   *)
(* inode_lookup is inode_read.  The cache has no disk behind it: a miss    *)
(* hands out whatever the slot contains, and a flush only clears dirty.    *)
(***************************************************************************)
EXTENDS Integers

CONSTANTS
  INODE_CACHE_SIZE,
  FS_MAX_INODES,
  DIRECT,       \* the number of direct block pointers, 12 in the code
  BlockNums,    \* the blocks callers add and remove
  UINT_MOD      \* block_count and ref_count are counted modulo this (2^32)

ASSUME InodeCacheAssumption ==
  /\ INODE_CACHE_SIZE \in Nat \ {0}
  /\ FS_MAX_INODES \in Nat \ {0}
  /\ DIRECT \in Nat \ {0}
  /\ BlockNums \subseteq Nat
  /\ UINT_MOD \in Nat /\ UINT_MOD > DIRECT

VARIABLES
  inode_cache,
  given,        \* ghost: <<s, id>> when a caller has the pointer to slot s that
                \* inode_read(id) returned, and id was not deleted since
  wrapped       \* ghost: some ref_count was counted up to 0

vars == <<inode_cache, given, wrapped>>

CacheSlots == 0 .. (INODE_CACHE_SIZE - 1)

Inodes == 0 .. (FS_MAX_INODES - 1)

NoInode == -1     \* 0xFFFFFFFF as an inode id

NoBlock == -1     \* 0xFFFFFFFF as a block number

Direct == 1 .. DIRECT

\* The static array before its first use.
Zeroed == [direct_blocks |-> [i \in Direct |-> 0], block_count |-> 0]

\* What inode_create returns.
Blank == [direct_blocks |-> [i \in Direct |-> NoBlock], block_count |-> 0]

Init ==
  /\ inode_cache = [s \in CacheSlots |-> [inode_id |-> NoInode, data |-> Zeroed,
                                          dirty |-> FALSE, ref_count |-> 0]]
  /\ given = {}
  /\ wrapped = FALSE

-----------------------------------------------------------------------------
First(s, P(_)) == P(s) /\ \A r \in CacheSlots : r < s => ~P(r)

Holds(s, id) == inode_cache[s].inode_id = id

Referenced(s) == inode_cache[s].ref_count > 0

\* Mutant of Vacant: a clean slot may be taken although it is in use.
CleanSlot(s) == ~inode_cache[s].dirty

Vacant(s) == ~Referenced(s)

Hit(s, id) == Holds(s, id) /\ Referenced(s)

\* ref_count++ on an unsigned counter; block_count++ too.
Plus1(n) == (n + 1) % UINT_MOD

\* inode_read(id) returning the data of slot s, and the cache it leaves
\* behind.  With every slot in use it returns NULL and nothing changes.
Found(s, id) == First(s, LAMBDA r : Hit(r, id))

Missed(s, id) == (\A r \in CacheSlots : ~Hit(r, id)) /\ First(s, Vacant)

Entered(s, id) ==
  IF Hit(s, id)
  THEN [inode_cache EXCEPT ![s].ref_count = Plus1(@)]
  ELSE [inode_cache EXCEPT ![s].inode_id = id, ![s].ref_count = 1, ![s].dirty = FALSE]

inode_read(s, id) ==
  /\ Found(s, id) \/ Missed(s, id)
  /\ wrapped' = (wrapped \/ Entered(s, id)[s].ref_count = 0)

Read(id) ==
  \E s \in CacheSlots :
    /\ inode_read(s, id)
    /\ inode_cache' = Entered(s, id)
    /\ given' = given \cup {<<s, id>>}

\* inode_write(id, inode_create(..)); without a slot for id it returns -1.
Write(id) ==
  \E s \in CacheSlots :
    /\ First(s, LAMBDA r : Holds(r, id))
    /\ inode_cache' = [inode_cache EXCEPT ![s].data = Blank, ![s].dirty = TRUE]
    /\ UNCHANGED <<given, wrapped>>

\* Mutant of Dropped: the slot keeps its inode number.
DroppedKeepsInode(e) == [e EXCEPT !.ref_count = 0, !.dirty = FALSE]

Dropped(e) == [e EXCEPT !.inode_id = NoInode, !.ref_count = 0, !.dirty = FALSE]

\* inode_delete(id): the slot is free at once, whoever has a pointer to it.
Delete(id) ==
  \E s \in CacheSlots :
    /\ First(s, LAMBDA r : Holds(r, id))
    /\ inode_cache' = [inode_cache EXCEPT ![s] = Dropped(@)]
    /\ given' = {p \in given : p[2] # id}
    /\ UNCHANGED wrapped

Flush ==
  /\ inode_cache' = [s \in CacheSlots |-> [inode_cache[s] EXCEPT !.dirty = FALSE]]
  /\ UNCHANGED <<given, wrapped>>

\* The pointer d in which the search for block number b stops, if any.
PointerTo(data, d, b) ==
  /\ data.direct_blocks[d] = b
  /\ \A e \in Direct : e < d => data.direct_blocks[e] # b

\* inode_add_block: into the first pointer that is 0xFFFFFFFF.
AddBlock(id, b) ==
  \E s \in CacheSlots, d \in Direct :
    /\ PointerTo(inode_cache[s].data, d, NoBlock)
    /\ inode_read(s, id)
    /\ inode_cache' = [Entered(s, id) EXCEPT
                         ![s].data.direct_blocks[d] = b,
                         ![s].data.block_count = Plus1(@)]
    /\ UNCHANGED given

\* inode_add_block with no such pointer: only the read has happened.
AddRefused(id) ==
  \E s \in CacheSlots :
    /\ \A d \in Direct : inode_cache[s].data.direct_blocks[d] # NoBlock
    /\ inode_read(s, id)
    /\ inode_cache' = Entered(s, id)
    /\ UNCHANGED given

\* Mutant of Minus1: block_count goes below zero.
Minus1Signed(n) == n - 1

\* block_count-- on an unsigned counter.
Minus1(n) == (n + UINT_MOD - 1) % UINT_MOD

\* inode_remove_block; when no pointer matches, only the read has happened.
RemoveBlock(id, b) ==
  \E s \in CacheSlots, d \in Direct :
    /\ PointerTo(inode_cache[s].data, d, b)
    /\ inode_read(s, id)
    /\ inode_cache' = [Entered(s, id) EXCEPT
                         ![s].data.direct_blocks[d] = NoBlock,
                         ![s].data.block_count = Minus1(@)]
    /\ UNCHANGED given

RemoveMissed(id, b) ==
  \E s \in CacheSlots :
    /\ \A d \in Direct : inode_cache[s].data.direct_blocks[d] # b
    /\ inode_read(s, id)
    /\ inode_cache' = Entered(s, id)
    /\ UNCHANGED given

Next ==
  \/ Flush
  \/ \E id \in Inodes :
       \/ Read(id) \/ Write(id) \/ Delete(id) \/ AddRefused(id)
       \/ \E b \in BlockNums : AddBlock(id, b) \/ RemoveBlock(id, b) \/ RemoveMissed(id, b)

Spec == Init /\ [][Next]_vars

-----------------------------------------------------------------------------
(***************************************************************************)
(* Properties                                                              *)
(***************************************************************************)
Data == [direct_blocks : [Direct -> BlockNums \cup {0, NoBlock}],
         block_count : 0 .. (UINT_MOD - 1)]

TypeOK ==
  /\ inode_cache \in [CacheSlots -> [inode_id : Inodes \cup {NoInode}, data : Data,
                                     dirty : BOOLEAN, ref_count : 0 .. (UINT_MOD - 1)]]
  /\ given \subseteq CacheSlots \X Inodes
  /\ wrapped \in BOOLEAN

\* A slot holds an inode exactly while it is referenced, only such a slot is
\* dirty, and no inode is in two slots: the read and the write, which look for
\* it with different tests, always meet the same copy.  All of it holds until
\* a ref_count has wrapped; only inode_delete takes a count down, so 2^32
\* reads of one inode suffice for that.
SlotsConsistent ==
  ~wrapped =>
    \A s \in CacheSlots :
      /\ Referenced(s) <=> inode_cache[s].inode_id # NoInode
      /\ inode_cache[s].dirty => Referenced(s)
      /\ \A r \in CacheSlots \ {s} : Referenced(s) => ~Holds(r, inode_cache[s].inode_id)

\* A pointer inode_read returned for an inode that was not deleted since points
\* to the slot in which every later call finds that inode, and all its readers
\* have the same pointer.  A pointer from before an inode_delete is not
\* covered, and is not good: the slot goes to the next inode read.
PointersGood ==
  ~wrapped =>
    \A p \in given :
      /\ Hit(p[1], p[2])
      /\ \A q \in given : q[2] = p[2] => q[1] = p[1]
=============================================================================
