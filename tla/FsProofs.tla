------------------------------- MODULE FsProofs -----------------------------
(***************************************************************************)
(* Proofs about the file system for every size of its two tables, any      *)
(* number of descriptors and any width of its counters.                    *)
(***************************************************************************)
EXTENDS Fs, FiniteSetTheorems, TLAPS

Inode == [inode_id : Inodes, type : {"none", "file", "dir"}, size : Nat, room : Nat]

OpenFile == [fd : Nat, inode_id : Inodes, offset : 0 .. (UINT_MOD - 1),
             ref_count : 0 .. (UINT_MOD - 1)]

\* The inodes that fs_alloc_inode can still hand out.
LeftInodes == {i \in Inodes \ {0} : inode_table[i].inode_id = 0}

Occupied(s) == open_files[s].ref_count = 1

\* The invariant of the table of open files: descriptors are numbered from 1,
\* a slot is counted at most once, a free slot has no descriptor, an occupied
\* one has an open descriptor of its own, and each of those has a slot.
SlotsInv ==
  /\ DOMAIN issued = 1 .. (next_fd - 1)
  /\ \A s \in Slots :
       \/ open_files[s].ref_count = 0 /\ open_files[s].fd = 0
       \/ /\ Occupied(s)
          /\ open_files[s].fd \in DOMAIN issued \ closed
          /\ open_files[s].inode_id = issued[open_files[s].fd]
  /\ \A r, s \in Slots : Occupied(r) /\ open_files[r].fd = open_files[s].fd => r = s
  /\ \A fd \in DOMAIN issued \ closed : \E s \in Slots : open_files[s].fd = fd

\* The inductive invariant.
IInv == TypeOK /\ InodesAccounted /\ SlotsInv

-----------------------------------------------------------------------------

\* The type invariant in terms of the two record sets.
LEMMA Typed ==
  TypeOK <=> /\ inode_table \in [Inodes -> Inode]
             /\ free_inodes \in 0 .. FS_MAX_INODES
             /\ open_files \in [Slots -> OpenFile]
             /\ next_fd \in 1 .. (MaxFd + 1)
             /\ last_created_inode \in Inodes \cup {NoInode}
             /\ closed \subseteq DOMAIN issued
BY DEF TypeOK, Inode, OpenFile

\* The inodes fs_open falls back on exist, and so does the root.
LEMMA InodesAreNat == /\ 0 \in Inodes /\ 1 \in Inodes /\ 2 \in Inodes
                      /\ Inodes \subseteq Nat /\ NoInode \notin Inodes
BY FsAssumption DEF Inodes, NoInode

\* There is one inode less to hand out than the table has entries, and any
\* set of them is finite.
LEMMA HandedOutFinite ==
  /\ Cardinality(Inodes \ {0}) + 1 = FS_MAX_INODES
  /\ \A F \in SUBSET (Inodes \ {0}) : IsFiniteSet(F) /\ Cardinality(F) \in Nat
<1>1. Inodes \ {0} = 1 .. (FS_MAX_INODES - 1)
  BY FsAssumption DEF Inodes
<1>2. IsFiniteSet(Inodes \ {0}) /\ Cardinality(Inodes \ {0}) = FS_MAX_INODES - 1
  <2>1. 1 \in Int /\ FS_MAX_INODES - 1 \in Int /\ ~(1 > FS_MAX_INODES - 1)
    BY FsAssumption
  <2>2. /\ IsFiniteSet(1 .. (FS_MAX_INODES - 1))
        /\ Cardinality(1 .. (FS_MAX_INODES - 1)) = FS_MAX_INODES - 1
    BY <2>1, FS_Interval, FsAssumption
  <2> QED BY <1>1, <2>2
<1>3. \A F \in SUBSET (Inodes \ {0}) : IsFiniteSet(F)
  BY <1>2, FS_Subset
<1> QED BY <1>2, <1>3, FS_CardinalityType, FsAssumption

\* ref_count goes from 1 to 0, and an offset stays within its width.
LEMMA CountersWrap ==
  /\ Minus1(1) = 0
  /\ \A a, b \in Nat : (a + b) % UINT_MOD \in 0 .. (UINT_MOD - 1)
BY FsAssumption DEF Minus1

\* read_size is one of the two sizes it is the smaller of.
LEMMA MinOfTwo ==
  ASSUME NEW a \in Nat, NEW b \in Nat
  PROVE  Min({a, b}) \in Nat
<1>1. \E x \in {a, b} : \A y \in {a, b} : x =< y
  OBVIOUS
<1> QED BY <1>1 DEF Min

\* The invariant holds after fs_init.
LEMMA InitIInv == Init => IInv
<1> SUFFICES ASSUME Init PROVE IInv
  OBVIOUS
<1>1. TypeOK
  <2>1. FreeInode \in Inode /\ [FreeInode EXCEPT !.type = "dir"] \in Inode
    BY InodesAreNat DEF FreeInode, Inode
  <2>2. inode_table \in [Inodes -> Inode]
    BY <2>1 DEF Init
  <2>3. ClosedFile \in OpenFile
    BY InodesAreNat, FsAssumption DEF ClosedFile, OpenFile
  <2>4. open_files \in [Slots -> OpenFile]
    BY <2>3 DEF Init
  <2> QED BY <2>2, <2>4, FsAssumption, Typed DEF Init
<1>2. InodesAccounted
  <2>1. \A i \in Inodes : inode_table[i].inode_id = 0
    BY DEF Init, FreeInode
  <2>2. inode_table[0].type = "dir"
    BY InodesAreNat DEF Init, FreeInode
  <2>3. {i \in Inodes \ {0} : inode_table[i].inode_id = 0} = Inodes \ {0}
    BY <2>1
  <2> QED BY <2>1, <2>2, <2>3, InodesAreNat, HandedOutFinite DEF Init, InodesAccounted
<1>3. SlotsInv
  BY DEF Init, SlotsInv, ClosedFile, Occupied
<1> QED BY <1>1, <1>2, <1>3 DEF IInv

\* fs_create_file and fs_create_dir.
LEMMA CreateIInv ==
  ASSUME IInv, NEW type \in {"file", "dir"}, Create(type)
  PROVE  IInv'
<1>0. inode_table \in [Inodes -> Inode]
  BY Typed DEF IInv
<1>1. PICK i \in 1 .. (FS_MAX_INODES - 1) :
        /\ Unallocated(i)
        /\ inode_table' = [inode_table EXCEPT ![i] =
                             [inode_id |-> i, type |-> type, size |-> 0, room |-> 0]]
        /\ last_created_inode' = i
  BY DEF Create, FirstInode
<1>2. i \in Inodes /\ i # 0 /\ i \in LeftInodes
  BY <1>1, FsAssumption DEF Inodes, LeftInodes, Unallocated
<1> DEFINE new == [inode_id |-> i, type |-> type, size |-> 0, room |-> 0]
<1>3. new \in Inode /\ new.inode_id = i
  BY <1>2 DEF Inode
<1>4. /\ inode_table' \in [Inodes -> Inode]
      /\ inode_table'[i].inode_id = i
      /\ \A j \in Inodes : j # i => inode_table'[j] = inode_table[j]
  BY <1>0, <1>1, <1>2, <1>3
<1>5. LeftInodes' = LeftInodes \ {i}
  BY <1>2, <1>4 DEF LeftInodes
<1>6. /\ Cardinality(LeftInodes') = Cardinality(LeftInodes) - 1
      /\ Cardinality(LeftInodes') \in Nat
      /\ Cardinality(LeftInodes) \in Nat
  <2>1. LeftInodes \in SUBSET (Inodes \ {0}) /\ LeftInodes' \in SUBSET (Inodes \ {0})
    BY DEF LeftInodes
  <2>2. /\ IsFiniteSet(LeftInodes) /\ Cardinality(LeftInodes) \in Nat
        /\ Cardinality(LeftInodes') \in Nat
    BY <2>1, HandedOutFinite
  <2>3. Cardinality(LeftInodes \ {i}) = Cardinality(LeftInodes) - 1
    BY <1>2, <2>2, FS_RemoveElement
  <2> QED BY <1>5, <2>2, <2>3
<1>7. free_inodes \in 0 .. FS_MAX_INODES /\ free_inodes' = free_inodes - 1
  BY Typed DEF IInv, Create
<1>8. free_inodes = Cardinality(LeftInodes) + 1
  BY DEF IInv, InodesAccounted, LeftInodes
<1>9. /\ free_inodes' \in 0 .. FS_MAX_INODES
      /\ free_inodes' = Cardinality(LeftInodes') + 1
  BY <1>6, <1>7, <1>8, FsAssumption
<1>10. TypeOK'
  BY <1>1, <1>2, <1>4, <1>9 DEF Create, IInv, TypeOK, Inode
<1>11. InodesAccounted'
  BY <1>2, <1>4, <1>9, InodesAreNat DEF IInv, InodesAccounted, LeftInodes
<1>12. SlotsInv'
  BY DEF Create, IInv, SlotsInv, Occupied
<1> QED BY <1>10, <1>11, <1>12 DEF IInv

\* A call that only changes the offset of an open file.
LEMMA OffsetIInv ==
  ASSUME IInv, NEW s \in Slots, NEW n \in 0 .. (UINT_MOD - 1),
         open_files' = [open_files EXCEPT ![s].offset = n],
         UNCHANGED <<next_fd, last_created_inode, histVars>>
  PROVE  open_files' \in [Slots -> OpenFile] /\ SlotsInv'
<1>1. open_files \in [Slots -> OpenFile]
  BY Typed DEF IInv
<1>2. /\ open_files' \in [Slots -> OpenFile]
      /\ \A r \in Slots : /\ open_files'[r].fd = open_files[r].fd
                          /\ open_files'[r].inode_id = open_files[r].inode_id
                          /\ open_files'[r].ref_count = open_files[r].ref_count
  BY <1>1 DEF OpenFile
<1>3. \A r \in Slots : Occupied(r)' <=> Occupied(r)
  BY <1>2 DEF Occupied
<1>4. issued' = issued /\ closed' = closed /\ next_fd' = next_fd
  BY DEF histVars
<1> QED BY <1>2, <1>3, <1>4 DEF IInv, SlotsInv

\* fs_read and fs_seek.
LEMMA ReadSeekIInv ==
  ASSUME IInv, NEW fd, NEW n \in Sizes \cup {0}, Read(fd, n) \/ Seek(fd, n)
  PROVE  IInv'
<1>1. /\ UNCHANGED <<inode_table, free_inodes, next_fd, last_created_inode, histVars>>
      /\ inode_table \in [Inodes -> Inode] /\ open_files \in [Slots -> OpenFile]
      /\ n \in Nat /\ n \in 0 .. (UINT_MOD - 1)
  BY Typed, FsAssumption DEF Read, Seek, IInv
<1>2. PICK s \in Slots, m \in 0 .. (UINT_MOD - 1) :
        open_files' = [open_files EXCEPT ![s].offset = m]
  <2>1. CASE Seek(fd, n)
    BY <1>1, <2>1 DEF Seek
  <2>2. CASE Read(fd, n)
    <3>1. PICK s \in Slots :
            open_files' = [open_files EXCEPT ![s].offset =
              (@ + Min({n, inode_table[open_files[s].inode_id].size})) % UINT_MOD]
      BY <2>2 DEF Read
    <3>2. /\ open_files[s].offset \in Nat
          /\ inode_table[open_files[s].inode_id].size \in Nat
      BY <1>1, FsAssumption DEF OpenFile, Inode
    <3>3. Min({n, inode_table[open_files[s].inode_id].size}) \in Nat
      BY <1>1, <3>2, MinOfTwo
    <3> QED BY <1>1, <3>1, <3>2, <3>3, CountersWrap
  <2> QED BY <2>1, <2>2
<1>3. open_files' \in [Slots -> OpenFile] /\ SlotsInv'
  BY <1>1, <1>2, OffsetIInv
<1>4. TypeOK'
  BY <1>1, <1>3 DEF IInv, TypeOK, OpenFile, histVars
<1>5. InodesAccounted'
  BY <1>1 DEF IInv, InodesAccounted
<1> QED BY <1>3, <1>4, <1>5 DEF IInv

\* fs_write.
LEMMA WriteIInv ==
  ASSUME IInv, NEW fd, NEW n \in Sizes, Write(fd, n)
  PROVE  IInv'
<1>1. /\ UNCHANGED <<free_inodes, next_fd, last_created_inode, histVars>>
      /\ inode_table \in [Inodes -> Inode] /\ open_files \in [Slots -> OpenFile]
      /\ n \in Nat
  BY Typed, FsAssumption DEF Write, IInv
<1>2. PICK s \in Slots :
        /\ inode_table' = [inode_table EXCEPT
                             ![open_files[s].inode_id].room = IF @ = 0 THEN n + 1 ELSE @,
                             ![open_files[s].inode_id].size = n]
        /\ open_files' = [open_files EXCEPT ![s].offset = (@ + n) % UINT_MOD]
  BY DEF Write
<1>3. open_files[s].offset \in Nat /\ open_files[s].inode_id \in Inodes
  BY <1>1, FsAssumption DEF OpenFile
<1>4. PICK m \in 0 .. (UINT_MOD - 1) : open_files' = [open_files EXCEPT ![s].offset = m]
  BY <1>1, <1>2, <1>3, CountersWrap
<1>5. open_files' \in [Slots -> OpenFile] /\ SlotsInv'
  BY <1>1, <1>4, OffsetIInv
<1>6. /\ inode_table' \in [Inodes -> Inode]
      /\ \A i \in Inodes : /\ inode_table'[i].inode_id = inode_table[i].inode_id
                           /\ inode_table'[i].type = inode_table[i].type
  BY <1>1, <1>2, <1>3 DEF Inode
<1>7. LeftInodes' = LeftInodes
  BY <1>6 DEF LeftInodes
<1>8. TypeOK'
  BY <1>1, <1>5, <1>6 DEF IInv, TypeOK, Inode, OpenFile, histVars
<1>9. InodesAccounted'
  BY <1>1, <1>6, <1>7, InodesAreNat DEF IInv, InodesAccounted, LeftInodes
<1> QED BY <1>5, <1>8, <1>9 DEF IInv

\* fs_open.
LEMMA OpenIInv ==
  ASSUME IInv, NEW name \in Names, Open(name)
  PROVE  IInv'
<1>0. /\ UNCHANGED <<inode_table, free_inodes, last_created_inode, closed>>
      /\ next_fd' = next_fd + 1 /\ next_fd \in 1 .. MaxFd
      /\ open_files \in [Slots -> OpenFile]
      /\ DOMAIN issued = 1 .. (next_fd - 1)
      /\ closed \subseteq DOMAIN issued
  BY Typed, FsAssumption DEF Open, IInv, SlotsInv
<1>1. Resolve(name) \in Inodes
  BY InodesAreNat, Typed DEF Resolve, Names, IInv
<1> DEFINE new == [fd |-> next_fd, inode_id |-> Resolve(name), offset |-> 0, ref_count |-> 1]
<1>2. PICK s \in Slots :
        /\ open_files[s].ref_count = 0
        /\ open_files' = [open_files EXCEPT ![s] = new]
        /\ issued' = [fd \in DOMAIN issued \cup {next_fd} |->
                        IF fd = next_fd THEN Resolve(name) ELSE issued[fd]]
  BY DEF Open, NewFd
<1>3. new \in OpenFile
  BY <1>0, <1>1, FsAssumption DEF OpenFile
<1>4. /\ open_files' \in [Slots -> OpenFile]
      /\ open_files'[s] = new
      /\ \A r \in Slots : r # s => open_files'[r] = open_files[r]
  BY <1>0, <1>2, <1>3
<1>5. /\ DOMAIN issued' = DOMAIN issued \cup {next_fd}
      /\ issued'[next_fd] = Resolve(name)
      /\ next_fd \notin DOMAIN issued
      /\ \A fd \in DOMAIN issued : issued'[fd] = issued[fd]
  BY <1>0, <1>2
<1>6. TypeOK'
  BY <1>0, <1>4, <1>5, FsAssumption DEF IInv, TypeOK, OpenFile
<1>7. InodesAccounted'
  BY <1>0 DEF IInv, InodesAccounted
<1>8. SlotsInv'
  <2>1. DOMAIN issued' = 1 .. (next_fd' - 1)
    BY <1>0, <1>5
  <2>2. \A r \in Slots :
          \/ open_files[r].ref_count = 0 /\ open_files[r].fd = 0
          \/ /\ Occupied(r)
             /\ open_files[r].fd \in DOMAIN issued \ closed
             /\ open_files[r].inode_id = issued[open_files[r].fd]
    BY DEF IInv, SlotsInv
  <2>3. \A r \in Slots : r # s => /\ Occupied(r)' <=> Occupied(r)
                                  /\ open_files'[r].fd # next_fd
    BY <1>0, <1>4, <1>5, <2>2 DEF Occupied
  <2>4. Occupied(s)' /\ open_files'[s].fd = next_fd /\ next_fd \notin closed
    BY <1>0, <1>4, <1>5 DEF Occupied
  <2>5. ASSUME NEW r \in Slots
        PROVE  \/ open_files'[r].ref_count = 0 /\ open_files'[r].fd = 0
               \/ /\ Occupied(r)'
                  /\ open_files'[r].fd \in DOMAIN issued' \ closed'
                  /\ open_files'[r].inode_id = issued'[open_files'[r].fd]
    <3>1. CASE r = s
      BY <1>0, <1>4, <1>5, <2>4, <3>1
    <3>2. CASE r # s
      BY <1>0, <1>4, <1>5, <2>2, <2>3, <3>2
    <3> QED BY <3>1, <3>2
  <2>6. \A q, r \in Slots : Occupied(q)' /\ open_files'[q].fd = open_files'[r].fd => q = r
    BY <1>4, <2>3, <2>4 DEF IInv, SlotsInv
  <2>7. ASSUME NEW fd \in DOMAIN issued' \ closed'
        PROVE  \E r \in Slots : open_files'[r].fd = fd
    <3>1. CASE fd = next_fd
      BY <2>4, <3>1
    <3>2. CASE fd # next_fd
      <4>1. PICK r \in Slots : open_files[r].fd = fd
        BY <1>0, <1>5, <3>2 DEF IInv, SlotsInv
      <4>2. r # s
        BY <1>0, <1>2, <1>5, <2>2, <2>7, <3>2, <4>1 DEF Occupied
      <4> QED BY <1>4, <4>1, <4>2
    <3> QED BY <3>1, <3>2
  <2> QED BY <2>1, <2>5, <2>6, <2>7 DEF SlotsInv
<1> QED BY <1>6, <1>7, <1>8 DEF IInv

\* fs_close.
LEMMA CloseIInv ==
  ASSUME IInv, NEW fd \in DOMAIN issued, Close(fd)
  PROVE  IInv'
<1>0. /\ UNCHANGED <<inode_table, free_inodes, next_fd, last_created_inode, issued>>
      /\ closed' = closed \cup {fd}
      /\ open_files \in [Slots -> OpenFile]
      /\ closed \subseteq DOMAIN issued /\ 0 \notin DOMAIN issued
  BY Typed DEF Close, IInv, SlotsInv
<1>1. PICK s \in Slots : /\ open_files[s].fd = fd
                         /\ open_files' = [open_files EXCEPT ![s] = Released(@)]
  BY DEF Close, SlotOf
<1>2. Occupied(s)
  BY <1>0, <1>1 DEF IInv, SlotsInv
<1> DEFINE new == [open_files[s] EXCEPT !.ref_count = 0, !.fd = 0, !.inode_id = 0]
<1>3. Released(open_files[s]) = new
  BY <1>2, CountersWrap DEF Occupied, Released
<1>4. new \in OpenFile /\ new.fd = 0 /\ new.ref_count = 0
  <2>1. 0 \in Nat /\ 0 \in 0 .. (UINT_MOD - 1) /\ 0 \in Inodes
    BY InodesAreNat, FsAssumption
  <2>2. open_files[s] \in OpenFile
    BY <1>0
  <2> QED BY <2>1, <2>2 DEF OpenFile
<1>5. /\ open_files' \in [Slots -> OpenFile]
      /\ open_files'[s].fd = 0 /\ open_files'[s].ref_count = 0
      /\ \A r \in Slots : r # s => open_files'[r] = open_files[r]
  BY <1>0, <1>1, <1>3, <1>4
<1>6. TypeOK'
  BY <1>0, <1>5 DEF IInv, TypeOK, OpenFile
<1>7. InodesAccounted'
  BY <1>0 DEF IInv, InodesAccounted
<1>8. SlotsInv'
  <2>1. \A r \in Slots :
          \/ open_files[r].ref_count = 0 /\ open_files[r].fd = 0
          \/ /\ Occupied(r)
             /\ open_files[r].fd \in DOMAIN issued \ closed
             /\ open_files[r].inode_id = issued[open_files[r].fd]
    BY DEF IInv, SlotsInv
  <2>2. \A r \in Slots : r # s => open_files'[r].fd # fd /\ (Occupied(r)' <=> Occupied(r))
    BY <1>1, <1>2, <1>5 DEF IInv, SlotsInv, Occupied
  <2>3. ~Occupied(s)'
    BY <1>5 DEF Occupied
  <2>4. ASSUME NEW r \in Slots
        PROVE  \/ open_files'[r].ref_count = 0 /\ open_files'[r].fd = 0
               \/ /\ Occupied(r)'
                  /\ open_files'[r].fd \in DOMAIN issued' \ closed'
                  /\ open_files'[r].inode_id = issued'[open_files'[r].fd]
    <3>1. CASE r = s
      BY <1>5, <3>1
    <3>2. CASE r # s
      BY <1>0, <1>5, <2>1, <2>2, <3>2
    <3> QED BY <3>1, <3>2
  <2>5. ASSUME NEW q \in Slots, NEW r \in Slots,
               Occupied(q)', open_files'[q].fd = open_files'[r].fd
        PROVE  q = r
    <3>1. q # s /\ open_files'[q].fd # 0
      BY <1>0, <2>3, <2>4, <2>5, <1>5 DEF Occupied
    <3>2. r # s
      BY <1>5, <2>5, <3>1
    <3> QED BY <1>5, <2>2, <2>5, <3>1, <3>2 DEF IInv, SlotsInv
  <2>6. \A f \in DOMAIN issued' \ closed' : \E r \in Slots : open_files'[r].fd = f
    BY <1>0, <1>1, <1>5 DEF IInv, SlotsInv
  <2> QED BY <1>0, <2>4, <2>5, <2>6 DEF IInv, SlotsInv
<1> QED BY <1>6, <1>7, <1>8 DEF IInv

\* Every step keeps the invariant.
LEMMA NextIInv == IInv /\ [Next]_vars => IInv'
<1> SUFFICES ASSUME IInv, [Next]_vars PROVE IInv'
  OBVIOUS
<1>1. CASE UNCHANGED vars
  BY <1>1 DEF vars, histVars, IInv, TypeOK, InodesAccounted, SlotsInv, Occupied
<1> QED BY <1>1, CreateIInv, OpenIInv, CloseIInv, WriteIInv, ReadSeekIInv
       DEF Next, Refused, CreateAny, OpenAny, CloseAny, WriteAny, ReadAny, SeekAny

\* The inductive invariant holds throughout.
LEMMA SpecIInv == Spec => []IInv
BY InitIInv, NextIInv, PTL DEF Spec

-----------------------------------------------------------------------------

\* Both tables keep their types; the count of free inodes never goes below
\* zero and no counter leaves its width.
THEOREM FsTypeOK == Spec => []TypeOK
<1>1. IInv => TypeOK
  BY DEF IInv
<1> QED BY SpecIInv, <1>1, PTL

\* fs_alloc_inode hands out every inode at most once and never the root, and
\* the superblock's count of free inodes is one more than are left.
THEOREM FsInodesAccounted == Spec => []InodesAccounted
<1>1. IInv => InodesAccounted
  BY DEF IInv
<1> QED BY SpecIInv, <1>1, PTL

\* The occupied slots are exactly the descriptors opened and not closed, in
\* whatever order they are closed and however often, and a closed descriptor
\* reaches no file.
THEOREM FsDescriptorsExact == Spec => []DescriptorsExact
<1>1. ASSUME IInv PROVE DescriptorsExact
  <2>1. \A s \in Slots : open_files[s].ref_count > 0 =>
          /\ open_files[s].fd \in DOMAIN issued \ closed
          /\ open_files[s].inode_id = issued[open_files[s].fd]
    BY <1>1 DEF IInv, SlotsInv
  <2>2. ASSUME NEW fd \in DOMAIN issued \ closed
        PROVE  Cardinality({s \in Slots : open_files[s].fd = fd
                                          /\ open_files[s].ref_count > 0}) = 1
    <3>1. PICK s \in Slots : open_files[s].fd = fd
      BY <1>1 DEF IInv, SlotsInv
    <3>2. fd # 0
      BY <1>1 DEF IInv, SlotsInv
    <3>3. Occupied(s)
      BY <1>1, <3>1, <3>2 DEF IInv, SlotsInv
    <3>4. \A r \in Slots : open_files[r].fd = fd => r = s
      BY <1>1, <3>1, <3>3 DEF IInv, SlotsInv
    <3>5. {r \in Slots : open_files[r].fd = fd /\ open_files[r].ref_count > 0} = {s}
      BY <3>1, <3>3, <3>4 DEF Occupied
    <3> QED BY <3>5, FS_Singleton
  <2>3. \A fd \in closed, s \in Slots : open_files[s].fd # fd
    BY <1>1 DEF IInv, SlotsInv, TypeOK
  <2> QED BY <2>1, <2>2, <2>3 DEF DescriptorsExact
<1> QED BY SpecIInv, <1>1, PTL
=============================================================================
