--------------------------------- MODULE Fs ---------------------------------
(***************************************************************************)
(* The in-memory file system of src/src/kernel/fs/fs.c: the inode table,   *)
(* the table of open files and the calls on them.                          *)
(*                                                                         *)
(* An inode is its id (0: free, or the root), type, size and the length of *)
(* the buffer behind inode->data (0: NULL).  An open file is its fd (0:    *)
(* none), inode, offset and ref_count.  Init is the state after a fs_init  *)
(* whose allocations succeeded.  fs_delete_file and fs_list_dir only print *)
(* and fs_alloc_block and fs_free_block are never called: they are left    *)
(* out, and so is the mode of an open file, which no code reads.           *)
(***************************************************************************)
EXTENDS Integers, FiniteSets, FiniteSetsExt

CONSTANTS
  FS_MAX_INODES,
  FS_MAX_OPEN_FILES,
  Sizes,        \* the sizes callers read and write, and the offsets they seek
  MaxFd,        \* bound on next_fd
  UINT_MOD      \* ref_count and offset are counted modulo this (2^32)

ASSUME FsAssumption ==
  /\ FS_MAX_INODES \in Nat /\ FS_MAX_INODES > 2
  /\ FS_MAX_OPEN_FILES \in Nat \ {0}
  /\ Sizes \subseteq 1 .. (UINT_MOD - 1)
  /\ MaxFd \in Nat
  /\ UINT_MOD \in Nat \ {0, 1}

VARIABLES
  inode_table,
  free_inodes,          \* fs_superblock.free_inodes
  open_files,
  next_fd,
  last_created_inode,   \* NoInode for the initial 0xFFFFFFFF
  issued,               \* history: the inode of each descriptor fs_open returned
  closed                \* history: the descriptors given to fs_close

histVars == <<issued, closed>>

vars == <<inode_table, free_inodes, open_files, next_fd, last_created_inode, histVars>>

NoInode == -1

Inodes == 0 .. (FS_MAX_INODES - 1)

Slots == 0 .. (FS_MAX_OPEN_FILES - 1)

\* The names fs_open tells apart.
Names == {"test.txt", "mydir", "another"}

FreeInode == [inode_id |-> 0, type |-> "none", size |-> 0, room |-> 0]

ClosedFile == [fd |-> 0, inode_id |-> 0, offset |-> 0, ref_count |-> 0]

Init ==
  /\ inode_table = [i \in Inodes |-> IF i = 0 THEN [FreeInode EXCEPT !.type = "dir"]
                                              ELSE FreeInode]
  /\ free_inodes = FS_MAX_INODES
  /\ open_files = [s \in Slots |-> ClosedFile]
  /\ next_fd = 1
  /\ last_created_inode = NoInode
  /\ issued = [fd \in {} |-> NoInode]
  /\ closed = {}

-----------------------------------------------------------------------------
\* Mutant of FirstInode: the search includes the root.
RootIncluded == 0

\* fs_alloc_inode looks from inode 1 on.
FirstInode == 1

\* Mutant of Unallocated: no inode is ever found taken.
AnyInode(i) == TRUE

Unallocated(i) == inode_table[i].inode_id = 0

\* fs_create_file and fs_create_dir; neither keeps the name.
Create(type) ==
  /\ \E i \in FirstInode .. (FS_MAX_INODES - 1) :
       /\ Unallocated(i)
       /\ \A j \in FirstInode .. (i - 1) : ~Unallocated(j)
       /\ inode_table' = [inode_table EXCEPT ![i] =
                            [inode_id |-> i, type |-> type, size |-> 0, room |-> 0]]
       /\ last_created_inode' = i
  /\ free_inodes' = free_inodes - 1
  /\ UNCHANGED <<open_files, next_fd, issued, closed>>

\* The inode fs_open takes a name for.
Resolve(name) ==
  CASE name = "test.txt" -> 1
    [] name = "mydir"    -> 2
    [] OTHER -> IF last_created_inode = NoInode THEN 1 ELSE last_created_inode

\* next_fd++
NewFd(s) == next_fd

Open(name) ==
  /\ next_fd <= MaxFd
  /\ \E s \in Slots :
       /\ open_files[s].ref_count = 0
       /\ \A r \in Slots : r < s => open_files[r].ref_count # 0
       /\ open_files' = [open_files EXCEPT ![s] =
                           [fd |-> NewFd(s), inode_id |-> Resolve(name),
                            offset |-> 0, ref_count |-> 1]]
       /\ issued' = [fd \in DOMAIN issued \cup {NewFd(s)} |->
                       IF fd = NewFd(s) THEN Resolve(name) ELSE issued[fd]]
  /\ next_fd' = next_fd + 1
  /\ UNCHANGED <<inode_table, free_inodes, last_created_inode, closed>>

\* The slot in which the loops "for (i...) if (open_files[i].fd == fd)" stop.
SlotOf(s, fd) ==
  /\ open_files[s].fd = fd
  /\ \A r \in Slots : r < s => open_files[r].fd # fd

Minus1(n) == (n + UINT_MOD - 1) % UINT_MOD

\* Mutant of Released: a closed slot keeps its fd and inode.
ReleasedKeepsFd(f) == [f EXCEPT !.ref_count = Minus1(@)]

\* An open file after "ref_count--".
Released(f) == IF Minus1(f.ref_count) = 0
               THEN [f EXCEPT !.ref_count = 0, !.fd = 0, !.inode_id = 0]
               ELSE [f EXCEPT !.ref_count = Minus1(@)]

Close(fd) ==
  /\ \E s \in Slots :
       /\ SlotOf(s, fd)
       /\ open_files' = [open_files EXCEPT ![s] = Released(@)]
  /\ closed' = closed \cup {fd}
  /\ UNCHANGED <<inode_table, free_inodes, next_fd, last_created_inode, issued>>

\* The buffer is allocated by the first write and never grows.  The size of
\* the allocation is a uint32_t as well: when it wraps to zero, malloc fails.
Write(fd, n) ==
  /\ \E s \in Slots :
       LET i == open_files[s].inode_id
       IN  /\ SlotOf(s, fd)
           /\ inode_table[i].room = 0 => n + 1 < UINT_MOD
           /\ inode_table' = [inode_table EXCEPT
                                ![i].room = IF @ = 0 THEN n + 1 ELSE @,
                                ![i].size = n]
           /\ open_files' = [open_files EXCEPT ![s].offset = (@ + n) % UINT_MOD]
  /\ UNCHANGED <<free_inodes, next_fd, last_created_inode, histVars>>

\* fs_read copies from the start of inode->data, whatever the offset is.
Read(fd, n) ==
  /\ \E s \in Slots :
       LET read_size == Min({n, inode_table[open_files[s].inode_id].size})
       IN  /\ SlotOf(s, fd)
           /\ open_files' = [open_files EXCEPT ![s].offset = (@ + read_size) % UINT_MOD]
  /\ UNCHANGED <<inode_table, free_inodes, next_fd, last_created_inode, histVars>>

Seek(fd, offset) ==
  /\ \E s \in Slots :
       /\ SlotOf(s, fd)
       /\ open_files' = [open_files EXCEPT ![s].offset = offset]
  /\ UNCHANGED <<inode_table, free_inodes, next_fd, last_created_inode, histVars>>

-----------------------------------------------------------------------------
CreateAny == \E type \in {"file", "dir"} : Create(type)

OpenAny == \E name \in Names : Open(name)

\* Callers use any descriptor fs_open ever returned, closed ones included.
CloseAny == \E fd \in DOMAIN issued : Close(fd)

WriteAny == \E fd \in DOMAIN issued, n \in Sizes : Write(fd, n)

ReadAny == \E fd \in DOMAIN issued, n \in Sizes : Read(fd, n)

SeekAny == \E fd \in DOMAIN issued, offset \in Sizes \cup {0} : Seek(fd, offset)

\* The calls that return -1: no inode, no slot, no such descriptor, no memory.
Refused ==
  /\ \/ \A i \in Inodes \ {0} : ~Unallocated(i)
     \/ \A s \in Slots : open_files[s].ref_count # 0
     \/ \E fd \in DOMAIN issued : \A s \in Slots : open_files[s].fd # fd
     \/ \E i \in Inodes : inode_table[i].room = 0
  /\ UNCHANGED vars

Next == Refused \/ CreateAny \/ OpenAny \/ CloseAny \/ WriteAny \/ ReadAny \/ SeekAny

Spec == Init /\ [][Next]_vars

-----------------------------------------------------------------------------
(***************************************************************************)
(* Properties                                                              *)
(***************************************************************************)
TypeOK ==
  /\ inode_table \in [Inodes -> [inode_id : Inodes, type : {"none", "file", "dir"},
                                 size : Nat, room : Nat]]
  /\ free_inodes \in 0 .. FS_MAX_INODES
  /\ open_files \in [Slots -> [fd : Nat, inode_id : Inodes,
                               offset : 0 .. (UINT_MOD - 1),
                               ref_count : 0 .. (UINT_MOD - 1)]]
  /\ next_fd \in 1 .. (MaxFd + 1)
  /\ last_created_inode \in Inodes \cup {NoInode}
  /\ closed \subseteq DOMAIN issued

\* The root stays a directory that is never handed out, an inode carries its
\* own number, and no inode is handed out twice or lost.  The superblock's
\* count takes the root, which fs_init makes, for a free inode as well: it is
\* always one more than fs_alloc_inode can still hand out, and 1 when that
\* finds none.
InodesAccounted ==
  /\ inode_table[0].type = "dir" /\ inode_table[0].inode_id = 0
  /\ \A i \in Inodes : inode_table[i].inode_id \in {0, i}
  /\ free_inodes = Cardinality({i \in Inodes \ {0} : inode_table[i].inode_id = 0}) + 1

\* The occupied slots are exactly the descriptors opened and not closed, one
\* each and for the inode they were opened on: closing twice, or out of
\* order, neither frees another file nor loses a slot.  A descriptor that
\* was closed names no slot for good, so that no later call through it
\* reaches a file opened since.
DescriptorsExact ==
  /\ \A s \in Slots : open_files[s].ref_count > 0 =>
       /\ open_files[s].fd \in DOMAIN issued \ closed
       /\ open_files[s].inode_id = issued[open_files[s].fd]
  /\ \A fd \in DOMAIN issued \ closed :
       Cardinality({s \in Slots : open_files[s].fd = fd /\ open_files[s].ref_count > 0}) = 1
  /\ \A fd \in closed, s \in Slots : open_files[s].fd # fd
=============================================================================
