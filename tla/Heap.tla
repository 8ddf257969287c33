-------------------------------- MODULE Heap --------------------------------
(***************************************************************************)
(* The kernel heap of src/src/kernel/memory.c: malloc and free over a      *)
(* singly linked list of blocks that starts at malloc_head and grows by    *)
(* one 2 MB page frame at a time.                                          *)
(*                                                                         *)
(* A block is a 24-byte struct malloc_header followed by header->size      *)
(* bytes.  Its three fields are the functions size, next and is_free; their *)
(* common domain, Blocks, holds the addresses of the headers on the list.  *)
(* A header that coalescing swallows leaves the domain: no code reads it   *)
(* again.  The loop of malloc and the loop of free take one step per       *)
(* iteration (pc, current and prev are the C locals), so that the walk     *)
(* over the list, and not only its result, is what is checked.             *)
(*                                                                         *)
(* The kernel runs malloc and free to completion: no interrupt handler     *)
(* calls them and the scheduler switches only inside process_yield and     *)
(* process_exit, so calls do not overlap.                                  *)
(*                                                                         *)
(* live is a history variable: the pointers callers hold, each with the    *)
(* number of bytes asked for.  The debug counters malloc_total_allocated   *)
(* and malloc_total_freed feed log lines only and are left out.            *)
(***************************************************************************)
EXTENDS PageFrames, FiniteSets

CONSTANTS
  Requests,  \* the sizes callers ask for
  MaxLive    \* bound on simultaneously live allocations

SizeofHeader == 24

max_allowed == PAGE_2M_SIZE - SizeofHeader - 128

ASSUME RequestsAssumption == Requests \subseteq Nat

ASSUME MaxLiveAssumption == MaxLive \in Nat

VARIABLES
  malloc_head,
  size, next, is_free,   \* the fields of every header on the list
  pc,                    \* "idle", "search" (in malloc), "coalesce" (in free)
  current, prev,         \* the list cursors of the call in progress
  req,                   \* malloc's argument while it runs, else 0
  live                   \* pointer -> requested bytes

blockVars == <<size, next, is_free>>

callVars == <<pc, current, prev, req>>

vars == <<pageVars, malloc_head, blockVars, callVars, live>>

Blocks == DOMAIN size

\* One past the last byte of block b.
BlockEnd(b) == b + SizeofHeader + size[b]

-----------------------------------------------------------------------------
Init ==
  /\ PageInit
  /\ malloc_head = NULL
  /\ size = [b \in {} |-> 0]
  /\ next = [b \in {} |-> NULL]
  /\ is_free = [b \in {} |-> TRUE]
  /\ pc = "idle"
  /\ current = NULL
  /\ prev = NULL
  /\ req = 0
  /\ live = [p \in {} |-> 0]

-----------------------------------------------------------------------------
(***************************************************************************)
(* malloc                                                                  *)
(***************************************************************************)

\* Mutant of RoundUp8: the size is used as it comes.
Unrounded(n) == n

\* (n + 7) & ~7
RoundUp8(n) == ((n + 7) \div 8) * 8

\* The rounded size of the call in progress, and with its header.
payload == RoundUp8(req)

\* Mutant of total_size: room for the payload, none for the next header.
PayloadOnly == payload

total_size == payload + SizeofHeader

\* Mutants of Fits: a test of the size, or of is_free, is missing, or the
\* header is counted twice.
FitsTaken(b) == size[b] >= total_size

FitsSmall(b) == is_free[b]

FitsTwoHeaders(b) == is_free[b] /\ size[b] >= total_size + SizeofHeader

Fits(b) == is_free[b] /\ size[b] >= total_size

\* Mutant of Splits: the whole block is always handed out.
SplitsNever(n) == FALSE

Splits(n) == n > total_size + SizeofHeader + 8

Return == pc' = "idle" /\ current' = NULL /\ prev' = NULL /\ req' = 0

Grant(b) == live' = [p \in DOMAIN live \cup {b + SizeofHeader} |->
                       IF p = b + SizeofHeader THEN req ELSE live[p]]

\* Entry of malloc: reject 0 and oversized requests (NULL, nothing changes),
\* give the heap its first page, start the walk at malloc_head.  When there
\* is no page for an empty heap malloc returns NULL and nothing changes.
MallocCall(n) ==
  /\ pc = "idle"
  /\ Cardinality(DOMAIN live) < MaxLive
  /\ n # 0
  /\ n <= max_allowed
  /\ pc' = "search"
  /\ req' = n
  /\ prev' = NULL
  /\ \/ /\ malloc_head # NULL
        /\ UNCHANGED <<pageVars, malloc_head, blockVars>>
     \/ /\ malloc_head = NULL
        /\ \E page \in Pages :
             /\ alloc_page(page)
             /\ malloc_head' = phy_addr[page]
             /\ size' = [b \in {phy_addr[page]} |-> PAGE_2M_SIZE - SizeofHeader]
             /\ next' = [b \in {phy_addr[page]} |-> NULL]
             /\ is_free' = [b \in {phy_addr[page]} |-> TRUE]
  /\ current' = malloc_head'
  /\ UNCHANGED live

\* One iteration of "while(current)" over a block that does not do.
MallocAdvance ==
  /\ pc = "search"
  /\ current # NULL
  /\ ~Fits(current)
  /\ prev' = current
  /\ current' = next[current]
  /\ UNCHANGED <<pageVars, malloc_head, blockVars, pc, req, live>>

\* Block b of n bytes, followed by nxt, becomes the allocated block, cut in
\* two when the remainder is worth a header of its own.  Other blocks keep
\* their fields, which sz, nx and fr give.
Carve(b, n, nxt, sz, nx, fr) ==
  LET new_block == b + total_size
  IN  IF Splits(n)
      THEN /\ size' = [a \in DOMAIN sz \cup {b, new_block} |->
                         IF a = b THEN payload
                         ELSE IF a = new_block THEN n - total_size ELSE sz[a]]
           /\ next' = [a \in DOMAIN sz \cup {b, new_block} |->
                         IF a = b THEN new_block
                         ELSE IF a = new_block THEN nxt ELSE nx[a]]
           /\ is_free' = [a \in DOMAIN sz \cup {b, new_block} |->
                         IF a = b THEN FALSE
                         ELSE IF a = new_block THEN TRUE ELSE fr[a]]
      ELSE /\ size' = [a \in DOMAIN sz \cup {b} |-> IF a = b THEN n ELSE sz[a]]
           /\ next' = [a \in DOMAIN sz \cup {b} |-> IF a = b THEN nxt ELSE nx[a]]
           /\ is_free' = [a \in DOMAIN sz \cup {b} |-> IF a = b THEN FALSE ELSE fr[a]]

\* The first block that fits is taken.
MallocTake ==
  /\ pc = "search"
  /\ current # NULL
  /\ Fits(current)
  /\ Carve(current, size[current], next[current], size, next, is_free)
  /\ Grant(current)
  /\ Return
  /\ UNCHANGED <<pageVars, malloc_head>>

\* The walk fell off the list: append a fresh page behind prev, carve it.
MallocNewPage ==
  /\ pc = "search"
  /\ current = NULL
  /\ \E page \in Pages :
       LET b == phy_addr[page]
       IN  /\ alloc_page(page)
           /\ Carve(b, PAGE_2M_SIZE - SizeofHeader, NULL,
                    size, [next EXCEPT ![prev] = b], is_free)
           /\ Grant(b)
  /\ Return
  /\ UNCHANGED malloc_head

\* No page left: malloc returns NULL.
MallocFails ==
  /\ pc = "search"
  /\ current = NULL
  /\ free_pages_list = NULL
  /\ Return
  /\ UNCHANGED <<pageVars, malloc_head, blockVars, live>>

-----------------------------------------------------------------------------
(***************************************************************************)
(* free                                                                    *)
(***************************************************************************)

\* The two tests after which free() gives up without freeing.
Rejected(p) ==
  \/ p < kernel_heap_start
  \/ p >= kernel_heap_end
  \/ size[p - SizeofHeader] > PAGE_2M_SIZE

\* Entry of free for a pointer the caller holds: the caller has given it up
\* whatever free decides.
FreeCall(p) ==
  /\ pc = "idle"
  /\ p \in DOMAIN live
  /\ live' = [q \in DOMAIN live \ {p} |-> live[q]]
  /\ IF Rejected(p)
     THEN UNCHANGED <<is_free, pc, current>>
     ELSE /\ is_free' = [is_free EXCEPT ![p - SizeofHeader] = TRUE]
          /\ pc' = "coalesce"
          /\ current' = malloc_head
  /\ UNCHANGED <<pageVars, malloc_head, size, next, prev, req>>

\* Mutant of Merged: the swallowed header is forgotten.
MergedPayloads(b, gone) == size[b] + size[gone]

\* The size of block b after it swallowed its neighbour.
Merged(b, gone) == size[b] + SizeofHeader + size[gone]

\* current and current->next are both free: the first swallows the second
\* and stays current.
CoalesceMerge ==
  /\ pc = "coalesce"
  /\ next[current] # NULL
  /\ is_free[current]
  /\ is_free[next[current]]
  /\ LET gone == next[current]
         kept == Blocks \ {gone}
     IN  /\ size' = [b \in kept |-> IF b = current
                                    THEN Merged(b, gone)
                                    ELSE size[b]]
         /\ next' = [b \in kept |-> IF b = current THEN next[gone] ELSE next[b]]
         /\ is_free' = [b \in kept |-> is_free[b]]
  /\ UNCHANGED <<pageVars, malloc_head, callVars, live>>

\* Mutant of CoalesceAdvance: the cursor stays where it is.
AdvanceForgotten == pc = "coalesce" /\ next[current] # NULL /\ UNCHANGED vars

CoalesceAdvance ==
  /\ pc = "coalesce"
  /\ next[current] # NULL
  /\ ~(is_free[current] /\ is_free[next[current]])
  /\ current' = next[current]
  /\ UNCHANGED <<pageVars, malloc_head, blockVars, pc, prev, req, live>>

\* Mutant of CoalesceDone: the pass ends at the first allocated block.
DoneAtAllocated ==
  /\ pc = "coalesce"
  /\ next[current] = NULL \/ ~is_free[current]
  /\ Return
  /\ UNCHANGED <<pageVars, malloc_head, blockVars, live>>

\* The last block is reached: free returns.
CoalesceDone ==
  /\ pc = "coalesce"
  /\ next[current] = NULL
  /\ Return
  /\ UNCHANGED <<pageVars, malloc_head, blockVars, live>>

-----------------------------------------------------------------------------
Malloc == \E n \in Requests : MallocCall(n)

Free == \E p \in DOMAIN live : FreeCall(p)

\* A step of the call in progress.
Step == \/ MallocAdvance \/ MallocTake \/ MallocNewPage \/ MallocFails
        \/ CoalesceMerge \/ CoalesceAdvance \/ CoalesceDone

Next == Malloc \/ Free \/ Step

Spec == Init /\ [][Next]_vars

\* malloc and free are straight-line kernel code: a call in progress keeps
\* executing.
FairSpec == Spec /\ WF_vars(Step)

-----------------------------------------------------------------------------
(***************************************************************************)
(* Properties                                                              *)
(***************************************************************************)
TypeOK ==
  /\ free_pages_list \in Pages \cup {NULL}
  /\ page_next \in [Pages -> Pages \cup {NULL}]
  /\ ref_count \in [Pages -> 0 .. 1]
  /\ total_free_pages \in 0 .. NPages
  /\ Blocks \subseteq Nat \ {NULL}
  /\ malloc_head \in Blocks \cup {NULL}
  /\ size \in [Blocks -> Nat]
  /\ next \in [Blocks -> Blocks \cup {NULL}]
  /\ is_free \in [Blocks -> BOOLEAN]
  /\ pc \in {"idle", "search", "coalesce"}
  /\ current \in Blocks \cup {NULL}
  /\ prev \in Blocks \cup {NULL}
  /\ req \in Nat
  /\ DOMAIN live \subseteq Nat
  /\ live \in [DOMAIN live -> Nat]

Apart(p, m, q, n) == p + m <= q \/ q + n <= p

\* The bytes of an allocation belong to no other allocation and to no list
\* header, so callers can neither see each other's data nor break the list
\* (malloc's split and new-page paths, free's coalescing).
NoOverlap ==
  \A p \in DOMAIN live :
    /\ \A q \in DOMAIN live \ {p} : Apart(p, live[p], q, live[q])
    /\ \A b \in Blocks : Apart(p, live[p], b, SizeofHeader)

InFrame(x) == \E i \in Pages : phy_addr[i] <= x /\ x < phy_addr[i] + PAGE_2M_SIZE

\* Requests are shorter than a frame, so bytes p .. p+n-1 are all inside
\* frames when the first and the last one are.
Usable(p, n) == InFrame(p) /\ InFrame(p + n - 1)

\* malloc only ever hands out bytes of the usable RAM that init_page found.
LiveInUsableRam == \A p \in DOMAIN live : Usable(p, live[p])

\* Outside free() no two list neighbours are both free: one pass of the
\* coalescing loop, which also stays on the block that grew, is enough.
NoFreeNeighbours ==
  pc # "coalesce" =>
    \A b \in Blocks : next[b] # NULL => ~(is_free[b] /\ is_free[next[b]])

\* Whatever the order of calls, when everything has been freed the heap is
\* one free block again that spans all the pages it ever took.
WholeAgain ==
  (pc = "idle" /\ DOMAIN live = {} /\ malloc_head # NULL) =>
    /\ Blocks = {malloc_head}
    /\ is_free[malloc_head]
    /\ size[malloc_head] = (NPages - total_free_pages) * PAGE_2M_SIZE - SizeofHeader

\* The sanity tests of free() never refuse a pointer malloc returned: the
\* pointer is in the heap range and no allocated block outgrows a page,
\* although coalesced free blocks do.
FreeAcceptsLive == \A p \in DOMAIN live : ~Rejected(p)

\* malloc returns NULL only when no page is left and no free block is larger
\* than the request by a header and the rounding to 8 bytes: the walk has
\* visited every block of the list.  The margin is real: the size of a block
\* does not include its own header, the test asks for room for one all the
\* same, and a free block of just the size of the request is refused.
NullOnlyWhenTight ==
  [][pc = "search" /\ pc' = "idle" /\ live' = live
       => /\ free_pages_list = NULL
          /\ \A b \in Blocks : is_free[b] => size[b] < req + SizeofHeader + 7]_vars

\* Every malloc and free call returns: the list walks end.
CallsReturn == (pc # "idle") ~> (pc = "idle")

\* malloc and free implement the abstract allocator.
Abs == INSTANCE Allocator WITH live <- live, Usable <- Usable

AllocatorSpec == Abs!Spec
=============================================================================
