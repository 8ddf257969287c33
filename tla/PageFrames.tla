----------------------------- MODULE PageFrames -----------------------------
(***************************************************************************)
(* The 2 MB page-frame allocator of src/src/kernel/memory.c.               *)
(*                                                                         *)
(* init_page turns the usable (type 1) E820 regions into an array of       *)
(* struct Page, one per whole 2 MB frame, and threads all of them on       *)
(* free_pages_list.  alloc_page pops the head of the list; free_page drops *)
(* a reference and pushes the page back when the count says so.            *)
(*                                                                         *)
(* A struct Page * is its 1-based index in the page array; NULL is 0.      *)
(* Addresses are physical: the kernel adds the constant PAGE_OFFSET to     *)
(* every one of them before use.                                           *)
(***************************************************************************)
EXTENDS Integers, Sequences, SequencesExt

CONSTANTS
  BootTable, \* what the boot loader left at 0x5000: a sequence of
             \*   [address |-> byte address, length |-> bytes, type |-> number]
  UINT_MAX   \* largest value of struct Page's unsigned ref_count

NULL == 0

PAGE_2M_SIZE == 2097152

SizeofPage == 24

(***************************************************************************)
(* init_memory_map: the table is copied up to an entry that ends it, which *)
(* is recognised by its own contents (the loader's count is not used).     *)
(***************************************************************************)
E820_ENTRIES == 32

EndsTable(entry) == entry.type > 4 \/ entry.length = 0

\* The first entry is copied whatever it is.
e820_length ==
  CHOOSE n \in 1 .. E820_ENTRIES :
    /\ \A i \in 2 .. n : ~EndsTable(BootTable[i])
    /\ n = E820_ENTRIES \/ EndsTable(BootTable[n + 1])

\* memory_management_struct.e820
E820 == SubSeq(BootTable, 1, e820_length)

\* The memory behind the map is there to be read, to where the loop ends.
ASSUME BootTableAssumption ==
  /\ BootTable \in Seq([address : Nat, length : Nat, type : Nat])
  /\ \/ Len(BootTable) >= E820_ENTRIES
     \/ \E i \in 2 .. Len(BootTable) : EndsTable(BootTable[i])

(***************************************************************************)
(* init_page: which frames exist and in which order they are listed.       *)
(***************************************************************************)
PAGE_2M_ALIGN(addr) ==
  ((addr + PAGE_2M_SIZE - 1) \div PAGE_2M_SIZE) * PAGE_2M_SIZE

RegionEnd(r) == r.address + r.length

FrameStart(r) == PAGE_2M_ALIGN(r.address)

FrameEnd(r) == (RegionEnd(r) \div PAGE_2M_SIZE) * PAGE_2M_SIZE

\* The 2 MB frames that lie wholly inside region r, in address order.
FramesOf(r) ==
  IF r.type # 1 \/ FrameEnd(r) <= FrameStart(r)
  THEN <<>>
  ELSE [k \in 1 .. ((FrameEnd(r) - FrameStart(r)) \div PAGE_2M_SIZE) |->
          FrameStart(r) + (k - 1) * PAGE_2M_SIZE]

WholeFrames == FlattenSeq([i \in 1 .. Len(E820) |-> FramesOf(E820[i])])

\* The page array itself goes to the start of the first type-1 region that
\* is long enough to hold it; with no such region init_page gives up.
\* Only whether there is one is modelled, not the memory the array takes.
PageArrayFits ==
  \E i \in 1 .. Len(E820) :
    E820[i].type = 1 /\ E820[i].length >= Len(WholeFrames) * SizeofPage

\* page->phy_addr of every page, by index.
phy_addr == IF PageArrayFits THEN WholeFrames ELSE <<>>

NPages == Len(phy_addr)

Pages == 1 .. NPages

UsableEnds == {RegionEnd(E820[i]) : i \in {j \in 1 .. Len(E820) : E820[j].type = 1}}

\* kernel_heap_start and kernel_heap_end, the range free() accepts.
kernel_heap_start == IF NPages = 0 THEN 0 ELSE PAGE_2M_ALIGN(phy_addr[1])

kernel_heap_end == IF NPages = 0 THEN 0
                   ELSE CHOOSE e \in UsableEnds : \A f \in UsableEnds : f <= e

-----------------------------------------------------------------------------
VARIABLES
  free_pages_list,   \* head of the list of free pages
  page_next,         \* page->next
  ref_count,         \* page->ref_count
  total_free_pages

pageVars == <<free_pages_list, page_next, ref_count, total_free_pages>>

PageInit ==
  /\ free_pages_list = IF NPages = 0 THEN NULL ELSE 1
  /\ page_next = [p \in Pages |-> IF p = NPages THEN NULL ELSE p + 1]
  /\ ref_count = [p \in Pages |-> 0]
  /\ total_free_pages = NPages

\* alloc_page returning the page; its other outcome, NULL, changes nothing
\* and is the condition free_pages_list = NULL.
alloc_page(page) ==
  /\ free_pages_list # NULL
  /\ page = free_pages_list
  /\ free_pages_list' = page_next[page]
  /\ page_next' = [page_next EXCEPT ![page] = NULL]
  /\ ref_count' = [ref_count EXCEPT ![page] = 1]
  /\ total_free_pages' = total_free_pages - 1

\* The value of ref_count after "page->ref_count--" on an unsigned int.
Decremented(n) == (n + UINT_MAX) % (UINT_MAX + 1)

\* Mutant of free_page: what a signed ref_count would make of the test
\* "ref_count <= 0".
SignedDrop(page) ==
  /\ ref_count' = [ref_count EXCEPT ![page] = 0]
  /\ free_pages_list' = page
  /\ page_next' = [page_next EXCEPT ![page] = free_pages_list]
  /\ total_free_pages' = total_free_pages + 1

\* free_page(page), page not NULL.  ref_count is unsigned, so the source's
\* "ref_count <= 0" is "ref_count = 0".
free_page(page) ==
  /\ ref_count' = [ref_count EXCEPT ![page] = Decremented(@)]
  /\ IF ref_count'[page] <= 0
     THEN /\ page_next' = [page_next EXCEPT ![page] = free_pages_list]
          /\ free_pages_list' = page
          /\ total_free_pages' = total_free_pages + 1
     ELSE UNCHANGED <<page_next, free_pages_list, total_free_pages>>
=============================================================================
