--------------------------- MODULE HeapContiguous ---------------------------
(***************************************************************************)
(* The heap on a machine whose usable frames are adjacent, as below the    *)
(* first firmware hole of a PC.  free() merges neighbours on the list      *)
(* without comparing addresses; that is correct only here: two frames with *)
(* a hole between them would become one block that spans the hole.  IInv   *)
(* is the inductive invariant behind the theorems of HeapProofs.           *)
(***************************************************************************)
EXTENDS Heap

Base == phy_addr[1]

\* There is a frame, address 0 is not in one, the frames are adjacent and
\* the range that free() accepts covers them.
ASSUME FramesAssumption ==
  /\ NPages \in Nat \ {0}
  /\ Base \in Nat \ {0}
  /\ Base % 8 = 0
  /\ \A i \in Pages : phy_addr[i] = Base + (i - 1) * PAGE_2M_SIZE
  /\ kernel_heap_start = Base
  /\ kernel_heap_end \in Nat
  /\ kernel_heap_end >= Base + NPages * PAGE_2M_SIZE

\* The number of pages the heap has taken, and the end of the last one.
used == NPages - total_free_pages

Top == Base + used * PAGE_2M_SIZE

-----------------------------------------------------------------------------
\* Pages leave the list in index order.
PagesInv ==
  /\ free_pages_list = IF used = NPages THEN NULL ELSE used + 1
  /\ \A i \in Pages : i > used => page_next[i] = IF i = NPages THEN NULL ELSE i + 1

HeadInv ==
  /\ malloc_head = IF used = 0 THEN NULL ELSE Base
  /\ used = 0 => Blocks = {}

\* Every block ends where the next one starts, the last one at Top.
TileInv ==
  \A b \in Blocks :
    /\ Base <= b
    /\ BlockEnd(b) <= Top
    /\ next[b] = IF BlockEnd(b) = Top THEN NULL ELSE BlockEnd(b)

\* List order is address order and no two blocks share a byte.
ApartInv == \A a, b \in Blocks : a < b => BlockEnd(a) <= b

AlignInv == \A b \in Blocks : b % 8 = 0 /\ size[b] % 8 = 0

\* The allocated blocks are exactly the live pointers.
LiveInv ==
  /\ \A p \in DOMAIN live :
       /\ p - SizeofHeader \in Blocks
       /\ ~is_free[p - SizeofHeader]
       /\ 0 < live[p]
       /\ live[p] <= size[p - SizeofHeader]
  /\ \A b \in Blocks : ~is_free[b] => b + SizeofHeader \in DOMAIN live

\* Allocated blocks fit in a page; free ones need not.
SizeInv == \A b \in Blocks : ~is_free[b] => size[b] <= PAGE_2M_SIZE - SizeofHeader

\* malloc's walk: nothing before the cursor fits, prev trails it.
SearchInv ==
  pc = "search" =>
    /\ used > 0
    /\ 0 < req
    /\ req <= max_allowed
    /\ current = NULL => prev \in Blocks /\ next[prev] = NULL
    /\ \A b \in Blocks : (current = NULL \/ b < current) => ~Fits(b)

\* free's walk: no two free neighbours before the cursor.
CoalesceInv ==
  /\ pc # "search" => prev = NULL
  /\ pc = "coalesce" =>
       /\ current \in Blocks
       /\ \A b \in Blocks :
            (b < current /\ next[b] # NULL) => ~(is_free[b] /\ is_free[next[b]])

IInv ==
  /\ TypeOK
  /\ PagesInv
  /\ HeadInv
  /\ TileInv
  /\ ApartInv
  /\ AlignInv
  /\ LiveInv
  /\ SizeInv
  /\ SearchInv
  /\ CoalesceInv
  /\ NoFreeNeighbours
=============================================================================
