----------------------------- MODULE HeapProofs -----------------------------
(***************************************************************************)
(* Proofs about the kernel heap for every number of adjacent page frames,  *)
(* every set of request sizes and every bound on live allocations; and, at *)
(* the end, about the page allocator on any memory map.                    *)
(***************************************************************************)
EXTENDS HeapContiguous, PageClients, FiniteSetTheorems, SequenceTheorems,
        WellFoundedInduction, TLAPS

\* What "(n + 7) & ~7" does to a request malloc accepts.
LEMMA RoundUp8Facts ==
  ASSUME NEW n \in Nat, 0 < n, n <= max_allowed
  PROVE  /\ RoundUp8(n) \in Nat
         /\ n <= RoundUp8(n)
         /\ RoundUp8(n) <= max_allowed
         /\ RoundUp8(n) % 8 = 0
BY DEF RoundUp8, max_allowed, PAGE_2M_SIZE, SizeofHeader

\* The page alloc_page returns is the one at the end of the used ones, and
\* afterwards one more page is used.
LEMMA AllocPageFacts ==
  ASSUME TypeOK, PagesInv, NEW page \in Pages, alloc_page(page)
  PROVE  /\ page = used + 1
         /\ phy_addr[page] = Top
         /\ total_free_pages \in Nat /\ total_free_pages' \in 0 .. NPages
         /\ used \in Nat /\ used < NPages
         /\ used' = used + 1
         /\ Top' = Top + PAGE_2M_SIZE
         /\ free_pages_list' \in Pages \cup {NULL}
         /\ page_next' \in [Pages -> Pages \cup {NULL}]
         /\ ref_count' \in [Pages -> 0 .. 1]
         /\ PagesInv'
<1>1. /\ total_free_pages \in 0 .. NPages
      /\ total_free_pages' = total_free_pages - 1
      /\ used \in Nat
      /\ used' = used + 1
  BY FramesAssumption DEF TypeOK, alloc_page, used
<1>2. page = used + 1 /\ used < NPages
  BY <1>1, FramesAssumption DEF PagesInv, alloc_page, NULL, Pages, used
<1>3. phy_addr[page] = Top /\ Top' = Top + PAGE_2M_SIZE
  BY <1>1, <1>2, FramesAssumption DEF Top, PAGE_2M_SIZE, Base
<1>4. /\ free_pages_list' \in Pages \cup {NULL}
      /\ page_next' \in [Pages -> Pages \cup {NULL}]
      /\ ref_count' \in [Pages -> 0 .. 1]
  BY DEF TypeOK, alloc_page
<1>5. PagesInv'
  <2>1. free_pages_list' = IF used' = NPages THEN NULL ELSE used' + 1
    BY <1>1, <1>2, FramesAssumption DEF PagesInv, alloc_page, NULL, Pages
  <2>2. ASSUME NEW i \in Pages, i > used'
        PROVE  page_next'[i] = IF i = NPages THEN NULL ELSE i + 1
    <3>1. i \in Int /\ i # page /\ i > used
      BY <1>1, <1>2, <2>2, FramesAssumption DEF Pages
    <3>2. page_next'[i] = page_next[i]
      BY <3>1 DEF alloc_page, TypeOK
    <3> QED BY <3>1, <3>2 DEF PagesInv
  <2> QED BY <2>1, <2>2 DEF PagesInv
<1> QED BY <1>1, <1>2, <1>3, <1>4, <1>5, FramesAssumption DEF used

-----------------------------------------------------------------------------
\* The invariant holds of the empty heap that init_memory leaves.
LEMMA InitIInv == Init => IInv
BY FramesAssumption
   DEF Init, PageInit, IInv, TypeOK, PagesInv, HeadInv, TileInv, ApartInv, AlignInv,
       LiveInv, SizeInv, SearchInv, CoalesceInv, NoFreeNeighbours, Blocks, NULL, used,
       Pages, BlockEnd

\* malloc is entered: the list is as it was, or is one block on a new page.
LEMMA MallocCallIInv ==
  ASSUME IInv, NEW n \in Requests, MallocCall(n)
  PROVE  IInv'
<1> USE DEF NULL, SizeofHeader, PAGE_2M_SIZE
<1>0. n \in Nat /\ 0 < n /\ n <= max_allowed
  BY RequestsAssumption DEF MallocCall
<1>1. CASE malloc_head # NULL
  <2>1. /\ UNCHANGED <<pageVars, malloc_head, blockVars, live>>
        /\ pc' = "search" /\ req' = n /\ prev' = NULL /\ current' = malloc_head
    BY <1>1 DEF MallocCall
  <2>2. used' = used /\ Top' = Top /\ used > 0 /\ malloc_head = Base
    BY <1>1, <2>1, FramesAssumption DEF pageVars, used, Top, IInv, HeadInv, TypeOK
  <2>3. TypeOK'
    BY <1>0, <1>1, <2>1 DEF IInv, TypeOK, Blocks, pageVars, blockVars
  <2>4. PagesInv' /\ HeadInv' /\ TileInv' /\ ApartInv' /\ AlignInv' /\ LiveInv' /\ SizeInv'
    BY <2>1, <2>2
       DEF IInv, PagesInv, HeadInv, TileInv, ApartInv, AlignInv, LiveInv, SizeInv,
           Blocks, BlockEnd, pageVars, blockVars
  <2>5. SearchInv'
    BY <1>0, <1>1, <2>1, <2>2, FramesAssumption
       DEF IInv, TypeOK, SearchInv, TileInv, Blocks, blockVars
  <2>6. CoalesceInv' /\ NoFreeNeighbours'
    BY <2>1 DEF IInv, TypeOK, CoalesceInv, NoFreeNeighbours, Blocks, blockVars, MallocCall
  <2> QED BY <2>3, <2>4, <2>5, <2>6 DEF IInv
<1>2. CASE malloc_head = NULL
  <2>1. PICK page \in Pages :
          /\ alloc_page(page)
          /\ malloc_head' = phy_addr[page]
          /\ size' = [b \in {phy_addr[page]} |-> PAGE_2M_SIZE - SizeofHeader]
          /\ next' = [b \in {phy_addr[page]} |-> NULL]
          /\ is_free' = [b \in {phy_addr[page]} |-> TRUE]
    <3> HIDE DEF NULL, SizeofHeader, PAGE_2M_SIZE
    <3> QED BY <1>2 DEF MallocCall
  <2>2. /\ live' = live /\ pc' = "search" /\ req' = n /\ prev' = NULL
        /\ current' = malloc_head'
    BY DEF MallocCall
  <2>3. used = 0 /\ Blocks = {} /\ DOMAIN live = {} /\ Top = Base
    <3>1. used = 0
      BY <1>2, FramesAssumption DEF IInv, HeadInv
    <3>2. Blocks = {}
      BY <3>1 DEF IInv, HeadInv
    <3>3. DOMAIN live = {}
      BY <3>2 DEF IInv, LiveInv
    <3>4. Top = Base
      BY <3>1, FramesAssumption DEF Top
    <3> QED BY <3>1, <3>2, <3>3, <3>4
  <2>4. /\ phy_addr[page] = Top
        /\ used' = 1
        /\ Top' = Base + PAGE_2M_SIZE
        /\ total_free_pages' \in 0 .. NPages
        /\ free_pages_list' \in Pages \cup {NULL}
        /\ page_next' \in [Pages -> Pages \cup {NULL}]
        /\ ref_count' \in [Pages -> 0 .. 1]
        /\ PagesInv'
    BY <2>1, <2>3, AllocPageFacts DEF IInv
  <2>5. /\ Blocks' = {Base}
        /\ size'[Base] = PAGE_2M_SIZE - SizeofHeader
        /\ next'[Base] = NULL
        /\ is_free'[Base] = TRUE
        /\ malloc_head' = Base
    BY <2>1, <2>3, <2>4 DEF Blocks
  <2>6. TypeOK'
    BY <1>0, <2>1, <2>2, <2>3, <2>4, <2>5, FramesAssumption DEF IInv, TypeOK, Blocks
  <2>7. HeadInv' /\ TileInv' /\ ApartInv' /\ LiveInv' /\ SizeInv'
    <3>1. HeadInv'
      BY <2>4, <2>5 DEF HeadInv
    <3>2. TileInv'
      BY <2>4, <2>5, FramesAssumption DEF TileInv, BlockEnd
    <3>3. ApartInv'
      BY <2>5, FramesAssumption DEF ApartInv
    <3>4. LiveInv' /\ SizeInv'
      BY <2>2, <2>3, <2>5 DEF LiveInv, SizeInv
    <3> QED BY <3>1, <3>2, <3>3, <3>4
  <2>8. AlignInv'
    BY <2>5, FramesAssumption DEF AlignInv
  <2>9. SearchInv' /\ CoalesceInv' /\ NoFreeNeighbours'
    BY <1>0, <2>2, <2>4, <2>5, FramesAssumption DEF SearchInv, CoalesceInv, NoFreeNeighbours
  <2> QED BY <2>4, <2>6, <2>7, <2>8, <2>9 DEF IInv
<1> QED BY <1>1, <1>2

\* malloc's loop moving on keeps the invariant: the block it leaves
\* behind did not fit.
LEMMA MallocAdvanceIInv ==
  ASSUME IInv, MallocAdvance
  PROVE  IInv'
<1> USE DEF NULL, SizeofHeader, PAGE_2M_SIZE
<1>1. /\ pc = "search" /\ current # NULL /\ ~Fits(current)
      /\ prev' = current /\ current' = next[current]
      /\ UNCHANGED <<pageVars, malloc_head, blockVars, pc, req, live>>
  BY DEF MallocAdvance
<1>2. used' = used /\ Top' = Top /\ current \in Blocks
  BY <1>1 DEF pageVars, used, Top, IInv, TypeOK
<1>3. TypeOK'
  BY <1>1, <1>2 DEF IInv, TypeOK, Blocks, pageVars, blockVars
<1>4. PagesInv' /\ HeadInv' /\ TileInv' /\ ApartInv' /\ AlignInv' /\ LiveInv' /\ SizeInv'
  BY <1>1, <1>2
     DEF IInv, PagesInv, HeadInv, TileInv, ApartInv, AlignInv, LiveInv, SizeInv,
         Blocks, BlockEnd, pageVars, blockVars
<1>5. SearchInv'
  <2>1. ASSUME NEW b \in Blocks, current' = NULL \/ b < current'
        PROVE  b <= current
    BY <1>1, <1>2, <2>1, FramesAssumption
       DEF IInv, TypeOK, TileInv, ApartInv, BlockEnd, used, Top
  <2>2. ASSUME NEW b \in Blocks, current' = NULL \/ b < current'
        PROVE  ~Fits(b)
    BY <1>1, <1>2, <2>1, <2>2 DEF IInv, TypeOK, SearchInv
  <2>3. \A b \in Blocks : Fits(b)' <=> Fits(b)
    BY <1>1 DEF Fits, total_size, payload, blockVars
  <2> QED BY <1>1, <1>2, <2>2, <2>3 DEF IInv, SearchInv, Blocks, blockVars
<1>6. CoalesceInv' /\ NoFreeNeighbours'
  BY <1>1 DEF IInv, CoalesceInv, NoFreeNeighbours, Blocks, blockVars
<1> QED BY <1>3, <1>4, <1>5, <1>6 DEF IInv

\* malloc returning NULL keeps the invariant.
LEMMA MallocFailsIInv ==
  ASSUME IInv, MallocFails
  PROVE  IInv'
<1> USE DEF NULL, SizeofHeader, PAGE_2M_SIZE
<1>1. /\ pc = "search" /\ pc' = "idle" /\ current' = NULL /\ prev' = NULL /\ req' = 0
      /\ UNCHANGED <<pageVars, malloc_head, blockVars, live>>
  BY DEF MallocFails, Return
<1>2. used' = used /\ Top' = Top
  BY <1>1 DEF pageVars, used, Top
<1>3. TypeOK'
  BY <1>1 DEF IInv, TypeOK, Blocks, pageVars, blockVars
<1>4. PagesInv' /\ HeadInv' /\ TileInv' /\ ApartInv' /\ AlignInv' /\ LiveInv' /\ SizeInv'
  BY <1>1, <1>2
     DEF IInv, PagesInv, HeadInv, TileInv, ApartInv, AlignInv, LiveInv, SizeInv,
         Blocks, BlockEnd, pageVars, blockVars
<1>5. SearchInv' /\ CoalesceInv' /\ NoFreeNeighbours'
  BY <1>1 DEF IInv, SearchInv, CoalesceInv, NoFreeNeighbours, Blocks, blockVars
<1> QED BY <1>3, <1>4, <1>5 DEF IInv

\* free's own tests pass for every live pointer.
LEMMA IInvFreeAccepts == IInv => FreeAcceptsLive
<1> SUFFICES ASSUME IInv, NEW p \in DOMAIN live
             PROVE  ~Rejected(p)
  BY DEF FreeAcceptsLive
<1>1. /\ p - SizeofHeader \in Blocks /\ ~is_free[p - SizeofHeader]
      /\ p \in Nat /\ 0 < live[p] /\ live[p] <= size[p - SizeofHeader]
  BY DEF IInv, TypeOK, LiveInv
<1> DEFINE b == p - SizeofHeader
<1>2. /\ Base <= b /\ b + SizeofHeader + size[b] <= Top
      /\ size[b] \in Nat /\ b \in Nat /\ live[p] \in Nat
      /\ size[b] <= PAGE_2M_SIZE
  BY <1>1 DEF IInv, TileInv, BlockEnd, TypeOK, SizeInv, SizeofHeader, PAGE_2M_SIZE
<1>3. Top \in Nat /\ Top <= kernel_heap_end /\ kernel_heap_end \in Nat
  BY FramesAssumption DEF IInv, TypeOK, Top, used, PAGE_2M_SIZE
<1> QED BY <1>1, <1>2, <1>3, FramesAssumption DEF Rejected, SizeofHeader, PAGE_2M_SIZE

\* The entry of free keeps the invariant: the pointer is accepted, its
\* block becomes free and the walk starts at malloc_head.
LEMMA FreeCallIInv ==
  ASSUME IInv, NEW p \in DOMAIN live, FreeCall(p)
  PROVE  IInv'
<1> USE DEF NULL, SizeofHeader, PAGE_2M_SIZE
<1> DEFINE h == p - SizeofHeader
<1>1. /\ pc = "idle" /\ pc' = "coalesce" /\ current' = malloc_head
      /\ is_free' = [is_free EXCEPT ![h] = TRUE]
      /\ live' = [q \in DOMAIN live \ {p} |-> live[q]]
      /\ UNCHANGED <<pageVars, malloc_head, size, next, prev, req>>
  BY IInvFreeAccepts DEF FreeCall, FreeAcceptsLive
<1>2. used' = used /\ Top' = Top /\ h \in Blocks /\ p \in Nat /\ Blocks' = Blocks
  <2>1. h \in Blocks /\ p \in Nat
    BY DEF IInv, LiveInv, TypeOK
  <2>2. used' = used /\ Top' = Top /\ Blocks' = Blocks
    BY <1>1 DEF pageVars, used, Top, Blocks
  <2> QED BY <2>1, <2>2
<1>3. is_free'[h] = TRUE /\ \A b \in Blocks : b # h => is_free'[b] = is_free[b]
  BY <1>1, <1>2 DEF IInv, TypeOK
<1>4. malloc_head = Base /\ Base \in Blocks
  <2>1. malloc_head # NULL /\ malloc_head = Base
    BY <1>2, FramesAssumption DEF IInv, HeadInv
  <2> QED BY <2>1 DEF IInv, TypeOK
<1>5. TypeOK'
  BY <1>1, <1>2, <1>4 DEF IInv, TypeOK, pageVars
<1>6. PagesInv' /\ HeadInv' /\ TileInv' /\ ApartInv' /\ AlignInv'
  BY <1>1, <1>2
     DEF IInv, PagesInv, HeadInv, TileInv, ApartInv, AlignInv, BlockEnd, pageVars
<1>7. SizeInv'
  BY <1>1, <1>2, <1>3 DEF IInv, SizeInv
<1>8. LiveInv'
  <2>1. ASSUME NEW q \in DOMAIN live, q # p
        PROVE  q - SizeofHeader # h
    BY <2>1 DEF IInv, TypeOK
  <2>2. ASSUME NEW q \in DOMAIN live'
        PROVE  /\ q - SizeofHeader \in Blocks
               /\ ~is_free'[q - SizeofHeader]
               /\ 0 < live'[q]
               /\ live'[q] <= size[q - SizeofHeader]
    BY <1>1, <1>3, <2>1 DEF IInv, LiveInv
  <2>3. ASSUME NEW b \in Blocks, ~is_free'[b]
        PROVE  b + SizeofHeader \in DOMAIN live'
    BY <1>1, <1>2, <1>3, <2>3 DEF IInv, LiveInv, TypeOK
  <2> QED BY <1>1, <1>2, <2>2, <2>3 DEF LiveInv
<1>9. SearchInv' /\ NoFreeNeighbours'
  BY <1>1 DEF SearchInv, NoFreeNeighbours
<1>10. CoalesceInv'
  BY <1>1, <1>2, <1>4, FramesAssumption DEF IInv, CoalesceInv, TileInv, TypeOK
<1> QED BY <1>5, <1>6, <1>7, <1>8, <1>9, <1>10 DEF IInv

\* free's loop moving on keeps the invariant: the pair it leaves behind
\* is not free on both sides.
LEMMA CoalesceAdvanceIInv ==
  ASSUME IInv, CoalesceAdvance
  PROVE  IInv'
<1> USE DEF NULL, SizeofHeader, PAGE_2M_SIZE
<1>1. /\ pc = "coalesce" /\ next[current] # NULL
      /\ ~(is_free[current] /\ is_free[next[current]])
      /\ current' = next[current]
      /\ UNCHANGED <<pageVars, malloc_head, blockVars, pc, prev, req, live>>
  BY DEF CoalesceAdvance
<1>2. used' = used /\ Top' = Top /\ current \in Blocks /\ next[current] \in Blocks
  BY <1>1 DEF pageVars, used, Top, IInv, TypeOK, CoalesceInv
<1>3. TypeOK'
  BY <1>1, <1>2 DEF IInv, TypeOK, Blocks, pageVars, blockVars
<1>4. PagesInv' /\ HeadInv' /\ TileInv' /\ ApartInv' /\ AlignInv' /\ LiveInv' /\ SizeInv'
  BY <1>1, <1>2
     DEF IInv, PagesInv, HeadInv, TileInv, ApartInv, AlignInv, LiveInv, SizeInv,
         Blocks, BlockEnd, pageVars, blockVars
<1>5. CoalesceInv'
  <2>1. ASSUME NEW b \in Blocks, b < next[current]
        PROVE  b <= current
    BY <1>1, <1>2, <2>1, FramesAssumption
       DEF IInv, TypeOK, TileInv, ApartInv, BlockEnd
  <2>2. ASSUME NEW b \in Blocks, b < next[current], next[b] # NULL
        PROVE  ~(is_free[b] /\ is_free[next[b]])
    BY <1>1, <1>2, <2>1, <2>2 DEF IInv, TypeOK, CoalesceInv
  <2> QED BY <1>1, <1>2, <2>2 DEF IInv, CoalesceInv, Blocks, blockVars
<1>6. SearchInv' /\ NoFreeNeighbours'
  BY <1>1 DEF SearchInv, NoFreeNeighbours
<1> QED BY <1>3, <1>4, <1>5, <1>6 DEF IInv

\* free returning at the last block keeps the invariant.
LEMMA CoalesceDoneIInv ==
  ASSUME IInv, CoalesceDone
  PROVE  IInv'
<1> USE DEF NULL, SizeofHeader, PAGE_2M_SIZE
<1>1. /\ pc = "coalesce" /\ next[current] = NULL
      /\ pc' = "idle" /\ current' = NULL /\ prev' = NULL /\ req' = 0
      /\ UNCHANGED <<pageVars, malloc_head, blockVars, live>>
  BY DEF CoalesceDone, Return
<1>2. used' = used /\ Top' = Top /\ current \in Blocks
  BY <1>1 DEF pageVars, used, Top, IInv, CoalesceInv
<1>3. TypeOK'
  BY <1>1 DEF IInv, TypeOK, Blocks, pageVars, blockVars
<1>4. PagesInv' /\ HeadInv' /\ TileInv' /\ ApartInv' /\ AlignInv' /\ LiveInv' /\ SizeInv'
  BY <1>1, <1>2
     DEF IInv, PagesInv, HeadInv, TileInv, ApartInv, AlignInv, LiveInv, SizeInv,
         Blocks, BlockEnd, pageVars, blockVars
<1>5. NoFreeNeighbours'
  <2>1. ASSUME NEW b \in Blocks
        PROVE  b <= current
    BY <1>1, <1>2, FramesAssumption
       DEF IInv, TypeOK, TileInv, ApartInv, BlockEnd, Top, used
  <2>2. ASSUME NEW b \in Blocks, next[b] # NULL
        PROVE  ~(is_free[b] /\ is_free[next[b]])
    BY <1>1, <1>2, <2>1, <2>2 DEF IInv, TypeOK, CoalesceInv
  <2> QED BY <1>1, <2>2 DEF NoFreeNeighbours, Blocks, blockVars
<1>6. SearchInv' /\ CoalesceInv'
  BY <1>1 DEF SearchInv, CoalesceInv
<1> QED BY <1>3, <1>4, <1>5, <1>6 DEF IInv

\* Merging keeps the tiling: gone starts where current ends, and no other
\* block links to gone.
LEMMA CoalesceMergeIInv ==
  ASSUME IInv, CoalesceMerge
  PROVE  IInv'
<1> USE DEF NULL, SizeofHeader, PAGE_2M_SIZE
<1> DEFINE gone == next[current]
           kept == Blocks \ {gone}
<1>1. /\ pc = "coalesce" /\ gone # NULL /\ is_free[current] /\ is_free[gone]
      /\ size' = [b \in kept |-> IF b = current
                                THEN size[b] + SizeofHeader + size[gone] ELSE size[b]]
      /\ next' = [b \in kept |-> IF b = current THEN next[gone] ELSE next[b]]
      /\ is_free' = [b \in kept |-> is_free[b]]
      /\ UNCHANGED <<pageVars, malloc_head, callVars, live>>
  BY DEF CoalesceMerge, Merged
<1>2. /\ used' = used /\ Top' = Top /\ Blocks' = kept /\ prev = NULL
      /\ pc' = pc /\ current' = current /\ prev' = prev /\ req' = req
  BY <1>1 DEF pageVars, callVars, used, Top, IInv, CoalesceInv, Blocks
<1>3. /\ current \in Blocks /\ gone \in Blocks /\ current \in Nat
      /\ size[current] \in Nat /\ size[gone] \in Nat
      /\ gone = BlockEnd(current) /\ current < gone /\ Base <= current
  BY <1>1 DEF IInv, TypeOK, CoalesceInv, TileInv, BlockEnd
<1> HIDE DEF gone
<1>4. \A b \in kept : /\ b \in Blocks /\ b \in Nat /\ size[b] \in Nat
                     /\ next[b] \in Blocks \cup {NULL}
  BY DEF IInv, TypeOK
<1>5. \A b \in kept : b # current => next[b] # gone
  BY <1>3, <1>4, FramesAssumption DEF IInv, TileInv, ApartInv, BlockEnd, TypeOK
<1>6. next[gone] # gone
  BY <1>3, FramesAssumption DEF IInv, TileInv, BlockEnd, TypeOK
<1>7. TypeOK'
  <2>1. /\ kept \subseteq Nat \ {NULL}
        /\ malloc_head' \in kept \cup {NULL}
        /\ current' \in kept \cup {NULL} /\ prev' \in kept \cup {NULL}
    <3>1. malloc_head # gone
      BY <1>3, FramesAssumption DEF IInv, HeadInv
    <3> QED BY <1>1, <1>2, <1>3, <3>1 DEF IInv, TypeOK
  <2>2. size' \in [kept -> Nat]
    <3>1. size[current] + SizeofHeader + size[gone] \in Nat
      BY <1>3
    <3> HIDE DEF kept
    <3> QED BY <1>1, <1>4, <3>1
  <2>3. next' \in [kept -> kept \cup {NULL}]
    BY <1>1, <1>3, <1>4, <1>5, <1>6 DEF IInv, TypeOK
  <2>4. is_free' \in [kept -> BOOLEAN]
    BY <1>1 DEF IInv, TypeOK
  <2> QED BY <1>1, <1>2, <2>1, <2>2, <2>3, <2>4 DEF IInv, TypeOK, pageVars
<1>8. PagesInv' /\ HeadInv'
  BY <1>1, <1>2 DEF IInv, PagesInv, HeadInv, pageVars
<1>9. /\ size'[current] = size[current] + SizeofHeader + size[gone]
      /\ next'[current] = next[gone]
      /\ is_free'[current] = is_free[current]
      /\ \A b \in kept : b # current => size'[b] = size[b] /\ next'[b] = next[b]
      /\ \A b \in kept : is_free'[b] = is_free[b]
      /\ current \in kept
  <2>1. current \in kept
    BY <1>3
  <2> QED BY <1>1, <2>1
<1>10. TileInv'
  <2>1. BlockEnd(current)' = BlockEnd(gone)
    BY <1>2, <1>3, <1>9 DEF BlockEnd, IInv, TypeOK
  <2>2. \A b \in kept : b # current => BlockEnd(b)' = BlockEnd(b)
    BY <1>9 DEF BlockEnd
  <2> QED BY <1>2, <1>3, <1>9, <2>1, <2>2 DEF IInv, TileInv
<1>11. ApartInv'
  <2> SUFFICES ASSUME NEW a \in kept, NEW b \in kept, a < b
               PROVE  a + SizeofHeader + size'[a] <= b
    BY <1>2 DEF ApartInv, BlockEnd
  <2>1. CASE a = current
    <3>1. BlockEnd(current) <= b
      BY <1>3, <2>1 DEF IInv, ApartInv
    <3>2. gone < b
      BY <1>3, <1>4, <3>1
    <3>3. BlockEnd(gone) <= b
      BY <1>3, <3>2 DEF IInv, ApartInv
    <3> QED BY <1>3, <1>4, <1>9, <2>1, <3>3 DEF BlockEnd
  <2>2. CASE a # current
    BY <1>9, <2>2 DEF IInv, ApartInv, BlockEnd
  <2> QED BY <2>1, <2>2
<1>12. AlignInv'
  <2>1. current % 8 = 0 /\ size[current] % 8 = 0 /\ size[gone] % 8 = 0
    BY <1>3 DEF IInv, AlignInv
  <2>2. (size[current] + 24 + size[gone]) % 8 = 0
    BY <1>3, <2>1
  <2> QED BY <1>2, <1>9, <2>1, <2>2 DEF IInv, AlignInv
<1>13. LiveInv' /\ SizeInv'
  <2>1. ASSUME NEW p \in DOMAIN live
        PROVE  p - SizeofHeader \in kept /\ p - SizeofHeader # current
    BY <1>1, <1>3 DEF IInv, LiveInv
  <2> QED BY <1>1, <1>2, <1>9, <2>1 DEF IInv, LiveInv, SizeInv
<1>14. SearchInv' /\ NoFreeNeighbours'
  BY <1>1, <1>2 DEF SearchInv, NoFreeNeighbours
<1>15. CoalesceInv'
  <2> SUFFICES ASSUME NEW b \in kept, b < current, next'[b] # NULL
               PROVE  ~(is_free'[b] /\ is_free'[next'[b]])
    BY <1>1, <1>2, <1>9 DEF CoalesceInv, IInv
  <2>1. next'[b] = next[b] /\ next[b] # gone /\ next[b] \in kept
    BY <1>3, <1>4, <1>5, <1>9
  <2> QED BY <1>1, <1>9, <2>1 DEF IInv, CoalesceInv
<1> QED BY <1>7, <1>8, <1>10, <1>11, <1>12, <1>13, <1>14, <1>15 DEF IInv

\* The size computations of the malloc call in progress.
LEMMA CallSizes ==
  ASSUME IInv, pc = "search"
  PROVE  /\ req \in Nat /\ 0 < req /\ req <= payload
         /\ payload \in Nat /\ payload <= max_allowed /\ payload % 8 = 0
         /\ total_size = payload + SizeofHeader
BY RoundUp8Facts DEF IInv, TypeOK, SearchInv, payload, total_size

\* A free block that fits is taken whole or cut in two.
LEMMA MallocTakeIInv ==
  ASSUME IInv, MallocTake
  PROVE  IInv'
<1> USE DEF NULL, SizeofHeader, PAGE_2M_SIZE
<1> DEFINE nb == current + total_size
<1>1. /\ pc = "search" /\ current \in Blocks
      /\ is_free[current] /\ size[current] >= total_size
      /\ Carve(current, size[current], next[current], size, next, is_free)
      /\ live' = [p \in DOMAIN live \cup {current + SizeofHeader} |->
                    IF p = current + SizeofHeader THEN req ELSE live[p]]
      /\ pc' = "idle" /\ current' = NULL /\ prev' = NULL /\ req' = 0
      /\ UNCHANGED <<pageVars, malloc_head>>
  BY DEF MallocTake, Grant, Return, Fits, IInv, TypeOK
<1>2. /\ used' = used /\ Top' = Top
      /\ current \in Nat /\ size[current] \in Nat
  BY <1>1 DEF pageVars, used, Top, IInv, TypeOK
<1>3. /\ req \in Nat /\ 0 < req /\ req <= payload
      /\ payload \in Nat /\ payload <= max_allowed /\ payload % 8 = 0
      /\ total_size = payload + SizeofHeader /\ total_size \in Nat
  BY <1>1, CallSizes
<1>4. SearchInv' /\ CoalesceInv'
  BY <1>1 DEF SearchInv, CoalesceInv
<1>5. /\ DOMAIN live' = DOMAIN live \cup {current + SizeofHeader}
      /\ DOMAIN live' \subseteq Nat /\ live' \in [DOMAIN live' -> Nat]
      /\ live'[current + SizeofHeader] = req
      /\ (current + SizeofHeader) - SizeofHeader = current
      /\ \A p \in DOMAIN live : /\ p - SizeofHeader \in Blocks
                               /\ p - SizeofHeader # current
                               /\ live'[p] = live[p]
  <2>1. \A p \in DOMAIN live : p - SizeofHeader # current /\ p - SizeofHeader \in Blocks
    BY <1>1 DEF IInv, LiveInv
  <2>2. \A p \in DOMAIN live : p # current + SizeofHeader
    BY <1>2, <2>1 DEF IInv, TypeOK
  <2>3. DOMAIN live' \subseteq Nat /\ live' \in [DOMAIN live' -> Nat]
    BY <1>1, <1>2, <1>3 DEF IInv, TypeOK
  <2> QED BY <1>1, <1>2, <2>1, <2>2, <2>3
<1>6. CASE ~Splits(size[current])
  <2>1. /\ size' = size /\ next' = next
        /\ is_free' = [a \in Blocks |-> IF a = current THEN FALSE ELSE is_free[a]]
    <3>1. DOMAIN size \cup {current} = Blocks
      BY <1>1 DEF Blocks
    <3>2. /\ size' = [a \in Blocks |-> IF a = current THEN size[current] ELSE size[a]]
          /\ next' = [a \in Blocks |-> IF a = current THEN next[current] ELSE next[a]]
          /\ is_free' = [a \in Blocks |-> IF a = current THEN FALSE ELSE is_free[a]]
      BY <1>1, <1>6, <3>1 DEF Carve
    <3>3. size \in [Blocks -> Nat] /\ next \in [Blocks -> Blocks \cup {NULL}]
      BY DEF IInv, TypeOK
    <3> QED BY <3>2, <3>3
  <2>2. Blocks' = Blocks
    BY <2>1 DEF Blocks
  <2>3. TypeOK'
    <3>1. is_free' \in [Blocks -> BOOLEAN]
      BY <2>1 DEF IInv, TypeOK
    <3> QED BY <1>1, <1>5, <2>1, <2>2, <3>1 DEF IInv, TypeOK, pageVars
  <2>4. PagesInv' /\ HeadInv' /\ TileInv' /\ ApartInv' /\ AlignInv'
    BY <1>1, <1>2, <2>1, <2>2
       DEF IInv, PagesInv, HeadInv, TileInv, ApartInv, AlignInv, BlockEnd, pageVars
  <2>5. size[current] <= PAGE_2M_SIZE - SizeofHeader
    BY <1>2, <1>3, <1>6 DEF Splits, max_allowed
  <2>6. SizeInv'
    BY <2>1, <2>2, <2>5 DEF IInv, SizeInv
  <2>7. LiveInv'
    <3>1. ASSUME NEW p \in DOMAIN live
          PROVE  /\ p - SizeofHeader \in Blocks
                 /\ ~is_free'[p - SizeofHeader]
                 /\ 0 < live'[p]
                 /\ live'[p] <= size[p - SizeofHeader]
      BY <1>5, <2>1 DEF IInv, LiveInv
    <3>2. ASSUME NEW b \in Blocks, ~is_free'[b]
          PROVE  b + SizeofHeader \in DOMAIN live'
      BY <1>5, <2>1, <3>2 DEF IInv, LiveInv
    <3>3. ~is_free'[current] /\ 0 < req /\ req <= size[current]
      BY <1>1, <1>2, <1>3, <2>1
    <3>4. ASSUME NEW p \in DOMAIN live'
          PROVE  /\ p - SizeofHeader \in Blocks
                 /\ ~is_free'[p - SizeofHeader]
                 /\ 0 < live'[p]
                 /\ live'[p] <= size[p - SizeofHeader]
      <4>1. CASE p \in DOMAIN live
        BY <3>1, <4>1
      <4>2. CASE p = current + SizeofHeader
        BY <1>1, <1>5, <3>3, <4>2
      <4> QED BY <1>5, <4>1, <4>2
    <3> QED BY <2>1, <2>2, <3>2, <3>4 DEF LiveInv
  <2>8. NoFreeNeighbours'
    BY <1>1, <2>1, <2>2 DEF IInv, NoFreeNeighbours, TypeOK
  <2> QED BY <1>4, <2>3, <2>4, <2>6, <2>7, <2>8 DEF IInv
<1>7. CASE Splits(size[current])
  <2>1. /\ size' = [a \in Blocks \cup {nb} |->
                      IF a = current THEN payload
                      ELSE IF a = nb THEN size[current] - total_size ELSE size[a]]
        /\ next' = [a \in Blocks \cup {nb} |->
                      IF a = current THEN nb
                      ELSE IF a = nb THEN next[current] ELSE next[a]]
        /\ is_free' = [a \in Blocks \cup {nb} |->
                      IF a = current THEN FALSE
                      ELSE IF a = nb THEN TRUE ELSE is_free[a]]
    <3>1. DOMAIN size \cup {current, nb} = Blocks \cup {nb}
      BY <1>1 DEF Blocks
    <3> QED BY <1>1, <1>7, <3>1 DEF Carve
  <2>2. Blocks' = Blocks \cup {nb}
    BY <2>1 DEF Blocks
  <2>3. /\ nb \in Nat /\ current < nb /\ nb < BlockEnd(current)
        /\ nb = current + SizeofHeader + payload
        /\ size[current] - total_size \in Nat
        /\ nb + SizeofHeader + (size[current] - total_size) = BlockEnd(current)
    BY <1>2, <1>3, <1>7 DEF Splits, BlockEnd
  <2>4. nb \notin Blocks /\ nb # current
    BY <1>1, <1>2, <2>3 DEF IInv, ApartInv, TypeOK, BlockEnd
  <2> HIDE DEF nb
  <2>5. /\ size'[current] = payload /\ next'[current] = nb /\ is_free'[current] = FALSE
        /\ size'[nb] = size[current] - total_size
        /\ next'[nb] = next[current] /\ is_free'[nb] = TRUE
        /\ \A b \in Blocks : b # current =>
             size'[b] = size[b] /\ next'[b] = next[b] /\ is_free'[b] = is_free[b]
    BY <1>1, <2>1, <2>4
  <2>6. TypeOK'
    <3>1. size' \in [Blocks \cup {nb} -> Nat]
      BY <1>3, <2>1, <2>3 DEF IInv, TypeOK
    <3>2. next' \in [Blocks \cup {nb} -> Blocks \cup {nb} \cup {NULL}]
      BY <1>1, <2>1 DEF IInv, TypeOK
    <3>3. is_free' \in [Blocks \cup {nb} -> BOOLEAN]
      BY <1>1, <2>1 DEF IInv, TypeOK
    <3>4. Blocks' \subseteq Nat \ {NULL} /\ malloc_head' \in Blocks' \cup {NULL}
      BY <1>1, <1>2, <2>2, <2>3 DEF IInv, TypeOK
    <3> QED BY <1>1, <1>5, <2>2, <3>1, <3>2, <3>3, <3>4 DEF IInv, TypeOK, pageVars
  <2>7. PagesInv' /\ HeadInv'
    BY <1>1, <1>2 DEF IInv, PagesInv, HeadInv, TileInv, pageVars
  <2>8. TileInv'
    <3> DEFINE newEnd(b) == b + SizeofHeader + size'[b]
    <3>1. newEnd(current) = nb /\ newEnd(nb) = BlockEnd(current)
      BY <1>1, <2>3, <2>5 DEF BlockEnd
    <3>2. \A b \in Blocks : b # current => newEnd(b) = BlockEnd(b)
      BY <2>5 DEF BlockEnd
    <3>3. Top \in Nat /\ Base \in Nat /\ BlockEnd(current) <= Top /\ Base <= current
          /\ BlockEnd(current) \in Nat
      BY <1>1, <1>2, FramesAssumption DEF IInv, TileInv, Top, used, TypeOK, BlockEnd
    <3>4. \A b \in Blocks : b # current =>
            /\ Base <= b /\ newEnd(b) <= Top
            /\ next'[b] = IF newEnd(b) = Top THEN NULL ELSE newEnd(b)
      BY <2>5, <3>2 DEF IInv, TileInv
    <3>5. /\ Base <= current /\ newEnd(current) <= Top
          /\ next'[current] = IF newEnd(current) = Top THEN NULL ELSE newEnd(current)
      BY <1>2, <2>3, <2>5, <3>1, <3>3
    <3>6. /\ Base <= nb /\ newEnd(nb) <= Top
          /\ next'[nb] = IF newEnd(nb) = Top THEN NULL ELSE newEnd(nb)
      BY <1>1, <1>2, <2>3, <2>5, <3>1, <3>3 DEF IInv, TileInv
    <3> QED BY <1>2, <2>2, <3>4, <3>5, <3>6 DEF TileInv, BlockEnd
  <2>9. ApartInv'
    <3> SUFFICES ASSUME NEW a \in Blocks \cup {nb}, NEW b \in Blocks \cup {nb}, a < b
                 PROVE  a + SizeofHeader + size'[a] <= b
      BY <2>2 DEF ApartInv, BlockEnd
    <3>1. CASE a = current
      <4>1. b = nb \/ BlockEnd(current) <= b
        BY <1>1, <3>1 DEF IInv, ApartInv
      <4>2. b \in Nat /\ BlockEnd(current) \in Nat
        BY <1>2, <2>3 DEF IInv, TypeOK, BlockEnd
      <4> QED BY <1>2, <1>3, <2>3, <2>5, <3>1, <4>1, <4>2
    <3>2. CASE a = nb
      <4>1. b \in Blocks /\ current < b /\ b \in Nat
        BY <1>2, <2>3, <3>2 DEF IInv, TypeOK
      <4>2. BlockEnd(current) <= b
        BY <1>1, <4>1 DEF IInv, ApartInv
      <4> QED BY <2>3, <2>5, <3>2, <4>2
    <3>3. CASE a \in Blocks /\ a # current
      <4>1. a \in Nat /\ size[a] \in Nat /\ size'[a] = size[a]
        BY <2>5, <3>3 DEF IInv, TypeOK
      <4>2. CASE b \in Blocks
        BY <3>3, <4>1, <4>2 DEF IInv, ApartInv, BlockEnd
      <4>3. CASE b = nb
        <5>1. ~(current < a)
          <6> SUFFICES ASSUME current < a PROVE FALSE
            OBVIOUS
          <6>1. BlockEnd(current) <= a
            BY <1>1, <3>3 DEF IInv, ApartInv
          <6> QED BY <1>2, <2>3, <4>1, <4>3, <6>1 DEF BlockEnd
        <5>2. BlockEnd(a) <= current
          BY <1>1, <1>2, <3>3, <4>1, <5>1 DEF IInv, ApartInv
        <5> QED BY <1>2, <2>3, <4>1, <4>3, <5>2 DEF BlockEnd
      <4> QED BY <4>2, <4>3
    <3> QED BY <3>1, <3>2, <3>3
  <2>10. AlignInv'
    <3>1. current % 8 = 0 /\ size[current] % 8 = 0
      BY <1>1 DEF IInv, AlignInv
    <3>2. (current + 24 + payload) % 8 = 0 /\ (size[current] - (payload + 24)) % 8 = 0
      BY <1>2, <1>3, <3>1
    <3> QED BY <1>3, <2>2, <2>3, <2>5, <3>1, <3>2 DEF IInv, AlignInv
  <2>11. SizeInv'
    BY <1>3, <2>2, <2>5 DEF IInv, SizeInv, max_allowed
  <2>12. LiveInv'
    <3>1. ASSUME NEW p \in DOMAIN live
          PROVE  /\ p - SizeofHeader \in Blocks'
                 /\ ~is_free'[p - SizeofHeader]
                 /\ 0 < live'[p]
                 /\ live'[p] <= size'[p - SizeofHeader]
      BY <1>5, <2>2, <2>5 DEF IInv, LiveInv
    <3>2. ASSUME NEW b \in Blocks', ~is_free'[b]
          PROVE  b + SizeofHeader \in DOMAIN live'
      BY <1>5, <2>2, <2>5, <3>2 DEF IInv, LiveInv
    <3> QED BY <1>1, <1>3, <1>5, <2>2, <2>5, <3>1, <3>2 DEF LiveInv
  <2>13. NoFreeNeighbours'
    <3>1. next[current] # NULL => ~is_free[next[current]] /\ next[current] \in Blocks
      BY <1>1 DEF IInv, NoFreeNeighbours, TypeOK
    <3>2. next[current] # NULL => ~is_free'[next[current]]
      BY <2>5, <3>1
    <3>3. ASSUME NEW b \in Blocks, b # current, next[b] # NULL, is_free'[b]
          PROVE  ~is_free'[next[b]]
      BY <1>1, <2>5, <3>3 DEF IInv, NoFreeNeighbours, TypeOK
    <3> QED BY <2>2, <2>5, <3>2, <3>3 DEF NoFreeNeighbours
  <2> QED BY <1>4, <2>6, <2>7, <2>8, <2>9, <2>10, <2>11, <2>12, <2>13 DEF IInv
<1> QED BY <1>6, <1>7

\* The fresh page starts where the last block ends and is always cut in two.
LEMMA MallocNewPageIInv ==
  ASSUME IInv, MallocNewPage
  PROVE  IInv'
<1> USE DEF NULL, SizeofHeader, PAGE_2M_SIZE
<1> DEFINE rest == PAGE_2M_SIZE - SizeofHeader
<1>1. /\ pc = "search" /\ current = NULL
      /\ pc' = "idle" /\ current' = NULL /\ prev' = NULL /\ req' = 0
      /\ malloc_head' = malloc_head
  BY DEF MallocNewPage, Return
<1>2. PICK page \in Pages :
        /\ alloc_page(page)
        /\ Carve(phy_addr[page], rest, NULL, size, [next EXCEPT ![prev] = phy_addr[page]],
                 is_free)
        /\ Grant(phy_addr[page])
  BY DEF MallocNewPage
<1>3. /\ phy_addr[page] = Top /\ used \in Nat
      /\ used' = used + 1 /\ Top' = Top + PAGE_2M_SIZE
      /\ total_free_pages' \in 0 .. NPages
      /\ free_pages_list' \in Pages \cup {NULL}
      /\ page_next' \in [Pages -> Pages \cup {NULL}]
      /\ ref_count' \in [Pages -> 0 .. 1]
      /\ PagesInv'
  BY <1>2, AllocPageFacts DEF IInv
<1>4. /\ req \in Nat /\ 0 < req /\ req <= payload
      /\ payload \in Nat /\ payload <= max_allowed /\ payload % 8 = 0
      /\ total_size = payload + SizeofHeader /\ total_size \in Nat
  BY <1>1, CallSizes
<1>5. /\ prev \in Blocks /\ prev \in Nat /\ size[prev] \in Nat /\ BlockEnd(prev) = Top
      /\ used > 0 /\ Base \in Nat /\ Base > 0 /\ Base % 8 = 0 /\ Top \in Nat
      /\ Top >= Base /\ Top % 8 = 0 /\ prev < Top
  <2>1. prev \in Blocks /\ next[prev] = NULL /\ used > 0
    BY <1>1 DEF IInv, SearchInv
  <2>2. prev \in Nat /\ size[prev] \in Nat /\ prev # 0
    BY <2>1 DEF IInv, TypeOK
  <2>3. BlockEnd(prev) = Top
    BY <2>1, <2>2 DEF IInv, TileInv, BlockEnd
  <2>4. Base \in Nat /\ Base > 0 /\ Base % 8 = 0 /\ Top \in Nat /\ Top >= Base
    BY <1>3, FramesAssumption DEF Top
  <2>5. Top % 8 = 0
    BY <1>3, <2>4 DEF Top
  <2> QED BY <2>1, <2>2, <2>3, <2>4, <2>5 DEF BlockEnd
<1>6. PICK top \in Nat, nb \in Nat :
        top = Top /\ nb = Top + total_size
  BY <1>4, <1>5
<1>7. /\ nb = top + SizeofHeader + payload /\ top < nb /\ nb % 8 = 0
      /\ rest - total_size \in Nat /\ (rest - total_size) % 8 = 0
      /\ nb + SizeofHeader + (rest - total_size) = Top'
      /\ top < Top' /\ nb < Top' /\ top # NULL /\ nb # NULL
      /\ Splits(rest)
  BY <1>3, <1>4, <1>5, <1>6 DEF max_allowed, Splits
<1>8. \A b \in Blocks : /\ b \in Nat /\ size[b] \in Nat /\ b < top /\ Base <= b
                       /\ b + SizeofHeader + size[b] <= top
  BY <1>6 DEF IInv, TypeOK, TileInv, BlockEnd
<1>9. top \notin Blocks /\ nb \notin Blocks /\ top # nb /\ top # prev /\ nb # prev
  BY <1>5, <1>6, <1>7, <1>8
<1> DEFINE D == Blocks \cup {top, nb}
<1>10. /\ size' = [a \in D |-> IF a = top THEN payload
                               ELSE IF a = nb THEN rest - total_size ELSE size[a]]
       /\ next' = [a \in D |-> IF a = top THEN nb
                               ELSE IF a = nb THEN NULL
                               ELSE [next EXCEPT ![prev] = top][a]]
       /\ is_free' = [a \in D |-> IF a = top THEN FALSE
                                  ELSE IF a = nb THEN TRUE ELSE is_free[a]]
  <2> HIDE DEF rest, D, PAGE_2M_SIZE, SizeofHeader
  <2>1. Carve(top, rest, NULL, size, [next EXCEPT ![prev] = top], is_free)
    BY <1>2, <1>3, <1>6
  <2>2. nb = top + total_size /\ DOMAIN size \cup {top, top + total_size} = D
    BY <1>6 DEF Blocks, D
  <2>3. /\ size' = [a \in DOMAIN size \cup {top, top + total_size} |->
                      IF a = top THEN payload
                      ELSE IF a = top + total_size THEN rest - total_size ELSE size[a]]
        /\ next' = [a \in DOMAIN size \cup {top, top + total_size} |->
                      IF a = top THEN top + total_size
                      ELSE IF a = top + total_size THEN NULL
                      ELSE [next EXCEPT ![prev] = top][a]]
        /\ is_free' = [a \in DOMAIN size \cup {top, top + total_size} |->
                      IF a = top THEN FALSE
                      ELSE IF a = top + total_size THEN TRUE ELSE is_free[a]]
    BY <1>7, <2>1, Zenon DEF Carve
  <2> QED BY <2>2, <2>3
<1>11. Blocks' = D
  BY <1>10 DEF Blocks
<1>12. /\ size'[top] = payload /\ next'[top] = nb /\ is_free'[top] = FALSE
       /\ size'[nb] = rest - total_size /\ next'[nb] = NULL /\ is_free'[nb] = TRUE
       /\ next'[prev] = top
       /\ \A b \in Blocks : size'[b] = size[b] /\ is_free'[b] = is_free[b]
       /\ \A b \in Blocks : b # prev => next'[b] = next[b]
  <2>1. next \in [Blocks -> Blocks \cup {NULL}]
    BY DEF IInv, TypeOK
  <2> HIDE DEF rest
  <2>2. top \in D /\ nb \in D /\ prev \in D
    BY <1>5
  <2>3. [next EXCEPT ![prev] = top][prev] = top
    BY <1>5, <2>1
  <2>4. \A b \in Blocks : b # prev => [next EXCEPT ![prev] = top][b] = next[b]
    BY <2>1
  <2>5. \A b \in Blocks : b \in D /\ b # top /\ b # nb
    BY <1>9
  <2> HIDE DEF D
  <2> QED BY <1>9, <1>10, <2>2, <2>3, <2>4, <2>5
<1>13. /\ DOMAIN live' = DOMAIN live \cup {top + SizeofHeader}
       /\ DOMAIN live' \subseteq Nat /\ live' \in [DOMAIN live' -> Nat]
       /\ live'[top + SizeofHeader] = req
       /\ (top + SizeofHeader) - SizeofHeader = top
       /\ \A p \in DOMAIN live : p - SizeofHeader \in Blocks /\ live'[p] = live[p]
  <2>1. \A p \in DOMAIN live : p \in Nat /\ p - SizeofHeader \in Blocks
    BY DEF IInv, LiveInv, TypeOK
  <2>2. \A p \in DOMAIN live : p # top + SizeofHeader
    BY <1>9, <2>1
  <2>3. live' = [p \in DOMAIN live \cup {top + SizeofHeader} |->
                   IF p = top + SizeofHeader THEN req ELSE live[p]]
    BY <1>2, <1>3, <1>6 DEF Grant
  <2>4. DOMAIN live' \subseteq Nat /\ live' \in [DOMAIN live' -> Nat]
    BY <1>4, <2>1, <2>3 DEF IInv, TypeOK
  <2> QED BY <2>1, <2>2, <2>3, <2>4
<1>14. TypeOK'
  <2>1. D \subseteq Nat \ {NULL} /\ malloc_head' \in D \cup {NULL}
    BY <1>1, <1>7 DEF IInv, TypeOK
  <2>2. size' \in [D -> Nat]
    BY <1>4, <1>7, <1>8, <1>10
  <2>3. next' \in [D -> D \cup {NULL}]
    <3>1. \A a \in D : next'[a] \in D \cup {NULL}
      BY <1>12 DEF IInv, TypeOK
    <3> QED BY <1>10, <3>1
  <2>4. is_free' \in [D -> BOOLEAN]
    <3> HIDE DEF rest, PAGE_2M_SIZE, SizeofHeader
    <3>1. is_free \in [Blocks -> BOOLEAN]
      BY DEF IInv, TypeOK
    <3>2. \A a \in D : is_free'[a] \in BOOLEAN
      BY <1>12, <3>1
    <3>3. DOMAIN is_free' = D /\ is_free' = [a \in D |-> is_free'[a]]
      BY <1>10
    <3> QED BY <3>2, <3>3
  <2> QED BY <1>1, <1>3, <1>11, <1>13, <2>1, <2>2, <2>3, <2>4 DEF IInv, TypeOK
<1>15. HeadInv'
  BY <1>1, <1>3, <1>5 DEF IInv, HeadInv
<1>16. TileInv'
  <2>1. \A b \in Blocks : b # prev => BlockEnd(b) # Top
    BY <1>5, <1>8 DEF IInv, ApartInv, BlockEnd
  <2>2. ASSUME NEW b \in Blocks
        PROVE  /\ Base <= b /\ b + SizeofHeader + size'[b] < Top'
               /\ next'[b] = b + SizeofHeader + size'[b]
    <3>1. CASE b = prev
      BY <1>3, <1>5, <1>6, <1>8, <1>12, <3>1 DEF BlockEnd
    <3>2. CASE b # prev
      BY <1>3, <1>5, <1>6, <1>7, <1>8, <1>12, <2>1, <3>2 DEF IInv, TileInv, BlockEnd
    <3> QED BY <3>1, <3>2
  <2>3. /\ Base <= top /\ top + SizeofHeader + size'[top] < Top'
        /\ next'[top] = top + SizeofHeader + size'[top]
    BY <1>5, <1>6, <1>7, <1>12
  <2>4. /\ Base <= nb /\ nb + SizeofHeader + size'[nb] = Top' /\ next'[nb] = NULL
    BY <1>5, <1>6, <1>7, <1>12
  <2>5. Top' \in Nat
    BY <1>3, <1>5
  <2>6. \A b \in D : b \in Nat /\ size'[b] \in Nat
    BY <1>11, <1>14 DEF TypeOK
  <2> SUFFICES ASSUME NEW b \in D
               PROVE  LET e == b + SizeofHeader + size'[b]
                      IN  Base <= b /\ e <= Top' /\ next'[b] = IF e = Top' THEN NULL ELSE e
    BY <1>11 DEF TileInv, BlockEnd
  <2> QED BY <2>2, <2>3, <2>4, <2>5, <2>6
<1>17. ApartInv'
  <2> SUFFICES ASSUME NEW a \in D, NEW b \in D, a < b
               PROVE  a + SizeofHeader + size'[a] <= b
    BY <1>11 DEF ApartInv, BlockEnd
  <2>1. CASE a \in Blocks /\ b \in Blocks
    BY <1>12, <2>1 DEF IInv, ApartInv, BlockEnd
  <2>2. CASE a \in Blocks /\ b \in {top, nb}
    BY <1>7, <1>8, <1>12, <2>2
  <2>3. CASE a = top
    <3>1. b = nb
      BY <1>8, <2>3
    <3> QED BY <1>7, <1>12, <2>3, <3>1
  <2>4. CASE a = nb
    BY <1>7, <1>8, <2>4
  <2> QED BY <2>1, <2>2, <2>3, <2>4
<1>18. AlignInv'
  BY <1>4, <1>5, <1>6, <1>7, <1>11, <1>12 DEF IInv, AlignInv
<1>19. SizeInv'
  BY <1>4, <1>11, <1>12 DEF IInv, SizeInv, max_allowed
<1>20. LiveInv'
  <2>1. ASSUME NEW p \in DOMAIN live
        PROVE  /\ p - SizeofHeader \in D
               /\ ~is_free'[p - SizeofHeader]
               /\ 0 < live'[p]
               /\ live'[p] <= size'[p - SizeofHeader]
    BY <1>12, <1>13 DEF IInv, LiveInv
  <2>2. ASSUME NEW b \in D, ~is_free'[b]
        PROVE  b + SizeofHeader \in DOMAIN live'
    BY <1>12, <1>13, <2>2 DEF IInv, LiveInv
  <2>3. ~is_free'[top] /\ 0 < req /\ req <= size'[top] /\ top \in D
    BY <1>4, <1>12
  <2> QED BY <1>11, <1>13, <2>1, <2>2, <2>3 DEF LiveInv
<1>21. NoFreeNeighbours'
  <2>1. \A b \in Blocks : b # prev /\ next[b] # NULL => next[b] \in Blocks
    BY DEF IInv, TypeOK
  <2>2. ASSUME NEW b \in Blocks, b # prev, next[b] # NULL
        PROVE  ~(is_free'[b] /\ is_free'[next'[b]])
    BY <1>1, <1>12, <2>1, <2>2 DEF IInv, NoFreeNeighbours
  <2> QED BY <1>11, <1>12, <2>2 DEF NoFreeNeighbours
<1>22. SearchInv' /\ CoalesceInv'
  BY <1>1 DEF SearchInv, CoalesceInv
<1> QED BY <1>3, <1>14, <1>15, <1>16, <1>17, <1>18, <1>19, <1>20, <1>21, <1>22 DEF IInv

\* Every step of malloc and free, and every stuttering step, keeps the
\* invariant.
LEMMA NextIInv == IInv /\ [Next]_vars => IInv'
<1> SUFFICES ASSUME IInv, [Next]_vars
             PROVE  IInv'
  OBVIOUS
<1>1. CASE Malloc
  BY <1>1, MallocCallIInv DEF Malloc
<1>2. CASE Free
  BY <1>2, FreeCallIInv DEF Free
<1>3. CASE MallocAdvance
  BY <1>3, MallocAdvanceIInv
<1>4. CASE MallocTake
  BY <1>4, MallocTakeIInv
<1>5. CASE MallocNewPage
  BY <1>5, MallocNewPageIInv
<1>6. CASE MallocFails
  BY <1>6, MallocFailsIInv
<1>7. CASE CoalesceMerge
  BY <1>7, CoalesceMergeIInv
<1>8. CASE CoalesceAdvance
  BY <1>8, CoalesceAdvanceIInv
<1>9. CASE CoalesceDone
  BY <1>9, CoalesceDoneIInv
<1>10. CASE UNCHANGED vars
  BY <1>10
     DEF vars, pageVars, blockVars, callVars, IInv, TypeOK, PagesInv, HeadInv, TileInv,
         ApartInv, AlignInv, LiveInv, SizeInv, SearchInv, CoalesceInv, NoFreeNeighbours,
         Blocks, BlockEnd, Fits, total_size, payload, used, Top
<1> QED BY <1>1, <1>2, <1>3, <1>4, <1>5, <1>6, <1>7, <1>8, <1>9, <1>10 DEF Next, Step

\* IInv holds in every reachable state of malloc and free (memory.c).
THEOREM HeapInvariant == Spec => []IInv
<1>1. Init => IInv
  BY InitIInv
<1>2. IInv /\ [Next]_vars => IInv'
  BY NextIInv
<1> QED BY <1>1, <1>2, PTL DEF Spec

\* The heap's variables keep their types.
THEOREM HeapTypeOK == Spec => []TypeOK
<1>1. IInv => TypeOK
  BY DEF IInv
<1> QED BY <1>1, HeapInvariant, PTL

-----------------------------------------------------------------------------
\* A live pointer's bytes are inside its own block.
LEMMA LiveBlock ==
  ASSUME IInv, NEW p \in DOMAIN live
  PROVE  LET b == p - SizeofHeader
         IN  /\ b \in Blocks /\ b \in Nat /\ ~is_free[b]
             /\ size[b] \in Nat /\ live[p] \in Nat /\ 0 < live[p] /\ live[p] <= size[b]
             /\ p = b + SizeofHeader
             /\ Base <= b /\ p + live[p] <= BlockEnd(b) /\ BlockEnd(b) <= Top
<1>1. /\ p \in Nat /\ p - SizeofHeader \in Blocks /\ ~is_free[p - SizeofHeader]
      /\ 0 < live[p] /\ live[p] <= size[p - SizeofHeader] /\ live[p] \in Nat
  BY DEF IInv, LiveInv, TypeOK
<1>2. p - SizeofHeader \in Nat /\ size[p - SizeofHeader] \in Nat
  BY <1>1 DEF IInv, TypeOK
<1> QED BY <1>1, <1>2 DEF IInv, TileInv, BlockEnd, SizeofHeader

\* Blocks that tile the heap give allocations that share no byte.
LEMMA IInvNoOverlap == IInv => NoOverlap
<1> SUFFICES ASSUME IInv, NEW p \in DOMAIN live
             PROVE  /\ \A q \in DOMAIN live \ {p} : Apart(p, live[p], q, live[q])
                    /\ \A b \in Blocks : Apart(p, live[p], b, SizeofHeader)
  BY DEF NoOverlap
<1> DEFINE h == p - SizeofHeader
<1>1. /\ h \in Blocks /\ h \in Nat /\ size[h] \in Nat /\ live[p] \in Nat
      /\ p = h + SizeofHeader /\ p + live[p] <= BlockEnd(h)
  BY LiveBlock
<1> HIDE DEF h
<1>2. ASSUME NEW b \in Blocks
      PROVE  Apart(p, live[p], b, SizeofHeader)
  <2>1. b \in Nat /\ size[b] \in Nat
    BY DEF IInv, TypeOK
  <2>2. h < b => BlockEnd(h) <= b
    BY <1>1 DEF IInv, ApartInv
  <2>3. b < h => BlockEnd(b) <= h
    BY <1>1 DEF IInv, ApartInv
  <2> QED BY <1>1, <2>1, <2>2, <2>3 DEF Apart, BlockEnd, SizeofHeader
<1>3. ASSUME NEW q \in DOMAIN live \ {p}
      PROVE  Apart(p, live[p], q, live[q])
  <2> DEFINE g == q - SizeofHeader
  <2>1. /\ g \in Blocks /\ g \in Nat /\ size[g] \in Nat /\ live[q] \in Nat
        /\ q = g + SizeofHeader /\ q + live[q] <= BlockEnd(g)
    BY LiveBlock
  <2> HIDE DEF g
  <2>2. h # g
    BY <1>1, <1>3, <2>1
  <2>3. h < g => BlockEnd(h) <= g
    BY <1>1, <2>1 DEF IInv, ApartInv
  <2>4. g < h => BlockEnd(g) <= h
    BY <1>1, <2>1 DEF IInv, ApartInv
  <2> QED BY <1>1, <2>1, <2>2, <2>3, <2>4 DEF Apart, BlockEnd, SizeofHeader
<1> QED BY <1>2, <1>3

\* No allocation shares a byte with another one or with a block header.
THEOREM HeapNoOverlap == Spec => []NoOverlap
BY IInvNoOverlap, HeapInvariant, PTL

\* free() never refuses a pointer malloc returned.
THEOREM HeapFreeAcceptsLive == Spec => []FreeAcceptsLive
BY IInvFreeAccepts, HeapInvariant, PTL

\* Outside free() no two neighbours on the list are both free.
THEOREM HeapNoFreeNeighbours == Spec => []NoFreeNeighbours
<1>1. IInv => NoFreeNeighbours
  BY DEF IInv
<1> QED BY <1>1, HeapInvariant, PTL

\* With nothing allocated and no free neighbours there is one block.
LEMMA IInvWholeAgain == IInv => WholeAgain
<1> USE DEF NULL
<1> SUFFICES ASSUME IInv, pc = "idle", DOMAIN live = {}, malloc_head # NULL
             PROVE  /\ Blocks = {malloc_head}
                    /\ is_free[malloc_head]
                    /\ size[malloc_head] = used * PAGE_2M_SIZE - SizeofHeader
  BY DEF WholeAgain, used
<1>1. /\ malloc_head = Base /\ Base \in Blocks /\ Base \in Nat /\ size[Base] \in Nat
      /\ Top \in Nat /\ Top = Base + used * PAGE_2M_SIZE /\ used \in Nat
  <2>1. malloc_head = Base /\ malloc_head \in Blocks
    BY DEF IInv, TypeOK, HeadInv
  <2>2. Base \in Nat /\ size[Base] \in Nat
    BY <2>1 DEF IInv, TypeOK
  <2>3. used \in Nat /\ Top = Base + used * PAGE_2M_SIZE
    BY FramesAssumption DEF IInv, TypeOK, Top, used
  <2> QED BY <2>1, <2>2, <2>3 DEF PAGE_2M_SIZE
<1>2. \A b \in Blocks : is_free[b]
  BY DEF IInv, LiveInv
<1>3. next[Base] = NULL
  BY <1>1, <1>2 DEF IInv, NoFreeNeighbours, TypeOK
<1>4. BlockEnd(Base) = Top
  BY <1>1, <1>3 DEF IInv, TileInv, BlockEnd, SizeofHeader
<1>5. ASSUME NEW b \in Blocks
      PROVE  b = Base
  <2>1. b \in Nat /\ size[b] \in Nat /\ Base <= b /\ BlockEnd(b) <= Top
    BY DEF IInv, TypeOK, TileInv
  <2>2. Base < b => BlockEnd(Base) <= b
    BY <1>1 DEF IInv, ApartInv
  <2> QED BY <1>1, <1>4, <2>1, <2>2 DEF BlockEnd, SizeofHeader
<1>6. size[Base] = used * PAGE_2M_SIZE - SizeofHeader
  BY <1>1, <1>4 DEF BlockEnd, SizeofHeader, PAGE_2M_SIZE
<1> QED BY <1>1, <1>2, <1>5, <1>6

\* When every allocation has been freed the heap is one free block again.
THEOREM HeapWholeAgain == Spec => []WholeAgain
BY IInvWholeAgain, HeapInvariant, PTL

\* Every address below the end of the used pages is in a frame.
LEMMA AddressInFrame ==
  ASSUME NEW x \in Nat, NEW u \in 0 .. NPages, Base <= x, x < Base + u * PAGE_2M_SIZE
  PROVE  InFrame(x)
<1> DEFINE i == ((x - Base) \div PAGE_2M_SIZE) + 1
<1>1. Base \in Nat /\ NPages \in Nat
  BY FramesAssumption
<1>2. /\ i \in Nat /\ 1 <= i /\ i <= u
      /\ (i - 1) * PAGE_2M_SIZE <= x - Base /\ x - Base < i * PAGE_2M_SIZE
  BY <1>1 DEF PAGE_2M_SIZE
<1> HIDE DEF i
<1>3. i \in Pages
  BY <1>1, <1>2 DEF Pages
<1>4. phy_addr[i] = Base + (i - 1) * PAGE_2M_SIZE
  BY <1>3, FramesAssumption
<1> QED BY <1>1, <1>2, <1>3, <1>4 DEF InFrame, PAGE_2M_SIZE

\* Allocated blocks lie between Base and Top, which is all frames.
LEMMA IInvLiveInUsableRam == IInv => LiveInUsableRam
<1> SUFFICES ASSUME IInv, NEW p \in DOMAIN live
             PROVE  InFrame(p) /\ InFrame(p + live[p] - 1)
  BY DEF LiveInUsableRam, Usable
<1> DEFINE h == p - SizeofHeader
<1>1. /\ h \in Nat /\ live[p] \in Nat /\ 0 < live[p] /\ p = h + SizeofHeader
      /\ Base <= h /\ p + live[p] <= BlockEnd(h) /\ BlockEnd(h) <= Top
      /\ size[h] \in Nat
  BY LiveBlock
<1>2. Base \in Nat /\ used \in 0 .. NPages /\ Top = Base + used * PAGE_2M_SIZE /\ Top \in Nat
  BY FramesAssumption DEF IInv, TypeOK, used, Top, PAGE_2M_SIZE
<1> HIDE DEF h
<1>3. /\ p \in Nat /\ p + live[p] - 1 \in Nat
      /\ Base <= p /\ p < Top /\ Base <= p + live[p] - 1 /\ p + live[p] - 1 < Top
  BY <1>1, <1>2 DEF BlockEnd, SizeofHeader
<1> QED BY <1>2, <1>3, AddressInFrame

\* malloc hands out bytes of usable frames only.
THEOREM HeapLiveInUsableRam == Spec => []LiveInUsableRam
BY IInvLiveInUsableRam, HeapInvariant, PTL

-----------------------------------------------------------------------------
\* A block being carved is free, so its pointer is not live yet.
LEMMA TakeGrantsNew ==
  ASSUME IInv, MallocTake
  PROVE  /\ current + SizeofHeader \notin DOMAIN live
         /\ live' = [p \in DOMAIN live \cup {current + SizeofHeader} |->
                      IF p = current + SizeofHeader THEN req ELSE live[p]]
         /\ req > 0 /\ (current + SizeofHeader) % 8 = 0
<1>1. current \in Blocks /\ current \in Nat /\ is_free[current] /\ pc = "search"
  BY DEF MallocTake, Fits, IInv, TypeOK
<1>2. current + SizeofHeader \notin DOMAIN live
  <2>1. (current + SizeofHeader) - SizeofHeader = current
    BY <1>1 DEF SizeofHeader
  <2> QED BY <1>1, <2>1 DEF IInv, LiveInv
<1>3. (current + SizeofHeader) % 8 = 0
  <2>1. current % 8 = 0
    BY <1>1 DEF IInv, AlignInv
  <2> QED BY <1>1, <2>1 DEF SizeofHeader
<1> QED BY <1>1, <1>2, <1>3, CallSizes DEF MallocTake, Grant

\* The fresh page is above every block, so its pointer is not live yet.
LEMMA NewPageGrantsNew ==
  ASSUME IInv, MallocNewPage
  PROVE  /\ Top + SizeofHeader \notin DOMAIN live
         /\ live' = [p \in DOMAIN live \cup {Top + SizeofHeader} |->
                      IF p = Top + SizeofHeader THEN req ELSE live[p]]
         /\ req > 0 /\ (Top + SizeofHeader) % 8 = 0
<1>1. PICK page \in Pages : alloc_page(page) /\ Grant(phy_addr[page])
  BY DEF MallocNewPage
<1>2. phy_addr[page] = Top
  BY <1>1, AllocPageFacts DEF IInv
<1>3. Top \in Nat /\ used \in Nat /\ Base \in Nat /\ Base % 8 = 0
  BY FramesAssumption DEF IInv, TypeOK, Top, used, PAGE_2M_SIZE
<1>4. Top \notin Blocks
  BY <1>3 DEF IInv, TypeOK, TileInv, BlockEnd, SizeofHeader
<1>5. Top + SizeofHeader \notin DOMAIN live
  <2>1. (Top + SizeofHeader) - SizeofHeader = Top
    BY <1>3 DEF SizeofHeader
  <2> QED BY <1>4, <2>1 DEF IInv, LiveInv
<1>6. (Top + SizeofHeader) % 8 = 0
  BY <1>3 DEF Top, SizeofHeader, PAGE_2M_SIZE
<1>7. req > 0
  BY CallSizes DEF MallocNewPage
<1> QED BY <1>1, <1>2, <1>5, <1>6, <1>7 DEF Grant

\* A block the search passes over and that is free has less than a header and
\* the rounding more than the request.
LEMMA PassedOverIsTight ==
  ASSUME TypeOK, 0 < req, req <= max_allowed, NEW b \in Blocks, is_free[b], ~Fits(b)
  PROVE  size[b] < req + SizeofHeader + 7
<1>1. size[b] \in Nat /\ req \in Nat
  BY DEF TypeOK
<1>2. ~(size[b] >= RoundUp8(req) + SizeofHeader)
  BY DEF Fits, total_size, payload
<1>3. RoundUp8(req) \in Nat /\ RoundUp8(req) <= req + 7
  BY <1>1 DEF RoundUp8
<1> QED BY <1>1, <1>2, <1>3 DEF SizeofHeader

\* malloc returns NULL only when no page is left and no free block is larger
\* than the request by a header and the rounding to 8 bytes.
THEOREM HeapNullOnlyWhenTight == Spec => NullOnlyWhenTight
<1> DEFINE Tight == /\ free_pages_list = NULL
                    /\ \A b \in Blocks : is_free[b] => size[b] < req + SizeofHeader + 7
           Failed == pc = "search" /\ pc' = "idle" /\ live' = live
<1>1. ASSUME IInv, [Next]_vars, Failed
      PROVE  Tight
  <2>1. ~MallocTake
    BY <1>1, TakeGrantsNew
  <2>2. ~MallocNewPage
    BY <1>1, NewPageGrantsNew
  <2>3. MallocFails
    BY <1>1, <2>1, <2>2
       DEF Next, Malloc, MallocCall, Free, FreeCall, Step, MallocAdvance, CoalesceMerge,
           CoalesceAdvance, CoalesceDone, vars, callVars
  <2>4. /\ free_pages_list = NULL /\ TypeOK /\ 0 < req /\ req <= max_allowed
        /\ \A b \in Blocks : ~Fits(b)
    BY <1>1, <2>3 DEF MallocFails, IInv, SearchInv
  <2> QED BY <2>4, PassedOverIsTight
<1>2. IInv /\ [Next]_vars => (Failed => Tight)
  BY <1>1
<1>3. [][Failed => Tight]_vars <=> NullOnlyWhenTight
  BY DEF NullOnlyWhenTight
<1> QED BY <1>2, <1>3, HeapInvariant, PTL DEF Spec

-----------------------------------------------------------------------------
\* The two consequences of the invariant the refinement needs, of the
\* next state.
LEMMA IInvNextState == IInv' => NoOverlap' /\ LiveInUsableRam'
BY IInvNoOverlap, IInvLiveInUsableRam, PTL

\* A step that adds the pointer p for n bytes is a step of the abstract malloc.
LEMMA GrantIsAbstractMalloc ==
  ASSUME IInv', NEW p, NEW n \in Nat, p \notin DOMAIN live, n > 0, p % 8 = 0,
         live' = [q \in DOMAIN live \cup {p} |-> IF q = p THEN n ELSE live[q]]
  PROVE  Abs!Malloc
<1>1. /\ p \in DOMAIN live' \ DOMAIN live /\ live'[p] = n
      /\ \A q \in DOMAIN live : live'[q] = live[q] /\ q \in DOMAIN live' \ {p}
  OBVIOUS
<1>2. NoOverlap' /\ LiveInUsableRam'
  BY IInvNextState
<1>3. Usable(p, n)
  BY <1>1, <1>2 DEF LiveInUsableRam, Usable, InFrame
<1>4. \A q \in DOMAIN live : Abs!Apart(p, n, q, live[q])
  BY <1>1, <1>2 DEF NoOverlap, Apart, Abs!Apart
<1>5. live' = [q \in DOMAIN live \cup {p} |-> IF q = p THEN live'[p] ELSE live[q]]
  BY <1>1
<1> QED BY <1>1, <1>3, <1>4, <1>5 DEF Abs!Malloc

\* malloc and free implement the abstract allocator, on every machine with
\* adjacent frames: each step is an abstract Malloc, an abstract Free or
\* changes nothing a caller can see.
THEOREM HeapImplementsAllocator == Spec => AllocatorSpec
<1>1. Init => Abs!Init
  BY DEF Init, Abs!Init
<1>2. ASSUME IInv, IInv', [Next]_vars
      PROVE  [Abs!Next]_live
  <2>1. CASE MallocTake
    <3>1. req \in Nat
      BY <1>2 DEF IInv, TypeOK
    <3> QED BY <1>2, <2>1, <3>1, TakeGrantsNew, GrantIsAbstractMalloc DEF Abs!Next
  <2>2. CASE MallocNewPage
    <3>1. req \in Nat
      BY <1>2 DEF IInv, TypeOK
    <3> QED BY <1>2, <2>2, <3>1, NewPageGrantsNew, GrantIsAbstractMalloc DEF Abs!Next
  <2>3. CASE Free
    BY <2>3 DEF Free, FreeCall, Abs!Next, Abs!Free
  <2>4. CASE Malloc \/ MallocAdvance \/ MallocFails \/ CoalesceMerge
             \/ CoalesceAdvance \/ CoalesceDone \/ UNCHANGED vars
    BY <2>4 DEF Malloc, MallocCall, MallocAdvance, MallocFails, CoalesceMerge,
                CoalesceAdvance, CoalesceDone, vars
  <2> QED BY <1>2, <2>1, <2>2, <2>3, <2>4 DEF Next, Step
<1>3. IInv /\ IInv' /\ [Next]_vars => [Abs!Next]_live
  BY <1>2
<1> QED BY <1>1, <1>3, HeapInvariant, PTL DEF Spec, AllocatorSpec, Abs!Spec

-----------------------------------------------------------------------------
(***************************************************************************)
(* The free list of the page allocator, under any callers.  No proof below *)
(* cites FramesAssumption: there may be holes between frames, or no frame. *)
(***************************************************************************)

\* f lists the pages nobody owns in the order of the list.
Chain(n, f) ==
  /\ \A i, j \in 1 .. n : f[i] = f[j] => i = j
  /\ \A i \in 1 .. n : f[i] \in Pages \ held
  /\ \A p \in Pages \ held : \E i \in 1 .. n : f[i] = p
  /\ free_pages_list = IF n = 0 THEN NULL ELSE f[1]
  /\ \A i \in 1 .. n : page_next[f[i]] = IF i = n THEN NULL ELSE f[i + 1]

\* A page that is owned has one reference.  Releasing it again leads below
\* zero and around, never as far as zero again.
RefInv ==
  /\ \A p \in held : ref_count[p] = 1
  /\ \A p \in Pages \ held : ref_count[p] = 0 \/ ref_count[p] + double_frees > UINT_MAX

ClientInv ==
  /\ ClientTypeOK
  /\ RefInv
  /\ \E f \in [1 .. total_free_pages -> Pages] : Chain(total_free_pages, f)

\* A set of naturals that is not empty has a least element.
LEMMA LeastElement ==
  ASSUME NEW T, T \subseteq Nat, T # {}
  PROVE  \E x \in T : \A y \in T : ~(y < x)
<1>1. PICK x \in T : \A y \in T : ~(<<y, x>> \in OpToRel(<, Nat))
  BY WFMin, NatLessThanWellFounded
<1>2. \A y \in T : ~(y < x)
  BY <1>1 DEF OpToRel
<1> QED BY <1>2

\* Induction, stated of a set.
LEMMA SetInduction ==
  ASSUME NEW S, 0 \in S, \A n \in Nat : n \in S => n + 1 \in S
  PROVE  Nat \subseteq S
<1> DEFINE T == Nat \ S
<1> SUFFICES ASSUME T # {} PROVE FALSE
  OBVIOUS
<1>1. PICK x \in T : \A y \in T : ~(y < x)
  <2>1. T \subseteq Nat
    OBVIOUS
  <2> HIDE DEF T
  <2> QED BY <2>1, LeastElement
<1>2. x # 0 /\ x - 1 \in Nat /\ x - 1 < x /\ (x - 1) + 1 = x
  OBVIOUS
<1> QED BY <1>1, <1>2

\* What an entry of the map is.
Entries == [address : Nat, length : Nat, type : Nat]

\* init_memory_map copies at least one entry and none that is not there.
LEMMA MapCopied == E820 \in Seq(Entries)
<1> DEFINE L == Len(BootTable)
           Ends == {i \in 2 .. L : EndsTable(BootTable[i])}
           Stop(n) == /\ \A i \in 2 .. n : ~EndsTable(BootTable[i])
                      /\ n = E820_ENTRIES \/ EndsTable(BootTable[n + 1])
<1>1. BootTable \in Seq(Entries) /\ L \in Nat /\ (L >= E820_ENTRIES \/ Ends # {})
  BY BootTableAssumption DEF Entries
<1> HIDE DEF L
<1>2. \E n \in 1 .. E820_ENTRIES : Stop(n) /\ n <= L
  <2>1. CASE \A i \in 2 .. E820_ENTRIES : i \notin Ends
    <3>1. L >= E820_ENTRIES
      <4>1. ASSUME NEW i \in Ends, L < E820_ENTRIES
            PROVE  i \in 2 .. E820_ENTRIES
        BY <1>1, <4>1 DEF E820_ENTRIES
      <4>2. E820_ENTRIES \in Nat
        BY DEF E820_ENTRIES
      <4> QED BY <1>1, <2>1, <4>1, <4>2
    <3>2. E820_ENTRIES \in 1 .. E820_ENTRIES
      BY DEF E820_ENTRIES
    <3>3. \A i \in 2 .. E820_ENTRIES : ~EndsTable(BootTable[i])
      <4>1. \A i \in 2 .. E820_ENTRIES : i \in 2 .. L
        BY <1>1, <3>1 DEF E820_ENTRIES
      <4> QED BY <2>1, <4>1
    <3> QED BY <3>1, <3>2, <3>3
  <2>2. CASE \E i \in 2 .. E820_ENTRIES : i \in Ends
    <3>1. Ends \subseteq Nat /\ Ends # {}
      BY <1>1, <2>2
    <3>2. PICK e \in Ends : \A y \in Ends : ~(y < e)
      <4> HIDE DEF Ends
      <4> QED BY <3>1, LeastElement
    <3>3. e \in 2 .. E820_ENTRIES /\ e <= L /\ EndsTable(BootTable[e])
      BY <1>1, <2>2, <3>2 DEF E820_ENTRIES
    <3>4. e - 1 \in 1 .. E820_ENTRIES /\ e - 1 <= L /\ (e - 1) + 1 = e
      BY <1>1, <3>3 DEF E820_ENTRIES
    <3>5. \A i \in 2 .. (e - 1) : i \in 2 .. L /\ i < e
      BY <1>1, <3>3 DEF E820_ENTRIES
    <3>6. \A i \in 2 .. (e - 1) : ~EndsTable(BootTable[i])
      BY <3>2, <3>5
    <3>7. Stop(e - 1)
      BY <3>3, <3>4, <3>6
    <3> QED BY <3>4, <3>7
  <2> QED BY <2>1, <2>2
<1>3. e820_length \in 1 .. E820_ENTRIES /\ Stop(e820_length)
  <2>1. \E n \in 1 .. E820_ENTRIES : Stop(n)
    BY <1>2
  <2>2. e820_length = CHOOSE n \in 1 .. E820_ENTRIES : Stop(n)
    BY DEF e820_length
  <2> HIDE DEF Stop
  <2> QED BY <2>1, <2>2
<1>4. e820_length <= L
  <2>1. PICK n \in 1 .. E820_ENTRIES : Stop(n) /\ n <= L
    BY <1>2
  <2> SUFFICES ASSUME n < e820_length PROVE FALSE
    BY <1>1, <1>3, <2>1 DEF E820_ENTRIES
  <2>2. n + 1 \in 2 .. e820_length /\ n # E820_ENTRIES
    BY <1>3, <2>1 DEF E820_ENTRIES
  <2> QED BY <1>3, <2>1, <2>2
<1>5. e820_length \in 1 .. Len(BootTable)
  BY <1>1, <1>3, <1>4 DEF E820_ENTRIES, L
<1> HIDE DEF Stop, Ends
<1> QED BY <1>1, <1>5, SubSeqProperties DEF E820

\* The frames of a region.
LEMMA FramesOfRegion ==
  ASSUME NEW r \in Entries
  PROVE  FramesOf(r) \in Seq(Int)
<1> DEFINE n == (FrameEnd(r) - FrameStart(r)) \div PAGE_2M_SIZE
           s == [k \in 1 .. n |-> FrameStart(r) + (k - 1) * PAGE_2M_SIZE]
<1>1. r.address \in Nat /\ r.length \in Nat
  BY DEF Entries
<1>2. FrameStart(r) \in Int /\ FrameEnd(r) \in Int
  BY <1>1 DEF FrameStart, FrameEnd, PAGE_2M_ALIGN, PAGE_2M_SIZE, RegionEnd
<1>3. <<>> \in Seq(Int)
  OBVIOUS
<1>4. CASE ~(FrameEnd(r) <= FrameStart(r))
  <2>1. n \in Nat
    BY <1>2, <1>4 DEF PAGE_2M_SIZE
  <2> HIDE DEF n
  <2>2. \A k \in 1 .. n : FrameStart(r) + (k - 1) * PAGE_2M_SIZE \in Int
    BY <1>2, <2>1 DEF PAGE_2M_SIZE
  <2>3. s \in [1 .. n -> Int]
    BY <2>2
  <2>4. s \in Seq(Int)
    <3> HIDE DEF s
    <3> QED BY <2>1, <2>3, SeqDef
  <2>5. FramesOf(r) = <<>> \/ FramesOf(r) = s
    BY DEF FramesOf, n
  <2> HIDE DEF s
  <2> QED BY <1>3, <2>4, <2>5
<1>5. CASE FrameEnd(r) <= FrameStart(r)
  BY <1>3, <1>5 DEF FramesOf
<1> QED BY <1>4, <1>5

\* flatten is the function that FlattenSeq defines by recursion, up to n.
FlattenedTo(seqs, n, flatten) ==
  flatten = [i \in 1 .. n |-> IF i = 1 THEN seqs[i] ELSE flatten[i - 1] \o seqs[i]]

\* There is such a function.
LEMMA FlattenedToExists ==
  ASSUME NEW seqs
  PROVE  \A n \in Nat : \E flatten : FlattenedTo(seqs, n, flatten)
<1> DEFINE S == {n \in Nat : \E flatten : FlattenedTo(seqs, n, flatten)}
<1>1. 0 \in S
  <2> DEFINE g == [i \in 1 .. 0 |-> <<>>]
  <2>1. \A i \in 1 .. 0 : FALSE
    OBVIOUS
  <2>2. FlattenedTo(seqs, 0, g)
    BY <2>1 DEF FlattenedTo
  <2> QED BY <2>2
<1>2. ASSUME NEW n \in Nat, n \in S
      PROVE  n + 1 \in S
  <2>1. PICK g : FlattenedTo(seqs, n, g)
    BY <1>2
  <2> DEFINE Turn(f, i) == IF i = 1 THEN seqs[i] ELSE f[i - 1] \o seqs[i]
             h == [i \in 1 .. (n + 1) |-> Turn(g, i)]
  <2>2. \A i \in 1 .. n : h[i] = g[i]
    <3>1. \A i \in 1 .. n : i \in 1 .. (n + 1)
      OBVIOUS
    <3>2. g = [i \in 1 .. n |-> Turn(g, i)]
      BY <2>1 DEF FlattenedTo
    <3> HIDE DEF Turn
    <3> QED BY <3>1, <3>2
  <2>3. \A i \in 1 .. (n + 1) : i # 1 => i - 1 \in 1 .. n
    OBVIOUS
  <2>4. \A i \in 1 .. (n + 1) : Turn(h, i) = Turn(g, i)
    <3> HIDE DEF h
    <3> QED BY <2>2, <2>3
  <2>5. h = [i \in 1 .. (n + 1) |-> Turn(h, i)]
    <3> HIDE DEF Turn
    <3> QED BY <2>4
  <2>6. FlattenedTo(seqs, n + 1, h)
    BY <2>5 DEF FlattenedTo
  <2>7. \E flatten : FlattenedTo(seqs, n + 1, flatten)
    BY <2>6
  <2> QED BY <2>7
<1> HIDE DEF S
<1>3. Nat \subseteq S
  BY <1>1, <1>2, SetInduction
<1> QED BY <1>3 DEF S

\* A sequence of sequences of D, flattened, is a sequence of D.
LEMMA Flattened ==
  ASSUME NEW D, NEW seqs \in Seq(Seq(D))
  PROVE  FlattenSeq(seqs) \in Seq(D)
<1> DEFINE L == Len(seqs)
           g == CHOOSE flatten : FlattenedTo(seqs, L, flatten)
<1>1. L \in Nat /\ \A i \in 1 .. L : seqs[i] \in Seq(D)
  BY LenProperties, ElementOfSeq
<1>2. FlattenedTo(seqs, L, g)
  <2> HIDE DEF L
  <2>1. \E flatten : FlattenedTo(seqs, L, flatten)
    BY <1>1, FlattenedToExists
  <2> QED BY <2>1
<1>3. CASE L = 0
  <2>1. seqs = <<>> /\ <<>> \in Seq(D)
    BY <1>3, EmptySeq
  <2> QED BY <1>3, <2>1 DEF FlattenSeq
<1>4. CASE L # 0
  <2>1. FlattenSeq(seqs) = g[L]
    BY <1>4 DEF FlattenSeq, FlattenedTo
  <2> HIDE DEF g, L
  <2> DEFINE S == {n \in Nat : n + 1 <= L => g[n + 1] \in Seq(D)}
  <2>2. 0 \in S
    <3>1. 1 \in 1 .. L
      BY <1>1, <1>4
    <3>2. g[1] = seqs[1]
      BY <1>2, <3>1 DEF FlattenedTo
    <3> QED BY <1>1, <3>1, <3>2
  <2>3. ASSUME NEW n \in Nat, n \in S
        PROVE  n + 1 \in S
    <3> SUFFICES ASSUME (n + 1) + 1 <= L PROVE g[(n + 1) + 1] \in Seq(D)
      OBVIOUS
    <3> DEFINE m == n + 1
    <3>1. m + 1 \in 1 .. L /\ m + 1 # 1 /\ (m + 1) - 1 = m /\ m <= L
      BY <1>1
    <3>2. g[m] \in Seq(D) /\ seqs[m + 1] \in Seq(D)
      BY <1>1, <2>3, <3>1
    <3> HIDE DEF m
    <3>3. g[m + 1] = g[m] \o seqs[m + 1]
      BY <1>2, <3>1 DEF FlattenedTo
    <3>4. g[m + 1] \in Seq(D)
      BY <3>2, <3>3, ConcatProperties
    <3> QED BY <3>4 DEF m
  <2> HIDE DEF S
  <2>4. Nat \subseteq S
    BY <2>2, <2>3, SetInduction
  <2>5. L - 1 \in S /\ (L - 1) + 1 = L /\ L <= L
    BY <1>1, <1>4, <2>4
  <2>6. g[L] \in Seq(D)
    BY <2>5 DEF S
  <2> QED BY <2>1, <2>6
<1> QED BY <1>3, <1>4

\* The page array has a length.
LEMMA PageCount == NPages \in Nat
<1> DEFINE seqs == [i \in 1 .. Len(E820) |-> FramesOf(E820[i])]
           L == Len(E820)
<1>1. L \in Nat /\ \A i \in 1 .. L : E820[i] \in Entries
  BY MapCopied, LenProperties, ElementOfSeq
<1>2. \A i \in 1 .. L : FramesOf(E820[i]) \in Seq(Int)
  BY <1>1, FramesOfRegion
<1>3. seqs \in [1 .. L -> Seq(Int)]
  BY <1>2
<1>4. seqs \in Seq(Seq(Int))
  <2> HIDE DEF seqs, L
  <2> QED BY <1>1, <1>3, SeqDef
<1>5. WholeFrames \in Seq(Int)
  <2>1. WholeFrames = FlattenSeq(seqs)
    BY DEF WholeFrames
  <2> HIDE DEF seqs
  <2> QED BY <1>4, <2>1, Flattened
<1>6. phy_addr \in Seq(Int)
  BY <1>5 DEF phy_addr
<1> QED BY <1>6, LenProperties DEF NPages

\* What "page->ref_count--" leaves.
LEMMA DecrementedIs ==
  ASSUME NEW n \in 0 .. UINT_MAX
  PROVE  Decremented(n) = IF n = 0 THEN UINT_MAX ELSE n - 1
<1>1. UINT_MAX \in Nat
  BY DoubleFreeBound
<1>2. CASE n = 0
  <2>1. UINT_MAX % (UINT_MAX + 1) = UINT_MAX
    BY <1>1
  <2> QED BY <1>1, <1>2, <2>1 DEF Decremented
<1>3. CASE n # 0
  <2>1. (n + UINT_MAX) % (UINT_MAX + 1) = n - 1
    BY <1>1, <1>3
  <2> QED BY <1>3, <2>1 DEF Decremented
<1> QED BY <1>2, <1>3

\* Following page->next from free_pages_list visits the pages of the list
\* and then stays at NULL.
LEMMA WalkIs ==
  ASSUME NEW f, total_free_pages \in 0 .. NPages, Chain(total_free_pages, f)
  PROVE  \A i \in 0 .. NPages :
           Walk[i] = IF i < total_free_pages THEN f[i + 1] ELSE NULL
<1> DEFINE n == total_free_pages
           Rec(g) == g = [i \in 0 .. NPages |->
                            IF i = 0 THEN free_pages_list
                            ELSE IF g[i - 1] = NULL THEN NULL ELSE page_next[g[i - 1]]]
           w == [i \in 0 .. NPages |-> IF i < n THEN f[i + 1] ELSE NULL]
<1>1. /\ NPages \in Nat /\ n \in Nat /\ n <= NPages
      /\ \A i \in 1 .. n : f[i] # NULL
  BY PageCount DEF Chain, Pages, NULL
<1>2. ASSUME NEW i \in 0 .. NPages, i # 0
      PROVE  /\ i - 1 \in 0 .. NPages
             /\ w[i] = IF w[i - 1] = NULL THEN NULL ELSE page_next[w[i - 1]]
  <2>1. i - 1 \in 0 .. NPages /\ (i - 1) + 1 = i
    BY <1>1, <1>2
  <2>2. w[i - 1] = (IF i - 1 < n THEN f[i] ELSE NULL) /\ w[i] = IF i < n THEN f[i + 1] ELSE NULL
    BY <2>1
  <2>3. CASE i - 1 < n
    <3>1. i \in 1 .. n /\ (i < n <=> i # n)
      BY <1>1, <1>2, <2>3
    <3>2. f[i] # NULL /\ page_next[f[i]] = IF i = n THEN NULL ELSE f[i + 1]
      BY <1>1, <3>1 DEF Chain
    <3> HIDE DEF w
    <3> QED BY <2>1, <2>2, <2>3, <3>1, <3>2
  <2>4. CASE ~(i - 1 < n)
    <3>1. ~(i < n)
      BY <1>1, <2>4
    <3> HIDE DEF w
    <3> QED BY <2>1, <2>2, <2>4, <3>1
  <2> QED BY <2>3, <2>4
<1>3. w[0] = free_pages_list
  <2>1. 0 \in 0 .. NPages /\ (0 < n <=> n # 0) /\ 0 + 1 = 1
    BY <1>1
  <2> QED BY <2>1 DEF Chain
<1>4. Rec(w)
  <2>1. w = [i \in 0 .. NPages |-> w[i]]
    OBVIOUS
  <2> HIDE DEF w
  <2>2. \A i \in 0 .. NPages :
          w[i] = IF i = 0 THEN free_pages_list
                 ELSE IF w[i - 1] = NULL THEN NULL ELSE page_next[w[i - 1]]
    BY <1>2, <1>3
  <2> QED BY <2>1, <2>2
<1>5. Rec(Walk)
  <2>1. Walk = CHOOSE g : Rec(g)
    BY DEF Walk
  <2> HIDE DEF Rec, w
  <2> QED BY <1>4, <2>1
<1> DEFINE S == {i \in Nat : i <= NPages => Walk[i] = w[i]}
<1>6. 0 \in S
  <2>1. Walk[0] = free_pages_list
    <3>1. 0 \in 0 .. NPages
      BY <1>1
    <3> QED BY <1>5, <3>1
  <2> HIDE DEF w
  <2> QED BY <1>3, <2>1
<1>7. ASSUME NEW i \in Nat, i \in S
      PROVE  i + 1 \in S
  <2> SUFFICES ASSUME i + 1 <= NPages PROVE Walk[i + 1] = w[i + 1]
    OBVIOUS
  <2> DEFINE j == i + 1
  <2>1. j \in 0 .. NPages /\ j # 0 /\ j - 1 = i /\ i <= NPages
    BY <1>1
  <2> HIDE DEF w
  <2>2. Walk[i] = w[i]
    BY <1>7, <2>1
  <2> HIDE DEF j
  <2>3. Walk[j] = IF Walk[j - 1] = NULL THEN NULL ELSE page_next[Walk[j - 1]]
    BY <1>5, <2>1
  <2>4. Walk[j] = w[j]
    BY <1>2, <2>1, <2>2, <2>3
  <2> QED BY <2>4 DEF j
<1> HIDE DEF S
<1>8. Nat \subseteq S
  BY <1>6, <1>7, SetInduction
<1>9. \A i \in 0 .. NPages : Walk[i] = w[i]
  <2> HIDE DEF w
  <2>1. \A i \in 0 .. NPages : i \in Nat /\ i <= NPages
    BY <1>1
  <2> QED BY <1>8, <2>1 DEF S
<1> QED BY <1>9

\* The invariant says what the property asks for.
LEMMA ClientInvSound ==
  ASSUME ClientInv
  PROVE  FreeListSound
<1> DEFINE n == total_free_pages
<1>1. PICK f \in [1 .. n -> Pages] : Chain(n, f)
  BY DEF ClientInv
<1>2. ClientTypeOK /\ n \in 0 .. NPages /\ NPages \in Nat /\ n \in Nat /\ n <= NPages
  BY PageCount DEF ClientInv, ClientTypeOK
<1>3. \A i \in 0 .. NPages : Walk[i] = IF i < n THEN f[i + 1] ELSE NULL
  BY <1>1, <1>2, WalkIs
<1>4. Walk[NPages] = NULL
  BY <1>2, <1>3
<1>5. {Walk[i] : i \in 0 .. NPages} \ {NULL} = Pages \ held
  <2>1. ASSUME NEW i \in 0 .. NPages, Walk[i] # NULL
        PROVE  Walk[i] \in Pages \ held
    <3>1. Walk[i] = f[i + 1] /\ i + 1 \in 1 .. n
      BY <1>2, <1>3, <2>1
    <3> QED BY <1>1, <3>1 DEF Chain
  <2>2. ASSUME NEW p \in Pages \ held
        PROVE  p # NULL /\ \E i \in 0 .. NPages : Walk[i] = p
    <3>1. PICK i \in 1 .. n : f[i] = p
      BY <1>1 DEF Chain
    <3>2. i - 1 \in 0 .. NPages /\ i - 1 < n /\ (i - 1) + 1 = i
      BY <1>2
    <3>3. Walk[i - 1] = p
      BY <1>3, <3>1, <3>2
    <3> QED BY <3>2, <3>3 DEF Pages, NULL
  <2> QED BY <2>1, <2>2
<1>6. n = Cardinality(Pages \ held)
  <2> DEFINE T == Pages \ held
  <2>1. f \in Bijection(1 .. n, T)
    BY <1>1 DEF Chain, Bijection, Injection, Surjection, IsInjective
  <2>2. ExistsBijection(1 .. n, T)
    BY <2>1 DEF ExistsBijection
  <2> HIDE DEF T
  <2>3. Cardinality(T) = n
    BY <1>2, <2>2, FS_CountingElements
  <2> QED BY <2>3 DEF T
<1> QED BY <1>2, <1>4, <1>5, <1>6 DEF FreeListSound

\* The list that init_page builds.
LEMMA ClientInitInv ==
  ASSUME ClientInit
  PROVE  ClientInv
<1> DEFINE f == [i \in 1 .. NPages |-> i]
<1>1. /\ NPages \in Nat /\ UINT_MAX \in Nat /\ MaxDoubleFree \in Nat
      /\ Pages = 1 .. NPages
  BY PageCount, DoubleFreeBound DEF Pages
<1>2. /\ free_pages_list = (IF NPages = 0 THEN NULL ELSE 1)
      /\ page_next = [p \in Pages |-> IF p = NPages THEN NULL ELSE p + 1]
      /\ ref_count = [p \in Pages |-> 0]
      /\ total_free_pages = NPages /\ held = {} /\ double_frees = 0
  BY DEF ClientInit, PageInit
<1>3. \A p \in Pages : p # NPages => p + 1 \in Pages
  BY <1>1
<1>4. ClientTypeOK
  BY <1>1, <1>2, <1>3 DEF ClientTypeOK
<1>5. RefInv
  BY <1>2 DEF RefInv
<1>6. f \in [1 .. total_free_pages -> Pages] /\ Chain(total_free_pages, f)
  BY <1>1, <1>2, <1>3 DEF Chain
<1> QED BY <1>4, <1>5, <1>6 DEF ClientInv

\* alloc_page takes the head of the list.
LEMMA ClientAllocInv ==
  ASSUME ClientInv, ClientAlloc
  PROVE  ClientInv'
<1>0. PICK n \in 0 .. NPages : n = total_free_pages
  BY DEF ClientInv, ClientTypeOK
<1>1. PICK page \in Pages : alloc_page(page) /\ held' = held \cup {page} /\ UNCHANGED double_frees
  BY DEF ClientAlloc
<1>2. PICK f \in [1 .. n -> Pages] : Chain(n, f)
  BY <1>0 DEF ClientInv
<1>3. /\ ClientTypeOK /\ RefInv /\ NPages \in Nat /\ n \in Nat /\ n <= NPages
      /\ UINT_MAX \in Nat /\ 1 \in 0 .. UINT_MAX /\ MaxDoubleFree \in Nat
  BY <1>0, PageCount, DoubleFreeBound DEF ClientInv, ClientTypeOK
<1>4. /\ free_pages_list # NULL /\ page = free_pages_list
      /\ free_pages_list' = page_next[page]
      /\ page_next' = [page_next EXCEPT ![page] = NULL]
      /\ ref_count' = [ref_count EXCEPT ![page] = 1]
      /\ total_free_pages' = n - 1
  BY <1>0, <1>1 DEF alloc_page
<1>5. n # 0 /\ 1 \in 1 .. n /\ f[1] = page /\ page \notin held
  BY <1>2, <1>3, <1>4 DEF Chain
<1>16. PICK h : h = [i \in 1 .. (n - 1) |-> f[i + 1]]
  OBVIOUS
<1>6. \A i \in 1 .. (n - 1) : i + 1 \in 1 .. n /\ i + 1 # 1
  BY <1>3, <1>5
<1>7. \A i \in 1 .. (n - 1) : h[i] = f[i + 1] /\ f[i + 1] # page /\ f[i + 1] \in Pages \ held
  BY <1>2, <1>5, <1>6, <1>16 DEF Chain
<1>8. h \in [1 .. (n - 1) -> Pages]
  BY <1>7, <1>16
<1>9. ClientTypeOK'
  <2>1. n - 1 \in 0 .. NPages
    BY <1>3, <1>5
  <2> QED BY <1>1, <1>3, <1>4, <2>1 DEF ClientTypeOK, NULL
<1>10. RefInv'
  BY <1>1, <1>3, <1>4 DEF RefInv, ClientTypeOK
<1>11. Chain(n - 1, h)'
  <2>1. \A i, j \in 1 .. (n - 1) : h[i] = h[j] => i = j
    <3>1. ASSUME NEW i \in 1 .. (n - 1), NEW j \in 1 .. (n - 1), h[i] = h[j]
          PROVE  i = j
      <4>1. f[i + 1] = f[j + 1]
        BY <1>7, <3>1
      <4>2. i + 1 = j + 1
        BY <1>2, <1>6, <4>1 DEF Chain
      <4> QED BY <1>3, <4>2
    <3> QED BY <3>1
  <2>2. \A i \in 1 .. (n - 1) : h[i] \in Pages \ held'
    BY <1>1, <1>7
  <2>3. ASSUME NEW p \in Pages \ held'
        PROVE  \E i \in 1 .. (n - 1) : h[i] = p
    <3>1. p \in Pages \ held /\ p # page
      BY <1>1, <2>3
    <3>2. PICK i \in 1 .. n : f[i] = p
      BY <1>2, <3>1 DEF Chain
    <3>3. i - 1 \in 1 .. (n - 1) /\ (i - 1) + 1 = i
      BY <1>3, <1>5, <3>1, <3>2
    <3> QED BY <1>7, <3>2, <3>3
  <2>4. free_pages_list' = IF n - 1 = 0 THEN NULL ELSE h[1]
    <3>1. n - 1 # 0 => 1 \in 1 .. (n - 1)
      BY <1>3, <1>5
    <3>2. page_next[f[1]] = IF 1 = n THEN NULL ELSE f[1 + 1]
      BY <1>2, <1>5 DEF Chain
    <3>3. n - 1 = 0 <=> 1 = n
      BY <1>3
    <3>4. n - 1 # 0 => h[1] = f[1 + 1]
      BY <1>7, <3>1
    <3> QED BY <1>4, <1>5, <3>2, <3>3, <3>4
  <2>5. \A i \in 1 .. (n - 1) : page_next'[h[i]] = IF i = n - 1 THEN NULL ELSE h[i + 1]
    <3>1. ASSUME NEW i \in 1 .. (n - 1)
          PROVE  page_next'[h[i]] = IF i = n - 1 THEN NULL ELSE h[i + 1]
      <4>1. page_next'[h[i]] = page_next[f[i + 1]]
        BY <1>3, <1>4, <1>7 DEF ClientTypeOK
      <4>2. page_next[f[i + 1]] = IF i + 1 = n THEN NULL ELSE f[(i + 1) + 1]
        BY <1>2, <1>6 DEF Chain
      <4>3. i + 1 = n <=> i = n - 1
        BY <1>3
      <4>4. i # n - 1 => i + 1 \in 1 .. (n - 1)
        BY <1>3
      <4> QED BY <1>7, <4>1, <4>2, <4>3, <4>4
    <3> QED BY <3>1
  <2> QED BY <2>1, <2>2, <2>3, <2>4, <2>5 DEF Chain, Pages
<1>12. h \in [1 .. total_free_pages' -> Pages'] /\ Chain(total_free_pages, h)'
  BY <1>4, <1>8, <1>11 DEF Chain, Pages
<1> QED BY <1>9, <1>10, <1>12 DEF ClientInv

\* free_page of an owned page puts it at the head of the list.
LEMMA ClientFreeInv ==
  ASSUME ClientInv, ClientFree
  PROVE  ClientInv'
<1>0. PICK n \in 0 .. NPages : n = total_free_pages
  BY DEF ClientInv, ClientTypeOK
<1>1. PICK page \in held : free_page(page) /\ held' = held \ {page} /\ UNCHANGED double_frees
  BY DEF ClientFree
<1>2. PICK f \in [1 .. n -> Pages] : Chain(n, f)
  BY <1>0 DEF ClientInv
<1>3. /\ ClientTypeOK /\ RefInv /\ NPages \in Nat /\ n \in Nat /\ n <= NPages /\ page \in Pages
      /\ UINT_MAX \in Nat /\ 1 \in 0 .. UINT_MAX /\ 0 \in 0 .. UINT_MAX /\ MaxDoubleFree \in Nat
  BY <1>0, <1>1, PageCount, DoubleFreeBound DEF ClientInv, ClientTypeOK
<1>4. ref_count[page] = 1 /\ Decremented(ref_count[page]) = 0
  <2>1. ref_count[page] = 1
    BY <1>1, <1>3 DEF RefInv
  <2>2. Decremented(1) = 0
    BY <1>3, DecrementedIs
  <2> QED BY <2>1, <2>2
<1>5. ref_count' = [ref_count EXCEPT ![page] = 0] /\ ref_count'[page] <= 0
  <2>1. ref_count' = [ref_count EXCEPT ![page] = Decremented(ref_count[page])]
    BY <1>1 DEF free_page
  <2>2. ref_count' = [ref_count EXCEPT ![page] = 0]
    BY <1>4, <2>1
  <2>3. ref_count'[page] = 0 /\ 0 <= 0
    BY <1>3, <2>2 DEF ClientTypeOK
  <2> QED BY <2>2, <2>3
<1>6. /\ page_next' = [page_next EXCEPT ![page] = free_pages_list]
      /\ free_pages_list' = page /\ total_free_pages' = n + 1
  BY <1>0, <1>1, <1>5 DEF free_page
<1>16. PICK h : h = [i \in 1 .. (n + 1) |-> IF i = 1 THEN page ELSE f[i - 1]]
  OBVIOUS
<1>7. \A i \in 1 .. (n + 1) : i # 1 => i - 1 \in 1 .. n
  BY <1>3
<1>8. /\ 1 \in 1 .. (n + 1) /\ h[1] = page
      /\ \A i \in 1 .. (n + 1) : i # 1 => h[i] = f[i - 1] /\ h[i] \in Pages \ held /\ h[i] # page
  BY <1>1, <1>2, <1>3, <1>7, <1>16 DEF Chain
<1>9. h \in [1 .. (n + 1) -> Pages]
  BY <1>3, <1>7, <1>16
<1>14. \A i \in 1 .. (n + 1) : \A j \in 1 .. (n + 1) : h[i] = h[j] => i = j
  <2>1. ASSUME NEW i \in 1 .. (n + 1), NEW j \in 1 .. (n + 1), h[i] = h[j]
        PROVE  i = j
    <3>1. i = 1 <=> j = 1
      BY <1>8, <2>1
    <3>2. CASE i # 1 /\ j # 1
      <4>1. f[i - 1] = f[j - 1]
        BY <1>8, <2>1, <3>2
      <4>2. i - 1 = j - 1
        BY <1>2, <1>7, <3>2, <4>1 DEF Chain
      <4> QED BY <1>3, <4>2
    <3> QED BY <3>1, <3>2
  <2> QED BY <2>1
<1>10. n + 1 <= NPages
  <2>2. h \in Injection(1 .. (n + 1), 1 .. NPages)
    BY <1>9, <1>14 DEF Injection, IsInjective, Pages
  <2>3. /\ IsFiniteSet(1 .. (n + 1)) /\ Cardinality(1 .. (n + 1)) = n + 1
        /\ IsFiniteSet(1 .. NPages) /\ Cardinality(1 .. NPages) = NPages
    <3>1. n + 1 \in Nat
      BY <1>3
    <3>2. /\ \A k \in Nat : IsFiniteSet(1 .. k) /\ Cardinality(1 .. k) = k
      <4>1. ASSUME NEW k \in Nat
            PROVE  IsFiniteSet(1 .. k) /\ Cardinality(1 .. k) = k
        <5>1. 1 \in Int /\ k \in Int /\ (1 > k => k = 0) /\ k - 1 + 1 = k
          OBVIOUS
        <5> QED BY <5>1, FS_Interval
      <4> QED BY <4>1
    <3> QED BY <1>3, <3>1, <3>2
  <2>4. Cardinality(1 .. (n + 1)) <= Cardinality(1 .. NPages)
    BY <2>2, <2>3, FS_Injection DEF ExistsInjection
  <2> QED BY <2>3, <2>4
<1>11. ClientTypeOK'
  <2>1. n + 1 \in 0 .. NPages
    BY <1>3, <1>10
  <2> QED BY <1>1, <1>3, <1>5, <1>6, <2>1 DEF ClientTypeOK
<1>12. RefInv'
  BY <1>1, <1>3, <1>5 DEF RefInv, ClientTypeOK
<1>13. Chain(n + 1, h)'
  <2>1. \A i \in 1 .. (n + 1) : h[i] \in Pages \ held'
    BY <1>1, <1>3, <1>8
  <2>2. ASSUME NEW p \in Pages \ held'
        PROVE  \E i \in 1 .. (n + 1) : h[i] = p
    <3>1. CASE p = page
      BY <1>8, <3>1
    <3>2. CASE p # page
      <4>1. PICK i \in 1 .. n : f[i] = p
        BY <1>1, <1>2, <2>2, <3>2 DEF Chain
      <4>2. i + 1 \in 1 .. (n + 1) /\ i + 1 # 1 /\ (i + 1) - 1 = i
        BY <1>3
      <4> QED BY <1>8, <4>1, <4>2
    <3> QED BY <3>1, <3>2
  <2>3. free_pages_list' = IF n + 1 = 0 THEN NULL ELSE h[1]
    BY <1>3, <1>6, <1>8
  <2>4. ASSUME NEW i \in 1 .. (n + 1)
        PROVE  page_next'[h[i]] = IF i = n + 1 THEN NULL ELSE h[i + 1]
    <3>1. CASE i = 1
      <4>1. page_next'[h[i]] = free_pages_list
        BY <1>3, <1>6, <1>8, <3>1 DEF ClientTypeOK
      <4>2. free_pages_list = IF n = 0 THEN NULL ELSE f[1]
        BY <1>2 DEF Chain
      <4>3. n # 0 => 2 \in 1 .. (n + 1) /\ 2 # 1 /\ 2 - 1 = 1
        BY <1>3
      <4>4. n # 0 => h[2] = f[1]
        BY <1>8, <4>3
      <4>5. (1 = n + 1 <=> n = 0) /\ 1 + 1 = 2
        BY <1>3
      <4> QED BY <3>1, <4>1, <4>2, <4>4, <4>5
    <3>2. CASE i # 1
      <4>1. i - 1 \in 1 .. n /\ h[i] = f[i - 1] /\ h[i] \in Pages /\ h[i] # page
        BY <1>7, <1>8, <3>2
      <4>2. page_next'[h[i]] = page_next[f[i - 1]]
        BY <1>3, <1>6, <4>1 DEF ClientTypeOK
      <4>3. page_next[f[i - 1]] = IF i - 1 = n THEN NULL ELSE f[(i - 1) + 1]
        BY <1>2, <4>1 DEF Chain
      <4>4. (i - 1 = n <=> i = n + 1) /\ (i - 1) + 1 = i
        BY <1>3
      <4>5. i # n + 1 => i + 1 \in 1 .. (n + 1) /\ i + 1 # 1 /\ (i + 1) - 1 = i
        BY <1>3
      <4>6. i # n + 1 => h[i + 1] = f[i]
        BY <1>8, <4>5
      <4> QED BY <4>2, <4>3, <4>4, <4>6
    <3> QED BY <3>1, <3>2
  <2> QED BY <1>14, <2>1, <2>2, <2>3, <2>4 DEF Chain, Pages
<1>15. h \in [1 .. total_free_pages' -> Pages'] /\ Chain(total_free_pages, h)'
  BY <1>6, <1>9, <1>13 DEF Chain, Pages
<1> QED BY <1>11, <1>12, <1>15 DEF ClientInv

\* free_page of a page that is free already changes its count only: the count
\* has gone around and is not zero.
LEMMA ClientDoubleFreeInv ==
  ASSUME ClientInv, ClientDoubleFree
  PROVE  ClientInv'
<1>1. PICK page \in Pages \ held : free_page(page)
  BY DEF ClientDoubleFree
<1>2. /\ ClientTypeOK /\ RefInv /\ UINT_MAX \in Nat /\ MaxDoubleFree \in 0 .. (UINT_MAX - 1)
      /\ double_frees < MaxDoubleFree /\ double_frees' = double_frees + 1 /\ held' = held
      /\ double_frees \in Nat
  BY DoubleFreeBound DEF ClientInv, ClientTypeOK, ClientDoubleFree
<1> DEFINE r == ref_count[page]
           d == Decremented(r)
<1>3. r \in 0 .. UINT_MAX /\ (r = 0 \/ r + double_frees > UINT_MAX)
  BY <1>1, <1>2 DEF ClientTypeOK, RefInv
<1>4. d = IF r = 0 THEN UINT_MAX ELSE r - 1
  BY <1>3, DecrementedIs
<1>5. ref_count' = [ref_count EXCEPT ![page] = d]
  BY <1>1 DEF free_page
<1> HIDE DEF r, d
<1>6. d \in 0 .. UINT_MAX /\ ~(d <= 0) /\ d + (double_frees + 1) > UINT_MAX
  BY <1>2, <1>3, <1>4
<1>7. ref_count'[page] = d
  BY <1>1, <1>2, <1>5 DEF ClientTypeOK
<1>8. UNCHANGED <<page_next, free_pages_list, total_free_pages>>
  BY <1>1, <1>6, <1>7 DEF free_page
<1>9. ClientTypeOK'
  <2>1. double_frees + 1 \in 0 .. MaxDoubleFree
    BY <1>2
  <2> QED BY <1>1, <1>2, <1>5, <1>6, <1>8, <2>1 DEF ClientTypeOK
<1>10. RefInv'
  <2>1. \A p \in held : ref_count'[p] = 1
    BY <1>1, <1>2, <1>5 DEF RefInv, ClientTypeOK
  <2>2. ASSUME NEW p \in Pages \ held
        PROVE  ref_count'[p] = 0 \/ ref_count'[p] + (double_frees + 1) > UINT_MAX
    <3>1. CASE p = page
      BY <1>6, <1>7, <3>1
    <3>2. CASE p # page
      <4>1. ref_count'[p] = ref_count[p] /\ ref_count[p] \in 0 .. UINT_MAX
        BY <1>2, <1>5, <3>2 DEF ClientTypeOK
      <4>2. ref_count[p] = 0 \/ ref_count[p] + double_frees > UINT_MAX
        BY <1>2 DEF RefInv
      <4> QED BY <1>2, <4>1, <4>2
    <3> QED BY <3>1, <3>2
  <2> QED BY <1>2, <2>1, <2>2 DEF RefInv, Pages
<1>11. \E f \in [1 .. total_free_pages' -> Pages'] : Chain(total_free_pages, f)'
  <2>1. PICK f \in [1 .. total_free_pages -> Pages] : Chain(total_free_pages, f)
    BY DEF ClientInv
  <2>2. Chain(total_free_pages, f)'
    BY <1>2, <1>8, <2>1 DEF Chain, Pages
  <2> QED BY <1>8, <2>1, <2>2 DEF Pages
<1> QED BY <1>9, <1>10, <1>11 DEF ClientInv

\* Whatever callers do with alloc_page and free_page, and however often they
\* release a page twice, the free list of memory.c ends, holds exactly the
\* pages nobody owns and has the length total_free_pages.
THEOREM PagesFreeListSound == ClientSpec => []FreeListSound
<1>1. ClientInit => ClientInv
  BY ClientInitInv
<1>2. ClientInv /\ [ClientNext]_clientVars => ClientInv'
  <2> SUFFICES ASSUME ClientInv, [ClientNext]_clientVars PROVE ClientInv'
    OBVIOUS
  <2>1. CASE ClientNext
    BY <2>1, ClientAllocInv, ClientFreeInv, ClientDoubleFreeInv DEF ClientNext
  <2>2. CASE UNCHANGED clientVars
    <3>1. /\ page_next' = page_next /\ free_pages_list' = free_pages_list
          /\ total_free_pages' = total_free_pages /\ ref_count' = ref_count
          /\ held' = held /\ double_frees' = double_frees
      BY <2>2 DEF clientVars, pageVars
    <3>2. ClientTypeOK' /\ RefInv'
      BY <3>1 DEF ClientInv, ClientTypeOK, RefInv, Pages
    <3>3. \E f \in [1 .. total_free_pages' -> Pages'] : Chain(total_free_pages, f)'
      <4>1. PICK f \in [1 .. total_free_pages -> Pages] : Chain(total_free_pages, f)
        BY DEF ClientInv
      <4>2. Chain(total_free_pages, f)'
        BY <3>1, <4>1 DEF Chain, Pages
      <4> QED BY <3>1, <4>1, <4>2 DEF Pages
    <3> QED BY <3>2, <3>3 DEF ClientInv
  <2> QED BY <2>1, <2>2
<1>3. ClientInv => FreeListSound
  BY ClientInvSound
<1> QED BY <1>1, <1>2, <1>3, PTL DEF ClientSpec
=============================================================================
