---------------------------- MODULE PageClients -----------------------------
(***************************************************************************)
(* The page-frame allocator under arbitrary callers of alloc_page and      *)
(* free_page (memory.h exports both), including one that releases the same *)
(* page again after it went back to the free list.  `held` is a history    *)
(* variable: the pages callers own.  Releasing a page somebody else owns   *)
(* by now is outside the interface and is not modelled.                    *)
(***************************************************************************)
EXTENDS PageFrames, FiniteSets

CONSTANT MaxDoubleFree   \* bound on repeated releases in one behaviour

\* ref_count wraps: only UINT_MAX + 1 repeated releases of one page bring it
\* back to 0, and the bound stays below that.
ASSUME DoubleFreeBound ==
  UINT_MAX \in Nat /\ MaxDoubleFree \in 0 .. (UINT_MAX - 1)

VARIABLES held, double_frees

clientVars == <<pageVars, held, double_frees>>

ClientInit ==
  /\ PageInit
  /\ held = {}
  /\ double_frees = 0

ClientAlloc ==
  \E page \in Pages :
    /\ alloc_page(page)
    /\ held' = held \cup {page}
    /\ UNCHANGED double_frees

ClientFree ==
  \E page \in held :
    /\ free_page(page)
    /\ held' = held \ {page}
    /\ UNCHANGED double_frees

ClientDoubleFree ==
  /\ double_frees < MaxDoubleFree
  /\ \E page \in Pages \ held : free_page(page)
  /\ double_frees' = double_frees + 1
  /\ UNCHANGED held

ClientNext == ClientAlloc \/ ClientFree \/ ClientDoubleFree

ClientSpec == ClientInit /\ [][ClientNext]_clientVars

-----------------------------------------------------------------------------
ClientTypeOK ==
  /\ free_pages_list \in Pages \cup {NULL}
  /\ page_next \in [Pages -> Pages \cup {NULL}]
  /\ ref_count \in [Pages -> 0 .. UINT_MAX]
  /\ total_free_pages \in 0 .. NPages
  /\ held \subseteq Pages
  /\ double_frees \in 0 .. MaxDoubleFree

\* The n-th page met when following page->next from free_pages_list.
Walk == LET nth[n \in 0 .. NPages] ==
              IF n = 0 THEN free_pages_list
              ELSE IF nth[n-1] = NULL THEN NULL ELSE page_next[nth[n-1]]
        IN  nth

\* The free list ends, holds exactly the pages nobody owns, and
\* total_free_pages is its length - whatever the order of allocations,
\* releases and repeated releases (memory.c alloc_page, free_page).
FreeListSound ==
  /\ ClientTypeOK
  /\ Walk[NPages] = NULL
  /\ {Walk[n] : n \in 0 .. NPages} \ {NULL} = Pages \ held
  /\ total_free_pages = Cardinality(Pages \ held)
=============================================================================
