------------------------------- MODULE MCHeap -------------------------------
(***************************************************************************)
(* A small machine: 1 MB .. 7 MB is usable, which is the two adjacent      *)
(* frames at 2 MB and 4 MB.  The requests are a process_A buffer, a block  *)
(* two of which do not share a frame with it and the largest one           *)
(* malloc serves.                                                          *)
(***************************************************************************)
EXTENDS HeapContiguous

MB == 1048576

MCBootTable == << [address |-> 0,      length |-> 654336, type |-> 1],
                  [address |-> 654336, length |-> 394240, type |-> 2],
                  [address |-> MB,     length |-> 6 * MB, type |-> 1],
                  [address |-> 1,      length |-> 0,      type |-> 0] >>

MCRequests == {60, MB, max_allowed}
=============================================================================
