--------------------------- MODULE MCPageClients ----------------------------
(***************************************************************************)
(* A machine with a BIOS hole: low memory, 1 MB .. 7 MB usable, 7 MB .. 9  *)
(* MB reserved, 9 MB .. 14 MB usable - four whole frames in two groups.    *)
(***************************************************************************)
EXTENDS PageClients

MB == 1048576

MCBootTable == << [address |-> 0,       length |-> 654336, type |-> 1],
                  [address |-> 654336,  length |-> 394240, type |-> 2],
                  [address |-> MB,      length |-> 6 * MB, type |-> 1],
                  [address |-> 7 * MB,  length |-> 2 * MB, type |-> 2],
                  [address |-> 9 * MB,  length |-> 5 * MB, type |-> 1],
                  [address |-> 1,       length |-> 0,      type |-> 0],
                  [address |-> 16 * MB, length |-> 4 * MB, type |-> 1] >>
=============================================================================
