----------------------------- MODULE Allocator ------------------------------
(***************************************************************************)
(* What a caller of malloc and free relies on, with no heap layout in it:  *)
(* `live` maps every pointer the caller holds to the number of bytes it    *)
(* asked for.  A successful malloc adds one 8-byte aligned pointer whose   *)
(* bytes are usable memory and belong to no other allocation, and disturbs *)
(* nothing else; free removes one.  A failed malloc changes nothing.       *)
(***************************************************************************)
EXTENDS Integers

CONSTANT Usable(_, _)   \* Usable(p, n): the bytes p .. p+n-1 are heap memory

VARIABLE live

Init == live = [p \in {} |-> 0]

Apart(p, m, q, n) == p + m <= q \/ q + n <= p

Malloc ==
  \E p \in DOMAIN live' \ DOMAIN live :
    /\ p % 8 = 0
    /\ live'[p] > 0
    /\ Usable(p, live'[p])
    /\ \A q \in DOMAIN live : Apart(p, live'[p], q, live[q])
    /\ live' = [q \in DOMAIN live \cup {p} |-> IF q = p THEN live'[p] ELSE live[q]]

Free ==
  \E p \in DOMAIN live :
    live' = [q \in DOMAIN live \ {p} |-> live[q]]

Next == Malloc \/ Free

Spec == Init /\ [][Next]_live
=============================================================================
