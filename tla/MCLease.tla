------------------------------- MODULE MCLease -------------------------------
(* Small instances of Lease for TLC. *)
EXTENDS Lease, TLC

CONSTANTS l1, l2, l3, a, b

LeaseSymmetry == Permutations(Lease)

(* One kind of request, or also requests that name target a. *)
AnyOnly == [k \in {"any"} |-> {a, b}]
AnyOrPinned == [k \in {"any", "pin"} |-> IF k = "any" THEN {a, b} ELSE {a}]
AOnly == [k \in {"any"} |-> {a}]

(* What the registry lists: everything, or a may vanish. *)
Both == {{a, b}}
AMayVanish == {{a, b}, {b}}
JustA == {{a}}
=============================================================================
