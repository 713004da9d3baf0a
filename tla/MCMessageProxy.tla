----------------------------- MODULE MCMessageProxy -----------------------------
(***************************************************************************)
(* Instances of MessageProxy for TLC: ids that look alike, symmetry.       *)
(***************************************************************************)
EXTENDS StdioDemux

CONSTANTS one, oneString

\* 1 and "1" print alike; undefined prints as neither.
TextOf == [id \in {one, oneString, NoId} |-> IF id = NoId THEN "undefined" ELSE "1"]

CallSymmetry == Permutations(Calls)

=============================================================================
