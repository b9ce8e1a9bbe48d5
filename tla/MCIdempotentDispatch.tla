------------------------ MODULE MCIdempotentDispatch ------------------------
(* Up to four requests; those of keyed use the key, the others have none.   *)
(* Those of edited have another body than the rest.                         *)
EXTENDS IdempotentDispatch, TLC

CONSTANTS k1, b1, b2, keyed, edited

MCKeyOf == [r \in Requests |-> IF r \in keyed THEN k1 ELSE NoKey]
MCBodyOf == [r \in Requests |-> IF r \in edited THEN b2 ELSE b1]

\* The dispatches of a run all carry the key and the same body.
Symmetry == Permutations(Dispatches) \union Permutations(Ops)
=============================================================================
