---------------------------- MODULE MCCreditPool ----------------------------
(* The credit pool on a small instance: a cheap call, refused when the pool *)
(* is empty, and a post-hoc one that only a bonus lets the pool cover.      *)
EXTENDS CreditPool, TLC

CONSTANTS cheap, dear

MCCost == [c \in Calls |-> IF c = cheap THEN 1 ELSE 2]
MCBonus == [b \in Bonuses |-> 1]

(* Two runs of the same job differ in nothing but their name. *)
AllocatorsAlike == Permutations(Allocators)

=============================================================================
