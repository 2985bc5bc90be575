------------------------------ MODULE MCTreasury ------------------------------
(***************************************************************************)
(* Model-checking instance of Treasury: two users, a pot of 2 above the   *)
(* existential deposit, 50% bonds and burn, a spend every second block    *)
(* with proposals allowed in the first block of the period.               *)
(***************************************************************************)
EXTENDS Treasury

CONSTANTS u1, u2, pot

MCUsers == {u1, u2}

\* Users start with equal balances, so they are symmetric.
MCInitialFree == [a \in {u1, u2, pot} |-> IF a = pot THEN 3 ELSE 1]

\* Every value / chunk pair a proposal may request.
MCChunksAll == {0, 1, 2}

Symmetry == Permutations(MCUsers)

ASSUME SpendPeriod > 1
=============================================================================
