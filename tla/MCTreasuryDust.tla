---------------------------- MODULE MCTreasuryDust ----------------------------
(***************************************************************************)
(* Model-checking instance of Treasury with an existential deposit of 2    *)
(* and a third user, u3, who has no account: an award of 1 to u3 is below  *)
(* the existential deposit and would not create the account.              *)
(***************************************************************************)
EXTENDS Treasury

CONSTANTS u1, u2, u3, pot

MCUsers == {u1, u2, u3}

\* u1 and u2 can each hold a bond and stay alive; the pot is 2.
MCInitialFree ==
    [a \in {u1, u2, u3, pot} |->
        CASE a = pot -> 4 [] a = u3 -> 0 [] OTHER -> 2]
=============================================================================
