--------------------------- MODULE TreasuryAbstract ---------------------------
(***************************************************************************)
(* What the treasury promises, without indices, counters, queues or       *)
(* periods.  A claim is a request for value from the pot to a beneficiary, *)
(* backed by a bond held in its proposer's reserve.  The live claims form  *)
(* a bag: two proposals with the same fields are two claims.               *)
(*                                                                         *)
(*  - Propose: a user with enough free balance reserves the bond of a     *)
(*    value and a claim is registered.                                    *)
(*  - Reject:  a claim is dropped and its bond leaves the proposer's       *)
(*    reserve, into the pot or out of issuance.                           *)
(*  - Deposit: value moves from a user into the pot.                      *)
(*  - Spend:   at once, some live claims are paid and dropped (each bond  *)
(*    back to free, each value to its beneficiary), each user may get a   *)
(*    grant and an amount is burnt; all of it comes out of the pot, which *)
(*    keeps the existential deposit.                                      *)
(***************************************************************************)
EXTENDS Naturals, Bags
LOCAL INSTANCE Functions

CONSTANTS
    Users,               \* accounts that propose and receive
    TreasuryAccount,     \* the account holding the pot
    ExistentialDeposit,  \* what the pot account always keeps
    OnSlashToPot,        \* TRUE: a rejected bond goes to the pot
    Values,              \* values a claim may request
    BondOf(_),           \* the bond a claim of a value must hold
    InitialFree          \* free balances at genesis

Accounts == Users \cup {TreasuryAccount}

VARIABLES free, reserved, claims, burnt,
    granted              \* what each user received beyond paid claims in the last spend

avars == <<free, reserved, claims, burnt, granted>>

ClaimType == [proposer: Users, value: Values, beneficiary: Users, bond: Nat]

\* The spendable part of the pot account.
Spendable == IF free[TreasuryAccount] >= ExistentialDeposit
             THEN free[TreasuryAccount] - ExistentialDeposit ELSE 0

\* Sum over the claims of a bag of F(c), each claim counted with its copies.
BagSum(B, F(_)) == SumFunction([c \in BagToSet(B) |-> B[c] * F(c)])

\* What paying the bag P gives account a: the values it is beneficiary of
\* and the bonds it proposed.
ValueTo(P, a) == BagSum(P, LAMBDA c : IF c.beneficiary = a THEN c.value ELSE 0)
BondTo(P, a)  == BagSum(P, LAMBDA c : IF c.proposer = a THEN c.bond ELSE 0)

Propose(who, v, b) ==
    LET c == [proposer |-> who, value |-> v, beneficiary |-> b, bond |-> BondOf(v)]
    IN  /\ free[who] >= c.bond
        /\ free' = [free EXCEPT ![who] = @ - c.bond]
        /\ reserved' = [reserved EXCEPT ![who] = @ + c.bond]
        /\ claims' = claims (+) SetToBag({c})
        /\ UNCHANGED <<burnt, granted>>

Reject(c) ==
    /\ reserved[c.proposer] >= c.bond
    /\ claims' = claims (-) SetToBag({c})
    /\ reserved' = [reserved EXCEPT ![c.proposer] = @ - c.bond]
    /\ IF OnSlashToPot
       THEN free' = [free EXCEPT ![TreasuryAccount] = @ + c.bond] /\ burnt' = burnt
       ELSE free' = free /\ burnt' = burnt + c.bond
    /\ UNCHANGED granted

Deposit(from, amount) ==
    /\ free[from] >= amount
    /\ free' = [free EXCEPT ![from] = @ - amount,
                            ![TreasuryAccount] = @ + amount]
    /\ UNCHANGED <<reserved, claims, burnt, granted>>

Spend(P, G, burn) ==
    LET outlay == BagSum(P, LAMBDA c : c.value) + SumFunction(G) + burn
    IN  /\ outlay <= Spendable
        /\ \A a \in Users : reserved[a] >= BondTo(P, a)
        /\ claims' = claims (-) P
        /\ reserved' = [a \in Accounts |->
                          IF a \in Users THEN reserved[a] - BondTo(P, a) ELSE reserved[a]]
        /\ free' = [a \in Accounts |->
                      IF a = TreasuryAccount THEN free[a] - outlay
                      ELSE free[a] + BondTo(P, a) + ValueTo(P, a) + G[a]]
        /\ burnt' = burnt + burn
        /\ granted' = G

Init ==
    /\ free = InitialFree
    /\ reserved = [a \in Accounts |-> 0]
    /\ claims = EmptyBag
    /\ burnt = 0
    /\ granted = [a \in Users |-> 0]

Next ==
    \/ \E who \in Users, v \in Values, b \in Users : Propose(who, v, b)
    \/ \E c \in BagToSet(claims) : Reject(c)
    \/ \E from \in Users : \E amount \in 1 .. free[from] : Deposit(from, amount)
    \/ \E P \in SubBag(claims), G \in [Users -> 0 .. Spendable], burn \in 0 .. Spendable :
          Spend(P, G, burn)

Spec == Init /\ [][Next]_avars
=============================================================================
