---------------------------- MODULE LedgerAdapter ----------------------------
(***************************************************************************)
(* The value-transfer primitives the treasury pallet consumes: the         *)
(* Currency / ReservableCurrency traits and the Permill arithmetic of      *)
(* sp_arithmetic.  Neither lives in this repository (spec.md section 4.4), *)
(* so these operators are written from the interface the spec states.      *)
(*                                                                         *)
(* Balances are two functions over accounts, free and reserved.  Every     *)
(* operator is pure: it takes the balances and returns the new ones, so    *)
(* the treasury actions can chain several calls inside one extrinsic or    *)
(* one on_initialize, as the code does.                                    *)
(***************************************************************************)
EXTENDS Naturals
LOCAL INSTANCE Functions

\* Permill is parts per million.
PermillOne == 1000000

Smaller(a, b) == IF a <= b THEN a ELSE b

(***************************************************************************)
(* Permill * Balance: (x / 10^6) * p plus the remainder term rounded to    *)
(* nearest, an exact half rounded down (overflow_prune_mul with            *)
(* Rounding::Nearest).                                                     *)
(***************************************************************************)
MulPermill(p, x) ==
    LET rem      == x % PermillOne
        remMul   == rem * p
        roundUp  == IF remMul % PermillOne > PermillOne \div 2 THEN 1 ELSE 0
    IN  (x \div PermillOne) * p + remMul \div PermillOne + roundUp

\* reserve(who, amount): moves amount from free to reserved, or fails with
\* InsufficientBalance when free is too small.
CanReserve(free, who, amount) == free[who] >= amount

Reserve(bal, who, amount) ==
    [free     |-> [bal.free EXCEPT ![who] = @ - amount],
     reserved |-> [bal.reserved EXCEPT ![who] = @ + amount]]

\* unreserve(who, amount): moves at most the reserved balance back to free
\* and returns the part that could not be unreserved.
Unreserved(bal, who, amount) == Smaller(amount, bal.reserved[who])

Unreserve(bal, who, amount) ==
    LET actual == Unreserved(bal, who, amount)
    IN  [free     |-> [bal.free EXCEPT ![who] = @ + actual],
         reserved |-> [bal.reserved EXCEPT ![who] = @ - actual]]

\* slash_reserved(who, amount): destroys at most the reserved balance and
\* hands it on as a negative imbalance of that size.
Slashed(bal, who, amount) == Smaller(amount, bal.reserved[who])

SlashReserved(bal, who, amount) ==
    [bal EXCEPT !.reserved[who] = @ - Slashed(bal, who, amount)]

(***************************************************************************)
(* deposit_creating(who, amount): credits free and returns a positive     *)
(* imbalance of what it credited.  An account exists while its total      *)
(* balance reaches minimum_balance(); a ledger that drops dust (as         *)
(* pallet_balances does) credits nothing when who does not exist and the  *)
(* amount would not create it.                                             *)
(***************************************************************************)
Credited(bal, who, amount, ed, dropsDust) ==
    IF dropsDust /\ amount < ed /\ bal.free[who] + bal.reserved[who] < ed
    THEN 0 ELSE amount

DepositCreating(bal, who, amount, ed, dropsDust) ==
    [bal EXCEPT !.free[who] = @ + Credited(bal, who, amount, ed, dropsDust)]

\* settle(who, imbalance, KeepAlive): withdraws the imbalance from who; a
\* zero withdrawal always succeeds, otherwise who must keep at least the
\* existential deposit.  On failure nothing is withdrawn.
CanSettleKeepAlive(bal, who, amount, ed) ==
    amount = 0 \/ bal.free[who] >= amount + ed

Settle(bal, who, amount) == [bal EXCEPT !.free[who] = @ - amount]

\* Sum of free and reserved balance over a set of accounts.
TotalOf(bal, accounts) ==
    SumFunction([a \in accounts |-> bal.free[a] + bal.reserved[a]])
=============================================================================
