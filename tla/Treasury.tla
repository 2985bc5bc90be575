------------------------------- MODULE Treasury -------------------------------
(***************************************************************************)
(* The treasury pallet of src/frame/treasury/src/lib.rs: the proposal      *)
(* registry (Proposals / WaitingProposals and their counters), the bounded *)
(* Approvals queue, the three dispatchables and the on_initialize hook     *)
(* that runs spend_funds once per SpendPeriod.                             *)
(*                                                                         *)
(* Every dispatchable and every on_initialize is one atomic step: the      *)
(* runtime executes extrinsics and hooks sequentially inside a block.      *)
(* Each step models the whole handler; spend_funds is one step whose       *)
(* retain pass over the queue, SpendFunds hook, burn, settlement and       *)
(* waiting-proposal promotion are chained operators, in code order.        *)
(* Failing dispatchables return before any storage write, so their error   *)
(* paths are the negation of the action guards (no state change).          *)
(***************************************************************************)
EXTENDS Naturals, Sequences, FiniteSets, TLC, LedgerAdapter
LOCAL INSTANCE Functions
LOCAL SE == INSTANCE SequencesExt

CONSTANTS
    Users,                 \* signed accounts: proposers and beneficiaries
    TreasuryAccount,       \* PalletId::into_account(), the pot's account
    ExistentialDeposit,    \* Currency::minimum_balance()
    ProposalBond,          \* Config::ProposalBond, in Permill parts
    ProposalBondMinimum,   \* Config::ProposalBondMinimum
    Burn,                  \* Config::Burn, in Permill parts
    SpendPeriod,           \* Config::SpendPeriod, in blocks
    AllowedProposalPeriod, \* Config::AllowedProposalPeriod, in blocks
    MaxApprovals,          \* Config::MaxApprovals
    OnSlashToPot,          \* TRUE: Config::OnSlash is this pallet (lines 596-604)
                           \* FALSE: the slashed imbalance is dropped (burnt)
    U32,                   \* modulus of u32 arithmetic (2^32 in the code)
    Values,                \* values a proposal may request
    Chunks,                \* chunk counts a proposal may request
    FundAmounts,           \* amounts paid into the pot from outside
    Handlers,              \* number of SpendFunds implementors in the tuple
    HookAmounts,           \* amounts a SpendFunds implementor may spend
    InitialFree,           \* free balance of every account at genesis
    MaxProposals,          \* bound: proposals submitted over a behaviour
    LedgerDropsDust        \* the Currency drops deposits below minimum_balance
                           \* to accounts that do not exist

Accounts == Users \cup {TreasuryAccount}

ASSUME /\ TreasuryAccount \notin Users
       /\ SpendPeriod \in Nat \ {0}
       /\ MaxApprovals \in Nat
       /\ Chunks \subseteq 0 .. (U32 - 1)
       /\ InitialFree \in [Accounts -> Nat]
       /\ LedgerDropsDust \in BOOLEAN
       /\ Handlers \in Nat

VARIABLES
    bal,                   \* [free, reserved] balances of every account
    proposals,             \* Proposals: ProposalIndex -> Proposal
    proposalCount,         \* ProposalCount
    waitingProposals,      \* WaitingProposals: ProposalIndex -> Proposal
    waitingProposalCount,  \* WaitingProposalCount
    approvals,             \* Approvals: BoundedVec<ProposalIndex, MaxApprovals>
    now,                   \* current block number modulo SpendPeriod
    submitted,             \* history: number of propose_spend calls that succeeded
    burnt,                 \* history: value removed from issuance (burn, dropped slash)
    settleFailed,          \* history: the "Inconsistent state" branch (line 562) ran
    hookGranted            \* history: what the last spend's SpendFunds implementors
                           \* credited each user

vars == <<bal, proposals, proposalCount, waitingProposals, waitingProposalCount,
          approvals, now, submitted, burnt, settleFailed, hookGranted>>

-----------------------------------------------------------------------------
(* Storage maps and the Proposal struct.                                   *)

NoProposals == [i \in {} |-> 0]

Insert(map, index, p) == (index :> p) @@ map

RemoveKey(map, index) == Restrict(map, DOMAIN map \ {index})

ProposalType ==
    [proposer: Users, value: Nat, beneficiary: Users, bond: Nat,
     occurs: 0 .. (U32 - 1), remaining_occurs: 0 .. (U32 - 1)]

\* calculate_bond: max(ProposalBondMinimum, ProposalBond * value).
CalculateBond(value) ==
    LET fraction == MulPermill(ProposalBond, value)
    IN  IF ProposalBondMinimum >= fraction THEN ProposalBondMinimum ELSE fraction

\* The per-occurrence amount: value / chunks, or value when chunks is 0.
Chunk(value, chunks) == IF chunks > 0 THEN value \div chunks ELSE value

\* pot(): free balance of the treasury account minus the existential
\* deposit, saturating at zero.
\* Mutation of Pot: the existential deposit counted as spendable.
PotIgnoringED(b) == b.free[TreasuryAccount]

Pot(b) ==
    IF b.free[TreasuryAccount] >= ExistentialDeposit
    THEN b.free[TreasuryAccount] - ExistentialDeposit
    ELSE 0

\* OnUnbalanced for the pallet: resolve_creating into the pot account.
ResolveIntoPot(b, amount) == [b EXCEPT !.free[TreasuryAccount] = @ + amount]

\* deposit_creating on the configured ledger: the new balances, and the
\* positive imbalance it returns.
Mint(b, who, amount) == DepositCreating(b, who, amount, ExistentialDeposit, LedgerDropsDust)

Minted(b, who, amount) == Credited(b, who, amount, ExistentialDeposit, LedgerDropsDust)

-----------------------------------------------------------------------------
(* Dispatchables.                                                          *)

\* propose_spend: reserve the bond, then insert into Proposals when the
\* block lies in the allowed window of the spend period, else into
\* WaitingProposals, each at its counter, and bump that counter (an
\* unchecked u32 addition, which wraps in the release build).
ProposeSpend(proposer, value, beneficiary, chunks) ==
    LET bond == CalculateBond(value)
        p    == [proposer |-> proposer, value |-> Chunk(value, chunks),
                 beneficiary |-> beneficiary, bond |-> bond,
                 occurs |-> chunks, remaining_occurs |-> chunks]
    IN  /\ submitted < MaxProposals
        /\ CanReserve(bal.free, proposer, bond)
        /\ bal' = Reserve(bal, proposer, bond)
        /\ submitted' = submitted + 1
        /\ \/ /\ now < AllowedProposalPeriod
              /\ proposals' = Insert(proposals, proposalCount, p)
              /\ proposalCount' = (proposalCount + 1) % U32
              /\ UNCHANGED <<waitingProposals, waitingProposalCount>>
           \/ /\ now >= AllowedProposalPeriod
              /\ waitingProposals' = Insert(waitingProposals, waitingProposalCount, p)
              /\ waitingProposalCount' = (waitingProposalCount + 1) % U32
              /\ UNCHANGED <<proposals, proposalCount>>
        /\ UNCHANGED <<approvals, now, burnt, settleFailed, hookGranted>>

\* reject_proposal: take the active proposal and slash its bond from the
\* proposer's reserve into Config::OnSlash.  Waiting proposals cannot be
\* rejected, and the index is left in Approvals if it was approved.
\* Mutation of RejectProposal: the proposal is removed, the bond not slashed.
RejectWithoutSlash(i) ==
    /\ i \in DOMAIN proposals
    /\ proposals' = RemoveKey(proposals, i)
    /\ UNCHANGED <<bal, burnt>>
    /\ UNCHANGED <<proposalCount, waitingProposals, waitingProposalCount, approvals,
                   now, submitted, settleFailed, hookGranted>>

RejectProposal(i) ==
    /\ i \in DOMAIN proposals
    /\ LET p       == proposals[i]
           amount  == Slashed(bal, p.proposer, p.bond)
           slashed == SlashReserved(bal, p.proposer, p.bond)
       IN  /\ proposals' = RemoveKey(proposals, i)
           /\ IF OnSlashToPot
              THEN bal' = ResolveIntoPot(slashed, amount) /\ burnt' = burnt
              ELSE bal' = slashed /\ burnt' = burnt + amount
    /\ UNCHANGED <<proposalCount, waitingProposals, waitingProposalCount, approvals,
                   now, submitted, settleFailed, hookGranted>>

\* approve_proposal: the active proposal must exist and the queue must
\* have room (TooManyApprovals); the index is appended, duplicates included.
\* Mutation of ApproveProposal: the BoundedVec bound is not checked.
ApproveProposalUnbounded(i) ==
    /\ i \in DOMAIN proposals
    /\ approvals' = Append(approvals, i)
    /\ UNCHANGED <<bal, proposals, proposalCount, waitingProposals,
                   waitingProposalCount, now, submitted, burnt, settleFailed, hookGranted>>

ApproveProposal(i) ==
    /\ i \in DOMAIN proposals
    /\ Len(approvals) < MaxApprovals
    /\ approvals' = Append(approvals, i)
    /\ UNCHANGED <<bal, proposals, proposalCount, waitingProposals,
                   waitingProposalCount, now, submitted, burnt, settleFailed, hookGranted>>

\* An outside imbalance (a fee, a slash of another pallet) paid into the
\* pot through the pallet's OnUnbalanced implementation.
Deposit(from, amount) ==
    /\ bal.free[from] >= amount
    /\ bal' = ResolveIntoPot([bal EXCEPT !.free[from] = @ - amount], amount)
    /\ UNCHANGED <<proposals, proposalCount, waitingProposals, waitingProposalCount,
                   approvals, now, submitted, burnt, settleFailed, hookGranted>>

-----------------------------------------------------------------------------
(* spend_funds.  A cycle threads one record through the steps of the       *)
(* function: the running budget_remaining, the Proposals map, the indices  *)
(* retain keeps, the balances, the positive imbalance, missed_any and the  *)
(* burn.                                                                   *)

\* Paying an approved proposal: charge cost to the budget, store the
\* decremented remaining_occurs (removing the proposal at zero), unreserve
\* its bond, mint its value to the beneficiary into the imbalance.
\* Mutation of PayStep: the bond is not handed back.
PayStepKeepsBond(index, p, st, remaining, cost) ==
    [st EXCEPT !.budget   = @ - cost,
               !.props    = IF remaining = 0 THEN RemoveKey(@, index)
                            ELSE Insert(@, index, [p EXCEPT !.remaining_occurs = remaining]),
               !.bal      = Mint(@, p.beneficiary, p.value),
               !.imb      = @ + Minted(st.bal, p.beneficiary, p.value)]

PayStep(index, p, st, remaining, cost) ==
    LET refunded == Unreserve(st.bal, p.proposer, p.bond)
    IN  [st EXCEPT !.budget   = @ - cost,
                   !.props    = IF remaining = 0 THEN RemoveKey(@, index)
                                ELSE Insert(@, index, [p EXCEPT !.remaining_occurs = remaining]),
                   !.bal      = Mint(refunded, p.beneficiary, p.value),
                   !.imb      = @ + Minted(refunded, p.beneficiary, p.value)]

\* Mutations of Pay: the decrement dropped; the budget not charged.
PayKeepsOccurrence(index, p, st) == PayStep(index, p, st, p.remaining_occurs, p.value)

PayKeepsBudget(index, p, st) ==
    PayStep(index, p, st, (p.remaining_occurs + U32 - 1) % U32, 0)

\* remaining_occurs - 1 on a u32 wraps in the release build.
Pay(index, p, st) ==
    PayStep(index, p, st, (p.remaining_occurs + U32 - 1) % U32, p.value)

\* The retain closure for one queued index: drop it if the proposal is
\* gone, pay and drop it if it fits the budget, else keep it and set
\* missed_any.
\* Mutation of Visit: `<` for `<=`.
VisitStrict(index, st) ==
    IF index \notin DOMAIN st.props THEN st
    ELSE IF st.props[index].value < st.budget THEN Pay(index, st.props[index], st)
    ELSE [st EXCEPT !.kept = Append(@, index), !.missed = TRUE]

Visit(index, st) ==
    IF index \notin DOMAIN st.props THEN st
    ELSE IF st.props[index].value <= st.budget THEN Pay(index, st.props[index], st)
    ELSE [st EXCEPT !.kept = Append(@, index), !.missed = TRUE]

\* Approvals::mutate(|v| v.retain(..)): the queue in order, each element
\* seeing the storage the earlier ones left.
RECURSIVE RetainApprovals(_, _)
RetainApprovals(queue, st) ==
    IF queue = <<>> THEN st
    ELSE RetainApprovals(Tail(queue), Visit(Head(queue), st))

\* T::SpendFunds::spend_funds: an implementor spends amount of the
\* remaining budget on a beneficiary through deposit_creating, and may
\* report that it missed something.
\* Mutation of SpendFundsHook: an implementor that forgets to deduct.
SpendFundsHookKeepsBudget(st, amount, beneficiary, miss) ==
    [st EXCEPT !.bal    = Mint(@, beneficiary, amount),
               !.imb    = @ + Minted(st.bal, beneficiary, amount),
               !.missed = @ \/ miss,
               !.granted[beneficiary] = @ + Minted(st.bal, beneficiary, amount)]

SpendFundsHook(st, amount, beneficiary, miss) ==
    [st EXCEPT !.budget = @ - amount,
               !.bal    = Mint(@, beneficiary, amount),
               !.imb    = @ + Minted(st.bal, beneficiary, amount),
               !.missed = @ \/ miss,
               !.granted[beneficiary] = @ + Minted(st.bal, beneficiary, amount)]

\* What one implementor wants to spend, on whom, and whether it reports a
\* miss of its own.
HookChoice == [amount: HookAmounts, beneficiary: Users, miss: BOOLEAN]

\* An implementor that honours the trait's contract spends only what the
\* remaining budget covers, and marks missed_any when it cannot.
Handler(st, h) ==
    IF h.amount <= st.budget
    THEN SpendFundsHook(st, h.amount, h.beneficiary, h.miss)
    ELSE [st EXCEPT !.missed = TRUE]

\* #[impl_for_tuples]: a tuple of implementors is called in order with the
\* same &mut budget_remaining, imbalance and missed_any.
SpendFundsTuple(st, plan) == SE!FoldLeft(Handler, st, plan)

\* The burn when nothing was missed: min(Burn * budget, budget).
BurnAmount(budget, missed) ==
    IF missed THEN 0 ELSE Smaller(MulPermill(Burn, budget), budget)

\* Currency::pair(burn): the debit half joins the imbalance, the credit
\* half goes to BurnDestination.
ApplyBurn(st) ==
    LET burn == BurnAmount(st.budget, st.missed)
    IN  [st EXCEPT !.budget = @ - burn, !.imb = @ + burn, !.burn = burn]

\* The promotion loop `for i in 0..w_proposals`: each iteration re-reads
\* ProposalCount, moves WaitingProposals[i] (if any) to Proposals at that
\* count, and writes WaitingProposalCount := w_proposals - 1.
PromoteOne(i, w, ps) ==
    LET c     == ps.pcount
        moved == IF i \in DOMAIN ps.wprops
                 THEN [ps EXCEPT !.props  = Insert(@, c, ps.wprops[i]),
                                 !.pcount = (c + 1) % U32]
                 ELSE ps
    IN  [moved EXCEPT !.wcount = w - 1, !.wprops = RemoveKey(@, i)]

\* Mutation of PromoteFrom: a `while let Some(w)` loop that stops at the
\* first index with no waiting proposal.
RECURSIVE PromoteFromStopAtHole(_, _, _)
PromoteFromStopAtHole(i, w, ps) ==
    IF i >= w \/ i \notin DOMAIN ps.wprops THEN ps
    ELSE PromoteFromStopAtHole(i + 1, w, PromoteOne(i, w, ps))

RECURSIVE PromoteFrom(_, _, _)
PromoteFrom(i, w, ps) ==
    IF i >= w THEN ps ELSE PromoteFrom(i + 1, w, PromoteOne(i, w, ps))

PromoteWaiting(ps) == PromoteFrom(0, ps.wcount, ps)

\* One run of spend_funds, with the choices of the SpendFunds implementors.
SpendFunds(plan) ==
    LET s0 == [budget |-> Pot(bal), props |-> proposals, kept |-> <<>>,
               bal |-> bal, imb |-> 0, missed |-> FALSE, burn |-> 0,
               granted |-> [u \in Users |-> 0]]
        s1 == RetainApprovals(approvals, s0)
        s3 == ApplyBurn(SpendFundsTuple(s1, plan))
        ok == CanSettleKeepAlive(s3.bal, TreasuryAccount, s3.imb, ExistentialDeposit)
        ps == PromoteWaiting([props |-> s3.props, pcount |-> proposalCount,
                              wprops |-> waitingProposals,
                              wcount |-> waitingProposalCount])
    IN  /\ approvals' = s1.kept
        /\ bal' = IF ok THEN Settle(s3.bal, TreasuryAccount, s3.imb) ELSE s3.bal
        /\ burnt' = IF ok THEN burnt + s3.burn ELSE burnt
        /\ settleFailed' = (settleFailed \/ ~ok)
        /\ hookGranted' = s3.granted
        /\ proposals' = ps.props
        /\ proposalCount' = ps.pcount
        /\ waitingProposals' = ps.wprops
        /\ waitingProposalCount' = ps.wcount
        /\ UNCHANGED submitted

\* on_initialize(n): spend when n % SpendPeriod is zero.
OnInitialize ==
    LET n == (now + 1) % SpendPeriod
    IN  /\ now' = n
        /\ \/ /\ n # 0
              /\ UNCHANGED <<bal, proposals, proposalCount, waitingProposals,
                             waitingProposalCount, approvals, submitted, burnt,
                             settleFailed, hookGranted>>
           \/ /\ n = 0
              /\ \E plan \in [1 .. Handlers -> HookChoice] : SpendFunds(plan)

-----------------------------------------------------------------------------
(* The specification.                                                      *)

\* Genesis: the pot account is topped up to the existential deposit.
GenesisFree ==
    [a \in Accounts |->
        IF a = TreasuryAccount /\ InitialFree[a] < ExistentialDeposit
        THEN ExistentialDeposit ELSE InitialFree[a]]

InitialBalances == [free |-> GenesisFree, reserved |-> [a \in Accounts |-> 0]]

Init ==
    /\ bal = InitialBalances
    /\ proposals = NoProposals
    /\ proposalCount = 0
    /\ waitingProposals = NoProposals
    /\ waitingProposalCount = 0
    /\ approvals = <<>>
    /\ now = 0
    /\ submitted = 0
    /\ burnt = 0
    /\ settleFailed = FALSE
    /\ hookGranted = [u \in Users |-> 0]

Next ==
    \/ \E who \in Users, v \in Values, b \in Users, c \in Chunks :
          ProposeSpend(who, v, b, c)
    \/ \E i \in DOMAIN proposals : RejectProposal(i)
    \/ \E i \in DOMAIN proposals : ApproveProposal(i)
    \/ \E who \in Users, x \in FundAmounts : Deposit(who, x)
    \/ OnInitialize

(***************************************************************************)
(* frame_system advances the block number and the executive then calls   *)
(* on_initialize; blocks keep being produced, so the block number keeps    *)
(* advancing.  Only OnInitialize changes now, so a BlockAdvance step of    *)
(* the specification is an OnInitialize step, and OnInitialize is enabled *)
(* in every state (spend_funds has no guard), so the                      *)
(* fairness below is WF_vars(OnInitialize) with an ENABLED that TLC does   *)
(* not have to evaluate over the whole of spend_funds.                     *)
(***************************************************************************)
BlockAdvance == now' = (now + 1) % SpendPeriod

Spec == Init /\ [][Next]_vars /\ WF_now(BlockAdvance)

-----------------------------------------------------------------------------
(* Properties.                                                             *)

TypeOK ==
    /\ bal \in [free: [Accounts -> Nat], reserved: [Accounts -> Nat]]
    /\ DOMAIN proposals \subseteq 0 .. (proposalCount - 1)
    /\ \A i \in DOMAIN proposals : proposals[i] \in ProposalType
    /\ DOMAIN waitingProposals \subseteq Nat
    /\ \A i \in DOMAIN waitingProposals : waitingProposals[i] \in ProposalType
    /\ approvals \in Seq(Nat) /\ Len(approvals) <= MaxApprovals
    /\ now \in 0 .. (SpendPeriod - 1)
    /\ hookGranted \in [Users -> Nat]

\* A step that is the on_initialize of a spend block.
SpendStep == now' = 0 /\ now # 0

\* Bonds of a's proposals in a storage map.
BondsOf(map, a) ==
    SumFunction([i \in {j \in DOMAIN map : map[j].proposer = a} |-> map[i].bond])

(***************************************************************************)
(* Value is conserved: the balances of all accounts plus what was burnt    *)
(* equal the genesis total.  Every unit spend_funds mints to a beneficiary *)
(* through deposit_creating is withdrawn from the pot by the final settle, *)
(* and bonds only move between free, reserved and the slash sink.          *)
(***************************************************************************)
ValueConserved ==
    TotalOf(bal, Accounts) + burnt = TotalOf(InitialBalances, Accounts)

(***************************************************************************)
(* The settlement of spend_funds never fails: the comment at lines 555-558 *)
(* argues that payouts plus burn stay within free balance minus ED, so the *)
(* KeepAlive withdrawal always succeeds and the "Inconsistent state"       *)
(* branch is dead.                                                         *)
(***************************************************************************)
SettleNeverFails == ~settleFailed

(***************************************************************************)
(* No bond is orphaned: what is reserved from a proposer never exceeds the *)
(* bonds of that proposer's proposals still in Proposals or               *)
(* WaitingProposals, so no reserve is left that no reject or payment can  *)
(* release (reject_proposal, the payment in spend_funds, promotion).       *)
(***************************************************************************)
NoOrphanReserve ==
    \A a \in Users :
        bal.reserved[a] <= BondsOf(proposals, a) + BondsOf(waitingProposals, a)

(***************************************************************************)
(* A spend promotes every waiting proposal: after it WaitingProposals is   *)
(* empty and the proposals it added to Proposals, at fresh indices, are    *)
(* exactly the waiting ones, none lost and none twice (the promotion loop  *)
(* at lines 567-580).                                                      *)
(***************************************************************************)
SpendPromotesAllWaiting ==
    [][SpendStep =>
        LET added == DOMAIN proposals' \ DOMAIN proposals
        IN  /\ DOMAIN waitingProposals' = {}
            /\ Cardinality(added) = Cardinality(DOMAIN waitingProposals)
            /\ {proposals'[j] : j \in added} = Range(waitingProposals)]_vars

(***************************************************************************)
(* A spend keeps an approval only when it could not pay it: every index    *)
(* left in Approvals after spend_funds names a live proposal whose value   *)
(* exceeds the budget that rolls over, which the comment at lines 555-558  *)
(* says is the free balance minus ED, so the pot after settlement (the     *)
(* retain closure, lines 501-530; spec.md section 8).                      *)
(***************************************************************************)
DeferredOnlyIfUnaffordable ==
    [][SpendStep =>
        \A k \in 1 .. Len(approvals') :
            /\ approvals'[k] \in DOMAIN proposals'
            /\ proposals'[approvals'[k]].value > Pot(bal')]_vars

(***************************************************************************)
(* spec.md section 8: a cycle that pays a non-recurring proposal (occurs   *)
(* = 0) removes it from Proposals, so one still stored was never paid and *)
(* keeps remaining_occurs = occurs = 0 (the payment at lines 504-512).     *)
(***************************************************************************)
NonRecurringRemovedWhenPaid ==
    \A i \in DOMAIN proposals :
        proposals[i].occurs = 0 => proposals[i].remaining_occurs = 0

(***************************************************************************)
(* A live proposal's bond is held: spec.md section 3 calls the bond the  *)
(* deposit reserved from the proposer, section 4.3 returns it in full at  *)
(* every payment, and the debug_assert!(err_amount.is_zero()) at line    *)
(* 516 states that unreserve finds the whole bond reserved.  So each      *)
(* proposer's reserve covers the bonds of all its live proposals.         *)
(***************************************************************************)
BondBacked ==
    \A a \in Users :
        bal.reserved[a] >= BondsOf(proposals, a) + BondsOf(waitingProposals, a)

(***************************************************************************)
(* spec.md section 3: WaitingProposalCount is a monotonically increasing   *)
(* counter, so waiting indices are never reused (line 575 writes it).      *)
(***************************************************************************)
WaitingCountMonotonic ==
    [][waitingProposalCount' >= waitingProposalCount]_vars

-----------------------------------------------------------------------------
(* Refinement.  A stored proposal, active or waiting, is a claim of the   *)
(* abstract treasury; the mapping forgets its index, its occurrence        *)
(* counters, the queue and the period.                                     *)

ClaimOf(p) == [proposer |-> p.proposer, value |-> p.value,
               beneficiary |-> p.beneficiary, bond |-> p.bond]

CopiesOf(map, c) == Cardinality({i \in DOMAIN map : ClaimOf(map[i]) = c})

ClaimBag ==
    [c \in {ClaimOf(p) : p \in Range(proposals) \cup Range(waitingProposals)} |->
        CopiesOf(proposals, c) + CopiesOf(waitingProposals, c)]

Abstract == INSTANCE TreasuryAbstract
    WITH free <- bal.free, reserved <- bal.reserved, claims <- ClaimBag,
         granted <- hookGranted, BondOf <- CalculateBond, InitialFree <- GenesisFree

(***************************************************************************)
(* The pallet implements the abstract treasury: every dispatchable and    *)
(* every on_initialize is a step of TreasuryAbstract under the mapping,    *)
(* so a spend pays each live proposal at most once (what users receive    *)
(* beyond the claims paid is exactly what the SpendFunds implementors      *)
(* credited in that spend), hands back exactly its bond, and takes its      *)
(* payouts, the hook's grants and the burn out of the pot without touching *)
(* the existential deposit (propose_spend,                                 *)
(* reject_proposal, spend_funds, the OnUnbalanced impl).                   *)
(***************************************************************************)
TreasuryRefinesAbstract == Abstract!Spec

(***************************************************************************)
(* An approval at the head of the queue whose value the pot covers is paid *)
(* (or was rejected) by a later spend: nothing before it in the retain     *)
(* pass takes budget, and until the spend the pot can only grow (deposits, *)
(* slashes into the pot).  Relies on on_initialize running every block.   *)
(***************************************************************************)
HeadAffordable(i) ==
    /\ approvals # <<>> /\ Head(approvals) = i
    /\ i \in DOMAIN proposals /\ proposals[i].value <= Pot(bal)

AffordableHeadPaid ==
    \A i \in 0 .. (MaxProposals - 1) : HeadAffordable(i) ~> i \notin DOMAIN proposals

=============================================================================
