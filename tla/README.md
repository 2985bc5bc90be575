# TLA+ model of the treasury pallet

This directory holds a TLA+ model of `src/frame/treasury/src/lib.rs`, the Substrate treasury pallet. The pallet is a pot of funds, spending proposals backed by a bond, a bounded approval queue, and a periodic spend that pays approvals, burns surplus and promotes proposals that arrived outside the submission window. The TLC runs check the model's safety properties and reproduce three disagreements between the code and `spec.md`.

## 1. Inventory

### Components and their state

| Component | Code | State | Operations |
|---|---|---|---|
| BondPolicy | `calculate_bond` (484-487) | none (pure) | `max(ProposalBondMinimum, ProposalBond * value)` |
| ProposalRegistry | storage 205-235; `propose_spend` 348-419; `reject_proposal` 430-445 | `Proposals`, `ProposalCount`, `WaitingProposals`, `WaitingProposalCount` | propose (active window or waiting), reject (slash the bond) |
| ApprovalQueue | `Approvals` 237-241; `approve_proposal` 457-469 | `BoundedVec<ProposalIndex, MaxApprovals>` | append (duplicates allowed; `TooManyApprovals` when full) |
| SpendCycleEngine | `on_initialize` 327-334; `spend_funds` 489-585 | reads and writes everything above and the balances | retain pass (pay, defer or drop), SpendFunds hook, burn, settle, promotion of waiting proposals |
| Pot / deposits | `pot` 587-593; `OnUnbalanced` impl 596-604; genesis 267-277 | free balance of the pallet account | the derived pot; imbalances resolved into the account |
| LedgerAdapter (external) | `Currency` / `ReservableCurrency` (not in the repository) | free and reserved balances | reserve, unreserve, slash_reserved, deposit_creating, pair, settle |
| ExternalSpendExtension (external) | `SpendFunds` trait 96-115, called at 537-542 | none of its own | spends from `budget_remaining`, adds to the imbalance, may set `missed_any` |
| Origins, weights, events | — | — | not modelled (see section 5) |

### How the components interact

Extrinsics (`propose_spend`, `reject_proposal`, `approve_proposal`) and `on_initialize` run one after another inside a block. Each one runs to completion, so nothing interleaves *inside* a handler. The hard part is the order *between* handlers, for example:

- reject after approve;
- approve twice;
- propose in the waiting window;
- a recurring proposal approved again across periods.

`spend_funds` then processes what that order left behind in one pass, with these steps:

1. It reads the pot once into `budget_remaining`.
2. It walks the queue with `retain`. Each element reads storage that the earlier elements may have changed.
3. It hands the budget to the hook by `&mut`.
4. It burns, but only when nothing was missed.
5. It settles the accumulated imbalance against the pot with `KeepAlive`. A failure is swallowed.
6. It promotes the waiting proposals with a loop whose counter handling the spec itself questions (spec.md section 9).

Slashes go to `Config::OnSlash`. When that is the pallet itself, they come back into the pot through lines 596-604.

### What is hard to test

The full list is in `PROJECT.json` under "hazards", each at its line. In summary:

- u32 underflow of `remaining_occurs` when `occurs = 0` (line 506).
- The bond is unreserved on every occurrence but reserved only once (line 515).
- Duplicate approvals (line 465). The retain pass then reads storage that the earlier copy changed.
- Stale indices left in the queue by `reject_proposal` (line 527).
- The waiting-proposal counter written as `w - 1` on every loop iteration (line 575).
- A swallowed settle failure, with no rollback (line 559).
- The hook's by-reference contract (line 537).
- Truncated chunks of value 0 (line 365).
- Awards below the existential deposit, which the ledger may drop while the budget is still charged (line 518).
- Unchecked u32 increments of the proposal counters (line 375). On a wrap, a new proposal overwrites a live one.

### What makes each component correct

- Value is neither created nor lost. Every mint is paid by the pot, and slashes and burns are accounted for.
- Every live proposal's bond is held, and no bond is stranded without a proposal.
- A spend keeps only approvals it could not afford, pays each one-occurrence proposal at most once, and never fails to settle.
- Every waiting proposal is promoted exactly once.
- A non-recurring proposal is paid once and then removed.

## 2. Modules

| Module | Models |
|---|---|
| `LedgerAdapter.tla` | The ledger interface of spec.md section 4.4, modelled from the spec because the code is not in this repository (`spec_modelled` in the map). The balances are a record `[free, reserved]` over accounts. It has pure operators for reserve, unreserve, slash_reserved, deposit_creating and settle with KeepAlive, plus the Permill product. `deposit_creating` returns the imbalance it credited (`Credited`). It credits nothing when the ledger drops dust, the account does not exist (its total is below `minimum_balance`), and the amount would not create it. That product rounds to nearest, with an exact half rounded down (`overflow_prune_mul`). |
| `Treasury.tla` | The pallet. Its variables are the storage items, the balances, the block number modulo `SpendPeriod`, and four history variables: `submitted` (the bound), `burnt` (for conservation), `settleFailed` (the branch at line 562) and `hookGranted` (what the last spend's SpendFunds implementors credited each user, which the refinement mapping needs). It has one action per dispatchable, `Deposit` for imbalances paid into the pot, and `OnInitialize`, which runs the whole of `spend_funds` as one step. Inside that step, `RetainApprovals`/`Visit`/`Pay` are the retain closure, `SpendFundsTuple` is the hook: a fold of `Handler` over `Handlers` implementors, each a `HookChoice`, because `#[impl_for_tuples(30)]` (line 107) runs the tuple's members in order on one budget. `SpendFundsHook` is one member; a member that asks for more than the budget left only reports a miss. After the hook come `ApplyBurn`/`BurnAmount` (the burn), `CanSettleKeepAlive`/`Settle` the settle, and `PromoteFrom`/`PromoteOne` the promotion loop, in code order. Rejected dispatchables return before any write, so their error paths are exactly the negated guards. |
| `TreasuryAbstract.tla` | What the treasury promises, with no indices, counters, queue or period. It has a bag of claims (proposer, value, beneficiary, bond) and the balances. Its actions are: propose (reserve the bond), reject (the bond to the pot or out of issuance), deposit, and one atomic spend. A spend pays any sub-bag of the claims, grants each user an amount recorded in `granted` (what that user received beyond paid claims in this spend), and burns. All of it comes out of the pot, above the existential deposit, and each paid claim's bond is returned. |
| `MCTreasuryDust.tla` | A third user `u3` with no account, and an existential deposit of 2. |
| `MCTreasury.tla` | The model values (`u1`, `u2`, `pot`), the genesis balances and the user symmetry. |

How the state and actions correspond to the code:

- `remaining_occurs` uses the u32 modulus `U32`. The code's value is 2^32; the cfgs use 4, so the wrap from 0 is visible and stays within TLC's integers. Chunks are kept below `U32`.
- Block numbers enter only as `n % SpendPeriod`, so `now` is that residue.
- Genesis (block 0) is treated as a block of phase 0 after a spend.
- `ProposalCount` and `WaitingProposalCount` are incremented modulo `U32`, as the release build does.
- The refinement mapping is `Abstract == INSTANCE TreasuryAbstract WITH ...` in `Treasury.tla`:
  - `free` and `reserved` are the balances;
  - `claims` is `ClaimBag`, the proposals in `Proposals` and `WaitingProposals` with their indices and occurrence counters dropped, counted with multiplicity;
  - `granted` is `hookGranted`, so users may receive beyond the claims paid only exactly what the hook credited;
  - `BondOf` is `CalculateBond`.

  A promotion therefore maps to a stuttering step. So does an `on_initialize` outside a spend block.

## 3. Runs

All runs use these bounds:

- 2 users (symmetric) with 1 unit each; the pot account holds 3, with existential deposit 1, so the pot is 2.
- Values {1, 2}.
- A 50% bond with minimum 1, and a 60% burn.
- `SpendPeriod = 2` and `AllowedProposalPeriod = 1`, so odd blocks send proposals to the waiting set.
- `MaxApprovals = 2`, deposits into the pot of 1, `OnSlash` = the pallet.

The bounds are chosen so the interesting cases happen:

- Two proposals can exhaust the pot and be deferred.
- Both windows occur.
- The queue can fill, hold duplicates, and hold stale entries.
- Chunk 0, chunk counts below and above the value, and a wrapping `remaining_occurs` are all reachable.

| Run | cfg | Expect | Checks |
|---|---|---|---|
| treasury_safety | `MCTreasury.cfg` | pass (≈380k states, about 1 min) | `TypeOK` (including `Len(approvals) <= MaxApprovals`), `ValueConserved`, `SettleNeverFails`, `NoOrphanReserve`, `DeferredOnlyIfUnaffordable`. Chunks {0, 1, 2}, 2 proposals, and a hook that spends nothing but may report a miss. |
| promotion_holes | `MCTreasuryPromote.cfg` | pass (≈110k states, 30 s) | `SpendPromotesAllWaiting` with 3 submissions, `ProposalBondMinimum = 0` and value 1 (bond 0, so three waiting proposals fit the users' balances). Two waiting proposals are promoted, the counter is left at 1, and a third waits at index 1: the next spend's loop meets the empty index 0 with an entry behind it. With 2 submissions (treasury_safety) this never happens, and a loop that stops at the first hole passes there. |
| hook_budget | `MCTreasuryHook.cfg` | pass (≈25k states, 1.5 min) | `SettleNeverFails` with a tuple of two implementors, each spending 0 or 1 from what the other left; 1 proposal. |
| nonrecurring_underflow | `MCTreasuryNonRecurring.cfg` | violation | `NonRecurringRemovedWhenPaid`: a paid `occurs = 0` proposal stays in storage with `remaining_occurs = U32 - 1`. |
| recurring_bond | `MCTreasuryRecurringBond.cfg` | violation | `BondBacked`: after its first payment, a `chunks = 2` proposal is live with its bond unreserved. |
| waiting_count | `MCTreasuryWaitingCount.cfg` | violation | `WaitingCountMonotonic`: a spend with one waiting proposal writes the count back from 1 to 0. |
| abstract_refinement | `MCTreasuryRefine.cfg` | pass (≈75k states, 1 min) | `TreasuryRefinesAbstract` and `AffordableHeadPaid`. Chunks {1}, a hook that may grant 0 or 1, `OnSlashToPot = FALSE` (slashes leave issuance), no symmetry (liveness). |
| abstract_refinement_3 | `MCTreasuryRefine3.cfg` | pass (≈21k states, 11 s) | `TreasuryRefinesAbstract` with 3 proposals, `OnSlashToPot = TRUE` and user symmetry (safety only, so symmetry is sound). Equal proposals are duplicate claims in the bag, and a third approval can wait behind a full queue. |
| dust_award | `MCTreasuryDust.cfg` | violation | `DeferredOnlyIfUnaffordable`: an award of 1 to `u3` is dropped by the ledger but charged to the budget. A later approval of 2, which the pot of 2 covers, is then deferred. |
| count_wrap | `MCTreasuryCountWrap.cfg` | violation | `NoOrphanReserve`: with u32 scaled to 3, the fourth proposal is stored at index 0 over a live proposal, whose bond stays reserved. |

What the passing runs show:

- **Settlement never fails.** The "proof" comment at lines 555-558 holds for the pallet's own payouts and burn (treasury_safety). It also holds for any hook that honours the trait contract (hook_budget).
- **The promotion loop is correct.** spec.md section 9 worries that non-contiguous indices could be skipped or processed twice. promotion_holes reaches exactly that: after a spend the counter is `w - 1` while the map is empty, so a new waiting proposal lands above an empty index. The loop still promotes every waiting proposal exactly once, because it runs over `0..w` without stopping at an empty index and every index below the counter is drained, so rewriting the counter to `w - 1` never strands an entry. It does reuse indices (waiting_count).
- **The pallet implements its abstract promise for one-occurrence proposals.** Under the mapping, every step of the pallet is a `TreasuryAbstract` step (abstract_refinement, and abstract_refinement_3 with slashes paid into the pot). The abstract `Spend` gives each user a grant, so the hook tuple's several grants are one abstract step; the grant is pinned by the mapping to what the hook really credited, so it cannot hide a second payment. In particular, a spend:
  - pays a proposal at most once, even when it was approved twice;
  - returns exactly its bond;
  - takes payouts, grant and burn out of the pot without touching the existential deposit.

  The refinement fails for recurring proposals and for `occurs = 0`. That is the two findings above, seen from the abstract side.
- **The head of the queue is never starved.** If the pot covers the approval at the head of the queue, a later spend pays it (`AffordableHeadPaid`). An approval further back may wait forever, because earlier ones take the budget.
- **Bonds are never over-held, but can be under-held.** The pallet never holds more in reserve than its proposals' bonds (`NoOrphanReserve`). It can hold less (`BondBacked` fails), which is the recurring-bond finding.

Every property of a passing run has a mutant in `PROJECT.json`: a plausible bug in the mapped definition that TLC shows breaks it. The mutant operators sit just before the definitions they mutate. They are:

- an approve that does not check the `MaxApprovals` bound (`TypeOK`);
- an uncharged budget;
- a pot that counts the existential deposit as spendable;
- a reject that does not slash;
- a promotion loop that stops at the first empty waiting index;
- `<` for `<=`;
- a hook that does not deduct what it spends;
- a payment that does not hand the bond back (refinement);
- a payment that does not decrement `remaining_occurs`, so a duplicate approval pays the proposal again (refinement with three proposals);
- `<` for `<=` again, which starves an affordable head (liveness).

## 4. Fairness

`Spec` assumes `WF_now(BlockAdvance)`, where `BlockAdvance == now' = (now + 1) % SpendPeriod`. Blocks keep being produced: frame_system advances the block number, and the executive calls `on_initialize` for each one. Nothing else is fair, because extrinsics are user choices.

Only `OnInitialize` changes `now`, so a `BlockAdvance` step is an `OnInitialize` step. `OnInitialize` is enabled in every state:
- off a spend block it only advances `now`;
- on a spend block, nothing guards `SpendFunds`: a hook member that asks for more than the budget only reports a miss.

So this is the same as `WF_vars(OnInitialize)`. It is stated on the block number because TLC evaluates `ENABLED OnInitialize`, over the whole of `spend_funds`, about 50 times slower (3 min against 3 s on the refinement instance). `AffordableHeadPaid` needs exactly this fairness: without it, no spend would ever come.

## 5. Not modelled

- **Origin checks** (`ensure_signed`, `ApproveOrigin`, `RejectOrigin`): every call is assumed authorised, and a rejected origin changes nothing.
- **Weights, benchmarks and event payloads**: no property depends on them. The Rollover amount is checked through the pot after settlement.
- **Locks on reserve** in the ledger: the ledger is not in this repository, and the pallet sets no locks.
- **The treasury account as beneficiary**: beneficiaries are users.
- **Account reaping** when a withdrawal leaves a total below the existential deposit. In most runs the existential deposit is 1, so falling below it means reaching 0, and an account at 0 counts as not existing anyway. In dust_award, a rejected bond can leave a proposer with a total of 1, below the existential deposit of 2, and the model does not reap that account. The finding does not depend on this: it is about `u3`, which never holds anything.
- **A panicking debug build** (line 506 with overflow checks on): the model follows the release build, which wraps.

## 6. Plan

Done:
- sitting 1: LedgerAdapter, Treasury, MCTreasury and the first five runs;
- sitting 2: TreasuryAbstract and the refinement, the liveness of the queue head, the counter wrap, and `OnSlashToPot = FALSE`;
- sitting 3: fairness as `WF_now(BlockAdvance)`, and ledger dust in `deposit_creating` with the dust_award run;
- sitting 4: the hook as a tuple of implementors, per-user grants in `TreasuryAbstract`, and the refinement with three proposals;
- sitting 5: the grant pinned to the history variable `hookGranted`; promotion checked with three submissions (promotion_holes); `NoBurnWhileDeferring` dropped, since it restated the guard at line 544; `TypeOK`'s mutant is now a dropped queue bound.

Next, in order:

1. The Permill product and `CalculateBond` checked against a rational reference definition over bounded inputs (the rounding mode).
2. More runs: `AllowedProposalPeriod >= SpendPeriod`; the hook tuple inside the refinement (two members with three proposals exceeds the time budget, about 16 min).
