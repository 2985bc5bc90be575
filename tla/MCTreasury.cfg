CONSTANTS
    u1 = u1
    u2 = u2
    pot = pot
    Users <- MCUsers
    TreasuryAccount = pot
    ExistentialDeposit = 1
    ProposalBond = 500000
    ProposalBondMinimum = 1
    Burn = 600000
    SpendPeriod = 2
    AllowedProposalPeriod = 1
    MaxApprovals = 2
    OnSlashToPot = TRUE
    U32 = 4
    Values = {1, 2}
    Chunks <- MCChunksAll
    FundAmounts = {1}
    Handlers = 1
    HookAmounts = {0}
    InitialFree <- MCInitialFree
    MaxProposals = 2
    LedgerDropsDust = TRUE

SPECIFICATION Spec
SYMMETRY Symmetry
INVARIANT TypeOK
INVARIANT ValueConserved
INVARIANT SettleNeverFails
INVARIANT NoOrphanReserve
PROPERTY DeferredOnlyIfUnaffordable
