CONSTANTS
    u1 = u1
    u2 = u2
    pot = pot
    Users <- MCUsers
    TreasuryAccount = pot
    ExistentialDeposit = 1
    ProposalBond = 500000
    ProposalBondMinimum = 1
    Burn = 600000
    SpendPeriod = 2
    AllowedProposalPeriod = 1
    MaxApprovals = 2
    OnSlashToPot = FALSE
    U32 = 4
    Values = {1, 2}
    Chunks = {1}
    FundAmounts = {1}
    Handlers = 1
    HookAmounts = {0, 1}
    InitialFree <- MCInitialFree
    MaxProposals = 2
    LedgerDropsDust = TRUE

SPECIFICATION Spec
PROPERTY TreasuryRefinesAbstract
PROPERTY AffordableHeadPaid
