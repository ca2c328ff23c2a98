\* The ledger, its twin, the rolling schedule and a rival over seven tax years.
SPECIFICATION LedgerSpec
CONSTANTS
    Openings <- SomeOpenings
    LcfYears <- SomeYears
    Incomes <- SomeIncomes
    Horizon = 6
INVARIANTS
    OldestFirstIsBest
    TwinAgrees
    SchedulesAgree
CHECK_DEADLOCK FALSE
