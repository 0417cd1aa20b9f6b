CONSTANTS
    Funcs <- MCFuncs
    Blocks <- MCBlocks
    NoBlock = NoBlock
    FunOf <- MCFunOf
    Entry <- MCEntry
    TermKind <- MCTermKind
    Succ <- MCSucc
    NumCalls <- MCNumCalls
    TopFun = "f"
    Budget = 2
    Width = 3
    MaxDepth = 4

SPECIFICATION Spec
INVARIANT TypeOK
INVARIANT EarlyExitPropagates
INVARIANT BudgetBoundsWork
PROPERTY TerminatesUnlessBudgetLost ImplementsBudgetedRun
CHECK_DEADLOCK FALSE
