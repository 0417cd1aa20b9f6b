CONSTANTS
    Blocks <- MCBlocks
    Entry = "b0"
    NoBlock = "none"
    Refs <- MCRefs
    ConstVal <- MCConstVal
    ReturnName = "return"
    NullKey = "nullptr"
    Phis <- MCPhis
    Body <- MCBody
    Term <- MCTerm
    Args <- MCArgs
    Width = 2
    Budget = 4
SPECIFICATION Spec
INVARIANT ResultsBound
CHECK_DEADLOCK FALSE
