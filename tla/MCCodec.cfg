CONSTANTS
    Arg = Arg
    Param = Param
    CallVal = CallVal
    ReturnName = ReturnName
    NameOf <- MCNameOf
    PtrOf <- MCPtrOf
    FunNames <- MCFunNames
    EntryBlock = "entry"
    IntVals <- MCIntVals
    Addrs = {8, 16}
    HeapVals <- MCHeapVals
    Terminators = {"ret"}
    Invalid = Invalid
SPECIFICATION Spec
INVARIANT RoundTrip
\* The codec is two calls: the run ends once the document is decoded.
CHECK_DEADLOCK FALSE
