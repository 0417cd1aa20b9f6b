-------------------------------- MODULE Codec --------------------------------
(***************************************************************************)
(* The trace codec of the interpreter (Interpreter.cpp): the CBOR          *)
(* encoders FastCall::toCBOR, BlockStep::toCBOR, stateToCBOR and           *)
(* VarInt/VarBool::toCBOR, and the decoders cborToStep, cborToCall,        *)
(* cborToBlockStep, cborToState, cborToMap and cborToVarVal.               *)
(*                                                                         *)
(* A CBOR item is a record tagged by t: text ("str", a sequence of         *)
(* strings: a name is one string, decimal text a sign followed by one      *)
(* string per digit), "bool", "uint", "map" (the sequence of pairs in      *)
(* insertion order, as libcbor keeps them) and "array".                    *)
(*                                                                         *)
(* The records handed to the encoder are built the way interpretFunction   *)
(* and interpretBlock build them: a callee of one block, a caller whose    *)
(* block calls it and returns its result (lines 158-182), and a caller     *)
(* truncated by the callee's early exit (lines 174-177).  The model        *)
(* encodes one such record and decodes the document back.                  *)
(*                                                                         *)
(* Recursive operators: this module is for TLC only.                       *)
(***************************************************************************)
EXTENDS Integers, Sequences, SequencesExt, Decimal, TLC

CONSTANTS
    Arg,            \* the caller's argument (an llvm::Argument)
    Param,          \* the callee's parameter
    CallVal,        \* the call instruction, the key of its result
    ReturnName,     \* the null Value*, the key of the return value
    NameOf,         \* getName() of Arg, Param and CallVal
    PtrOf,          \* the address of each Value, which orders FastState maps
    FunNames,       \* [caller |-> ..., callee |-> ...]: function names
    EntryBlock,     \* the name of the entry block of both functions
    IntVals,        \* integers a variable may hold
    Addrs,          \* heap addresses
    HeapVals,       \* integers a heap cell may hold
    Terminators     \* how the callee's block ends: "ret" or "unsupported"

Values == {Arg, Param, CallVal}

ASSUME CodecAssumption ==
    /\ NameOf \in [Values -> STRING]
    \* UniqueNamePass gives every value a distinct name, never "return"
    /\ \A x, y \in Values : NameOf[x] = NameOf[y] => x = y
    /\ "return" \notin {NameOf[x] : x \in Values}
    /\ PtrOf \in [Values \cup {ReturnName} -> Nat]
    /\ PtrOf[ReturnName] = 0 /\ \A x \in Values : PtrOf[x] > 0
    /\ \A x, y \in Values : PtrOf[x] = PtrOf[y] => x = y
    /\ IntVals \cup Addrs \cup HeapVals \subseteq Int
    /\ Terminators \subseteq {"ret", "unsupported"} /\ "ret" \in Terminators

VARIABLES
    record,     \* the FastCall or BlockStep handed to the encoder
    wire,       \* the CBOR document, or NoItem before encoding
    decoded     \* the Step<string> read back, or NoStep before decoding

vars == <<record, wire, decoded>>

NoItem == [t |-> "none"]
NoStep == [kind |-> "none"]

(***************************************************************************)
(* Typed values.  A null shared_ptr<VarVal> is NullVal.                    *)
(***************************************************************************)
VarVals == [kind : {"int"}, val : IntVals] \cup [kind : {"bool"}, val : BOOLEAN]
NullVal == [kind |-> "null"]

\* Decimal text (Integer::get_str, mpz_class(s, 10)) is in Decimal.tla.

(***************************************************************************)
(* Encoding.                                                               *)
(***************************************************************************)
Text(s) == [t |-> "str", s |-> s]
Key(name) == Text(<<name>>)
Pair(k, v) == [key |-> k, value |-> v]
MapItem(ps) == [t |-> "map", pairs |-> ps]
ArrayItem(xs) == [t |-> "array", items |-> xs]

\* var.first == nullptr ? "return" : var.first->getName()
ValueName(v) == IF v = ReturnName THEN "return" ELSE NameOf[v]

\* VarBool::toCBOR builds a bool, VarInt::toCBOR the text of get_str().
\* A null value is dereferenced: the encoder crashes (Crash).
Crash == [t |-> "crash"]

VarValToCBOR(v) ==
    CASE v.kind = "bool" -> [t |-> "bool", b |-> v.val]
      [] v.kind = "int"  -> Text(DecimalText(v.val))
      [] OTHER           -> Crash

\* std::map iteration order: Value* by address, Integer keys ascending.
VarOrder(vs) == SetToSortSeq(DOMAIN vs, LAMBDA x, y : PtrOf[x] < PtrOf[y])
HeapOrder(h) == SetToSortSeq(DOMAIN h, LAMBDA x, y : x < y)

\* A stateToCBOR that adds the heap entry to the state map first.
StateToCBORHeapFirst(st) ==
    LET vs == VarOrder(st.variables)
        hs == HeapOrder(st.heap)
        vm == MapItem([i \in DOMAIN vs |->
                 Pair(Key(ValueName(vs[i])), VarValToCBOR(st.variables[vs[i]]))])
        hm == MapItem([i \in DOMAIN hs |->
                 Pair(Text(DecimalText(hs[i])), Text(DecimalText(st.heap[hs[i]])))])
    IN  MapItem(<<Pair(Key("heap"), hm), Pair(Key("variables"), vm)>>)

\* stateToCBOR: the variables map, then the heap map.
StateToCBOR(st) ==
    LET vs == VarOrder(st.variables)
        hs == HeapOrder(st.heap)
        vm == MapItem([i \in DOMAIN vs |->
                 Pair(Key(ValueName(vs[i])), VarValToCBOR(st.variables[vs[i]]))])
        hm == MapItem([i \in DOMAIN hs |->
                 Pair(Text(DecimalText(hs[i])), Text(DecimalText(st.heap[hs[i]])))])
    IN  MapItem(<<Pair(Key("variables"), vm), Pair(Key("heap"), hm)>>)

\* A document that contains Crash anywhere is not produced at all.
RECURSIVE HasCrash(_)
HasCrash(it) ==
    \/ it = Crash
    \/ it.t = "map" /\ \E i \in DOMAIN it.pairs : HasCrash(it.pairs[i].value)
    \/ it.t = "array" /\ \E i \in DOMAIN it.items : HasCrash(it.items[i])

IsCall(x) == "functionName" \in DOMAIN x

RECURSIVE CallToCBOR(_), BlockStepToCBOR(_)
\* FastCall::toCBOR: a map of 6 entries.
CallToCBOR(x) ==
    MapItem(<<Pair(Key("function_name"), Key(x.functionName)),
              Pair(Key("entry_state"), StateToCBOR(x.entryState)),
              Pair(Key("return_state"), StateToCBOR(x.returnState)),
              Pair(Key("steps"),
                   ArrayItem([i \in DOMAIN x.steps |-> BlockStepToCBOR(x.steps[i])])),
              Pair(Key("early_exit"), [t |-> "bool", b |-> x.earlyExit]),
              Pair(Key("blocks_visited"), [t |-> "uint", n |-> x.blocksVisited])>>)

\* BlockStep::toCBOR: a map of 3 entries.
BlockStepToCBOR(x) ==
    MapItem(<<Pair(Key("block_name"), Key(x.blockName)),
              Pair(Key("state"), StateToCBOR(x.state)),
              Pair(Key("calls"),
                   ArrayItem([i \in DOMAIN x.calls |-> CallToCBOR(x.calls[i])]))>>)

\* The virtual Step::toCBOR.
StepToCBOR(x) == IF IsCall(x) THEN CallToCBOR(x) ELSE BlockStepToCBOR(x)

(***************************************************************************)
(* Decoding.                                                               *)
(***************************************************************************)
\* cborToString asserts a definite string; a build without assertions reads
\* the bytes of whatever item it is given, text that is no number or name.
Garbage == <<"?">>
CborToString(it) == IF it.t = "str" THEN it.s ELSE Garbage

\* cborToMap: map.insert of each pair in order, so the first of two equal
\* keys wins (f @@ g keeps f's value on a shared key).
\* Its argument is the sequence of decoded <<key, value>> pairs.
CborToMap(kvs) ==
    FoldLeft(LAMBDA m, kv : m @@ (kv[1] :> kv[2]), [x \in {} |-> NullVal], kvs)

CborToKeyMap(it) ==
    CborToMap([i \in DOMAIN it.pairs |-> <<CborToString(it.pairs[i].key),
                                           it.pairs[i].value>>])
Field(it, name) == CborToKeyMap(it)[<<name>>]

CborToVarIntVal(it) == ParseDecimal(CborToString(it))

\* cborToVarVal: a bool, or a definite string read as an integer; any
\* other item gives nullptr.
CborToVarVal(it) ==
    CASE it.t = "bool" -> [kind |-> "bool", val |-> it.b]
      [] it.t = "str"  -> [kind |-> "int", val |-> CborToVarIntVal(it)]
      [] OTHER         -> NullVal

\* cborToState reads map[0] as the variables and map[1] as the heap,
\* whatever their keys.
CborToState(it) ==
    LET vs == it.pairs[1].value.pairs
        hs == it.pairs[2].value.pairs
    IN  [variables |-> CborToMap([i \in DOMAIN vs |->
                          <<CborToString(vs[i].key), CborToVarVal(vs[i].value)>>]),
         heap      |-> CborToMap([i \in DOMAIN hs |->
                          <<CborToVarIntVal(hs[i].key), CborToVarIntVal(hs[i].value)>>])]

RECURSIVE CborToCall(_), CborToBlockStep(_)
CborToCall(it) ==
    [functionName |-> CborToString(Field(it, "function_name")),
     entryState   |-> CborToState(Field(it, "entry_state")),
     returnState  |-> CborToState(Field(it, "return_state")),
     steps        |-> LET xs == Field(it, "steps").items
                      IN  [i \in DOMAIN xs |-> CborToBlockStep(xs[i])],
     earlyExit    |-> Field(it, "early_exit").b,
     blocksVisited |-> Field(it, "blocks_visited").n]

CborToBlockStep(it) ==
    [blockName |-> CborToString(Field(it, "block_name")),
     state     |-> CborToState(Field(it, "state")),
     calls     |-> LET xs == Field(it, "calls").items
                   IN  [i \in DOMAIN xs |-> CborToCall(xs[i])]]

\* cborToStep picks the record by the number of entries of the map.
CborToStep(it) ==
    CASE Len(it.pairs) = 6 -> CborToCall(it)
      [] Len(it.pairs) = 3 -> CborToBlockStep(it)
      [] OTHER             -> NoStep

(***************************************************************************)
(* The records the recorder builds.  A FastState is a record of variables *)
(* (Value -> typed value) and heap (address -> integer).                   *)
(***************************************************************************)
Heaps == UNION {[A -> HeapVals] : A \in SUBSET Addrs}

\* operator[] of std::map: the value under k, a null one when k is absent
\* (which it then inserts).
Subscript(m, k) == IF k \in DOMAIN m THEN m[k] ELSE NullVal
Inserted(m, k) == m @@ (k :> NullVal)

\* The callee's one block, entered with the caller's heap; it stores into
\* the heap (h keeps every address, a std::map never loses one) and ends
\* with ret of v or with an unsupported terminator (logError, no binding).
CalleeRun(entry, term, v, h) ==
    [functionName  |-> FunNames.callee,
     entryState    |-> entry,
     returnState   |-> [variables |-> IF term = "ret"
                                      THEN (ReturnName :> v) @@ entry.variables
                                      ELSE entry.variables,
                        heap      |-> h],
     steps         |-> <<[blockName |-> EntryBlock, state |-> entry, calls |-> <<>>]>>,
     earlyExit     |-> FALSE,
     blocksVisited |-> 1]

\* The caller's block "%c = call callee(%a); ret %c" (lines 158-182, 327):
\* the heap and the result come from the callee's return state, the result
\* read with operator[], and the callee's record is pushed after that read.
CallerRun(entry, c) ==
    LET res == Subscript(c.returnState.variables, ReturnName)
        rec == [c EXCEPT !.returnState.variables = Inserted(@, ReturnName)]
    IN  [functionName  |-> FunNames.caller,
         entryState    |-> entry,
         returnState   |-> [variables |-> (ReturnName :> res) @@ (CallVal :> res)
                                              @@ entry.variables,
                            heap      |-> c.returnState.heap],
         steps         |-> <<[blockName |-> EntryBlock, state |-> entry,
                              calls |-> <<rec>>]>>,
         earlyExit     |-> FALSE,
         blocksVisited |-> 1 + c.blocksVisited]

\* With a budget of 1 the callee ends early: the caller returns before the
\* heap and the result are copied and before the record is pushed
\* (lines 174-177), and reports its own state as it was (lines 133-136).
TruncatedRun(entry) ==
    [functionName  |-> FunNames.caller,
     entryState    |-> entry,
     returnState   |-> entry,
     steps         |-> <<[blockName |-> EntryBlock, state |-> entry, calls |-> <<>>]>>,
     earlyExit     |-> TRUE,
     blocksVisited |-> 2]

CallerEntries == [variables : {Arg :> v : v \in VarVals}, heap : Heaps]

CalleeEntry(e) == [variables |-> Param :> e.variables[Arg], heap |-> e.heap]

CalleeRuns(e) ==
    {CalleeRun(CalleeEntry(e), t, v, h) :
        t \in Terminators, v \in VarVals,
        h \in {g \in Heaps : DOMAIN e.heap \subseteq DOMAIN g}}

CallerRuns == UNION {{CallerRun(e, c) : c \in CalleeRuns(e)} : e \in CallerEntries}

\* Everything the encoder is given: calls of either function and the
\* caller's block step.
Inputs ==
    UNION {CalleeRuns(e) : e \in CallerEntries}
    \cup CallerRuns
    \cup {TruncatedRun(e) : e \in CallerEntries}
    \cup {r.steps[1] : r \in CallerRuns}

(***************************************************************************)
(* The codec as a state machine: encode the record, then decode it.        *)
(***************************************************************************)
Init ==
    /\ record \in Inputs
    /\ wire = NoItem
    /\ decoded = NoStep

\* toCBOR of the record; a null value on the way is dereferenced.
Encode ==
    /\ wire = NoItem
    /\ wire' = IF HasCrash(StepToCBOR(record)) THEN Crash ELSE StepToCBOR(record)
    /\ UNCHANGED <<record, decoded>>

Decode ==
    /\ wire \notin {NoItem, Crash}
    /\ decoded = NoStep
    /\ decoded' = CborToStep(wire)
    /\ UNCHANGED <<record, wire>>

Next == Encode \/ Decode

Spec == Init /\ [][Next]_vars

(***************************************************************************)
(* Properties.                                                             *)
(***************************************************************************)
\* The record with every Value replaced by its name, as Call<string> holds it.
RenameState(st) ==
    [variables |-> [k \in {<<ValueName(x)>> : x \in DOMAIN st.variables} |->
                      st.variables[CHOOSE x \in DOMAIN st.variables :
                                       <<ValueName(x)>> = k]],
     heap      |-> st.heap]

RECURSIVE Renamed(_)
Renamed(x) ==
    IF IsCall(x)
    THEN [functionName  |-> <<x.functionName>>,
          entryState    |-> RenameState(x.entryState),
          returnState   |-> RenameState(x.returnState),
          steps         |-> [i \in DOMAIN x.steps |-> Renamed(x.steps[i])],
          earlyExit     |-> x.earlyExit,
          blocksVisited |-> x.blocksVisited]
    ELSE [blockName |-> <<x.blockName>>,
          state     |-> RenameState(x.state),
          calls     |-> [i \in DOMAIN x.calls |-> Renamed(x.calls[i])]]

\* Spec section 8: encoding a record and decoding it back yields the same
\* record in every field, names for Values; the encoder never dereferences
\* a null value (stateToCBOR, var.second->toCBOR()), and cborToState, which
\* reads the state map by position (line 716), finds each map in its place.
RoundTrip ==
    /\ wire /= Crash
    /\ decoded /= NoStep => decoded = Renamed(record)

====
