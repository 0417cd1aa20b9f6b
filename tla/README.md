# TLA+ models of the llreve concrete interpreter

This directory holds TLA+ models, TLC configurations and TLAPS proofs for the
dynamic interpreter of llreve:
`src/reve/dynamic/interpreter/lib/Interpreter.cpp`. The interpreter runs an LLVM
function for a bounded number of basic blocks and records a trace of call
records. An external equivalence checker consumes that trace.

## The system and its parts

| Part (spec.md name) | Code | Model | Status |
|---|---|---|---|
| Block/Call Interpreter | `interpretFunction`, `interpretBlock`, `interpretTerminator` (lines 105-194, 330-377) | `Interpreter.tla` (control, calls, budget), `Block.tla` (bindings) | partly |
| Heap Model | the `LoadInst`/`StoreInst` branches of `interpretInstruction` (248-303) | `Heap.tla` | modelled |
| Environment | `FastState::variables`, `resolveValue`, `interpretPHI`, `interpretInstruction` (196-328, 379-397) | `Block.tla` | partly |
| Typed Value Model | `VarInt`/`VarBool` (79-103) | tagged records in `Block.tla`, their CBOR form in `Codec.tla` | partly |
| Integer Engine | not under `src/` | `Wrap`, `Signed` in `Block.tla`, from the spec | partly |
| Trace Recorder & Codec | CBOR functions (40-103, 541-749), record building (120-182) | `Codec.tla`; the shape of the call tree in `Interpreter.tla` | partly (JSON not modelled) |
| Front-end (`Preprocess.cpp`), SMT declarations (`Invariant.h`, `Memory.h`), example `dis_2.c` | | none | not modelled: outside the execution engine |

How the parts interact:
- `interpretFunction` loops over blocks. It calls `interpretBlock` with the
  remaining budget `maxSteps - blocksVisited`. It adds the block's count and
  stops when the count passes `maxSteps`, when the block reports an early exit,
  or when there is no next block.
- `interpretBlock` resolves the PHIs and takes the snapshot `step`. It then runs
  the instructions.
  - A call instruction recurses into `interpretFunction` with the block's
    remaining budget and adds the callee's count.
  - Every other instruction goes through `interpretInstruction`, which reads
    and writes the bindings and the heap.
- The terminator picks the next block.
- Everything runs on one thread, and recursion is on the native stack.

## Modules

### `Interpreter.tla`: calls and the shared budget
The nested `interpretFunction`/`interpretBlock` activations are an explicit
stack of frames.

A frame records:
- the function and the current block;
- `maxSteps` and `blocksVisited` of `interpretFunction` (`maxSteps`, `visited`);
- `maxSteps` and `blocksVisited` of the running `interpretBlock` (`bmax`,
  `bvisited`);
- how many of the block's call instructions have returned;
- a phase: about to enter a block, inside its body, or returned early or
  complete.

Counters are `uint32_t`, modelled modulo `2^Width`.

The program is abstracted to its control flow graph:
- each block has a terminator kind, a set of successors and a number of call
  instructions;
- data decides which successor is taken, so the model picks one
  nondeterministically.

Actions:

| Action | Code |
|---|---|
| `EnterBlock` | `interpretBlock` entry: PHIs, snapshot, `blocksVisited = 1` |
| `InvokeCall` | the recursive `interpretFunction` call, lines 163-173 |
| `StackOverflow` | the same call with the native stack exhausted (`MaxDepth`) |
| `CallReturned` | lines 174, 180-182 |
| `CallTruncated` | lines 175-179, followed by the caller's lines 127-137 |
| `Terminate` | lines 189-193, then `interpretFunction`'s lines 127-138 through `EndBlock` |

`Callee` models `call->getFunction()` (line 164). That call returns the
function containing the call instruction, so the model does the same. The
spec calls "the called function" here. That makes every call a recursive call
of the caller. No property states this, because it would only restate the
one line.

History variables:
- `interpreted`: blocks entered, saturating;
- `budgetLost`: some frame got `maxSteps = UINT32_MAX`;
- `sawEarly`: some record ended early;
- `dropped`: a callee record was discarded.

### `BudgetedRun.tla`: what a whole run promises
This is an abstract specification of a top-level `interpretFunction`, with no
stack, frames or budget arithmetic. Its variables:
- `work`: blocks interpreted so far, saturating at Budget+2;
- `outcome`: running, complete, truncated or crashed;
- `early`: some record ended early;
- `lost`: some budget wrapped.

| Action | Meaning |
|---|---|
| `Visit` | one more block, allowed while `work <= Budget` or once a budget was lost |
| `LoseBudget` | a frame got `maxSteps = UINT32_MAX` |
| `Truncate` | an inner record ended early |
| `Complete` | the top record is returned, and only if nothing ended early |
| `EndTruncated` | the top record is returned with `earlyExit` |
| `Crash` | the native stack is exhausted |

Nothing happens once the outcome is not "running".

`Interpreter.tla` instantiates this specification as `AbstractRun`, with the
refinement mapping:
- `work <- interpreted`;
- `outcome <- RunOutcome`;
- `early <- sawEarly`;
- `lost <- budgetLost`.

`RunOutcome` is "crashed" after a stack overflow. It is "complete" or
"truncated" when only the top frame remains and it is done or ended early.
Otherwise it is "running".

The property `ImplementsBudgetedRun == AbstractRun!Spec` is checked by TLC in
the interp run and proved by TLAPS (see Proofs).

### `Codec.tla`: the CBOR trace codec
A CBOR item is a record tagged by `t`:
- `"str"` holds a sequence of strings. A name is one string. Decimal text is a
  sign followed by one string per digit.
- `"bool"` and `"uint"` hold a value.
- `"map"` holds its pairs in insertion order, as libcbor keeps them.
- `"array"` holds its items.

The encoders are modelled by what they produce:
- `VarValToCBOR`: an integer as decimal text through `DecimalText`, a boolean
  as a CBOR bool.
- `StateToCBOR`: the variables sorted by `Value*` address (`VarOrder`), the
  `return` key for `ReturnName`, then the heap map sorted by address.
- `CallToCBOR` and `BlockStepToCBOR` (`toCBOR`).

The decoders:
- `CborToMap`: later duplicate keys do not replace the first (`@@`), as with
  `std::map::insert`.
- `CborToState`: reads the variables and the heap entries by position (the
  first and second pairs), as line 716 does, whatever their keys.
- `CborToVarVal`, `ParseDecimal`: decimal text, with `Invalid` standing for a
  string that is no number.

Decimal text is in `Decimal.tla`, which `Codec.tla` extends:
- `DigitSeq` models `Integer::get_str`. The digits of `n \div 10` come first,
  then the last digit.
- `Magnitude` models how `mpz_class(s, 10)` accumulates digits from left to
  right (`10 * a + d`).
- `ParseDecimal` reads an optional sign and at least one digit.
- Both recursions are recursive functions, not RECURSIVE operators, so that
  `DecimalProofs.tla` can reason about them.
- `CborToCall` and `CborToBlockStep`, mutually recursive.
- `CborToStep`: a map with six entries is a call, and one with three is a block
  step.

The records fed to the encoder are built the way `interpretFunction` and
`interpretBlock` build them (lines 120-182):
- a callee of one block (`CalleeRun`);
- a caller whose block calls it and binds the result with `operator[]`
  (`Subscript`, `Inserted`), in `CallerRun`;
- a caller cut short by the callee's early exit (`TruncatedRun`).

A null `shared_ptr` reached by the encoder is `Crash`, a dead process.

There are two actions:
- `Encode`: one `toCBOR`;
- `Decode`: one `cborToStep`.

`RoundTrip` says that encoding does not crash, and that decoding gives back
the record with every `Value*` replaced by its name (`Renamed`).

### `Heap.tla`: load and store
The heap is a map from addresses (`dom`) to values (`heap`).
- **Bounded mode.** A cell is a byte. A load of width `w` zero-fills and reads
  `w/8` cells from `addr` upwards. It combines them with
  `(val << 8) | byte.sextOrSelf(w)` (`Combine`). A store of width `w > 8` runs
  `for (; bytes >= 0; --bytes)`. That loop writes the byte shifted right
  `bytes - k` times to `addr + k`, including `addr + 0`, through `StoredByte`
  and `StoreImage`. An 8-bit store writes one cell.
- **Unbounded mode.** A cell holds a whole value.

`Signed`, the arithmetic shift and the sign extension are the `llvm::APInt`
semantics on unsigned encodings.

### `Block.tla`: one function at the level of bindings
The model runs one function block by block, with bindings of tagged values.

Blocks are given by their PHIs (`Phis`), other instructions (`Body`) and
terminator (`Term`).

Actions:

| Action | What it models |
|---|---|
| `Phi` | `interpretPHI`, in order, on the live state |
| `Snapshot` | `FastState step(state)` |
| `Instr` | one `interpretInstruction` branch: add, or, an i1 operator other than or (`and1`: the default of `interpretBoolBinOp` logs and binds false), icmp eq/slt, bool-to-int cast, select, load (any value: the heap is in `Heap.tla`), store, inttoptr (bound under `NullKey`, as line 239 does), unsupported (logged only). Its guard is that every operand it reads is readable (`Operands`, `Readable`). Select reads its condition and then only the value it chooses. A load reads its pointer, and a store reads its pointer and its value. The bool-to-int cast reads its operand with `variables.at` (line 207), so a constant operand aborts there as an unbound one does. |
| `UnboundUse` | `variables.at` throwing for an unbound operand (the abort) |
| `Terminator` | `interpretTerminator` plus `interpretFunction`'s count and checks |

The switch scan, `ScanCases`, is checked against a reference definition,
`FirstCaseRef`, which takes the least matching index.

## Runs

`pass` runs must finish without error. `violation` runs check one statement of
the spec, and TLC finds it violated.

| Run | Module / cfg | Checks | Shows |
|---|---|---|---|
| interp | MCInterpreter.cfg | TypeOK, EarlyExitPropagates, BudgetBoundsWork, TerminatesUnlessBudgetLost, ImplementsBudgetedRun | early exit reaches the top record; the whole call tree interprets at most Budget+1 blocks unless some budget wrapped; the run ends unless some budget wrapped; the model implements `BudgetedRun` |
| interp_budget | MCInterpreter_RunWithinBudget.cfg | RunWithinBudget | violated: Budget+1 blocks run (line 133 checks after the increment) |
| interp_terminates | MCInterpreter_Terminates.cfg | Terminates | violated: `0 - 1` wraps to UINT32_MAX at line 173 and the callee loops without bound |
| interp_truncated | MCInterpreter_TruncatedCallRecorded.cfg | TruncatedCallRecorded | violated: the truncated callee record is never pushed (lines 175-179) |
| heap_bounded | MCHeap.cfg | TypeOK, ByteRoundTrip | cells stay bytes, loads give `w`-bit values, and byte stores round-trip amid overlapping 16-bit accesses |
| heap_round_trip | MCHeap_StoreLoadRoundTrip.cfg | StoreLoadRoundTrip | violated in bounded mode: an i16 store of 1 writes three cells (one beyond its width) and loads back 0 |
| block | MCBlock.cfg | TypeOK, SwitchFirstMatch | bindings stay `Width`-bit values, and a switch goes to the first matching case, else to the default |
| block_phis | MCBlock_PhisParallel.cfg | PhisParallel | violated: in a swap loop the second PHI sees the first PHI's new value |
| block_results | MCBlock_ResultsBound.cfg | ResultsBound | violated: the result of inttoptr stays unbound |
| block_unsupported | MCBlock_UnsupportedIsFatal.cfg | UnsupportedIsFatal | violated: an unsupported instruction is only logged |
| codec | MCCodec.cfg | RoundTrip | every callee, caller and truncated record the interpreter builds encodes, and decodes back to itself with names for values |
| codec_null | MCCodec_NullReturn.cfg | RoundTrip | violated: a callee ending on an unsupported terminator has no return binding; line 181 inserts a null into its record, and `stateToCBOR` dereferences it |

Every property of a passing run has a mutant in `PROJECT.json`. A mutant is a
plausible bug in a mapped definition, and TLC finds the property violated when
that definition is replaced by the mutant.

### Bounds and why they are enough
- **MCInterpreter.** Width 3 (so UINT32_MAX is 7), Budget 2 and MaxDepth 4.
  - The program has:
    - a switch in the entry block;
    - a loop without calls;
    - a block with two calls;
    - a callee that calls again.
  - With this program, all of these happen:
    - a call gets budget 0 and is cut after one block;
    - a call starts in a block with no budget left and gets a wrapped budget;
    - truncation happens at every depth;
    - the native stack runs out.
  - A budget of 2 is the smallest one at which a block is entered with budget
    exactly 0 after a complete block.
- **MCHeap.** Addresses 0 and 1, widths 8 and 16.
  - 16-bit accesses overlap each other and byte accesses.
  - The values include bytes of 128 or more (sign extension) and 16-bit values
    with both bytes nonzero.
- **MCCodec.** Three values and the return key, two heap addresses, and the
  integers -12 and 305.
  - The `Value*` addresses are chosen so that the address order differs from
    the name order, and the return key sorts first.
  - The integers are negative and multi-digit, so the decimal text has a sign
    and more than one digit.
  - The heap ranges over every subset of the addresses, so empty and non-empty
    heap maps occur.
  - TLC checks the round trip of decimal text only on these integers.
    `DecimalProofs.DecimalRoundTrip` proves it for every integer.
- **MCBlock.** Width 2 and a budget of 4 blocks.
  - The loaded value decides the loop exit, so runs both complete and end
    early.
  - The entry switch reaches every block. The argument 2 matches no case
    and takes the default. The case constants are distinct, because LLVM's
    verifier (`Preprocess.cpp:114`) rejects a switch with duplicate cases.

### Fairness
`Interpreter.tla` assumes `WF_vars(Next)`. The interpreter is a single thread
that keeps running until `interpretFunction` returns, and no step waits on
anything external. `Heap.tla` and `Block.tla` state only safety properties.

## Proofs (`InterpreterProofs.tla`, `RefinementProofs.tla`, `HeapProofs.tla`, `BlockProofs.tla`, `DecimalProofs.tla`, `NatLemmas.tla`)

### Calls and budget (`InterpreterProofs.tla`)

`THEOREM TypeCorrect == Spec => []TypeOK` is proved with TLAPS for every
program, width, budget and depth bound that satisfy the module's assumptions:
- `WidthAssumption`: `2^Width` is a natural number greater than 1;
- `BudgetAssumption`: the budget is a uint;
- `DepthAssumption`: `MaxDepth >= 1`;
- `CFGAssumption`: the program is a well-formed CFG.

`TypeOK` is inductive as it stands. The proof has one step per action, using
these lemmas:
- the uint operations stay in `0..2^Width-1` (`UintClosed`);
- `NewFrame` and `EndBlock` build frames (`NewFrameType`, `EndBlockType`);
- replacing the top frame, pushing a frame, and popping one while replacing the
  new top keep a sequence of frames of the expected length (`ReplaceTop`,
  `PushFrame`, `PopReplace`).

The depth bound in `TypeOK` comes from the guards of `InvokeCall` and
`StackOverflow`.

`THEOREM EarlyExitCorrect == Spec => []EarlyExitPropagates` holds under the
same assumptions. It rests on `THEOREM EarlyOnTopInvariant == Spec => []EarlyOnTop`.
- `EarlyExitPropagates` is not inductive on its own. A state where a callee
  ended early but the stack has not yet unwound satisfies it, and a later
  `CallReturned` could still complete.
- The strengthening is `EarlyOnTop`: once `sawEarly` holds, the running
  activation is one that ended early.
  - `CallReturned` requires a callee that is `done`, so it is never enabled
    in such a state.
  - `CallTruncated` ends its caller early, so `EarlyOnTop` holds again.
- With `TypeOK`, `EarlyOnTop` implies the property at depth 1.

`THEOREM BudgetCorrect == Spec => []BudgetBoundsWork` is the budget argument.
Its inductive invariant is `BudgetInv`, proved in
`THEOREM BudgetInvariant == Spec => []BudgetInv`: unless `budgetLost`, `Budgeted` holds.
`Budgeted` says:
- every caller frame (`CallerOK`) is inside a block with
  `bmax = maxSteps - visited` and `1 <= bvisited <= bmax`;
- each caller's callee was given exactly `bmax - bvisited`;
- the running frame is within its budget (`TopOK`), or one block over it once
  it stopped early;
- `interpreted = Budget - Top.maxSteps + Work(Top)`.

`Work` counts the running frame's blocks, including the open block. Those facts
telescope down the stack, so the bound follows:
`interpreted <= Budget + 1`.

The steps of the argument:
- `InvokeCall` with `bvisited = bmax + 1` wraps the callee budget to
  `UINT32_MAX` (`USubWrap`), and that is exactly `budgetLost`.
- Otherwise no subtraction wraps (`USubNoWrap`).
- No addition of counts wraps (`UAddNoWrap`, `CalleeCountFits`), since every
  maxSteps is below `UINT32_MAX`.
- Pushing, popping and replacing frames keep the relation between callers
  (`CallersPush`, `CallersPop`, `CallersReplaceTop`).

TLC checks `BudgetInv` at budgets 0 to 3 before any of this is proved.

### Refinement (`RefinementProofs.tla`)
`THEOREM Refinement == Spec => ImplementsBudgetedRun` proves that the
call/budget model implements `BudgetedRun` for every program, width, budget
and depth bound.
- Initial states map to `AbstractRun!Init`.
- Each step maps to a step of `BudgetedRun` or a stutter:
  - `EnterBlock` is `Visit`. Its bound `interpreted <= Budget` comes from
    `BudgetInv`, since an entered frame has `visited <= maxSteps`.
  - `InvokeCall` is `LoseBudget` when the callee budget wraps. Otherwise it
    is a stutter.
  - `StackOverflow` is `Crash`.
  - `CallReturned` is a stutter.
  - `CallTruncated` is `EndTruncated` at depth 2 and `Truncate` deeper down.
  - `Terminate` is `EndTruncated`, `Truncate`, or `Complete` at depth 1, or a
    stutter. `Complete` needs `~sawEarly`, which `EarlyOnTop` gives, since the
    top frame is in a body.
- `CallReturned` must not change the outcome. The proof needs two more facts
  from `THEOREM StackShape == Spec => []RInv`:
  - every frame below the top is inside a block body (`CallersBody`), so the
    resumed caller is running;
  - `crashed` only holds while the top frame is in a body (`CrashedInBody`),
    so no call returns after a crash.

  `RInv` is inductive given `TypeOK`. The lemmas `ReplaceTopBelow` and
  `PopBelow` say how replacing or popping the top leaves the frames below.
- The refinement reuses `TypeCorrect`, `BudgetInvariant` and
  `EarlyOnTopInvariant`.

### The heap (`HeapProofs.tla`)
The proofs hold for every address set, width set and set of stored values
allowed by `HeapAssumption`. They also use `WidthPowers`: `2^n` is positive
and `2^n = 256 * 2^(n-8)` for `n` up to a width. This is true of every width.
It is stated as an assumption only because the provers evaluate no power above
`2^32`. TLC checks both assumptions in the heap runs.

`THEOREM HeapTypeCorrect == Spec => []TypeOK`:
- The inductive part is `HeapOK`:
  - the written cells are heap cells;
  - the heap maps cells to integers;
  - in bounded mode every written cell is a byte.
- `LoadsOK` derives `TypeOK`'s load bound from `HeapOK`. A bounded load of
  width `w` reads `w/8` bytes through the accumulator `acc` of `LoadValue`, and
  every step of `Combine` stays in `0..2^w-1` (`CombineRange`).
- `acc` is a recursive function. The provers cannot instantiate the library's
  induction theorems (they take an operator parameter). A load reads at most 8
  bytes, so `AccExists` and `AccRange` walk the recursion explicitly, one
  extension (`Ext`) at a time, up to 8 steps.
- `StoreImageOK` shows that the loop of a bounded store writes bytes.

`THEOREM ByteRoundTripCorrect == Spec => []ByteRoundTrip`:
- A one-byte store writes only its cell (`StoreCells` is `{a}` when
  `w \div 8 = 1`).
- A one-byte load returns that cell (`ByteLoad`).
- So every `Store` re-establishes the round trip, and a `Load` changes
  nothing it reads.

The wider round trip, `StoreLoadRoundTrip`, is false in bounded mode (the
heap_round_trip run). No theorem is claimed for it.

### Blocks (`BlockProofs.tla`)
The proofs hold for every function allowed by `BlockAssumption` in
`Block.tla`, which states what LLVM's verifier and `interpretTerminator`'s
asserts guarantee:
- operands, results and PHI incoming values are references;
- constants and arguments are values of the width;
- a branch has one successor, a conditional branch two;
- switch cases and defaults are blocks.

`WidthPower` (`2^Width >= 2`) is stated for the same reason as `WidthPowers`.
TLC evaluates both assumptions in every MCBlock run.

`THEOREM SwitchFirstMatchCorrect == Spec => SwitchFirstMatch` rests on the
lemma `ScanIsFirst`: `ScanCases`, the recursive function that scans the cases
as the code's `for` loop does, equals the first-match reference `FirstCaseRef`
for every case list.
- `FirstFrom(k)` is the closed form of the scan from case `k`.
- It solves the scan's defining equation (`ScanSolution`, from `FirstStep` and
  `FirstEnd`).
- Every solution equals it (`ScanUnique`). If two solutions differed, take the
  greatest index where they differ. That index exists by the well-foundedness
  of `<` on `Nat` (`NatLemmas.LeastExists`, from the library's `WFMin`), and the two
  would then also differ at the next index.
- This avoids the operator-parameter induction theorems.

`THEOREM BlockTypeCorrect == Spec => []TypeOK` uses the strengthening `IInv`:
while the function runs, `block` is a block and `visited <= Budget`.
- `TypeOK` alone is not inductive. `Terminator` keeps `visited` within
  `Budget + 1` only because the budget check stops the run first, and the
  PHIs, instructions and terminator are looked up at `block`.
- TLC checked `IInv` on MCBlock before it was proved.
- There is one lemma per action (`PhiStep`, `SnapshotStep`, `InstrStep`,
  `UnboundUseStep`, `TerminatorStep`). They rest on `EvalType` (every
  supported instruction computes a value of the width) and `NextBlockType`
  (the successor is a block or none).

### Decimal text (`DecimalProofs.tla`, `NatLemmas.tla`)
`THEOREM DecimalRoundTrip == \A n \in Int : ParseDecimal(DecimalText(n)) = n`
holds for every integer, with no assumption.
- tlapm reads the recursive function `DigitSeq` as a `CHOOSE`.
  - `DigitSeqDef` shows that the choice satisfies its defining equation.
  - Solutions on `0..m` exist (`ApproxExists`).
  - Any two solutions agree (`ApproxAgree`).
  - Gluing them gives a solution on `Nat`.
- `Magnitude`'s local function `mag` is handled the same way (`MAExists`,
  `MAUnique`). This gives `MagAppend`: appending a digit `c` to a text `ds`
  gives `10 * Magnitude(ds) + DigitVal(c)`.
- `DigitsOfNat` says that `DigitSeq[n]` is a non-empty text of digits whose
  magnitude is `n`.
  - The proof takes the least `n` for which this fails (`LeastExists` in
    `NatLemmas.tla`, from the library's `WFMin`) and derives a contradiction
    from `n \div 10`.
  - This replaces the operator-parameter induction theorems, which the
    provers cannot instantiate.
- The round trip follows:
  - no digit is `"-"`, so a non-negative text is read unsigned;
  - a negative text is `"-"` followed by the digits of `-n`.
- This is the integer half of `Codec`'s `RoundTrip`. The rest of `RoundTrip`
  is over RECURSIVE operators and stays model-checked.

### What TLC checks and TLAPS does not
- Liveness (`TerminatesUnlessBudgetLost`) is left to TLC, because the prover
  does not handle fairness and ENABLED.
- The codec's property (`RoundTrip`) is over RECURSIVE
  operators on nested CBOR items (`CborToCall` and `CborToBlockStep` are
  mutually recursive). A module that reaches a RECURSIVE operator loses the
  SMT backend, so it is model-checked on the instances above.
  Only its decimal part is proved for every value (`DecimalRoundTrip`).
- The violation runs show counterexamples. There is nothing to prove for them.

## Not modelled, and why
- **The JSON rendering** (`toJSON`, `stateToJSON` and friends). It is output
  only and nothing reads it back.
- **`varValEq`** and `get_str` in bounded mode. Their values are not told apart
  by any modelled property.
- **A caller's state after a truncated call** (line 176). `Codec.tla` records
  it as the code does: the caller's own current state is its return state.
  Spec section 9 sanctions this, so no property claims otherwise.
- **Argument binding at calls and folding the callee's heap back** (lines
  165-171 and 180-181) in a multi-block setting. `Block.tla` has no calls and
  `Interpreter.tla` has no data. `Codec.tla` builds one-block call records
  with this binding, and that is enough to expose the null return value of
  line 181.
- **`ReturnName`** is defined outside `src/`. If it is the null key, the
  inttoptr write at line 239 also overwrites the return binding. The model
  keeps `NullKey` apart, so it shows only the missing binding.
- **The rest of the Integer Engine and the zext/sext/ptrtoint/gep casts.** They
  compute values that no modelled property tells apart. `Block.tla` has add,
  or, eq and slt as representatives of the operation tables.
  - The defaults of `interpretIntPredicate` and `interpretIntBinOp` cannot be
    reached: every integer predicate and integer opcode has a case.
  - The default of `interpretBoolBinOp` can be reached, and it is modelled
    (`and1`).
  - Outside the model: `trunc` and `bitcast` fall through with no binding
    and no log.
  - The bool-to-int branch (line 203) also takes `sext` from i1, so it gives
    1 where LLVM gives -1.
