----------------------------- MODULE Interpreter -----------------------------
(***************************************************************************)
(* The control of the block/call interpreter of                            *)
(* dynamic/interpreter/lib/Interpreter.cpp: interpretFunction (the loop    *)
(* over the blocks of one call, lines 116-141), interpretBlock (PHIs,      *)
(* snapshot, the calls of one block and its terminator, lines 143-194)     *)
(* and interpretTerminator (lines 330-377).                                *)
(*                                                                         *)
(* The C++ recursion is an explicit stack of frames: one frame per active  *)
(* interpretFunction, holding that call's locals (maxSteps, blocksVisited, *)
(* the current block) and the locals of the interpretBlock it is inside    *)
(* (its maxSteps and blocksVisited, and how many of the block's call       *)
(* instructions have run).  The step counters are uint32_t and keep their  *)
(* width: they are computed modulo 2^Width.                                *)
(*                                                                         *)
(* Data is abstracted: the values of variables and the heap only decide    *)
(* which successor a conditional branch or switch takes, so the successor  *)
(* is chosen nondeterministically among the terminator's successors.       *)
(***************************************************************************)
EXTENDS Integers, Sequences

CONSTANTS
    Funcs,      \* the functions of the module under interpretation
    Blocks,     \* their basic blocks
    NoBlock,    \* the nullptr returned as "next block" by a return
    FunOf,      \* [Blocks -> Funcs]: BasicBlock::getParent
    Entry,      \* [Funcs -> Blocks]: Function::getEntryBlock
    TermKind,   \* [Blocks -> {"ret", "br", "switch", "unsupported"}]
    Succ,       \* [Blocks -> SUBSET Blocks]: successors of a br or switch
    NumCalls,   \* [Blocks -> Nat]: number of call instructions in a block
    TopFun,     \* the function given to interpretFunction at top level
    Budget,     \* the maxSteps of the top-level interpretFunction
    Width,      \* the width of uint32_t (32 in the code)
    MaxDepth    \* bound: depth of the native stack of nested calls

\* 2^Width is a positive integer: TLC evaluates it, the provers do not know ^.
ASSUME WidthAssumption == Width \in Nat \ {0} /\ 2^Width \in Nat /\ 2^Width > 1
ASSUME BudgetAssumption == Budget \in 0..(2^Width - 1)
ASSUME DepthAssumption == MaxDepth \in Nat \ {0}
ASSUME CFGAssumption ==
    /\ NoBlock \notin Blocks
    /\ FunOf \in [Blocks -> Funcs]
    /\ Entry \in [Funcs -> Blocks]
    /\ \A f \in Funcs : FunOf[Entry[f]] = f
    /\ TermKind \in [Blocks -> {"ret", "br", "switch", "unsupported"}]
    /\ Succ \in [Blocks -> SUBSET Blocks]
    /\ \A b \in Blocks : TermKind[b] \in {"br", "switch"} =>
                           Succ[b] # {} /\ \A s \in Succ[b] : FunOf[s] = FunOf[b]
    /\ NumCalls \in [Blocks -> Nat]
    /\ TopFun \in Funcs

VARIABLES
    stack,        \* the frames of the active interpretFunction calls
    crashed,      \* the native stack overflowed
    interpreted,  \* history: blocks entered in the whole run (saturating)
    budgetLost,   \* history: a frame was started with maxSteps = UINT32_MAX
    sawEarly,     \* history: some call record was finished with earlyExit
    dropped       \* history: a finished callee record was not appended

vars == <<stack, crashed, interpreted, budgetLost, sawEarly, dropped>>

-----------------------------------------------------------------------------
(* uint32_t arithmetic *)

Modulus == 2^Width
Uint == 0..(Modulus - 1)
UintMax == Modulus - 1

\* blocksVisited += ... (lines 127, 174)
UAdd(a, b) == (a + b) % Modulus

\* Mutant: the budget subtraction done in signed arithmetic.
USubSigned(a, b) == a - b

\* maxSteps - blocksVisited (lines 126, 173)
USub(a, b) == (a - b) % Modulus

Phases == {"enter", "body", "early", "done"}

\* One interpretFunction activation.  phase "enter": about to call
\* interpretBlock on block; "body": inside interpretBlock, callsDone of the
\* block's call instructions have returned, bmax and bvisited are its
\* maxSteps and blocksVisited; "early"/"done": returned its FastCall with
\* earlyExit TRUE/FALSE, visited being the record's blocksVisited.
Frame == [fun: Funcs, block: Blocks, maxSteps: Uint, visited: Uint,
          phase: Phases, bmax: Uint, bvisited: Uint, callsDone: Nat]

\* interpretFunction entry (lines 116-123): start at the entry block with
\* blocksVisited = 0.
NewFrame(fn, max) ==
    [fun |-> fn, block |-> Entry[fn], maxSteps |-> max, visited |-> 0,
     phase |-> "enter", bmax |-> 0, bvisited |-> 0, callsDone |-> 0]

Top == stack[Len(stack)]

\* Saturating count: the history only needs to tell counts up to Budget + 2.
CountBlock(n) == IF n <= Budget + 1 THEN n + 1 ELSE n

-----------------------------------------------------------------------------
(* interpretFunction's handling of a BlockUpdate (lines 127-140): add the   *)
(* block's count, record the step, stop with earlyExit when the count      *)
(* passed maxSteps or the block stopped early, finish when there is no     *)
(* next block, and otherwise continue with the next block.                 *)

\* Mutant: line 133 without "|| update.earlyExit".
EndBlockIgnoringEarly(f, bv, early, next) ==
    LET fv == UAdd(f.visited, bv) IN
    IF fv > f.maxSteps THEN [f EXCEPT !.visited = fv, !.phase = "early"]
    ELSE IF next = NoBlock THEN [f EXCEPT !.visited = fv, !.phase = "done"]
    ELSE [f EXCEPT !.visited = fv, !.block = next, !.phase = "enter"]

\* Mutant: line 133 without "blocksVisited > maxSteps".
EndBlockNoBudgetCheck(f, bv, early, next) ==
    LET fv == UAdd(f.visited, bv) IN
    IF early THEN [f EXCEPT !.visited = fv, !.phase = "early"]
    ELSE IF next = NoBlock THEN [f EXCEPT !.visited = fv, !.phase = "done"]
    ELSE [f EXCEPT !.visited = fv, !.block = next, !.phase = "enter"]

EndBlock(f, bv, early, next) ==
    LET fv == UAdd(f.visited, bv) IN
    IF fv > f.maxSteps \/ early
      THEN [f EXCEPT !.visited = fv, !.phase = "early"]
    ELSE IF next = NoBlock
      THEN [f EXCEPT !.visited = fv, !.phase = "done"]
    ELSE [f EXCEPT !.visited = fv, !.block = next, !.phase = "enter"]

\* The successor interpretTerminator returns (lines 330-377): nullptr for a
\* return and for an unsupported terminator (logError, line 374), one of
\* the successors for a branch or a switch, picked by data.
NextBlocks(b) ==
    IF TermKind[b] \in {"ret", "unsupported"} THEN {NoBlock} ELSE Succ[b]

\* The function a call instruction interprets: call->getFunction() (line
\* 164), which is the function the call instruction is in.
Callee(b) == FunOf[b]

\* Mutant: the callee is given the block's whole maxSteps.
CalleeBudgetUndeducted(f) == f.bmax

\* Mutant: the block's own count left out of the callee's budget.
CalleeBudgetOffByOne(f) == USub(f.bmax, f.bvisited - 1)

\* The budget the callee is given: maxSteps - blocksVisited of the block.
CalleeBudget(f) == USub(f.bmax, f.bvisited)

-----------------------------------------------------------------------------
Init ==
    /\ stack = << NewFrame(TopFun, Budget) >>
    /\ crashed = FALSE
    /\ interpreted = 0
    /\ budgetLost = (Budget = UintMax)
    /\ sawEarly = FALSE
    /\ dropped = FALSE

\* interpretBlock entry (lines 125-126, 147-158): the block's budget is the
\* function's maxSteps - blocksVisited, its count starts at 1; the PHIs are
\* resolved and the snapshot is taken.
EnterBlock ==
    /\ ~crashed
    /\ Top.phase = "enter"
    /\ stack' = [stack EXCEPT ![Len(stack)] =
                   [Top EXCEPT !.phase = "body",
                               !.bmax = USub(Top.maxSteps, Top.visited),
                               !.bvisited = 1, !.callsDone = 0]]
    /\ interpreted' = CountBlock(interpreted)
    /\ UNCHANGED <<crashed, budgetLost, sawEarly, dropped>>

\* A call instruction (lines 163-173): interpretFunction is entered
\* recursively with the remaining budget of the block.
InvokeCall ==
    /\ ~crashed
    /\ Top.phase = "body"
    /\ Top.callsDone < NumCalls[Top.block]
    /\ Len(stack) < MaxDepth
    /\ stack' = Append(stack, NewFrame(Callee(Top.block), CalleeBudget(Top)))
    /\ budgetLost' = (budgetLost \/ CalleeBudget(Top) = UintMax)
    /\ UNCHANGED <<crashed, interpreted, sawEarly, dropped>>

\* The same call when the native stack is exhausted: the process dies.
StackOverflow ==
    /\ ~crashed
    /\ Top.phase = "body"
    /\ Top.callsDone < NumCalls[Top.block]
    /\ Len(stack) = MaxDepth
    /\ crashed' = TRUE
    /\ UNCHANGED <<stack, interpreted, budgetLost, sawEarly, dropped>>

\* Back in the caller's block (lines 174, 180-182): the callee's count is
\* added, the call record is appended and the block goes on.
CallReturned ==
    /\ Len(stack) > 1
    /\ LET c == Top
           f == stack[Len(stack) - 1]
           bv == UAdd(f.bvisited, c.visited)
       IN /\ c.phase \in {"early", "done"}
          /\ ~(bv > f.bmax \/ c.phase = "early")
          /\ stack' = [SubSeq(stack, 1, Len(stack) - 1) EXCEPT ![Len(stack) - 1] =
                         [f EXCEPT !.bvisited = bv, !.callsDone = @ + 1]]
    /\ UNCHANGED <<crashed, interpreted, budgetLost, sawEarly, dropped>>

\* Back in the caller's block when the budget is exceeded or the callee
\* stopped early (lines 174-179): interpretBlock returns at once with
\* earlyExit and no next block, without appending the callee's record,
\* and the caller's interpretFunction handles that update (lines 127-137).
CallTruncated ==
    /\ Len(stack) > 1
    /\ LET c == Top
           f == stack[Len(stack) - 1]
           bv == UAdd(f.bvisited, c.visited)
       IN /\ c.phase \in {"early", "done"}
          /\ bv > f.bmax \/ c.phase = "early"
          /\ stack' = [SubSeq(stack, 1, Len(stack) - 1) EXCEPT ![Len(stack) - 1] =
                         EndBlock(f, bv, TRUE, NoBlock)]
    /\ sawEarly' = TRUE
    /\ dropped' = TRUE
    /\ UNCHANGED <<crashed, interpreted, budgetLost>>

\* All calls of the block done: the terminator picks the next block
\* (lines 189-193, 330-377) and interpretFunction handles the update.
Terminate ==
    /\ ~crashed
    /\ Top.phase = "body"
    /\ Top.callsDone = NumCalls[Top.block]
    /\ \E next \in NextBlocks(Top.block) :
          stack' = [stack EXCEPT ![Len(stack)] =
                      EndBlock(Top, Top.bvisited, FALSE, next)]
    /\ sawEarly' = (sawEarly \/ stack'[Len(stack)].phase = "early")
    /\ UNCHANGED <<crashed, interpreted, budgetLost, dropped>>

Next ==
    \/ EnterBlock
    \/ InvokeCall
    \/ StackOverflow
    \/ CallReturned
    \/ CallTruncated
    \/ Terminate

\* The interpreter is one thread that runs until interpretFunction returns.
Spec == Init /\ [][Next]_vars /\ WF_vars(Next)

\* The top-level interpretFunction has returned, or the process died.
Finished == crashed \/ (Len(stack) = 1 /\ Top.phase \in {"early", "done"})

-----------------------------------------------------------------------------
(* Properties *)

TypeOK ==
    /\ stack \in Seq(Frame)
    /\ Len(stack) \in 1..MaxDepth
    /\ crashed \in BOOLEAN
    /\ interpreted \in 0..(Budget + 2)
    /\ budgetLost \in BOOLEAN
    /\ sawEarly \in BOOLEAN
    /\ dropped \in BOOLEAN

\* Cancellation reaches the top (spec section 5): once any call record in
\* the tree was finished with earlyExit, the top-level record returned by
\* interpretFunction is marked earlyExit too, never complete.
EarlyExitPropagates ==
    (Len(stack) = 1 /\ Top.phase = "done") => ~sawEarly

\* The shared step budget bounds the work (interpretFunction line 133,
\* interpretBlock line 175): unless some frame was started with maxSteps =
\* UINT32_MAX (passed in, or produced by maxSteps - blocksVisited wrapping
\* around), at most Budget + 1 blocks are interpreted in the whole tree.
BudgetBoundsWork ==
    ~budgetLost => interpreted <= Budget + 1

\* The interpretation terminates (or dies of stack exhaustion), unless
\* some frame lost its budget to a UINT32_MAX maxSteps.
TerminatesUnlessBudgetLost == <>(Finished \/ budgetLost)

\* The outcome of the top-level interpretFunction as BudgetedRun sees it.
RunOutcome ==
    CASE crashed                                 -> "crashed"
      [] Len(stack) = 1 /\ Top.phase = "done"    -> "complete"
      [] Len(stack) = 1 /\ Top.phase = "early"   -> "truncated"
      [] OTHER                                   -> "running"

AbstractRun == INSTANCE BudgetedRun
    WITH work <- interpreted, outcome <- RunOutcome,
         early <- sawEarly, lost <- budgetLost

\* The interpreter implements the run contract of BudgetedRun: every step of
\* interpretFunction/interpretBlock is one block, a lost budget, an early
\* record, the end of the top record, a crash, or invisible; the count stays
\* within Budget + 1 unless a budget was lost, a top record is complete
\* only when no record ended early, and nothing happens after the end.
ImplementsBudgetedRun == AbstractRun!Spec

(* Statements of the spec that the code does not keep. *)

\* Spec section 8: the blocks visited never exceed the budget B.
RunWithinBudget == interpreted <= Budget

\* Spec sections 4.4 and 5: the budget stops every interpretation.
Terminates == <>Finished

\* Spec section 7: truncation is signalled on the innermost and every
\* enclosing record, so every finished callee record is in the trace.
TruncatedCallRecorded == ~dropped

=============================================================================
