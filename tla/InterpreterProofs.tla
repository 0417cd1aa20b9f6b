-------------------------- MODULE InterpreterProofs --------------------------
(***************************************************************************)
(* Proofs about the Interpreter model, for every value of its constants.   *)
(***************************************************************************)
EXTENDS Interpreter, SequenceTheorems, TLAPS

\* The facts about the constants the type proofs use.
LEMMA ConstantTypes ==
    /\ Modulus \in Nat /\ Modulus > 1
    /\ 0 \in Uint /\ 1 \in Uint /\ Budget \in Uint /\ Budget \in Nat
    /\ NoBlock \notin Blocks
    /\ FunOf \in [Blocks -> Funcs]
    /\ Entry \in [Funcs -> Blocks]
    /\ Succ \in [Blocks -> SUBSET Blocks]
    /\ TopFun \in Funcs
  <1>1. Modulus \in Nat /\ Modulus > 1
    BY WidthAssumption DEF Modulus
  <1>2. 0 \in Uint /\ 1 \in Uint /\ Budget \in Uint /\ Budget \in Nat
    BY <1>1, BudgetAssumption DEF Uint, Modulus
  <1>3. QED
    BY <1>1, <1>2, CFGAssumption

\* uint32_t addition and subtraction stay in range.
LEMMA UintClosed ==
    ASSUME NEW a \in Uint, NEW b \in Uint
    PROVE  UAdd(a, b) \in Uint /\ USub(a, b) \in Uint
  BY ConstantTypes DEF UAdd, USub, Uint

\* A fresh interpretFunction frame is a frame.
LEMMA NewFrameType ==
    ASSUME NEW fn \in Funcs, NEW m \in Uint
    PROVE  NewFrame(fn, m) \in Frame
  BY ConstantTypes DEF NewFrame, Frame, Phases

\* The frame after interpretFunction handled a BlockUpdate is a frame.
LEMMA EndBlockType ==
    ASSUME NEW f \in Frame, NEW bv \in Uint, NEW early \in BOOLEAN,
           NEW next \in Blocks \cup {NoBlock}
    PROVE  EndBlock(f, bv, early, next) \in Frame
  <1>1. UAdd(f.visited, bv) \in Uint
    BY UintClosed DEF Frame
  <1>2. QED
    BY <1>1 DEF EndBlock, Frame, Phases

\* The successors a terminator can pick are blocks or nullptr.
LEMMA NextBlocksType ==
    ASSUME NEW b \in Blocks
    PROVE  NextBlocks(b) \subseteq Blocks \cup {NoBlock}
  BY ConstantTypes DEF NextBlocks

\* Replacing the top frame keeps a stack of frames and its depth.
LEMMA ReplaceTop ==
    ASSUME NEW s \in Seq(Frame), Len(s) > 0, NEW x \in Frame
    PROVE  [s EXCEPT ![Len(s)] = x] \in Seq(Frame)
           /\ Len([s EXCEPT ![Len(s)] = x]) = Len(s)
  OBVIOUS

\* Pushing a frame keeps a stack of frames one deeper.
LEMMA PushFrame ==
    ASSUME NEW s \in Seq(Frame), NEW x \in Frame
    PROVE  Append(s, x) \in Seq(Frame) /\ Len(Append(s, x)) = Len(s) + 1
  OBVIOUS

\* Popping the top frame and replacing the caller's keeps a stack of frames.
LEMMA PopReplace ==
    ASSUME NEW s \in Seq(Frame), Len(s) > 1, NEW x \in Frame
    PROVE  LET t == [SubSeq(s, 1, Len(s) - 1) EXCEPT ![Len(s) - 1] = x]
           IN  t \in Seq(Frame) /\ Len(t) = Len(s) - 1
  <1>1. SubSeq(s, 1, Len(s) - 1) \in Seq(Frame)
        /\ Len(SubSeq(s, 1, Len(s) - 1)) = Len(s) - 1
    BY SubSeqProperties, LenProperties
  <1>2. QED
    BY <1>1

\* Type correctness of the interpreter.
THEOREM TypeCorrect == Spec => []TypeOK
  <1>1. Init => TypeOK
    <2> SUFFICES ASSUME Init PROVE TypeOK
      OBVIOUS
    <2>1. NewFrame(TopFun, Budget) \in Frame
      BY ConstantTypes, NewFrameType
    <2>2. 1 \in 1..MaxDepth /\ 0 \in 0..(Budget + 2)
      BY ConstantTypes, DepthAssumption
    <2>3. stack \in Seq(Frame) /\ Len(stack) = 1
      BY <2>1 DEF Init
    <2>4. /\ crashed \in BOOLEAN /\ budgetLost \in BOOLEAN
          /\ sawEarly \in BOOLEAN /\ dropped \in BOOLEAN /\ interpreted = 0
      BY Zenon DEF Init
    <2>5. QED
      BY <2>2, <2>3, <2>4 DEF TypeOK
  <1>2. TypeOK /\ [Next]_vars => TypeOK'
    <2> SUFFICES ASSUME TypeOK, [Next]_vars PROVE TypeOK'
      OBVIOUS
    <2>. DEFINE n == Len(stack)
    <2>1. n \in 1..MaxDepth /\ Top \in Frame
      BY DEF TypeOK, Top
    <2>2. CASE EnterBlock
      <3>. DEFINE g == [Top EXCEPT !.phase = "body",
                                   !.bmax = USub(Top.maxSteps, Top.visited),
                                   !.bvisited = 1, !.callsDone = 0]
      <3>1. USub(Top.maxSteps, Top.visited) \in Uint
        BY <2>1, UintClosed DEF Frame
      <3>2. g \in Frame
        BY <2>1, <3>1, ConstantTypes DEF Frame, Phases
      <3>3. stack' = [stack EXCEPT ![n] = g]
        BY <2>2 DEF EnterBlock
      <3>4. CountBlock(interpreted) \in 0..(Budget + 2)
        BY ConstantTypes DEF TypeOK, CountBlock
      <3>5. QED
        BY <2>2, <2>1, <3>2, <3>3, <3>4 DEF EnterBlock, TypeOK
    <2>3. CASE InvokeCall
      <3>1. CalleeBudget(Top) \in Uint
        BY <2>1, UintClosed DEF Frame, CalleeBudget
      <3>2. Callee(Top.block) \in Funcs
        BY <2>1, ConstantTypes DEF Frame, Callee
      <3>3. NewFrame(Callee(Top.block), CalleeBudget(Top)) \in Frame
        BY <3>1, <3>2, NewFrameType
      <3>4. n < MaxDepth
        BY <2>3 DEF InvokeCall
      <3>5. stack' = Append(stack, NewFrame(Callee(Top.block), CalleeBudget(Top)))
        BY <2>3 DEF InvokeCall
      <3>6. stack' \in Seq(Frame) /\ Len(stack') \in 1..MaxDepth
        <4>1. stack \in Seq(Frame)
          BY DEF TypeOK
        <4>2. LET x == NewFrame(Callee(Top.block), CalleeBudget(Top))
              IN  Append(stack, x) \in Seq(Frame) /\ Len(Append(stack, x)) = n + 1
          BY <3>3, <4>1, PushFrame
        <4>3. QED
          BY <2>1, <3>4, <3>5, <4>2, DepthAssumption
      <3>7. budgetLost' \in BOOLEAN
        BY <2>3, Zenon DEF InvokeCall
      <3>8. QED
        BY <2>3, <3>6, <3>7 DEF InvokeCall, TypeOK
    <2>4. CASE StackOverflow
      BY <2>4 DEF StackOverflow, TypeOK
    <2>5. CASE CallReturned
      <3>. DEFINE f == stack[n - 1]
                  bv == UAdd(f.bvisited, Top.visited)
                  g == [f EXCEPT !.bvisited = bv, !.callsDone = @ + 1]
      <3>1. n > 1 /\ f \in Frame
        BY <2>5 DEF CallReturned, TypeOK
      <3>2. bv \in Uint
        BY <2>1, <3>1, UintClosed DEF Frame
      <3>3. g \in Frame
        <4>1. f.callsDone + 1 \in Nat
          BY <3>1 DEF Frame
        <4>2. [f EXCEPT !.bvisited = bv] \in Frame
          BY <3>1, <3>2 DEF Frame
        <4>3. \A h \in Frame, k \in Nat : [h EXCEPT !.callsDone = k] \in Frame
          BY DEF Frame
        <4>4. QED
          BY <4>1, <4>2, <4>3
      <3>4. stack' = [SubSeq(stack, 1, n - 1) EXCEPT ![n - 1] = g]
        BY <2>5 DEF CallReturned
      <3>5. stack' \in Seq(Frame) /\ Len(stack') \in 1..MaxDepth
        <4>1. stack \in Seq(Frame)
          BY DEF TypeOK
        <4>2. LET t == [SubSeq(stack, 1, n - 1) EXCEPT ![n - 1] = g]
              IN  t \in Seq(Frame) /\ Len(t) = n - 1
          BY <3>1, <3>3, <4>1, PopReplace
        <4>3. QED
          BY <2>1, <3>1, <3>4, <4>2, DepthAssumption
      <3>6. QED
        BY <2>5, <3>5 DEF CallReturned, TypeOK
    <2>6. CASE CallTruncated
      <3>. DEFINE f == stack[n - 1]
                  bv == UAdd(f.bvisited, Top.visited)
                  g == EndBlock(f, bv, TRUE, NoBlock)
      <3>1. n > 1 /\ f \in Frame
        BY <2>6 DEF CallTruncated, TypeOK
      <3>2. bv \in Uint
        BY <2>1, <3>1, UintClosed DEF Frame
      <3>3. g \in Frame
        BY <3>1, <3>2, EndBlockType
      <3>4. stack' = [SubSeq(stack, 1, n - 1) EXCEPT ![n - 1] = g]
        BY <2>6 DEF CallTruncated
      <3>. HIDE DEF g
      <3>5. stack' \in Seq(Frame) /\ Len(stack') \in 1..MaxDepth
        <4>1. stack \in Seq(Frame)
          BY DEF TypeOK
        <4>2. LET t == [SubSeq(stack, 1, n - 1) EXCEPT ![n - 1] = g]
              IN  t \in Seq(Frame) /\ Len(t) = n - 1
          BY <3>1, <3>3, <4>1, PopReplace
        <4>3. QED
          BY <2>1, <3>1, <3>4, <4>2, DepthAssumption
      <3>6. QED
        BY <2>6, <3>5 DEF CallTruncated, TypeOK
    <2>7. CASE Terminate
      <3>1. PICK next \in NextBlocks(Top.block) :
                stack' = [stack EXCEPT ![n] = EndBlock(Top, Top.bvisited, FALSE, next)]
        BY <2>7 DEF Terminate
      <3>. DEFINE g == EndBlock(Top, Top.bvisited, FALSE, next)
      <3>2. next \in Blocks \cup {NoBlock}
        BY <2>1, NextBlocksType DEF Frame
      <3>3. g \in Frame
        BY <2>1, <3>2, EndBlockType DEF Frame
      <3>. HIDE DEF g
      <3>4. stack' \in Seq(Frame) /\ Len(stack') \in 1..MaxDepth
        <4>1. stack \in Seq(Frame)
          BY DEF TypeOK
        <4>2. [stack EXCEPT ![n] = g] \in Seq(Frame)
              /\ Len([stack EXCEPT ![n] = g]) = n
          BY <2>1, <3>3, <4>1, ReplaceTop
        <4>3. stack' = [stack EXCEPT ![n] = g]
          BY <3>1 DEF g
        <4>4. QED
          BY <2>1, <4>2, <4>3, DepthAssumption
      <3>5. sawEarly' \in BOOLEAN
        BY <2>7, Zenon DEF Terminate
      <3>6. QED
        BY <2>7, <3>4, <3>5 DEF Terminate, TypeOK
    <2>8. CASE UNCHANGED vars
      BY <2>8 DEF vars, TypeOK
    <2>9. QED
      BY <2>2, <2>3, <2>4, <2>5, <2>6, <2>7, <2>8 DEF Next
  <1>3. QED
    BY <1>1, <1>2, PTL DEF Spec

-----------------------------------------------------------------------------
(***************************************************************************)
(* Early exit.                                                             *)
(***************************************************************************)

\* A block that interpretFunction handles with earlyExit set ends its
\* function early (line 133), whatever the count and the next block.
LEMMA EndBlockEarly ==
    ASSUME NEW f \in Frame, NEW bv \in Uint, NEW next
    PROVE  EndBlock(f, bv, TRUE, next).phase = "early"
  BY DEF EndBlock

\* The replaced top frame is the new top.
LEMMA ReplaceTopElem ==
    ASSUME NEW s \in Seq(Frame), Len(s) > 0, NEW x \in Frame
    PROVE  [s EXCEPT ![Len(s)] = x][Len(s)] = x
  OBVIOUS

\* After a pop, the replaced caller frame is the new top.
LEMMA PopReplaceElem ==
    ASSUME NEW s \in Seq(Frame), Len(s) > 1, NEW x \in Frame
    PROVE  [SubSeq(s, 1, Len(s) - 1) EXCEPT ![Len(s) - 1] = x][Len(s) - 1] = x
  <1>1. Len(SubSeq(s, 1, Len(s) - 1)) = Len(s) - 1
    BY SubSeqProperties, LenProperties
  <1>2. Len(s) - 1 \in DOMAIN SubSeq(s, 1, Len(s) - 1)
    BY <1>1, LenProperties
  <1>3. QED
    BY <1>2

\* The strengthening of EarlyExitPropagates: once some call record ended
\* early, the running activation is one that has ended early, so the
\* stack unwinds through CallTruncated and no frame can complete.
EarlyOnTop == sawEarly => Top.phase = "early"

\* EarlyOnTop is an invariant: after a record ended early, the running
\* activation has ended early too (lines 133, 175).
THEOREM EarlyOnTopInvariant == Spec => []EarlyOnTop
  <1>1. Init => EarlyOnTop
    BY Zenon DEF Init, EarlyOnTop
  <1>2. TypeOK /\ TypeOK' /\ EarlyOnTop /\ [Next]_vars => EarlyOnTop'
    <2> SUFFICES ASSUME TypeOK, TypeOK', EarlyOnTop, [Next]_vars
                 PROVE  EarlyOnTop'
      OBVIOUS
    <2>. DEFINE n == Len(stack)
    <2>1. stack \in Seq(Frame) /\ n \in 1..MaxDepth /\ Top \in Frame
      BY DEF TypeOK, Top
    <2>2. CASE EnterBlock
      <3>1. ~sawEarly
        BY <2>2 DEF EnterBlock, EarlyOnTop
      <3>2. sawEarly' = sawEarly
        BY <2>2 DEF EnterBlock
      <3>3. QED
        BY <3>1, <3>2 DEF EarlyOnTop
    <2>3. CASE InvokeCall
      <3>1. ~sawEarly
        BY <2>3 DEF InvokeCall, EarlyOnTop
      <3>2. sawEarly' = sawEarly
        BY <2>3 DEF InvokeCall
      <3>3. QED
        BY <3>1, <3>2 DEF EarlyOnTop
    <2>4. CASE StackOverflow
      BY <2>4 DEF StackOverflow, EarlyOnTop, Top
    <2>5. CASE CallReturned
      <3>1. Top.phase = "done"
        BY <2>5 DEF CallReturned
      <3>2. ~sawEarly
        BY <3>1 DEF EarlyOnTop
      <3>3. sawEarly' = sawEarly
        BY <2>5 DEF CallReturned
      <3>4. QED
        BY <3>2, <3>3 DEF EarlyOnTop
    <2>6. CASE CallTruncated
      <3>. DEFINE f == stack[n - 1]
                  bv == UAdd(f.bvisited, Top.visited)
                  g == EndBlock(f, bv, TRUE, NoBlock)
      <3>1. n > 1 /\ f \in Frame
        BY <2>6 DEF CallTruncated, TypeOK
      <3>2. bv \in Uint
        BY <2>1, <3>1, UintClosed DEF Frame
      <3>3. g \in Frame /\ g.phase = "early"
        BY <3>1, <3>2, EndBlockType, EndBlockEarly
      <3>. HIDE DEF g
      <3>4. stack' = [SubSeq(stack, 1, n - 1) EXCEPT ![n - 1] = g]
        BY <2>6 DEF CallTruncated, g
      <3>5. Len(stack') = n - 1 /\ stack'[n - 1] = g
        BY <2>1, <3>1, <3>3, <3>4, PopReplace, PopReplaceElem
      <3>6. QED
        BY <3>3, <3>5 DEF EarlyOnTop, Top
    <2>7. CASE Terminate
      <3>1. ~sawEarly
        BY <2>7 DEF Terminate, EarlyOnTop
      <3>2. sawEarly' = (stack'[n].phase = "early")
        BY <2>7, <3>1 DEF Terminate
      <3>3. PICK next \in NextBlocks(Top.block) :
                stack' = [stack EXCEPT ![n] = EndBlock(Top, Top.bvisited, FALSE, next)]
        BY <2>7 DEF Terminate
      <3>. DEFINE g == EndBlock(Top, Top.bvisited, FALSE, next)
      <3>4. g \in Frame
        BY <2>1, NextBlocksType, EndBlockType DEF Frame
      <3>. HIDE DEF g
      <3>5. Len(stack') = n
        BY <2>1, <3>3, <3>4, ReplaceTop DEF g
      <3>6. QED
        BY <3>2, <3>5 DEF EarlyOnTop, Top
    <2>8. CASE UNCHANGED vars
      BY <2>8 DEF vars, EarlyOnTop, Top
    <2>9. QED
      BY <2>2, <2>3, <2>4, <2>5, <2>6, <2>7, <2>8 DEF Next
  <1>3. QED
    BY <1>1, <1>2, TypeCorrect, PTL DEF Spec

\* Early exit reaches the top-level record: the record interpretFunction
\* returns is never complete once a record in the tree ended early.
THEOREM EarlyExitCorrect == Spec => []EarlyExitPropagates
  <1>1. TypeOK /\ EarlyOnTop => EarlyExitPropagates
    BY DEF EarlyOnTop, EarlyExitPropagates
  <1>2. QED
    BY <1>1, EarlyOnTopInvariant, TypeCorrect, PTL


\* Budget arithmetic: a value already in range is its own residue.
LEMMA ModSmall ==
    ASSUME NEW x \in 0..(Modulus - 1) PROVE x % Modulus = x
  BY WidthAssumption DEF Modulus
\* 0 - 1 wraps to UINT32_MAX.
LEMMA ModMinusOne == (-1) % Modulus = Modulus - 1
  BY WidthAssumption DEF Modulus
\* maxSteps - blocksVisited does not wrap while blocksVisited <= maxSteps.
LEMMA USubNoWrap ==
    ASSUME NEW a \in Uint, NEW b \in Uint, b <= a PROVE USub(a, b) = a - b
  BY ModSmall, WidthAssumption DEF USub, Uint, Modulus
\* ... and wraps to UINT32_MAX when blocksVisited = maxSteps + 1.
LEMMA USubWrap ==
    ASSUME NEW a \in Uint, NEW b \in Int, b = a + 1 PROVE USub(a, b) = UintMax
  <1>1. a - b = -1
    BY WidthAssumption DEF Uint, Modulus
  <1>2. USub(a, b) = (-1) % Modulus
    BY <1>1 DEF USub
  <1>3. QED
    BY <1>2, ModMinusOne DEF UintMax
\* blocksVisited += n does not wrap below UINT32_MAX.
LEMMA UAddNoWrap ==
    ASSUME NEW a \in Nat, NEW b \in Nat, a + b <= UintMax PROVE UAdd(a, b) = a + b
  BY ModSmall, WidthAssumption DEF UAdd, UintMax, Modulus

\* A callee's count added to its caller's block count, and to the caller's
\* function count, stays within UINT32_MAX (the no-overflow core of the
\* budget argument).
LEMMA CalleeCountFits ==
    ASSUME NEW fM \in Nat, NEW fv \in Nat, NEW fbm \in Int, NEW fb \in Nat,
           NEW cM \in Int, NEW cv \in Nat,
           fM < UintMax, fbm = fM - fv, fb <= fbm, cM = fbm - fb, cv <= cM + 1
    PROVE  /\ fb + cv <= UintMax
           /\ fv + fb + cv <= UintMax
  BY ConstantTypes DEF UintMax

\* The budget identity carries over from a callee to its caller.
LEMMA Telescope ==
    ASSUME NEW B \in Int, NEW fM \in Int, NEW fv \in Int, NEW fbm \in Int,
           NEW fb \in Int, NEW cM \in Int, NEW cv \in Int, NEW bv \in Int,
           NEW i \in Int,
           fbm = fM - fv, cM = fbm - fb, bv = fb + cv, i = B - cM + cv
    PROVE  i = B - fM + (fv + bv)
  OBVIOUS

(***************************************************************************)
(* The strengthening of BudgetBoundsWork.  Each caller is inside a block   *)
(* with blocksVisited <= maxSteps of the block, and its callee got exactly *)
(* the block's remaining budget; the running activation is within its own *)
(* budget (one block over it once it stopped early).  Then the blocks      *)
(* interpreted telescope: interpreted = Budget - Top.maxSteps + Work(Top), *)
(* at most Budget + 1.  A call started with bvisited = bmax + 1 would get  *)
(* the wrapped budget UINT32_MAX, which is what budgetLost records.        *)
(***************************************************************************)
TopOK(f) ==
    /\ f.maxSteps < UintMax
    /\ f.phase = "enter" => f.visited <= f.maxSteps
    /\ f.phase = "body" => /\ f.visited <= f.maxSteps
                           /\ f.bmax = f.maxSteps - f.visited
                           /\ 1 <= f.bvisited /\ f.bvisited <= f.bmax + 1
    /\ f.phase = "early" => f.visited <= f.maxSteps + 1
    /\ f.phase = "done" => f.visited <= f.maxSteps
Work(f) == f.visited + (IF f.phase = "body" THEN f.bvisited ELSE 0)
CallerOK(f, g) ==
    /\ f.maxSteps < UintMax
    /\ f.phase = "body" /\ f.visited <= f.maxSteps
    /\ f.bmax = f.maxSteps - f.visited
    /\ 1 <= f.bvisited /\ f.bvisited <= f.bmax
    /\ g.maxSteps = f.bmax - f.bvisited
Callers(s) == \A k \in 1..(Len(s) - 1) : CallerOK(s[k], s[k + 1])
Budgeted ==
    /\ Budget < UintMax
    /\ stack[1].maxSteps = Budget
    /\ Callers(stack)
    /\ TopOK(Top)
    /\ interpreted = Budget - Top.maxSteps + Work(Top)
BudgetInv == ~budgetLost => Budgeted

\* What interpretFunction's handling of an update does to the counters.
LEMMA EndBlockFacts ==
    ASSUME NEW f \in Frame, NEW bv \in Uint, NEW early \in BOOLEAN, NEW next,
           f.visited + bv <= UintMax
    PROVE  /\ EndBlock(f, bv, early, next).maxSteps = f.maxSteps
           /\ EndBlock(f, bv, early, next).visited = f.visited + bv
           /\ EndBlock(f, bv, early, next).phase # "body"
           /\ EndBlock(f, bv, early, next).phase \in {"enter", "done"}
                => EndBlock(f, bv, early, next).visited <= f.maxSteps
           /\ early => EndBlock(f, bv, early, next).phase = "early"
  <1>. DEFINE fv == UAdd(f.visited, bv)
  <1>1. fv = f.visited + bv
    BY UAddNoWrap, ConstantTypes DEF Frame, Uint
  <1>2. CASE fv > f.maxSteps \/ early
    <2>1. EndBlock(f, bv, early, next) = [f EXCEPT !.visited = fv, !.phase = "early"]
      BY <1>2 DEF EndBlock
    <2>2. QED
      BY <1>1, <2>1 DEF Frame
  <1>3. CASE ~(fv > f.maxSteps \/ early) /\ next = NoBlock
    <2>1. EndBlock(f, bv, early, next) = [f EXCEPT !.visited = fv, !.phase = "done"]
      BY <1>3 DEF EndBlock
    <2>2. QED
      BY <1>1, <1>3, <2>1 DEF Frame, Uint
  <1>4. CASE ~(fv > f.maxSteps \/ early) /\ next # NoBlock
    <2>1. EndBlock(f, bv, early, next)
            = [f EXCEPT !.visited = fv, !.block = next, !.phase = "enter"]
      BY <1>4 DEF EndBlock
    <2>2. QED
      BY <1>1, <1>4, <2>1 DEF Frame, Uint
  <1>5. QED
    BY <1>2, <1>3, <1>4

\* The caller's frame after a call returned normally.
LEMMA ResumeFrame ==
    ASSUME NEW f \in Frame, NEW bv \in Uint
    PROVE  /\ [f EXCEPT !.bvisited = bv, !.callsDone = @ + 1] \in Frame
           /\ [f EXCEPT !.bvisited = bv, !.callsDone = @ + 1].maxSteps = f.maxSteps
           /\ [f EXCEPT !.bvisited = bv, !.callsDone = @ + 1].visited = f.visited
           /\ [f EXCEPT !.bvisited = bv, !.callsDone = @ + 1].phase = f.phase
           /\ [f EXCEPT !.bvisited = bv, !.callsDone = @ + 1].bmax = f.bmax
           /\ [f EXCEPT !.bvisited = bv, !.callsDone = @ + 1].bvisited = bv
  <1>1. f.callsDone + 1 \in Nat
    BY DEF Frame
  <1>2. [f EXCEPT !.bvisited = bv] \in Frame
    BY DEF Frame
  <1>3. \A h \in Frame, k \in Nat : [h EXCEPT !.callsDone = k] \in Frame
    BY DEF Frame
  <1>4. QED
    BY <1>1, <1>2, <1>3 DEF Frame

\* Replacing the running activation keeps the callers' budget relation.
LEMMA CallersReplaceTop ==
    ASSUME NEW s \in Seq(Frame), Len(s) > 0, NEW x \in Frame,
           x.maxSteps = s[Len(s)].maxSteps, Callers(s)
    PROVE  /\ Callers([s EXCEPT ![Len(s)] = x])
           /\ [s EXCEPT ![Len(s)] = x][1].maxSteps = s[1].maxSteps
  BY DEF Callers, CallerOK

\* Pushing a callee that satisfies the relation keeps it.
LEMMA CallersPush ==
    ASSUME NEW s \in Seq(Frame), Len(s) > 0, NEW x \in Frame,
           Callers(s), CallerOK(s[Len(s)], x)
    PROVE  /\ Callers(Append(s, x))
           /\ Append(s, x)[1] = s[1]
  BY DEF Callers

\* Popping the callee and replacing the caller keeps it.
LEMMA CallersPop ==
    ASSUME NEW s \in Seq(Frame), Len(s) > 1, NEW x \in Frame,
           x.maxSteps = s[Len(s) - 1].maxSteps, Callers(s)
    PROVE  /\ Callers([SubSeq(s, 1, Len(s) - 1) EXCEPT ![Len(s) - 1] = x])
           /\ [SubSeq(s, 1, Len(s) - 1) EXCEPT ![Len(s) - 1] = x][1].maxSteps
                = s[1].maxSteps
           /\ Len([SubSeq(s, 1, Len(s) - 1) EXCEPT ![Len(s) - 1] = x]) = Len(s) - 1
           /\ [SubSeq(s, 1, Len(s) - 1) EXCEPT ![Len(s) - 1] = x][Len(s) - 1] = x
  <1>. DEFINE u == SubSeq(s, 1, Len(s) - 1)
              t == [u EXCEPT ![Len(s) - 1] = x]
  <1>0. \A k \in 1..(Len(s) - 1) : s[k] \in Frame
    BY ElementOfSeq
  <1>1. /\ u \in Seq(Frame) /\ Len(u) = Len(s) - 1
        /\ \A k \in 1..(Len(s) - 1) : u[k] = s[k]
    BY <1>0, SubSeqProperties, LenProperties
  <1>. HIDE DEF u
  <1>2. Len(t) = Len(s) - 1
        /\ (\A k \in 1..(Len(s) - 2) : t[k] = s[k])
        /\ t[Len(s) - 1] = x
    <2>2. DOMAIN u = 1..(Len(s) - 1)
      BY <1>1, LenProperties
    <2>0. /\ Len(t) = Len(u)
          /\ \A j \in 1..Len(u) : t[j] = IF j = Len(s) - 1 THEN x ELSE u[j]
      <3>1. Len(s) - 1 \in 1..Len(u) /\ x \in Frame
        BY <1>1
      <3>2. QED
        BY <1>1, <3>1, ExceptSeq
    <2>1. Len(t) = Len(s) - 1 /\ t[Len(s) - 1] = x
      BY <1>1, <2>0
    <2>3. \A k \in 1..(Len(s) - 2) : t[k] = s[k]
      BY <1>1, <2>0
    <2>4. QED
      BY <2>1, <2>3
  <1>3. Callers(t)
    <2> SUFFICES ASSUME NEW k \in 1..(Len(t) - 1) PROVE CallerOK(t[k], t[k + 1])
      BY DEF Callers
    <2>1. CallerOK(s[k], s[k + 1])
      BY <1>2 DEF Callers
    <2>2. t[k] = s[k]
      BY <1>2
    <2>3. CASE k + 1 = Len(s) - 1
      BY <1>2, <2>1, <2>2, <2>3 DEF CallerOK
    <2>4. CASE k + 1 # Len(s) - 1
      BY <1>2, <2>1, <2>2, <2>4
    <2>5. QED
      BY <2>3, <2>4
  <1>4. t[1].maxSteps = s[1].maxSteps
    BY <1>2
  <1>5. QED
    BY <1>2, <1>3, <1>4 DEF u

\* BudgetInv is an invariant of the interpreter: unless a frame lost its
\* budget, callers and callees share the budget as interpretBlock hands it
\* down (lines 126, 173) and the blocks interpreted telescope.
THEOREM BudgetInvariant == Spec => []BudgetInv
  <1>1. Init => BudgetInv
    <2> SUFFICES ASSUME Init, ~budgetLost PROVE Budgeted
      BY DEF BudgetInv
    <2>1. Budget < UintMax
      <3>1. Budget # UintMax
        BY Zenon DEF Init
      <3>2. QED
        BY <3>1, ConstantTypes DEF Uint, UintMax
    <2>2. stack = << NewFrame(TopFun, Budget) >> /\ interpreted = 0
      BY DEF Init
    <2>3. Top = NewFrame(TopFun, Budget)
      BY <2>2 DEF Top
    <2>4. QED
      BY <2>1, <2>2, <2>3, ConstantTypes
         DEF Budgeted, Callers, TopOK, Work, NewFrame, Uint
  <1>2. TypeOK /\ TypeOK' /\ BudgetInv /\ [Next]_vars => BudgetInv'
    <2> SUFFICES ASSUME TypeOK, TypeOK', BudgetInv, [Next]_vars, ~budgetLost'
                 PROVE  Budgeted'
      BY DEF BudgetInv
    <2>. DEFINE n == Len(stack)
    <2>1. /\ stack \in Seq(Frame) /\ n \in 1..MaxDepth /\ Top \in Frame
          /\ stack' \in Seq(Frame) /\ Len(stack') \in 1..MaxDepth
      BY DEF TypeOK, Top
    <2>0. /\ Top.maxSteps \in Nat /\ Top.visited \in Nat
          /\ Top.bmax \in Nat /\ Top.bvisited \in Nat
          /\ interpreted \in Nat /\ Budget \in Nat
      BY <2>1, ConstantTypes DEF Frame, Uint, TypeOK
    <2>2. ~budgetLost
      BY Zenon DEF Next, vars, EnterBlock, InvokeCall, StackOverflow,
                   CallReturned, CallTruncated, Terminate
    <2>3. Budgeted
      BY <2>2 DEF BudgetInv
    <2>4. CASE EnterBlock
      <3>. DEFINE g == [Top EXCEPT !.phase = "body",
                               !.bmax = USub(Top.maxSteps, Top.visited),
                               !.bvisited = 1, !.callsDone = 0]
      <3>1. /\ Top.phase = "enter" /\ stack' = [stack EXCEPT ![n] = g]
            /\ interpreted' = CountBlock(interpreted)
        BY <2>4 DEF EnterBlock
      <3>2. Top.visited <= Top.maxSteps /\ Top.maxSteps < UintMax
        BY <2>3, <3>1 DEF Budgeted, TopOK
      <3>3. USub(Top.maxSteps, Top.visited) = Top.maxSteps - Top.visited
        BY <3>2, <2>1, USubNoWrap DEF Frame
      <3>4. /\ g \in Frame /\ g.maxSteps = Top.maxSteps /\ TopOK(g)
            /\ Work(g) = Top.visited + 1
        <4>0. USub(Top.maxSteps, Top.visited) \in Uint
          BY <2>1, UintClosed DEF Frame
        <4>1. g \in Frame
          BY <2>1, <4>0, ConstantTypes DEF Frame, Phases
        <4>2. /\ g.maxSteps = Top.maxSteps /\ g.visited = Top.visited
              /\ g.phase = "body" /\ g.bvisited = 1
              /\ g.bmax = Top.maxSteps - Top.visited
          BY <2>1, <3>3 DEF Frame
        <4>3. QED
          BY <2>0, <3>2, <4>1, <4>2 DEF TopOK, Work
      <3>. HIDE DEF g
      <3>5. Callers(stack') /\ stack'[1].maxSteps = stack[1].maxSteps
        <4>1. Callers(stack) /\ g.maxSteps = stack[n].maxSteps /\ g \in Frame
          BY <2>3, <3>4 DEF Budgeted, Top
        <4>2. n > 0
          BY <2>1
        <4>3. QED
          BY <3>1, <4>1, <4>2, <2>1, CallersReplaceTop
      <3>6. Top' = g
        BY <3>1, <2>1 DEF Top
      <3>7. interpreted' = interpreted + 1
        BY <2>0, <3>1, <3>2, <2>3 DEF CountBlock, Budgeted, Work
      <3>8. QED
        BY <2>0, <3>1, <3>2, <3>4, <3>5, <3>6, <3>7, <2>3 DEF Budgeted, Work
    <2>5. CASE StackOverflow
      BY <2>3, <2>5 DEF StackOverflow, Budgeted, Top, Callers
    <2>6. CASE UNCHANGED vars
      BY <2>3, <2>6 DEF vars, Budgeted, Top, Callers
    <2>7. CASE InvokeCall
      <3>. DEFINE nf == NewFrame(Callee(Top.block), CalleeBudget(Top))
      <3>1. /\ Top.phase = "body" /\ stack' = Append(stack, nf)
            /\ budgetLost' = (budgetLost \/ CalleeBudget(Top) = UintMax)
            /\ interpreted' = interpreted
        BY <2>7 DEF InvokeCall
      <3>2. CalleeBudget(Top) # UintMax
        BY <3>1, Zenon
      <3>3. /\ Top.maxSteps < UintMax /\ Top.visited <= Top.maxSteps
            /\ Top.bmax = Top.maxSteps - Top.visited
            /\ 1 <= Top.bvisited /\ Top.bvisited <= Top.bmax + 1
        BY <2>3, <3>1 DEF Budgeted, TopOK
      <3>4. Top.bvisited <= Top.bmax
        <4>1. SUFFICES ASSUME Top.bvisited = Top.bmax + 1 PROVE FALSE
          BY <3>3, <2>0
        <4>2. Top.bmax \in Uint /\ Top.bvisited \in Int
          BY <2>1 DEF Frame, Uint
        <4>3. USub(Top.bmax, Top.bvisited) = UintMax
          BY <4>1, <4>2, USubWrap
        <4>4. CalleeBudget(Top) = UintMax
          BY <4>3 DEF CalleeBudget
        <4>5. QED
          BY <4>4, <3>2
      <3>5. CalleeBudget(Top) = Top.bmax - Top.bvisited
        BY <3>4, <2>1, USubNoWrap DEF CalleeBudget, Frame
      <3>6. nf \in Frame
        BY <2>1, UintClosed, ConstantTypes, NewFrameType DEF Frame, CalleeBudget, Callee
      <3>7. nf.maxSteps = Top.bmax - Top.bvisited /\ nf.visited = 0 /\ nf.phase = "enter"
        BY <3>5 DEF NewFrame
      <3>8. CallerOK(Top, nf) /\ TopOK(nf) /\ Work(nf) = 0
        <4>1. CallerOK(Top, nf)
          BY <2>0, <3>1, <3>3, <3>4, <3>7 DEF CallerOK
        <4>2. nf.maxSteps \in Nat /\ nf.maxSteps < UintMax
          BY <2>0, <3>3, <3>4, <3>7, ConstantTypes DEF UintMax
        <4>3. TopOK(nf)
          BY <4>2, <3>7 DEF TopOK
        <4>4. Work(nf) = 0
          BY <3>7 DEF Work
        <4>5. QED
          BY <4>1, <4>3, <4>4
      <3>. HIDE DEF nf
      <3>9. Callers(stack') /\ stack'[1] = stack[1]
        <4>1. Callers(stack) /\ CallerOK(stack[n], nf) /\ n > 0
          BY <2>1, <2>3, <3>8 DEF Budgeted, Top
        <4>2. QED
          BY <2>1, <3>1, <3>6, <4>1, CallersPush
      <3>10. Top' = nf
        BY <2>1, <3>1, <3>6, AppendProperties DEF Top
      <3>11. interpreted' = Budget - nf.maxSteps + Work(nf)
        <4>1. interpreted = Budget - Top.maxSteps + Top.visited + Top.bvisited
          <5>1. Work(Top) = Top.visited + Top.bvisited
            BY <3>1 DEF Work
          <5>2. QED
            BY <2>0, <2>3, <5>1 DEF Budgeted
        <4>2. QED
          BY <2>0, <3>1, <3>3, <3>7, <3>8, <4>1
      <3>12. QED
        BY <2>3, <3>8, <3>9, <3>10, <3>11 DEF Budgeted
    <2>8. CASE CallReturned
      <3>. DEFINE c == Top
                  f == stack[n - 1]
                  bv == UAdd(f.bvisited, c.visited)
                  g == [f EXCEPT !.bvisited = bv, !.callsDone = @ + 1]
      <3>1. /\ n > 1 /\ c.phase \in {"early", "done"}
            /\ ~(bv > f.bmax \/ c.phase = "early")
            /\ stack' = [SubSeq(stack, 1, n - 1) EXCEPT ![n - 1] = g]
            /\ interpreted' = interpreted
        BY <2>8 DEF CallReturned
      <3>2. /\ f \in Frame /\ f.maxSteps \in Nat /\ f.visited \in Nat
            /\ f.bmax \in Nat /\ f.bvisited \in Nat /\ f.callsDone \in Nat
        <4>1. n - 1 \in 1..n
          BY <2>1, <3>1
        <4>2. f \in Frame
          BY <2>1, <4>1, ElementOfSeq
        <4>3. QED
          BY <4>2 DEF Frame, Uint
      <3>3. CallerOK(f, c)
        <4>1. \A k \in 1..(n - 1) : CallerOK(stack[k], stack[k + 1])
          BY <2>3 DEF Budgeted, Callers
        <4>2. n - 1 \in 1..(n - 1) /\ (n - 1) + 1 = n
          BY <2>1, <3>1
        <4>3. CallerOK(stack[n - 1], stack[(n - 1) + 1])
          BY <4>1, <4>2
        <4>4. QED
          BY <4>2, <4>3 DEF Top
      <3>4. c.phase = "done" /\ c.visited <= c.maxSteps
        BY <2>3, <3>1 DEF Budgeted, TopOK
      <3>5. bv = f.bvisited + c.visited
        <4>1. f.bvisited + c.visited <= UintMax
          <5>. DEFINE fM == f.maxSteps  fv == f.visited  fbm == f.bmax
                      fb == f.bvisited  cM == c.maxSteps  cv == c.visited
          <5>1. /\ fM \in Nat /\ fv \in Nat /\ fbm \in Int /\ fb \in Nat
                /\ cM \in Int /\ cv \in Nat
                /\ fM < UintMax /\ fbm = fM - fv /\ fb <= fbm /\ cM = fbm - fb
                /\ cv <= cM + 1
            BY <2>0, <3>2, <3>3, <3>4 DEF CallerOK
          <5>. HIDE DEF fM, fv, fbm, fb, cM, cv
          <5>2. fb + cv <= UintMax
            BY <5>1, CalleeCountFits
          <5>3. QED
            BY <5>2 DEF fb, cv
        <4>2. QED
          BY <2>0, <3>2, <4>1, UAddNoWrap
      <3>6. bv <= f.bmax
        BY <2>0, <3>1, <3>2, <3>5
      <3>7. /\ g \in Frame /\ g.maxSteps = f.maxSteps
            /\ g.visited = f.visited /\ g.phase = "body"
            /\ g.bmax = f.bmax /\ g.bvisited = bv
        <4>1. bv \in Uint
          BY <2>1, <3>2, UintClosed DEF Frame
        <4>2. f.phase = "body"
          BY <3>3 DEF CallerOK
        <4>3. QED
          BY <3>2, <4>1, <4>2, ResumeFrame
      <3>. HIDE DEF g
      <3>8. TopOK(g) /\ Work(g) = f.visited + bv
        <4>1. /\ g.maxSteps < UintMax /\ g.visited <= g.maxSteps
              /\ g.bmax = g.maxSteps - g.visited
          BY <3>3, <3>7 DEF CallerOK
        <4>2. 1 <= g.bvisited /\ g.bvisited <= g.bmax + 1
          <5>1. 1 <= f.bvisited /\ c.visited \in Nat
            BY <2>0, <3>3 DEF CallerOK
          <5>2. QED
            BY <3>2, <3>5, <3>6, <3>7, <5>1
        <4>3. TopOK(g)
          BY <3>7, <4>1, <4>2 DEF TopOK
        <4>4. Work(g) = f.visited + bv
          BY <3>2, <3>7 DEF Work
        <4>5. QED
          BY <4>3, <4>4
      <3>9. Callers(stack') /\ stack'[1].maxSteps = stack[1].maxSteps
        <4>1. Callers(stack) /\ g.maxSteps = stack[n - 1].maxSteps
          BY <2>3, <3>7 DEF Budgeted
        <4>2. QED
          BY <2>1, <3>1, <3>7, <4>1, CallersPop
      <3>10. Top' = g
        <4>1. Len(stack') = n - 1 /\ stack'[n - 1] = g
          BY <2>1, <3>1, <3>7, CallersPop
        <4>2. QED
          BY <4>1 DEF Top
      <3>11. interpreted' = Budget - g.maxSteps + Work(g)
        <4>1. Work(c) = c.visited
          BY <2>0, <3>4 DEF Work
        <4>2. interpreted = Budget - c.maxSteps + c.visited
          BY <2>3, <4>1 DEF Budgeted
        <4>3. interpreted = Budget - f.maxSteps + (f.visited + bv)
          <5>. DEFINE fM == f.maxSteps  fv == f.visited  fbm == f.bmax
                      fb == f.bvisited  cM == c.maxSteps  cv == c.visited
          <5>0. /\ fM \in Int /\ fv \in Int /\ fbm \in Int /\ fb \in Int
                /\ cM \in Int /\ cv \in Int /\ interpreted \in Int
            BY <2>0, <3>2
          <5>1. /\ fbm = fM - fv /\ cM = fbm - fb /\ bv = fb + cv
                /\ interpreted = Budget - cM + cv
            BY <3>3, <3>5, <4>2 DEF CallerOK
          <5>4. bv \in Int
            BY <5>0, <5>1
          <5>. HIDE DEF fM, fv, fbm, fb, cM, cv, bv
          <5>2. interpreted = Budget - fM + (fv + bv)
            BY <2>0, <5>0, <5>1, <5>4, Telescope
          <5>3. QED
            BY <5>2 DEF fM, fv
        <4>4. QED
          BY <3>1, <3>7, <3>8, <4>3
      <3>12. QED
        BY <2>3, <3>8, <3>9, <3>10, <3>11 DEF Budgeted
    <2>9. CASE CallTruncated
      <3>. DEFINE c == Top
                  f == stack[n - 1]
                  bv == UAdd(f.bvisited, c.visited)
                  g == EndBlock(f, bv, TRUE, NoBlock)
      <3>1. /\ n > 1 /\ c.phase \in {"early", "done"}
            /\ stack' = [SubSeq(stack, 1, n - 1) EXCEPT ![n - 1] = g]
            /\ interpreted' = interpreted
        BY <2>9 DEF CallTruncated
      <3>2. /\ f \in Frame /\ f.maxSteps \in Nat /\ f.visited \in Nat
            /\ f.bmax \in Nat /\ f.bvisited \in Nat
        <4>1. n - 1 \in 1..n
          BY <2>1, <3>1
        <4>2. f \in Frame
          BY <2>1, <4>1, ElementOfSeq
        <4>3. QED
          BY <4>2 DEF Frame, Uint
      <3>3. CallerOK(f, c)
        <4>1. \A k \in 1..(n - 1) : CallerOK(stack[k], stack[k + 1])
          BY <2>3 DEF Budgeted, Callers
        <4>2. n - 1 \in 1..(n - 1) /\ (n - 1) + 1 = n
          BY <2>1, <3>1
        <4>3. CallerOK(stack[n - 1], stack[(n - 1) + 1])
          BY <4>1, <4>2
        <4>4. QED
          BY <4>2, <4>3 DEF Top
      <3>4. c.visited <= c.maxSteps + 1 /\ Work(c) = c.visited
        BY <2>0, <2>3, <3>1 DEF Budgeted, TopOK, Work
      <3>5. bv = f.bvisited + c.visited /\ f.visited + bv <= UintMax
        <4>. DEFINE fM == f.maxSteps  fv == f.visited  fbm == f.bmax
                    fb == f.bvisited  cM == c.maxSteps  cv == c.visited
        <4>1. /\ fM \in Nat /\ fv \in Nat /\ fbm \in Int /\ fb \in Nat
              /\ cM \in Int /\ cv \in Nat
              /\ fM < UintMax /\ fbm = fM - fv /\ fb <= fbm /\ cM = fbm - fb
              /\ cv <= cM + 1
          BY <2>0, <3>2, <3>3, <3>4 DEF CallerOK
        <4>. HIDE DEF fM, fv, fbm, fb, cM, cv
        <4>2. fb + cv <= UintMax /\ fv + fb + cv <= UintMax
          BY <4>1, CalleeCountFits
        <4>3. bv = fb + cv
          BY <4>1, <4>2, UAddNoWrap DEF fb, cv
        <4>4. QED
          BY <4>1, <4>2, <4>3 DEF fv, fb, cv
      <3>6. /\ g \in Frame /\ g.maxSteps = f.maxSteps
            /\ g.visited = f.visited + bv /\ g.phase = "early"
        <4>1. bv \in Uint
          BY <2>1, <3>2, UintClosed DEF Frame
        <4>2. g \in Frame
          BY <3>2, <4>1, EndBlockType, ConstantTypes
        <4>3. g.maxSteps = f.maxSteps /\ g.visited = f.visited + bv /\ g.phase = "early"
          BY <3>2, <3>5, <4>1, EndBlockFacts
        <4>4. QED
          BY <4>2, <4>3
      <3>. HIDE DEF g
      <3>7. TopOK(g) /\ Work(g) = f.visited + bv
        <4>0. f.visited + bv \in Int /\ f.maxSteps < UintMax
          <5>1. bv \in Int
            BY <2>0, <3>2, <3>5
          <5>2. QED
            BY <3>2, <3>3, <5>1 DEF CallerOK
        <4>1. f.visited + bv <= f.maxSteps + 1
          <5>. DEFINE fM == f.maxSteps  fv == f.visited  fbm == f.bmax
                      fb == f.bvisited  cM == c.maxSteps  cv == c.visited
          <5>0. /\ fM \in Int /\ fv \in Int /\ fbm \in Int /\ fb \in Int
                /\ cM \in Int /\ cv \in Int
            BY <2>0, <3>2
          <5>1. /\ fbm = fM - fv /\ cM = fbm - fb /\ bv = fb + cv
                /\ cv <= cM + 1
            BY <3>3, <3>4, <3>5 DEF CallerOK
          <5>. HIDE DEF fM, fv, fbm, fb, cM, cv, bv
          <5>2. fv + bv <= fM + 1
            BY <5>0, <5>1
          <5>3. QED
            BY <5>2 DEF fM, fv
        <4>2. f.visited + bv \in Int
          BY <4>0
        <4>3. TopOK(g)
          BY <3>6, <4>0, <4>1 DEF TopOK
        <4>4. Work(g) = f.visited + bv
          <5>1. g.phase # "body" /\ g.visited \in Int
            BY <3>6, <4>2
          <5>2. Work(g) = g.visited + 0
            BY <5>1 DEF Work
          <5>3. QED
            BY <3>6, <5>1, <5>2
        <4>5. QED
          BY <4>3, <4>4
      <3>8. Callers(stack') /\ stack'[1].maxSteps = stack[1].maxSteps
        <4>1. Callers(stack) /\ g.maxSteps = stack[n - 1].maxSteps
          BY <2>3, <3>6 DEF Budgeted
        <4>2. QED
          BY <2>1, <3>1, <3>6, <4>1, CallersPop
      <3>9. Top' = g
        <4>1. Len(stack') = n - 1 /\ stack'[n - 1] = g
          BY <2>1, <3>1, <3>6, CallersPop
        <4>2. QED
          BY <4>1 DEF Top
      <3>10. interpreted' = Budget - g.maxSteps + Work(g)
        <4>1. interpreted = Budget - c.maxSteps + c.visited
          BY <2>3, <3>4 DEF Budgeted
        <4>2. interpreted = Budget - f.maxSteps + (f.visited + bv)
          <5>. DEFINE fM == f.maxSteps  fv == f.visited  fbm == f.bmax
                      fb == f.bvisited  cM == c.maxSteps  cv == c.visited
          <5>0. /\ fM \in Int /\ fv \in Int /\ fbm \in Int /\ fb \in Int
                /\ cM \in Int /\ cv \in Int /\ interpreted \in Int
            BY <2>0, <3>2
          <5>1. /\ fbm = fM - fv /\ cM = fbm - fb /\ bv = fb + cv
                /\ interpreted = Budget - cM + cv
            BY <3>3, <3>5, <4>1 DEF CallerOK
          <5>4. bv \in Int
            BY <5>0, <5>1
          <5>. HIDE DEF fM, fv, fbm, fb, cM, cv, bv
          <5>2. interpreted = Budget - fM + (fv + bv)
            BY <2>0, <5>0, <5>1, <5>4, Telescope
          <5>3. QED
            BY <5>2 DEF fM, fv
        <4>3. QED
          BY <3>1, <3>6, <3>7, <4>2
      <3>11. QED
        BY <2>3, <3>7, <3>8, <3>9, <3>10 DEF Budgeted
    <2>10. CASE Terminate
      <3>1. Top.phase = "body" /\ interpreted' = interpreted
        BY <2>10 DEF Terminate
      <3>2. PICK next \in NextBlocks(Top.block) :
                stack' = [stack EXCEPT ![n] = EndBlock(Top, Top.bvisited, FALSE, next)]
        BY <2>10 DEF Terminate
      <3>. DEFINE g == EndBlock(Top, Top.bvisited, FALSE, next)
      <3>3. /\ Top.maxSteps < UintMax /\ Top.visited <= Top.maxSteps
            /\ Top.bmax = Top.maxSteps - Top.visited
            /\ 1 <= Top.bvisited /\ Top.bvisited <= Top.bmax + 1
        BY <2>3, <3>1 DEF Budgeted, TopOK
      <3>4. /\ Top.visited + Top.bvisited <= Top.maxSteps + 1
            /\ Top.visited + Top.bvisited <= UintMax
        BY <2>0, <3>3, ConstantTypes DEF UintMax
      <3>5. next \in Blocks \cup {NoBlock}
        BY <2>1, NextBlocksType DEF Frame
      <3>6. g \in Frame
        BY <2>1, <3>5, EndBlockType DEF Frame
      <3>7. /\ g.maxSteps = Top.maxSteps
            /\ g.visited = Top.visited + Top.bvisited
            /\ g.phase # "body"
            /\ g.phase \in {"enter", "done"} => g.visited <= Top.maxSteps
        <4>1. Top.bvisited \in Uint /\ FALSE \in BOOLEAN
          BY <2>1 DEF Frame
        <4>2. QED
          BY <2>1, <3>4, <4>1, EndBlockFacts
      <3>7a. stack' = [stack EXCEPT ![n] = g]
        BY <3>2
      <3>. HIDE DEF g
      <3>8. TopOK(g) /\ Work(g) = Top.visited + Top.bvisited
        <4>1. g.phase \in Phases /\ g.visited \in Int
          BY <3>6 DEF Frame, Uint
        <4>2. TopOK(g)
          BY <3>3, <3>4, <3>7, <4>1 DEF TopOK, Phases
        <4>3. Work(g) = g.visited + 0
          BY <3>7 DEF Work
        <4>4. QED
          BY <3>7, <4>1, <4>2, <4>3
      <3>9. Callers(stack') /\ stack'[1].maxSteps = stack[1].maxSteps
        <4>1. Callers(stack) /\ g.maxSteps = stack[n].maxSteps /\ n > 0
          BY <2>1, <2>3, <3>7 DEF Budgeted, Top
        <4>2. QED
          BY <2>1, <3>7a, <3>6, <4>1, CallersReplaceTop
      <3>10. Top' = g
        BY <2>1, <3>7a DEF Top
      <3>11. interpreted' = Budget - g.maxSteps + Work(g)
        <4>1. Work(Top) = Top.visited + Top.bvisited
          BY <3>1 DEF Work
        <4>2. QED
          BY <2>0, <2>3, <3>1, <3>7, <3>8, <4>1 DEF Budgeted
      <3>12. QED
        BY <2>3, <3>8, <3>9, <3>10, <3>11 DEF Budgeted
    <2>11. QED
      BY <2>4, <2>5, <2>6, <2>7, <2>8, <2>9, <2>10 DEF Next
  <1>3. QED
    BY <1>1, <1>2, TypeCorrect, PTL DEF Spec

\* The shared step budget bounds the work: unless some frame was given
\* maxSteps = UINT32_MAX, the whole call tree interprets at most Budget + 1
\* blocks (interpretFunction line 133, interpretBlock lines 173-175).
THEOREM BudgetCorrect == Spec => []BudgetBoundsWork
  <1>1. TypeOK /\ BudgetInv => BudgetBoundsWork
    <2> SUFFICES ASSUME TypeOK, BudgetInv, ~budgetLost PROVE interpreted <= Budget + 1
      BY DEF BudgetBoundsWork
    <2>1. Budgeted
      BY DEF BudgetInv
    <2>2. Top \in Frame
      BY DEF TypeOK, Top
    <2>3. Top.phase \in Phases /\ Top.maxSteps \in Nat /\ Top.visited \in Nat
          /\ Top.bvisited \in Nat /\ Top.bmax \in Nat
      BY <2>2 DEF Frame, Uint
    <2>4. Work(Top) <= Top.maxSteps + 1
      BY <2>1, <2>3 DEF Budgeted, TopOK, Work, Phases
    <2>5. QED
      <3>1. interpreted = Budget - Top.maxSteps + Work(Top)
        BY <2>1 DEF Budgeted
      <3>2. Work(Top) \in Int
        BY <2>3 DEF Work
      <3>3. QED
        BY <3>1, <3>2, <2>3, <2>4, ConstantTypes
  <1>2. QED
    BY <1>1, BudgetInvariant, TypeCorrect, PTL


=============================================================================
