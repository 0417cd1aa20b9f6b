-------------------------- MODULE RefinementProofs --------------------------
(***************************************************************************)
(* The interpreter implements the run contract of BudgetedRun under the   *)
(* refinement mapping of Interpreter.tla (AbstractRun), for every value of *)
(* the constants.  The proof rests on the invariants of InterpreterProofs  *)
(* (TypeOK, EarlyOnTop, BudgetInv) and on two facts about the stack shape  *)
(* proved here.                                                            *)
(***************************************************************************)
EXTENDS InterpreterProofs

\* Every activation below the running one is inside a block, waiting for
\* its call instruction to return (interpretBlock line 172).
CallersBody == \A k \in 1..(Len(stack) - 1) : stack[k].phase = "body"

\* A crash happens at a call instruction, inside a block, and nothing runs
\* after it.
CrashedInBody == crashed => Top.phase = "body"

RInv == CallersBody /\ CrashedInBody

\* The frames below the replaced top are the old ones.
LEMMA ReplaceTopBelow ==
    ASSUME NEW s \in Seq(Frame), Len(s) > 0, NEW x \in Frame
    PROVE  \A k \in 1..(Len(s) - 1) : [s EXCEPT ![Len(s)] = x][k] = s[k]
  OBVIOUS

\* After a pop, the frames below the replaced caller are the old ones.
LEMMA PopBelow ==
    ASSUME NEW s \in Seq(Frame), Len(s) > 1, NEW x \in Frame
    PROVE  \A k \in 1..(Len(s) - 2) :
              [SubSeq(s, 1, Len(s) - 1) EXCEPT ![Len(s) - 1] = x][k] = s[k]
  <1>. DEFINE u == SubSeq(s, 1, Len(s) - 1)
  <1>0. \A k \in 1..(Len(s) - 1) : s[k] \in Frame
    BY ElementOfSeq
  <1>1. /\ u \in Seq(Frame) /\ Len(u) = Len(s) - 1
        /\ \A k \in 1..(Len(s) - 1) : u[k] = s[k]
    BY <1>0, SubSeqProperties, LenProperties
  <1>. HIDE DEF u
  <1>2. \A j \in 1..Len(u) : [u EXCEPT ![Len(s) - 1] = x][j]
                               = IF j = Len(s) - 1 THEN x ELSE u[j]
    <2>1. Len(s) - 1 \in 1..Len(u)
      BY <1>1
    <2>2. QED
      BY <1>1, <2>1, ExceptSeq
  <1>3. \A k \in 1..(Len(s) - 2) : [u EXCEPT ![Len(s) - 1] = x][k] = s[k]
    BY <1>1, <1>2
  <1>4. QED
    BY <1>3 DEF u

\* The stack shape is an invariant.
THEOREM StackShape == Spec => []RInv
  <1>1. Init => RInv
    <2> SUFFICES ASSUME Init PROVE RInv
      OBVIOUS
    <2>1. Len(stack) = 1 /\ crashed = FALSE
      BY DEF Init
    <2>2. QED
      BY <2>1 DEF RInv, CallersBody, CrashedInBody
  <1>2. TypeOK /\ RInv /\ [Next]_vars => RInv'
    <2> SUFFICES ASSUME TypeOK, RInv, [Next]_vars PROVE RInv'
      OBVIOUS
    <2>. DEFINE n == Len(stack)
    <2>1. stack \in Seq(Frame) /\ n \in 1..MaxDepth /\ Top \in Frame
      BY DEF TypeOK, Top
    <2>2. CASE EnterBlock
      <3>. DEFINE g == [Top EXCEPT !.phase = "body",
                                   !.bmax = USub(Top.maxSteps, Top.visited),
                                   !.bvisited = 1, !.callsDone = 0]
      <3>1. g \in Frame /\ g.phase = "body"
        <4>1. USub(Top.maxSteps, Top.visited) \in Uint
          BY <2>1, UintClosed DEF Frame
        <4>2. QED
          BY <2>1, <4>1, ConstantTypes DEF Frame, Phases
      <3>. HIDE DEF g
      <3>2. stack' = [stack EXCEPT ![n] = g] /\ ~crashed /\ crashed' = crashed
        BY <2>2 DEF EnterBlock, g
      <3>3. CallersBody'
        BY <2>1, <3>1, <3>2, ReplaceTopBelow DEF RInv, CallersBody
      <3>4. QED
        BY <3>2, <3>3 DEF RInv, CrashedInBody
    <2>3. CASE InvokeCall
      <3>. DEFINE x == NewFrame(Callee(Top.block), CalleeBudget(Top))
      <3>1. stack' = Append(stack, x) /\ Top.phase = "body"
            /\ ~crashed /\ crashed' = crashed
        BY <2>3 DEF InvokeCall
      <3>2. \A k \in 1..n : stack'[k] = stack[k]
        BY <2>1, <3>1
      <3>3. Len(stack') = n + 1
        BY <2>1, <3>1
      <3>4. CallersBody'
        BY <3>1, <3>2, <3>3 DEF RInv, CallersBody, Top
      <3>5. QED
        BY <3>1, <3>4 DEF RInv, CrashedInBody
    <2>4. CASE StackOverflow
      BY <2>4 DEF StackOverflow, RInv, CallersBody, CrashedInBody, Top
    <2>5. CASE CallReturned
      <3>. DEFINE f == stack[n - 1]
                  bv == UAdd(f.bvisited, Top.visited)
                  g == [f EXCEPT !.bvisited = bv, !.callsDone = @ + 1]
      <3>1. n > 1 /\ f \in Frame /\ Top.phase \in {"early", "done"}
        BY <2>5, <2>1 DEF CallReturned, TypeOK
      <3>2. bv \in Uint
        BY <2>1, <3>1, UintClosed DEF Frame
      <3>3. g \in Frame /\ g.phase = f.phase
        BY <3>1, <3>2, ResumeFrame
      <3>. HIDE DEF g
      <3>4. stack' = [SubSeq(stack, 1, n - 1) EXCEPT ![n - 1] = g]
            /\ crashed' = crashed
        BY <2>5 DEF CallReturned, g
      <3>5. f.phase = "body"
        BY <3>1 DEF RInv, CallersBody
      <3>6. /\ Len(stack') = n - 1 /\ stack'[n - 1] = g
            /\ \A k \in 1..(n - 2) : stack'[k] = stack[k]
        BY <2>1, <3>1, <3>3, <3>4, PopReplace, PopReplaceElem, PopBelow
      <3>7. CallersBody'
        BY <3>6 DEF RInv, CallersBody
      <3>8. ~crashed
        BY <3>1 DEF RInv, CrashedInBody
      <3>9. QED
        BY <3>4, <3>7, <3>8 DEF RInv, CrashedInBody
    <2>6. CASE CallTruncated
      <3>. DEFINE f == stack[n - 1]
                  bv == UAdd(f.bvisited, Top.visited)
                  g == EndBlock(f, bv, TRUE, NoBlock)
      <3>1. n > 1 /\ f \in Frame /\ Top.phase \in {"early", "done"}
        BY <2>6, <2>1 DEF CallTruncated, TypeOK
      <3>2. bv \in Uint
        BY <2>1, <3>1, UintClosed DEF Frame
      <3>3. g \in Frame
        BY <3>1, <3>2, EndBlockType
      <3>. HIDE DEF g
      <3>4. stack' = [SubSeq(stack, 1, n - 1) EXCEPT ![n - 1] = g]
            /\ crashed' = crashed
        BY <2>6 DEF CallTruncated, g
      <3>5. /\ Len(stack') = n - 1
            /\ \A k \in 1..(n - 2) : stack'[k] = stack[k]
        BY <2>1, <3>1, <3>3, <3>4, PopReplace, PopBelow
      <3>6. CallersBody'
        BY <3>5 DEF RInv, CallersBody
      <3>7. ~crashed
        BY <3>1 DEF RInv, CrashedInBody
      <3>8. QED
        BY <3>4, <3>6, <3>7 DEF RInv, CrashedInBody
    <2>7. CASE Terminate
      <3>1. PICK next \in NextBlocks(Top.block) :
                stack' = [stack EXCEPT ![n] = EndBlock(Top, Top.bvisited, FALSE, next)]
        BY <2>7 DEF Terminate
      <3>. DEFINE g == EndBlock(Top, Top.bvisited, FALSE, next)
      <3>2. g \in Frame
        BY <2>1, NextBlocksType, EndBlockType DEF Frame
      <3>. HIDE DEF g
      <3>3. ~crashed /\ crashed' = crashed
        BY <2>7 DEF Terminate
      <3>4. stack' = [stack EXCEPT ![n] = g]
        BY <3>1 DEF g
      <3>5. CallersBody'
        BY <2>1, <3>2, <3>4, ReplaceTopBelow DEF RInv, CallersBody
      <3>6. QED
        BY <3>3, <3>5 DEF RInv, CrashedInBody
    <2>8. CASE UNCHANGED vars
      BY <2>8 DEF vars, RInv, CallersBody, CrashedInBody, Top
    <2>9. QED
      BY <2>2, <2>3, <2>4, <2>5, <2>6, <2>7, <2>8 DEF Next
  <1>3. QED
    BY <1>1, <1>2, TypeCorrect, PTL DEF Spec

\* interpretFunction's handling of an update leaves its block: the frame
\* ends early, ends, or enters the next block.
LEMMA EndBlockPhase ==
    ASSUME NEW f \in Frame, NEW bv, NEW early, NEW next
    PROVE  EndBlock(f, bv, early, next).phase \in {"early", "done", "enter"}
  BY DEF EndBlock, Frame

\* The interpreter implements the run contract of BudgetedRun: each step of
\* interpretFunction/interpretBlock is a block visited within the budget
\* (unless a budget was lost), a lost budget, a record ended early, the end
\* of the top record (complete only when no record ended early), a crash,
\* or invisible; nothing happens after the end.
THEOREM Refinement == Spec => ImplementsBudgetedRun
  <1>1. Init => AbstractRun!Init
    <2> SUFFICES ASSUME Init PROVE AbstractRun!Init
      OBVIOUS
    <2>1. /\ stack = << NewFrame(TopFun, Budget) >> /\ ~crashed
          /\ interpreted = 0 /\ ~sawEarly /\ budgetLost \in BOOLEAN
      BY DEF Init
    <2>2. RunOutcome = "running"
      BY <2>1 DEF RunOutcome, Top, NewFrame
    <2>3. QED
      BY <2>1, <2>2 DEF AbstractRun!Init
  <1>2. TypeOK /\ TypeOK' /\ BudgetInv /\ EarlyOnTop /\ RInv /\ [Next]_vars
          => [AbstractRun!Next]_AbstractRun!avars
    <2> SUFFICES ASSUME TypeOK, TypeOK', BudgetInv, EarlyOnTop, RInv, [Next]_vars
                 PROVE  [AbstractRun!Next]_AbstractRun!avars
      OBVIOUS
    <2>. DEFINE n == Len(stack)
    <2>1. stack \in Seq(Frame) /\ n \in 1..MaxDepth /\ Top \in Frame
      BY DEF TypeOK, Top
    <2>2. CASE EnterBlock
      <3>. DEFINE g == [Top EXCEPT !.phase = "body",
                                   !.bmax = USub(Top.maxSteps, Top.visited),
                                   !.bvisited = 1, !.callsDone = 0]
      <3>1. g \in Frame /\ g.phase = "body"
        <4>1. USub(Top.maxSteps, Top.visited) \in Uint
          BY <2>1, UintClosed DEF Frame
        <4>2. QED
          BY <2>1, <4>1, ConstantTypes DEF Frame, Phases
      <3>. HIDE DEF g
      <3>2. /\ Top.phase = "enter" /\ ~crashed /\ crashed' = crashed
            /\ stack' = [stack EXCEPT ![n] = g]
            /\ interpreted' = CountBlock(interpreted)
            /\ UNCHANGED <<budgetLost, sawEarly>>
        BY <2>2 DEF EnterBlock, g
      <3>3. RunOutcome = "running"
        BY <3>2 DEF RunOutcome
      <3>4. Len(stack') = n /\ stack'[n] = g
        BY <2>1, <3>1, <3>2, ReplaceTop, ReplaceTopElem
      <3>5. RunOutcome' = "running"
        BY <3>1, <3>2, <3>4 DEF RunOutcome, Top
      <3>6. budgetLost \/ interpreted <= Budget
        <4>1. CASE ~budgetLost
          <5>1. Budgeted
            BY <4>1 DEF BudgetInv
          <5>2. /\ interpreted = Budget - Top.maxSteps + Work(Top)
                /\ Top.visited <= Top.maxSteps
            BY <5>1, <3>2 DEF Budgeted, TopOK
          <5>0. Top.phase = "enter"
            BY <3>2
          <5>4. Top.visited \in Nat /\ Top.maxSteps \in Nat /\ Budget \in Nat
            BY <2>1, ConstantTypes DEF Frame, Uint
          <5>3. Work(Top) = Top.visited
            BY <5>0, <5>4 DEF Work
          <5>5. QED
            BY <5>2, <5>3, <5>4
        <4>2. QED
          BY <4>1
      <3>7. QED
        BY <3>2, <3>3, <3>5, <3>6 DEF AbstractRun!Next, AbstractRun!Visit,
                                      AbstractRun!Running, CountBlock
    <2>3. CASE InvokeCall
      <3>. DEFINE x == NewFrame(Callee(Top.block), CalleeBudget(Top))
      <3>1. /\ Top.phase = "body" /\ ~crashed /\ crashed' = crashed
            /\ stack' = Append(stack, x)
            /\ budgetLost' = (budgetLost \/ CalleeBudget(Top) = UintMax)
            /\ UNCHANGED <<interpreted, sawEarly>>
        BY <2>3 DEF InvokeCall
      <3>2. RunOutcome = "running"
        BY <3>1 DEF RunOutcome
      <3>3. RunOutcome' = "running"
        <4>1. Len(stack') = n + 1
          BY <2>1, <3>1
        <4>2. QED
          BY <2>1, <3>1, <4>1 DEF RunOutcome
      <3>4. CASE budgetLost'
        BY <3>1, <3>2, <3>3, <3>4 DEF AbstractRun!Next, AbstractRun!LoseBudget,
                                      AbstractRun!Running
      <3>5. CASE ~budgetLost'
        <4>0. ~budgetLost
          BY <3>1, <3>5
        <4>1. budgetLost' = budgetLost
          BY <3>5, <4>0 DEF TypeOK
        <4>2. UNCHANGED AbstractRun!avars
          BY <3>1, <3>2, <3>3, <4>1 DEF AbstractRun!avars
        <4>3. QED
          BY <4>2
      <3>6. QED
        BY <3>4, <3>5
    <2>4. CASE StackOverflow
      <3>1. /\ Top.phase = "body" /\ ~crashed /\ crashed' = TRUE
            /\ UNCHANGED <<stack, interpreted, budgetLost, sawEarly>>
        BY <2>4 DEF StackOverflow
      <3>2. RunOutcome = "running" /\ RunOutcome' = "crashed"
        BY <3>1 DEF RunOutcome, Top
      <3>3. QED
        BY <3>1, <3>2 DEF AbstractRun!Next, AbstractRun!Crash, AbstractRun!Running
    <2>5. CASE CallReturned
      <3>. DEFINE f == stack[n - 1]
                  bv == UAdd(f.bvisited, Top.visited)
                  g == [f EXCEPT !.bvisited = bv, !.callsDone = @ + 1]
      <3>1. n > 1 /\ f \in Frame /\ Top.phase \in {"early", "done"}
        BY <2>5, <2>1 DEF CallReturned, TypeOK
      <3>2. bv \in Uint
        BY <2>1, <3>1, UintClosed DEF Frame
      <3>3. g \in Frame /\ g.phase = f.phase
        BY <3>1, <3>2, ResumeFrame
      <3>4. f.phase = "body" /\ ~crashed
        BY <3>1 DEF RInv, CallersBody, CrashedInBody
      <3>. HIDE DEF g
      <3>5. /\ stack' = [SubSeq(stack, 1, n - 1) EXCEPT ![n - 1] = g]
            /\ UNCHANGED <<crashed, interpreted, budgetLost, sawEarly>>
        BY <2>5 DEF CallReturned, g
      <3>6. Len(stack') = n - 1 /\ stack'[n - 1] = g
        BY <2>1, <3>1, <3>3, <3>5, PopReplace, PopReplaceElem
      <3>7. RunOutcome = "running" /\ RunOutcome' = "running"
        BY <3>1, <3>3, <3>4, <3>5, <3>6 DEF RunOutcome, Top
      <3>8. QED
        BY <3>5, <3>7 DEF AbstractRun!avars
    <2>6. CASE CallTruncated
      <3>. DEFINE f == stack[n - 1]
                  bv == UAdd(f.bvisited, Top.visited)
                  g == EndBlock(f, bv, TRUE, NoBlock)
      <3>1. n > 1 /\ f \in Frame /\ Top.phase \in {"early", "done"}
        BY <2>6, <2>1 DEF CallTruncated, TypeOK
      <3>2. bv \in Uint
        BY <2>1, <3>1, UintClosed DEF Frame
      <3>3. g \in Frame /\ g.phase = "early"
        BY <3>1, <3>2, EndBlockType, EndBlockEarly
      <3>4. ~crashed
        BY <3>1 DEF RInv, CrashedInBody
      <3>. HIDE DEF g
      <3>5. /\ stack' = [SubSeq(stack, 1, n - 1) EXCEPT ![n - 1] = g]
            /\ sawEarly' = TRUE
            /\ UNCHANGED <<crashed, interpreted, budgetLost>>
        BY <2>6 DEF CallTruncated, g
      <3>6. Len(stack') = n - 1 /\ stack'[n - 1] = g
        BY <2>1, <3>1, <3>3, <3>5, PopReplace, PopReplaceElem
      <3>7. RunOutcome = "running"
        BY <3>1, <3>4 DEF RunOutcome, Top
      <3>8. CASE n = 2
        <4>1. RunOutcome' = "truncated"
          BY <3>3, <3>4, <3>5, <3>6, <3>8 DEF RunOutcome, Top
        <4>2. QED
          BY <3>5, <3>7, <4>1 DEF AbstractRun!Next, AbstractRun!EndTruncated,
                                  AbstractRun!Running
      <3>9. CASE n # 2
        <4>1. RunOutcome' = "running"
          BY <3>1, <3>4, <3>5, <3>6, <3>9 DEF RunOutcome
        <4>2. QED
          BY <3>5, <3>7, <4>1 DEF AbstractRun!Next, AbstractRun!Truncate,
                                  AbstractRun!Running
      <3>10. QED
        BY <3>8, <3>9
    <2>7. CASE Terminate
      <3>1. PICK next \in NextBlocks(Top.block) :
                stack' = [stack EXCEPT ![n] = EndBlock(Top, Top.bvisited, FALSE, next)]
        BY <2>7 DEF Terminate
      <3>. DEFINE g == EndBlock(Top, Top.bvisited, FALSE, next)
      <3>2. g \in Frame /\ g.phase \in {"early", "done", "enter"}
        BY <2>1, NextBlocksType, EndBlockType, EndBlockPhase DEF Frame
      <3>. HIDE DEF g
      <3>3. /\ Top.phase = "body" /\ ~crashed /\ crashed' = crashed
            /\ stack' = [stack EXCEPT ![n] = g]
            /\ UNCHANGED <<interpreted, budgetLost>>
        BY <2>7, <3>1 DEF Terminate, g
      <3>4. Len(stack') = n /\ stack'[n] = g
        BY <2>1, <3>2, <3>3, ReplaceTop, ReplaceTopElem
      <3>5. ~sawEarly /\ sawEarly' = (g.phase = "early")
        <4>1. ~sawEarly
          BY <3>3 DEF EarlyOnTop
        <4>2. sawEarly' = (sawEarly \/ stack'[n].phase = "early")
          BY <2>7 DEF Terminate
        <4>3. QED
          BY <3>4, <4>1, <4>2
      <3>6. RunOutcome = "running"
        BY <3>3 DEF RunOutcome
      <3>7. CASE g.phase = "early" /\ n = 1
        <4>1. RunOutcome' = "truncated"
          BY <3>3, <3>4, <3>7 DEF RunOutcome, Top
        <4>2. QED
          BY <3>3, <3>5, <3>6, <3>7, <4>1
             DEF AbstractRun!Next, AbstractRun!EndTruncated, AbstractRun!Running
      <3>8. CASE g.phase = "early" /\ n # 1
        <4>1. RunOutcome' = "running"
          BY <3>3, <3>4, <3>8 DEF RunOutcome
        <4>2. QED
          BY <3>3, <3>5, <3>6, <3>8, <4>1
             DEF AbstractRun!Next, AbstractRun!Truncate, AbstractRun!Running
      <3>9. CASE g.phase = "done" /\ n = 1
        <4>1. RunOutcome' = "complete"
          BY <3>3, <3>4, <3>9 DEF RunOutcome, Top
        <4>0. ~sawEarly'
          BY <3>5, <3>9
        <4>2. sawEarly' = sawEarly
          BY <3>5, <4>0 DEF TypeOK
        <4>3. AbstractRun!Complete
          BY <3>3, <3>5, <3>6, <4>1, <4>2 DEF AbstractRun!Complete, AbstractRun!Running
        <4>4. QED
          BY <4>3 DEF AbstractRun!Next
      <3>10. CASE (g.phase = "done" /\ n # 1) \/ g.phase = "enter"
        <4>1. RunOutcome' = "running"
          BY <3>3, <3>4, <3>10 DEF RunOutcome, Top
        <4>0. ~sawEarly'
          BY <3>5, <3>10
        <4>2. sawEarly' = sawEarly
          BY <3>5, <4>0 DEF TypeOK
        <4>3. UNCHANGED AbstractRun!avars
          BY <3>3, <3>6, <4>1, <4>2 DEF AbstractRun!avars
        <4>4. QED
          BY <4>3
      <3>11. QED
        BY <3>2, <3>7, <3>8, <3>9, <3>10
    <2>8. CASE UNCHANGED vars
      BY <2>8 DEF vars, AbstractRun!avars, RunOutcome, Top
    <2>9. QED
      BY <2>2, <2>3, <2>4, <2>5, <2>6, <2>7, <2>8 DEF Next
  <1>3. QED
    BY <1>1, <1>2, TypeCorrect, BudgetInvariant, EarlyOnTopInvariant, StackShape,
       PTL DEF Spec, ImplementsBudgetedRun, AbstractRun!Spec

=============================================================================
