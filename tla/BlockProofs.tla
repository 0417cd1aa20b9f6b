----------------------------- MODULE BlockProofs -----------------------------
(***************************************************************************)
(* Proofs about Block.tla, for every well-formed function (BlockAssumption),*)
(* width and budget: the switch scan of interpretTerminator is the first-  *)
(* match reference, and every reachable state is well typed.              *)
(***************************************************************************)
EXTENDS Block, NatLemmas, SequenceTheorems, TLAPS

-----------------------------------------------------------------------------
(***************************************************************************)
(* The switch scan.  Hits(k) are the matching case indices from k on, and *)
(* FirstFrom(k) is where a scan that starts at case k goes: the first of   *)
(* them, or the default.  ScanBody is the body of ScanCases's recursive    *)
(* function scan.                                                          *)
(***************************************************************************)
Hits(cases, v, k) == {j \in k..Len(cases) : cases[j].val = v}

FirstFrom(cases, v, dflt, k) ==
    IF Hits(cases, v, k) = {} THEN dflt
    ELSE cases[CHOOSE j \in Hits(cases, v, k) : \A m \in Hits(cases, v, k) : j <= m].succ

ScanBody(s, cases, v, dflt) ==
    [k \in 1..(Len(cases) + 1) |->
        IF k > Len(cases) THEN dflt
        ELSE IF cases[k].val = v THEN cases[k].succ ELSE s[k + 1]]

\* Past the last case the scan yields the default.
LEMMA FirstEnd ==
    ASSUME NEW C, NEW cases \in Seq(C), NEW v, NEW dflt
    PROVE  FirstFrom(cases, v, dflt, Len(cases) + 1) = dflt
<1>1. Hits(cases, v, Len(cases) + 1) = {}
  BY DEF Hits
<1>. QED  BY <1>1 DEF FirstFrom

\* At case k the scan takes the case if it matches and else goes on at k+1.
LEMMA FirstStep ==
    ASSUME NEW C, NEW cases \in Seq(C), NEW v, NEW dflt,
           NEW k \in 1..Len(cases)
    PROVE  FirstFrom(cases, v, dflt, k) =
               IF cases[k].val = v THEN cases[k].succ
               ELSE FirstFrom(cases, v, dflt, k + 1)
<1>1. CASE cases[k].val = v
  <2>. DEFINE H == Hits(cases, v, k)
              j0 == CHOOSE j \in H : \A m \in H : j <= m
  <2>1. k \in H /\ \A m \in H : k <= m
    BY <1>1 DEF Hits
  <2>2. j0 \in H /\ \A m \in H : j0 <= m
    BY <2>1
  <2>3. j0 = k
    BY <2>1, <2>2 DEF Hits
  <2>. QED  BY <1>1, <2>1, <2>3 DEF FirstFrom
<1>2. CASE cases[k].val # v
  <2>1. Hits(cases, v, k) = Hits(cases, v, k + 1)
    BY <1>2 DEF Hits
  <2>. QED  BY <1>2, <2>1 DEF FirstFrom
<1>. QED  BY <1>1, <1>2

\* The closed form solves scan's defining equation.
LEMMA ScanSolution ==
    ASSUME NEW C, NEW cases \in Seq(C), NEW v, NEW dflt
    PROVE  LET W == [k \in 1..(Len(cases) + 1) |-> FirstFrom(cases, v, dflt, k)]
           IN  W = ScanBody(W, cases, v, dflt)
<1>. DEFINE W == [k \in 1..(Len(cases) + 1) |-> FirstFrom(cases, v, dflt, k)]
<1>1. ASSUME NEW k \in 1..(Len(cases) + 1)
      PROVE  W[k] = ScanBody(W, cases, v, dflt)[k]
  <2>1. CASE k = Len(cases) + 1
    BY <2>1, FirstEnd DEF ScanBody
  <2>2. CASE k \in 1..Len(cases)
    BY <2>2, FirstStep DEF ScanBody
  <2>. QED  BY <2>1, <2>2
<1>. QED  BY <1>1 DEF ScanBody

\* Every solution of scan's defining equation is the closed form: a
\* greatest index where one differed would differ at the next as well.
LEMMA ScanUnique ==
    ASSUME NEW C, NEW cases \in Seq(C), NEW v, NEW dflt,
           NEW s, s = ScanBody(s, cases, v, dflt)
    PROVE  \A k \in 1..(Len(cases) + 1) : s[k] = FirstFrom(cases, v, dflt, k)
<1>. DEFINE L == Len(cases)
            Bad == {k \in 1..(L + 1) : s[k] # FirstFrom(cases, v, dflt, k)}
            D == {L + 1 - k : k \in Bad}
<1>. SUFFICES ASSUME Bad # {} PROVE FALSE
  OBVIOUS
<1>1. L \in Nat
  OBVIOUS
<1>2. D \in SUBSET Nat /\ D # {}
  BY <1>1
<1>3. PICK d \in D : \A e \in D : d <= e
  BY <1>2, LeastExists
<1>. DEFINE k0 == L + 1 - d
<1>4. k0 \in Bad /\ \A k \in Bad : k <= k0
  <2>1. PICK kd \in Bad : d = L + 1 - kd
    BY <1>3
  <2>2. k0 = kd
    BY <1>1, <2>1
  <2>3. ASSUME NEW k \in Bad PROVE k <= k0
    <3>1. L + 1 - k \in D
      OBVIOUS
    <3>2. d <= L + 1 - k
      BY <1>3, <3>1
    <3>3. k \in 1..(L + 1)
      OBVIOUS
    <3>. QED  BY <1>1, <3>2, <3>3
  <2>. QED  BY <2>1, <2>2, <2>3
<1>5. CASE k0 = L + 1
  <2>1. s[k0] = dflt
    BY <1>5 DEF ScanBody
  <2>. QED  BY <1>4, <1>5, <2>1, FirstEnd
<1>6. CASE k0 \in 1..L
  <2>1. s[k0 + 1] = FirstFrom(cases, v, dflt, k0 + 1)
    BY <1>4, <1>6
  <2>2. s[k0] = IF cases[k0].val = v THEN cases[k0].succ ELSE s[k0 + 1]
    BY <1>6 DEF ScanBody
  <2>. QED  BY <1>4, <1>6, <2>1, <2>2, FirstStep
<1>. QED  BY <1>1, <1>4, <1>5, <1>6
(***************************************************************************)
(* interpretTerminator's scan of a switch's cases goes to the first case  *)
(* in declared order whose value matches, else to the default: the scan  *)
(* ScanCases is the reference FirstCaseRef, for every case list.          *)
(***************************************************************************)
LEMMA ScanIsFirst ==
    ASSUME NEW C, NEW cases \in Seq(C), NEW v, NEW dflt
    PROVE  ScanCases(cases, v, dflt) = FirstCaseRef(cases, v, dflt)
<1>. DEFINE scan == CHOOSE s : s = ScanBody(s, cases, v, dflt)
<1>1. ScanCases(cases, v, dflt) = scan[1]
  BY DEF ScanCases, ScanBody
<1>2. scan = ScanBody(scan, cases, v, dflt)
  <2>1. \E s : s = ScanBody(s, cases, v, dflt)
    BY ScanSolution
  <2>. QED  BY <2>1
<1>. HIDE DEF scan
<1>3. scan[1] = FirstFrom(cases, v, dflt, 1)
  <2>1. \A k \in 1..(Len(cases) + 1) : scan[k] = FirstFrom(cases, v, dflt, k)
    BY <1>2, ScanUnique
  <2>. QED  BY <2>1
<1>4. FirstFrom(cases, v, dflt, 1) = FirstCaseRef(cases, v, dflt)
  <2>. DEFINE H == Hits(cases, v, 1)
              hits == {k \in DOMAIN cases : cases[k].val = v}
  <2>1. H = hits
    BY DEF Hits
  <2>2. FirstFrom(cases, v, dflt, 1) =
            IF H = {} THEN dflt ELSE cases[CHOOSE j \in H : \A m \in H : j <= m].succ
    BY DEF FirstFrom
  <2>3. FirstCaseRef(cases, v, dflt) =
            IF hits = {} THEN dflt ELSE cases[CHOOSE j \in hits : \A m \in hits : j <= m].succ
    BY DEF FirstCaseRef
  <2>. HIDE DEF H, hits
  <2>. QED  BY <2>1, <2>2, <2>3
<1>. QED  BY <1>1, <1>3, <1>4

\* A switch over well-formed cases goes to a block or to no block.
LEMMA FirstCaseType ==
    ASSUME NEW cases \in Seq([val : Int, succ : Blocks]), NEW v,
           NEW dflt \in Blocks \cup {NoBlock}
    PROVE  FirstCaseRef(cases, v, dflt) \in Blocks \cup {NoBlock}
<1>. DEFINE hits == {k \in DOMAIN cases : cases[k].val = v}
<1>1. CASE hits = {}
  BY <1>1 DEF FirstCaseRef
<1>2. CASE hits # {}
  <2>1. hits \in SUBSET Nat
    OBVIOUS
  <2>2. \E k \in hits : \A j \in hits : k <= j
    BY <1>2, <2>1, LeastExists
  <2>3. (CHOOSE k \in hits : \A j \in hits : k <= j) \in DOMAIN cases
    BY <2>2
  <2>4. \A k \in DOMAIN cases : cases[k].succ \in Blocks
    <3>1. \A k \in DOMAIN cases : cases[k] \in [val : Int, succ : Blocks]
      BY LenProperties, ElementOfSeq
    <3>. QED  BY <3>1
  <2>5. FirstCaseRef(cases, v, dflt) =
            cases[CHOOSE k \in hits : \A j \in hits : k <= j].succ
    BY <1>2 DEF FirstCaseRef
  <2>. QED  BY <2>3, <2>4, <2>5
<1>. QED  BY <1>1, <1>2
-----------------------------------------------------------------------------
(***************************************************************************)
(* Type correctness.  TypeOK is not inductive by itself: a terminator     *)
(* bounds visited by Budget + 1 only because a running block has visited  *)
(* at most Budget (the budget check stops it before), and the PHIs,       *)
(* instructions and terminator are looked up at block, which is a block  *)
(* while the function runs.                                                *)
(***************************************************************************)
IInv ==
    /\ TypeOK
    /\ phase \in {"phi", "body"} => block \in Blocks /\ visited <= Budget

PhiRec == [dst : Refs, inc : [Blocks \cup {NoBlock} -> Refs]]
InstrRec == [kind : InstrKinds, dst : Refs, a : Refs, b : Refs, c : Refs]
CaseRec == [val : Int, succ : Blocks]
TermRec == [kind : TermKinds, a : Refs, succs : Seq(Blocks),
            cases : Seq(CaseRec), dflt : Blocks \cup {NoBlock}]

\* Every value carries a number of the width, and every number of the
\* width is an integer value.
LEMMA ValNum ==
    ASSUME NEW x \in Vals
    PROVE  x.v \in 0..(2^Width - 1)
  BY WidthPower DEF Vals, IntVals, Int_, Bool_

LEMMA IntVal ==
    ASSUME NEW n \in 0..(2^Width - 1)
    PROVE  Int_(n) \in Vals
  BY DEF Vals, IntVals

\* An operand the instruction can read (by resolveValue or variables.at)
\* is bound.
LEMMA ReadableBound ==
    ASSUME NEW ins, NEW r, Readable(ins, r)
    PROVE  Bound(r)
  BY DEF Readable, Bound, Resolve

\* resolveValue yields a value or Unbound, and a value once it is bound.
LEMMA ResolveType ==
    ASSUME TypeOK, NEW r \in Refs
    PROVE  /\ Resolve(r) \in Vals \cup {Unbound}
           /\ Bound(r) => Resolve(r) \in Vals
  BY BlockAssumption DEF Resolve, Bound, TypeOK, Keys

\* The PHI, instruction and terminator at a block are well formed.
LEMMA BlockCode ==
    ASSUME NEW bl \in Blocks
    PROVE  /\ Phis[bl] \in Seq(PhiRec)
           /\ Body[bl] \in Seq(InstrRec)
           /\ Term[bl] \in TermRec
           /\ Term[bl].kind = "br" => Len(Term[bl].succs) >= 1
           /\ Term[bl].kind = "condbr" => Len(Term[bl].succs) >= 2
  BY BlockAssumption DEF PhiRec, InstrRec, TermRec, CaseRec

\* interpretTerminator goes to a block of the function or to none.
LEMMA NextBlockType ==
    ASSUME NEW t \in TermRec,
           t.kind = "br" => Len(t.succs) >= 1,
           t.kind = "condbr" => Len(t.succs) >= 2
    PROVE  NextBlock(t) \in Blocks \cup {NoBlock}
<1>1. t.succs \in Seq(Blocks) /\ t.cases \in Seq(CaseRec)
      /\ t.dflt \in Blocks \cup {NoBlock}
  BY DEF TermRec
<1>2. CASE t.kind = "br"
  <2>1. t.succs[1] \in Blocks
    BY <1>1, <1>2, ElementOfSeq
  <2>. QED  BY <1>2, <2>1 DEF NextBlock
<1>3. CASE t.kind = "condbr"
  <2>1. t.succs[1] \in Blocks /\ t.succs[2] \in Blocks
    BY <1>1, <1>3, ElementOfSeq
  <2>. QED  BY <1>3, <2>1 DEF NextBlock
<1>4. CASE t.kind = "switch"
  <2>1. NextBlock(t) = ScanCases(t.cases, Resolve(t.a).v, t.dflt)
    BY <1>4 DEF NextBlock
  <2>2. ScanCases(t.cases, Resolve(t.a).v, t.dflt)
            = FirstCaseRef(t.cases, Resolve(t.a).v, t.dflt)
    BY <1>1, ScanIsFirst
  <2>3. FirstCaseRef(t.cases, Resolve(t.a).v, t.dflt) \in Blocks \cup {NoBlock}
    BY <1>1, FirstCaseType DEF CaseRec
  <2>. QED  BY <2>1, <2>2, <2>3
<1>5. CASE t.kind \notin {"br", "condbr", "switch"}
  BY <1>5 DEF NextBlock
<1>. QED  BY <1>2, <1>3, <1>4, <1>5
\* An instruction whose operands are bound computes a value (interpretBinOp,
\* interpretICmpInst, the bool-to-int cast and SelectInst).
LEMMA EvalType ==
    ASSUME TypeOK, NEW ins \in InstrRec,
           ins.kind \notin {"load", "inttoptr", "store", "other"},
           \A r \in Operands(ins) : Bound(r)
    PROVE  Eval(ins) \in Vals
<1>. DEFINE a == Resolve(ins.a)  b == Resolve(ins.b)  c == Resolve(ins.c)
<1>1. ins.kind \in {"add", "or", "and1", "eq", "slt", "zext1", "select"}
  BY DEF InstrRec, InstrKinds
<1>2. ins.a \in Refs /\ ins.b \in Refs /\ ins.c \in Refs
  BY DEF InstrRec
<1>3. a \in Vals
  BY <1>1, <1>2, ResolveType DEF Operands
<1>4. CASE ins.kind = "add"
  <2>1. b \in Vals
    BY <1>2, <1>4, ResolveType DEF Operands
  <2>2. Wrap(a.v + b.v) \in 0..(2^Width - 1)
    BY <1>3, <2>1, ValNum, WidthPower DEF Wrap
  <2>. QED  BY <1>4, <2>2, IntVal DEF Eval
<1>5. CASE ins.kind \in {"or", "and1", "eq", "slt"}
  BY <1>5 DEF Eval, Vals, Bool_
<1>6. CASE ins.kind = "zext1"
  BY <1>3, <1>6, ValNum, IntVal DEF Eval
<1>7. CASE ins.kind = "select"
  <2>1. CASE a.v = 1
    <3>1. b \in Vals
      BY <1>2, <1>7, <2>1, ResolveType DEF Operands
    <3>. QED  BY <1>7, <2>1, <3>1 DEF Eval
  <2>2. CASE a.v # 1
    <3>1. c \in Vals
      BY <1>2, <1>7, <2>2, ResolveType DEF Operands
    <3>. QED  BY <1>7, <2>2, <3>1 DEF Eval
  <2>. QED  BY <2>1, <2>2
<1>. QED  BY <1>1, <1>4, <1>5, <1>6, <1>7

\* The entry state is well typed.
LEMMA BlockInit == Init => IInv
<1>. SUFFICES ASSUME Init PROVE IInv
  OBVIOUS
<1>1. env \in [Keys -> Vals \cup {Unbound}]
  BY BlockAssumption DEF Init
<1>2. steps \in Seq([block : Blocks, state : [Keys -> Vals \cup {Unbound}]])
  BY DEF Init
<1>3. Budget \in Nat /\ Entry \in Blocks
  BY BlockAssumption
<1>4. swallowed \in BOOLEAN
  BY Zenon DEF Init
<1>5. /\ block \in Blocks \cup {NoBlock} /\ prev \in Blocks \cup {NoBlock}
      /\ phase \in {"phi", "body", "done", "early", "crashed"}
      /\ i \in Nat \ {0} /\ visited \in 0..Budget + 1
      /\ (phase \in {"phi", "body"} => block \in Blocks /\ visited <= Budget)
  BY <1>3 DEF Init
<1>. QED  BY <1>1, <1>2, <1>4, <1>5 DEF IInv, TypeOK
\* interpretPHI binds its result to the bound incoming value.
LEMMA PhiStep ==
    ASSUME IInv, Phi
    PROVE  IInv'
<1>1. block \in Blocks /\ i \in 1..Len(Phis[block])
  BY DEF Phi, IInv, TypeOK
<1>. DEFINE p == Phis[block][i]
<1>2. p \in PhiRec
  BY <1>1, BlockCode, ElementOfSeq
<1>3. p.inc[prev] \in Refs
  BY <1>2 DEF IInv, TypeOK, PhiRec
<1>4. Resolve(p.inc[prev]) \in Vals
  BY <1>3, ResolveType DEF Phi, IInv
<1>5. env' \in [Keys -> Vals \cup {Unbound}]
  BY <1>4 DEF Phi, IInv, TypeOK
<1>6. swallowed' \in BOOLEAN
  BY Zenon DEF Phi, IInv, TypeOK
<1>. QED  BY <1>5, <1>6 DEF Phi, IInv, TypeOK

\* The snapshot after the PHIs records the current block and bindings.
LEMMA SnapshotStep ==
    ASSUME IInv, Snapshot
    PROVE  IInv'
<1>. DEFINE S == [block : Blocks, state : [Keys -> Vals \cup {Unbound}]]
<1>1. [block |-> block, state |-> env] \in S
  BY DEF Snapshot, IInv, TypeOK
<1>2. steps' \in Seq(S)
  BY <1>1, AppendProperties DEF Snapshot, IInv, TypeOK
<1>3. swallowed' \in BOOLEAN
  BY Zenon DEF Snapshot, IInv, TypeOK
<1>. QED  BY <1>2, <1>3 DEF Snapshot, IInv, TypeOK

\* An unbound use only crashes the interpretation.
LEMMA UnboundUseStep ==
    ASSUME IInv, UnboundUse
    PROVE  IInv'
<1>1. swallowed' \in BOOLEAN
  BY Zenon DEF UnboundUse, IInv, TypeOK
<1>. QED  BY <1>1 DEF UnboundUse, IInv, TypeOK
\* interpretInstruction binds a value (a load any integer of the width,
\* IntToPtr under nullptr) or leaves the bindings alone.
LEMMA InstrStep ==
    ASSUME IInv, Instr
    PROVE  IInv'
<1>1. block \in Blocks /\ i \in 1..Len(Body[block])
  BY DEF Instr, IInv, TypeOK
<1>. DEFINE ins == Body[block][i]
<1>2. ins \in InstrRec
  BY <1>1, BlockCode, ElementOfSeq
<1>3. \A r \in Operands(ins) : Bound(r)
  <2>1. \A r \in Operands(ins) : Readable(ins, r)
    BY DEF Instr
  <2>. QED  BY <2>1, ReadableBound
<1>4. env' \in [Keys -> Vals \cup {Unbound}]
  <2>1. CASE ins.kind = "load"
    <3>1. PICK x \in IntVals : env' = [env EXCEPT ![ins.dst] = x]
      BY <2>1 DEF Instr
    <3>2. x \in Vals
      BY DEF Vals
    <3>. QED  BY <3>1, <3>2 DEF IInv, TypeOK
  <2>2. CASE ins.kind = "inttoptr"
    <3>1. Resolve(ins.a) \in Vals
      BY <1>2, <1>3, <2>2, ResolveType DEF Operands, InstrRec, IInv
    <3>2. Int_(Resolve(ins.a).v) \in Vals
      BY <3>1, ValNum, IntVal
    <3>3. env' = [env EXCEPT ![NullKey] = Int_(Resolve(ins.a).v)]
      BY <2>2 DEF Instr
    <3>. QED  BY <3>2, <3>3 DEF IInv, TypeOK
  <2>3. CASE ins.kind \in {"store", "other"}
    BY <2>3 DEF Instr, IInv, TypeOK
  <2>4. CASE ins.kind \notin {"load", "inttoptr", "store", "other"}
    <3>1. Eval(ins) \in Vals
      BY <1>2, <1>3, <2>4, EvalType DEF IInv
    <3>2. env' = [env EXCEPT ![ins.dst] = Eval(ins)]
      BY <2>4 DEF Instr
    <3>. QED  BY <3>1, <3>2 DEF IInv, TypeOK
  <2>. QED  BY <2>1, <2>2, <2>3, <2>4
<1>5. swallowed' \in BOOLEAN
  BY Zenon DEF Instr
<1>. QED  BY <1>4, <1>5 DEF Instr, IInv, TypeOK
\* interpretTerminator and interpretFunction's budget check: the next
\* block is a block of the function, and a block is only entered while
\* fewer than Budget blocks have been visited.
LEMMA TerminatorStep ==
    ASSUME IInv, Terminator
    PROVE  IInv'
<1>1. block \in Blocks /\ visited \in 0..Budget /\ Budget \in Nat
  BY BlockAssumption DEF Terminator, IInv, TypeOK
<1>. DEFINE t == Term[block]
            nb == NextBlock(t)
<1>2. t \in TermRec
  BY <1>1, BlockCode
<1>3. nb \in Blocks \cup {NoBlock}
  BY <1>1, <1>2, BlockCode, NextBlockType
<1>4. env' \in [Keys -> Vals \cup {Unbound}]
  <2>1. CASE t.kind = "ret"
    <3>1. Resolve(t.a) \in Vals
      BY <1>2, <2>1, ResolveType DEF Terminator, TermRec, IInv
    <3>. QED  BY <2>1, <3>1 DEF Terminator, IInv, TypeOK
  <2>2. CASE t.kind # "ret"
    BY <2>2 DEF Terminator, IInv, TypeOK
  <2>. QED  BY <2>1, <2>2
<1>5. visited' \in 0..Budget + 1
  BY <1>1 DEF Terminator
<1>6. phase' \in {"phi", "body"} => block' \in Blocks /\ visited' <= Budget
  BY <1>1, <1>3 DEF Terminator
<1>7. swallowed' \in BOOLEAN
  BY Zenon DEF Terminator
<1>. QED  BY <1>1, <1>3, <1>4, <1>5, <1>6, <1>7 DEF Terminator, IInv, TypeOK

\* Every step keeps the strengthened invariant.
LEMMA BlockStep == IInv /\ [Next]_vars => IInv'
<1>. SUFFICES ASSUME IInv, [Next]_vars PROVE IInv'
  OBVIOUS
<1>1. CASE Phi         BY <1>1, PhiStep
<1>2. CASE Snapshot    BY <1>2, SnapshotStep
<1>3. CASE Instr       BY <1>3, InstrStep
<1>4. CASE UnboundUse  BY <1>4, UnboundUseStep
<1>5. CASE Terminator  BY <1>5, TerminatorStep
<1>6. CASE UNCHANGED vars
  BY <1>6 DEF vars, IInv, TypeOK
<1>. QED  BY <1>1, <1>2, <1>3, <1>4, <1>5, <1>6 DEF Next

(***************************************************************************)
(* For every well-formed function, width and budget, every reachable      *)
(* state of the interpretation of a function's blocks is well typed:      *)
(* bindings are values of the width or unbound, the current and previous *)
(* blocks are blocks of the function (or none), at most Budget + 1 blocks *)
(* are visited, and the recorded BlockSteps are blocks with bindings.     *)
(***************************************************************************)
THEOREM BlockTypeCorrect == Spec => []TypeOK
<1>1. IInv => TypeOK
  BY DEF IInv
<1>. QED  BY <1>1, BlockInit, BlockStep, PTL DEF Spec

(***************************************************************************)
(* For every well-formed function, width and budget, interpretTerminator's *)
(* scan of a switch's cases goes to the successor of the first case, in    *)
(* declared order, whose value equals the condition, and to the default    *)
(* if none does: a later case with the same value never wins.              *)
(***************************************************************************)
THEOREM SwitchFirstMatchCorrect == Spec => SwitchFirstMatch
<1>1. IInv /\ [Next]_vars =>
          [Terminator /\ Term[block].kind = "switch" =>
               block' = FirstCaseRef(Term[block].cases, Resolve(Term[block].a).v,
                                     Term[block].dflt)]_vars
  <2>. SUFFICES ASSUME IInv, Terminator, Term[block].kind = "switch"
                PROVE  block' = FirstCaseRef(Term[block].cases,
                                             Resolve(Term[block].a).v,
                                             Term[block].dflt)
    OBVIOUS
  <2>1. block \in Blocks
    BY DEF Terminator, IInv
  <2>2. Term[block].cases \in Seq(CaseRec)
    BY <2>1, BlockCode DEF TermRec
  <2>3. block' = ScanCases(Term[block].cases, Resolve(Term[block].a).v,
                           Term[block].dflt)
    BY DEF Terminator, NextBlock
  <2>. QED  BY <2>2, <2>3, ScanIsFirst
<1>. QED  BY <1>1, BlockInit, BlockStep, PTL DEF Spec, SwitchFirstMatch
=============================================================================
