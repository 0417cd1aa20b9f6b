-------------------------------- MODULE Block -------------------------------
(***************************************************************************)
(* One function interpreted block by block at the level of its bindings   *)
(* (Interpreter.cpp: interpretFunction's loop, interpretBlock without     *)
(* calls, interpretPHI, interpretInstruction, interpretTerminator and     *)
(* resolveValue).  The call and budget arithmetic are in Interpreter.tla  *)
(* and the heap in Heap.tla: here a load yields any integer and a store   *)
(* leaves the bindings alone.  A value is a tagged record; integers are   *)
(* the unsigned encodings of Width-bit APInts.                             *)
(***************************************************************************)
EXTENDS Integers, Sequences

CONSTANTS
    Blocks, Entry, NoBlock,  \* the function's blocks and its entry block
    Refs,                    \* the value references (results, arguments)
    ConstVal,                \* the constants among them, with their values
    ReturnName,              \* the sentinel reference of the return value
    NullKey,                 \* the key nullptr (a null Value pointer)
    Phis, Body, Term,        \* per block: PHIs, other instructions, terminator
    Args,                    \* the possible bindings of the entry state
    Width, Budget            \* the integer width; maxSteps

Int_(n) == [t |-> "int", v |-> n]
Bool_(b) == [t |-> "bool", v |-> IF b THEN 1 ELSE 0]
Unbound == [t |-> "none", v |-> 0]
IntVals == {Int_(n) : n \in 0..(2^Width - 1)}
Vals == IntVals \cup {Bool_(TRUE), Bool_(FALSE)}
Keys == Refs \cup {ReturnName, NullKey}

\* The instruction and terminator kinds the model distinguishes; "and1" is
\* an i1 binary operator other than or (the default of interpretBoolBinOp),
\* "other" whatever interpretInstruction or interpretTerminator only logs.
InstrKinds == {"load", "add", "or", "and1", "eq", "slt", "zext1", "select",
               "inttoptr", "store", "other"}
TermKinds == {"br", "condbr", "switch", "ret", "other"}

(***************************************************************************)
(* The function is well formed, as LLVM's verifier and interpretTerminator *)
(* asserts guarantee: operands and results are references, every PHI has  *)
(* an incoming reference for each predecessor, constants and arguments    *)
(* are values of the width, an unconditional branch has one successor and *)
(* a conditional one two, and a switch's cases and default are blocks.    *)
(***************************************************************************)
ASSUME BlockAssumption ==
    /\ Width \in Nat \ {0} /\ Budget \in Nat
    /\ Entry \in Blocks
    /\ DOMAIN ConstVal \subseteq Refs
    /\ \A r \in DOMAIN ConstVal : ConstVal[r] \in Vals
    /\ \A a \in Args : \A r \in DOMAIN a : a[r] \in Vals
    /\ Phis \in [Blocks -> Seq([dst : Refs, inc : [Blocks \cup {NoBlock} -> Refs]])]
    /\ Body \in [Blocks -> Seq([kind : InstrKinds, dst : Refs,
                                a : Refs, b : Refs, c : Refs])]
    /\ Term \in [Blocks -> [kind : TermKinds, a : Refs, succs : Seq(Blocks),
                            cases : Seq([val : Int, succ : Blocks]),
                            dflt : Blocks \cup {NoBlock}]]
    /\ \A bl \in Blocks :
           /\ Term[bl].kind = "br" => Len(Term[bl].succs) >= 1
           /\ Term[bl].kind = "condbr" => Len(Term[bl].succs) >= 2

\* 2^Width is at least 2 (so a bool's 0 or 1 is an integer of the width):
\* true of every Width >= 1, and stated because the provers evaluate no
\* power of a symbolic exponent.
ASSUME WidthPower == 2^Width \in Nat /\ 2^Width >= 2

VARIABLES
    env,        \* FastState::variables: key -> value or Unbound
    block,      \* currentBlock
    prev,       \* prevBlock
    phase,      \* "phi", "body", "term", "done", "early" or "crashed"
    i,          \* the instruction iterator within the phase
    visited,    \* blocksVisited
    steps,      \* the recorded BlockSteps: block and state snapshot
    entryEnv,   \* history: the bindings when the block was entered
    swallowed   \* history: an unsupported construct was only logged

vars == <<env, block, prev, phase, i, visited, steps, entryEnv, swallowed>>

(***************************************************************************)
(* resolveValue: a constant is its value; anything else is looked up with *)
(* variables.at, which throws for an unbound reference.                   *)
(***************************************************************************)
Resolve(r) == IF r \in DOMAIN ConstVal THEN ConstVal[r] ELSE env[r]
Bound(r) == Resolve(r) # Unbound

\* An addition that does not wrap at the width.
WrapMissing(n) == n

\* APInt arithmetic wraps modulo 2^Width.
Wrap(n) == n % 2^Width

Signed(n) == IF n >= 2^(Width - 1) THEN n - 2^Width ELSE n

(***************************************************************************)
(* The value of a non-call instruction (interpretBinOp, interpretICmpInst, *)
(* the bool-to-int cast, SelectInst) from its resolved operands.           *)
(***************************************************************************)
Eval(ins) ==
    LET a == Resolve(ins.a)  b == Resolve(ins.b)  c == Resolve(ins.c) IN
    CASE ins.kind = "add"  -> Int_(Wrap(a.v + b.v))
      [] ins.kind = "or"   -> Bool_(a.v = 1 \/ b.v = 1)
      [] ins.kind = "and1" -> Bool_(FALSE)
      [] ins.kind = "eq"   -> Bool_(a.v = b.v)
      [] ins.kind = "slt"  -> Bool_(Signed(a.v) < Signed(b.v))
      [] ins.kind = "zext1" -> Int_(a.v)
      [] ins.kind = "select" -> IF a.v = 1 THEN b ELSE c

\* The operands an instruction resolves: select resolves its condition and
\* then only the value it chooses; a store its value (a) and pointer (b).
Operands(ins) ==
    CASE ins.kind \in {"add", "or", "and1", "eq", "slt", "store"} -> {ins.a, ins.b}
      [] ins.kind = "select" ->
             {ins.a, IF Resolve(ins.a).v = 1 THEN ins.b ELSE ins.c}
      [] ins.kind \in {"zext1", "inttoptr", "load"} -> {ins.a}
      [] OTHER -> {}

\* An operand can be read: resolveValue knows constants, but the bool-to-int
\* cast reads its operand with variables.at, which does not.
Readable(ins, r) ==
    IF ins.kind = "zext1" THEN r \notin DOMAIN ConstVal /\ env[r] # Unbound
    ELSE Bound(r)

(***************************************************************************)
(* A switch: the reference (the least case index whose value matches) and *)
(* the code's scan of the cases in order.                                 *)
(***************************************************************************)
FirstCaseRef(cases, v, dflt) ==
    LET hits == {k \in DOMAIN cases : cases[k].val = v}
    IN  IF hits = {} THEN dflt
        ELSE cases[CHOOSE k \in hits : \A j \in hits : k <= j].succ

\* A scan whose loop stops one case short of the end.
ScanStopsEarly(cases, v, dflt) ==
    LET scan[k \in 1..(Len(cases) + 1)] ==
            IF k >= Len(cases) THEN dflt
            ELSE IF cases[k].val = v THEN cases[k].succ ELSE scan[k + 1]
    IN  scan[1]

ScanCases(cases, v, dflt) ==
    LET scan[k \in 1..(Len(cases) + 1)] ==
            IF k > Len(cases) THEN dflt
            ELSE IF cases[k].val = v THEN cases[k].succ ELSE scan[k + 1]
    IN  scan[1]

\* interpretTerminator's successor (NoBlock for a return or unsupported one).
NextBlock(t) ==
    CASE t.kind = "br"     -> t.succs[1]
      [] t.kind = "condbr" -> IF Resolve(t.a).v = 1 THEN t.succs[1] ELSE t.succs[2]
      [] t.kind = "switch" -> ScanCases(t.cases, Resolve(t.a).v, t.dflt)
      [] OTHER             -> NoBlock

Init ==
    /\ \E a \in Args :
           env = [k \in Keys |-> IF k \in DOMAIN a THEN a[k] ELSE Unbound]
    /\ block = Entry /\ prev = NoBlock
    /\ phase = "phi" /\ i = 1
    /\ visited = 0
    /\ steps = <<>>
    /\ entryEnv = env
    /\ swallowed = FALSE

(***************************************************************************)
(* interpretPHI: bind the PHI to its incoming value for prevBlock, in the *)
(* order the PHIs appear, each seeing the bindings of those before it.   *)
(***************************************************************************)
Phi ==
    /\ phase = "phi" /\ i <= Len(Phis[block])
    /\ LET p == Phis[block][i] IN
         /\ Bound(p.inc[prev])
         /\ env' = [env EXCEPT ![p.dst] = Resolve(p.inc[prev])]
    /\ i' = i + 1
    /\ UNCHANGED <<block, prev, phase, visited, steps, entryEnv, swallowed>>

\* FastState step(state): the snapshot after the PHIs.
Snapshot ==
    /\ phase = "phi" /\ i > Len(Phis[block])
    /\ steps' = Append(steps, [block |-> block, state |-> env])
    /\ phase' = "body" /\ i' = 1
    /\ UNCHANGED <<env, block, prev, visited, entryEnv, swallowed>>

(***************************************************************************)
(* interpretInstruction for the instruction at i (its operands readable).*)
(* IntToPtr stores its result under state.variables[ptrToInt], where     *)
(* ptrToInt is the failed dyn_cast<PtrToIntInst>, i.e. nullptr.           *)
(***************************************************************************)
Instr ==
    /\ phase = "body" /\ i <= Len(Body[block])
    /\ LET ins == Body[block][i] IN
         /\ \A r \in Operands(ins) : Readable(ins, r)
         /\ CASE ins.kind = "load" ->
                     \E v \in IntVals : env' = [env EXCEPT ![ins.dst] = v]
              [] ins.kind = "inttoptr" ->
                     env' = [env EXCEPT ![NullKey] = Int_(Resolve(ins.a).v)]
              [] ins.kind \in {"store", "other"} -> UNCHANGED env
              [] OTHER -> env' = [env EXCEPT ![ins.dst] = Eval(ins)]
         /\ swallowed' = (swallowed \/ ins.kind = "other")
    /\ i' = i + 1
    /\ UNCHANGED <<block, prev, phase, visited, steps, entryEnv>>

(***************************************************************************)
(* variables.at on an unbound operand throws: the interpretation aborts. *)
(***************************************************************************)
UnboundUse ==
    /\ \/ phase = "phi" /\ i <= Len(Phis[block])
          /\ ~Bound(Phis[block][i].inc[prev])
       \/ phase = "body" /\ i <= Len(Body[block])
          /\ \E r \in Operands(Body[block][i]) : ~Readable(Body[block][i], r)
       \/ phase = "body" /\ i > Len(Body[block])
          /\ Term[block].kind \in {"ret", "condbr", "switch"} /\ ~Bound(Term[block].a)
    /\ phase' = "crashed"
    /\ UNCHANGED <<env, block, prev, i, visited, steps, entryEnv, swallowed>>

(***************************************************************************)
(* interpretTerminator, then interpretFunction's blocksVisited += 1 and  *)
(* its check: stop early past maxSteps, stop at no successor, else go on.*)
(***************************************************************************)
Terminator ==
    /\ phase = "body" /\ i > Len(Body[block])
    /\ LET t == Term[block]
           nb == NextBlock(t) IN
         /\ t.kind \in {"ret", "condbr", "switch"} => Bound(t.a)
         /\ env' = IF t.kind = "ret" THEN [env EXCEPT ![ReturnName] = Resolve(t.a)]
                   ELSE env
         /\ swallowed' = (swallowed \/ t.kind = "other")
         /\ visited' = visited + 1
         /\ prev' = block
         /\ block' = nb
         /\ phase' = IF visited + 1 > Budget THEN "early"
                     ELSE IF nb = NoBlock THEN "done" ELSE "phi"
         /\ i' = 1
         /\ entryEnv' = env'
    /\ UNCHANGED steps

Next == Phi \/ Snapshot \/ Instr \/ UnboundUse \/ Terminator

Spec == Init /\ [][Next]_vars

Halted == phase \in {"done", "early", "crashed"}

-----------------------------------------------------------------------------
(***************************************************************************)
(* Type invariant.                                                         *)
(***************************************************************************)
TypeOK ==
    /\ env \in [Keys -> Vals \cup {Unbound}]
    /\ block \in Blocks \cup {NoBlock} /\ prev \in Blocks \cup {NoBlock}
    /\ phase \in {"phi", "body", "done", "early", "crashed"}
    /\ i \in Nat \ {0} /\ visited \in 0..Budget + 1
    /\ steps \in Seq([block : Blocks, state : [Keys -> Vals \cup {Unbound}]])
    /\ swallowed \in BOOLEAN

(***************************************************************************)
(* A switch goes to the successor of the first case, in declared order,   *)
(* whose constant equals the scrutinee, and to the default if none does  *)
(* (spec 8).                                                               *)
(***************************************************************************)
SwitchFirstMatch ==
    [][Terminator /\ Term[block].kind = "switch" =>
         block' = FirstCaseRef(Term[block].cases, Resolve(Term[block].a).v,
                               Term[block].dflt)]_vars

(***************************************************************************)
(* The PHIs of a block read their incoming values as they were when the   *)
(* block was entered: once the PHIs are done, each holds the value its    *)
(* incoming reference for prevBlock had on entry (LLVM's simultaneous     *)
(* PHI semantics, which a loop that swaps two values relies on).          *)
(***************************************************************************)
ValueOnEntry(r) == IF r \in DOMAIN ConstVal THEN ConstVal[r] ELSE entryEnv[r]

PhisParallel ==
    phase = "body" =>
        \A k \in 1..Len(Phis[block]) :
            env[Phis[block][k].dst] = ValueOnEntry(Phis[block][k].inc[prev])

(***************************************************************************)
(* Every instruction with a result binds its own reference, so that a     *)
(* later use resolves (spec 3: bindings are per Value reference).         *)
(***************************************************************************)
ResultsBound ==
    phase = "body" =>
        \A k \in 1..(i - 1) :
            Body[block][k].kind \notin {"store", "other"} =>
                env[Body[block][k].dst] # Unbound

(***************************************************************************)
(* An unsupported instruction or terminator aborts the interpretation     *)
(* (spec 7: fatal, "no condition in this core is silently swallowed").    *)
(***************************************************************************)
UnsupportedIsFatal == swallowed => phase = "crashed"
=============================================================================
