-------------------------------- MODULE Heap --------------------------------
(***************************************************************************)
(* The heap of the interpreter (Interpreter.cpp, the LoadInst and         *)
(* StoreInst branches of interpretInstruction).  The heap is a map from   *)
(* addresses to integers; `dom` is its key set and `heap` its values (a   *)
(* cell outside `dom` holds nothing, its value in `heap` is irrelevant).  *)
(*                                                                         *)
(* In bounded mode (BoundedFlag) a cell is a byte: a load of width w       *)
(* reads w/8 cells and a store of width w > 8 runs the loop               *)
(*     for (; bytes >= 0; --bytes) heap[addr + bytes] = trunc8(bval),      *)
(*     bval = ashr(bval, 8)                                                *)
(* In unbounded mode a cell holds a whole value.  Addresses are small      *)
(* naturals; a bounded value of width w is its unsigned APInt encoding.    *)
(***************************************************************************)
EXTENDS Integers

CONSTANTS
    Bounded,    \* the global BoundedFlag
    Addrs,      \* the addresses a load or store may resolve to
    Widths,     \* the integer bit widths of loaded and stored values
    StoreVals,  \* StoreVals[w]: the values of width w a store may write
    MaxAddr     \* the highest cell an access can touch

ASSUME HeapAssumption ==
    /\ Bounded \in BOOLEAN
    /\ Widths \subseteq {8, 16, 32, 64}
    /\ StoreVals \in [Widths -> SUBSET Int]
    /\ Bounded => \A w \in Widths : StoreVals[w] \subseteq 0..(2^w - 1)
    /\ MaxAddr \in Nat
    /\ \A a \in Addrs, w \in Widths : a \in Nat /\ a + w \div 8 <= MaxAddr

\* Arithmetic of the powers of two up to a width, true of every width and
\* stated because the provers evaluate no power above 2^32.
ASSUME WidthPowers ==
    \A w \in Widths : \A n \in 0..w :
        2^n \in Nat \ {0} /\ (n >= 8 => 2^n = 256 * 2^(n - 8))

VARIABLES
    heap,           \* cell -> value
    dom,            \* the cells present in the map
    lastStore       \* the store just executed, or NoAccess

vars == <<heap, dom, lastStore>>

Cells == 0..MaxAddr
NoAccess == [addr |-> -1, width |-> 0, val |-> 0]
Access == [addr : Addrs, width : Widths, val : Int]

(***************************************************************************)
(* Fixed-width arithmetic of llvm::APInt on the unsigned encoding.         *)
(***************************************************************************)
Signed(v, w) == IF v >= 2^(w - 1) THEN v - 2^w ELSE v

\* A store that forgets to truncate to a byte (bval.trunc(8) dropped).
StoredByteUntruncated(v, w, j) == Signed(v, w) \div 2^(8 * j)

\* The byte the store loop writes after j arithmetic shifts of bval.
StoredByte(v, w, j) == (Signed(v, w) \div 2^(8 * j)) % 256

\* (val << 8) | byte.sextOrSelf(w): the sign extension of a byte >= 128
\* sets every bit above it, so the accumulator's high bits are lost.
Combine(acc, b, w) ==
    IF b >= 128 THEN 2^w - 256 + b ELSE ((acc * 256) % 2^w) + b

(***************************************************************************)
(* The cells a load of width w at a touches, and the value it assembles   *)
(* from a heap in which all of them are present.                           *)
(***************************************************************************)
LoadCells(a, w) == IF Bounded THEN a..(a + w \div 8 - 1) ELSE {a}

LoadValue(h, a, w) ==
    IF Bounded
    THEN LET acc[i \in 0..(w \div 8)] ==
                 IF i = 0 THEN 0 ELSE Combine(acc[i - 1], h[a + i - 1], w)
         IN  acc[w \div 8]
    ELSE h[a]

\* A load that overwrites present cells with zero (operator[] = 0).
ZeroFillOverwrite(h, d, cs) == [c \in Cells |-> IF c \in cs THEN 0 ELSE h[c]]

\* heap.insert(make_pair(c, 0)): a zero cell only where none is present.
ZeroFill(h, d, cs) == [c \in Cells |-> IF c \in cs \ d THEN 0 ELSE h[c]]

(***************************************************************************)
(* The values a store of width w at a leaves in the cells it writes.      *)
(***************************************************************************)
\* A store without the bytes == 1 special case.
StoreCellsNoByteCase(a, w) == IF Bounded THEN a..(a + w \div 8) ELSE {a}

StoreCells(a, w) ==
    IF Bounded /\ w \div 8 # 1 THEN a..(a + w \div 8) ELSE {a}

StoreImage(h, a, w, v) ==
    [c \in Cells |->
        IF c \notin StoreCells(a, w) THEN h[c]
        ELSE IF StoreCells(a, w) = {a} THEN v
        ELSE StoredByte(v, w, w \div 8 - (c - a))]

Init ==
    /\ heap = [c \in Cells |-> 0]
    /\ dom = {}
    /\ lastStore = NoAccess

(***************************************************************************)
(* LoadInst: insert zero cells where absent, then assemble the value.     *)
(***************************************************************************)
Load(a, w) ==
    LET cs == LoadCells(a, w)
        h  == ZeroFill(heap, dom, cs)
    IN  /\ heap' = h
        /\ dom' = dom \cup cs
        /\ lastStore' = NoAccess

(***************************************************************************)
(* StoreInst: overwrite the cells of the value.                           *)
(***************************************************************************)
Store(a, w, v) ==
    /\ heap' = StoreImage(heap, a, w, v)
    /\ dom' = dom \cup StoreCells(a, w)
    /\ lastStore' = [addr |-> a, width |-> w, val |-> v]

Next ==
    \E a \in Addrs, w \in Widths :
        \/ Load(a, w)
        \/ \E v \in StoreVals[w] : Store(a, w, v)

Spec == Init /\ [][Next]_vars

-----------------------------------------------------------------------------
(***************************************************************************)
(* Type invariant: in bounded mode every cell holds a byte, and a load   *)
(* of width w, wherever it is done now, yields a w-bit value.              *)
(***************************************************************************)
TypeOK ==
    /\ dom \subseteq Cells
    /\ heap \in [Cells -> Int]
    /\ Bounded => \A c \in dom : heap[c] \in 0..255
    /\ Bounded => \A a \in Addrs, w \in Widths :
                     LoadValue(ZeroFill(heap, dom, LoadCells(a, w)), a, w)
                         \in 0..(2^w - 1)
    /\ lastStore \in Access \cup {NoAccess}

(***************************************************************************)
(* The round-trip law for bytes, the one width where bounded mode keeps   *)
(* it: a byte store followed by a byte load of the same address returns  *)
(* the stored byte, whatever wider stores and loads of overlapping cells  *)
(* came before (StoreInst's bytes == 1 case, LoadInst's loop of one).     *)
(***************************************************************************)
ByteRoundTrip ==
    lastStore.width = 8 =>
        LoadValue(ZeroFill(heap, dom, LoadCells(lastStore.addr, 8)),
                  lastStore.addr, 8) = lastStore.val

(***************************************************************************)
(* The round-trip law (spec 8): a store followed by a load of the same    *)
(* address and width returns the stored value.                            *)
(***************************************************************************)
StoreLoadRoundTrip ==
    lastStore # NoAccess =>
        LoadValue(ZeroFill(heap, dom, LoadCells(lastStore.addr, lastStore.width)),
                  lastStore.addr, lastStore.width) = lastStore.val

=============================================================================
