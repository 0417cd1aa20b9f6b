------------------------------ MODULE HeapProofs ------------------------------
(***************************************************************************)
(* Proofs about the heap model (Heap.tla): the bounded-mode heap holds     *)
(* bytes, every load yields a value of its width, and a byte store is      *)
(* read back by a byte load.                                               *)
(*                                                                         *)
(* LoadValue assembles a load with the recursive function acc, LoadInst's *)
(* loop over the w/8 cells.  The provers cannot instantiate the library's *)
(* induction theorems, but a width is at most 64 bits, so the loop runs   *)
(* at most 8 times: the proofs below extend a solution of acc's equation  *)
(* one cell at a time, at most 8 times.                                    *)
(***************************************************************************)
EXTENDS Heap, TLAPS

(***************************************************************************)
(* Arithmetic.                                                             *)
(***************************************************************************)
LEMMA DivMod ==
    ASSUME NEW a \in Int, NEW b \in Nat \ {0}
    PROVE  /\ a \div b \in Int /\ a % b \in 0..(b - 1)
           /\ a = b * (a \div b) + (a % b)
  OBVIOUS

\* A multiple of 256 modulo a multiple of 256 leaves room for a byte.
LEMMA ShiftedMod ==
    ASSUME NEW x \in Int, NEW m \in Nat \ {0}
    PROVE  (x * 256) % (256 * m) \in 0..(256 * m - 256)
  <1> DEFINE M == 256 * m  a == x * 256
  <1>1. M \in Nat \ {0} /\ a \in Int
    OBVIOUS
  <1> HIDE DEF M, a
  <1> DEFINE d == a \div M  r == a % M
  <1>2. d \in Int /\ r \in 0..(M - 1) /\ a = M * d + r
    BY <1>1, DivMod
  <1> HIDE DEF d, r
  <1>3. m * d \in Int /\ M * d = 256 * (m * d)
    BY <1>2 DEF M
  <1> DEFINE t == x - m * d
  <1>4. t \in Int /\ r = 256 * t
    BY <1>2, <1>3 DEF a
  <1> HIDE DEF t
  <1>5. r \in 0..(M - 256)
    BY <1>2, <1>4 DEF M
  <1>6. QED
    BY <1>5 DEF r, a, M

\* The widths of Heap.tla and their byte counts.
LEMMA WidthFacts ==
    ASSUME NEW w \in Widths
    PROVE  /\ w \in {8, 16, 32, 64} /\ w \div 8 \in {1, 2, 4, 8}
           /\ 8 * (w \div 8) = w
           /\ 2^w \in Nat /\ 2^w = 256 * 2^(w - 8) /\ 2^(w - 8) \in Nat \ {0}
           /\ 2^(w - 1) \in Nat
  <1>1. w \in {8, 16, 32, 64}
    BY HeapAssumption
  <1>2. w \in 0..w /\ w - 8 \in 0..w /\ w - 1 \in 0..w /\ w >= 8
    BY <1>1
  <1>3. QED
    BY <1>1, <1>2, WidthPowers

(***************************************************************************)
(* Combine, one step of LoadInst's loop, leaves a value of width w when    *)
(* the cell holds a byte.                                                  *)
(***************************************************************************)
LEMMA CombineRange ==
    ASSUME NEW acc \in Int, NEW b \in 0..255, NEW w \in Widths
    PROVE  Combine(acc, b, w) \in 0..(2^w - 1)
  <1> DEFINE m == 2^(w - 8)
  <1>1. 2^w = 256 * m /\ m \in Nat \ {0}
    BY WidthFacts
  <1> HIDE DEF m
  <1>2. CASE b >= 128
    BY <1>1, <1>2 DEF Combine
  <1>3. CASE b < 128
    <2>1. (acc * 256) % (256 * m) \in 0..(256 * m - 256)
      BY <1>1, ShiftedMod
    <2>2. (acc * 256) % 2^w = (acc * 256) % (256 * m)
      BY <1>1
    <2>3. QED
      BY <1>1, <1>3, <2>1, <2>2 DEF Combine
  <1>4. QED
    BY <1>2, <1>3

(***************************************************************************)
(* The equation of acc in LoadValue, over 0..k, and its extension by one  *)
(* cell.                                                                   *)
(***************************************************************************)
AccBody(g, h, a, w, k) ==
    [i \in 0..k |-> IF i = 0 THEN 0 ELSE Combine(g[i - 1], h[a + i - 1], w)]
Solves(g, h, a, w, k) == g = AccBody(g, h, a, w, k)
Ext(g, h, a, w, j) ==
    [i \in 0..(j + 1) |-> IF i <= j THEN g[i] ELSE Combine(g[j], h[a + j], w)]

\* A solution over 0..j extends to one over 0..j+1.
LEMMA AccExtend ==
    ASSUME NEW h, NEW a, NEW w, NEW j \in Nat, NEW g, Solves(g, h, a, w, j)
    PROVE  Solves(Ext(g, h, a, w, j), h, a, w, j + 1)
  BY DEF Solves, AccBody, Ext

\* acc's equation has a solution over 0..k for every k of a width.
LEMMA AccExists ==
    ASSUME NEW h, NEW a, NEW w, NEW k \in 0..8
    PROVE  \E g : Solves(g, h, a, w, k)
  <1> DEFINE E(g, j) == Ext(g, h, a, w, j)
             g0 == [i \in 0..0 |-> 0]
             g1 == E(g0, 0)  g2 == E(g1, 1)  g3 == E(g2, 2)  g4 == E(g3, 3)
             g5 == E(g4, 4)  g6 == E(g5, 5)  g7 == E(g6, 6)  g8 == E(g7, 7)
  <1>0. Solves(g0, h, a, w, 0)
    BY DEF Solves, AccBody
  <1> HIDE DEF g0
  <1>1. Solves(g1, h, a, w, 1)
    BY <1>0, AccExtend
  <1> HIDE DEF g1
  <1>2. Solves(g2, h, a, w, 2)
    BY <1>1, AccExtend
  <1> HIDE DEF g2
  <1>3. Solves(g3, h, a, w, 3)
    BY <1>2, AccExtend
  <1> HIDE DEF g3
  <1>4. Solves(g4, h, a, w, 4)
    BY <1>3, AccExtend
  <1> HIDE DEF g4
  <1>5. Solves(g5, h, a, w, 5)
    BY <1>4, AccExtend
  <1> HIDE DEF g5
  <1>6. Solves(g6, h, a, w, 6)
    BY <1>5, AccExtend
  <1> HIDE DEF g6
  <1>7. Solves(g7, h, a, w, 7)
    BY <1>6, AccExtend
  <1> HIDE DEF g7
  <1>8. Solves(g8, h, a, w, 8)
    BY <1>7, AccExtend
  <1>9. QED
    BY <1>0, <1>1, <1>2, <1>3, <1>4, <1>5, <1>6, <1>7, <1>8


\* Each cell of a solution after the first is a value of width w, when
\* the cells read are bytes.
LEMMA AccRange ==
    ASSUME NEW h, NEW a \in Int, NEW w \in Widths, NEW k \in 0..8,
           NEW g, Solves(g, h, a, w, k),
           \A i \in 0..(k - 1) : h[a + i] \in 0..255
    PROVE  \A i \in 1..k : g[i] \in 0..(2^w - 1)
  <1>0. 0 <= k => g[0] = 0
    BY DEF Solves, AccBody
  <1>1. \A i \in 1..k : g[i - 1] \in Int => g[i] \in 0..(2^w - 1)
    <2> SUFFICES ASSUME NEW i \in 1..k, g[i - 1] \in Int
                 PROVE  g[i] \in 0..(2^w - 1)
      OBVIOUS
    <2>1. g[i] = Combine(g[i - 1], h[a + i - 1], w)
      BY DEF Solves, AccBody
    <2>2. h[a + i - 1] \in 0..255
      BY i - 1 \in 0..(k - 1), a + (i - 1) = a + i - 1
    <2>3. QED
      BY <2>1, <2>2, CombineRange
  <1>2. 1 <= k => g[1] \in 0..(2^w - 1)
    BY <1>0, <1>1
  <1>3. 2 <= k => g[2] \in 0..(2^w - 1)
    BY <1>1, <1>2
  <1>4. 3 <= k => g[3] \in 0..(2^w - 1)
    BY <1>1, <1>3
  <1>5. 4 <= k => g[4] \in 0..(2^w - 1)
    BY <1>1, <1>4
  <1>6. 5 <= k => g[5] \in 0..(2^w - 1)
    BY <1>1, <1>5
  <1>7. 6 <= k => g[6] \in 0..(2^w - 1)
    BY <1>1, <1>6
  <1>8. 7 <= k => g[7] \in 0..(2^w - 1)
    BY <1>1, <1>7
  <1>9. 8 <= k => g[8] \in 0..(2^w - 1)
    BY <1>1, <1>8
  <1>10. QED
    BY <1>2, <1>3, <1>4, <1>5, <1>6, <1>7, <1>8, <1>9

\* In bounded mode LoadValue is the last cell of acc's solution.
LEMMA LoadValueAcc ==
    ASSUME Bounded, NEW h, NEW a, NEW w, NEW k \in 0..8, k = w \div 8
    PROVE  \E g : Solves(g, h, a, w, k) /\ LoadValue(h, a, w) = g[k]
  <1> DEFINE acc == CHOOSE g : g = AccBody(g, h, a, w, w \div 8)
  <1>1. Solves(acc, h, a, w, k)
    BY AccExists DEF Solves
  <1>2. LoadValue(h, a, w) = acc[k]
    BY DEF LoadValue, AccBody
  <1>3. QED
    BY <1>1, <1>2

\* A bounded load of bytes yields a value of its width (LoadInst).
LEMMA LoadRange ==
    ASSUME Bounded, NEW h, NEW a \in Int, NEW w \in Widths,
           \A i \in 0..(w \div 8 - 1) : h[a + i] \in 0..255
    PROVE  LoadValue(h, a, w) \in 0..(2^w - 1)
  <1>1. w \div 8 \in 1..8
    BY WidthFacts
  <1>2. PICK g : Solves(g, h, a, w, w \div 8) /\ LoadValue(h, a, w) = g[w \div 8]
    BY <1>1, LoadValueAcc
  <1>3. \A i \in 1..(w \div 8) : g[i] \in 0..(2^w - 1)
    <2>1. w \div 8 \in 0..8
      BY <1>1
    <2>2. QED
      BY <1>2, <2>1, AccRange
  <1>4. QED
    BY <1>1, <1>2, <1>3

\* A bounded byte load of a byte yields that byte: the sign extension of
\* Combine adds 2^8 - 256.
LEMMA ByteLoad ==
    ASSUME Bounded, NEW h, NEW a \in Int, h[a] \in 0..255
    PROVE  LoadValue(h, a, 8) = h[a]
  <1>1. PICK g : Solves(g, h, a, 8, 1) /\ LoadValue(h, a, 8) = g[1]
    BY LoadValueAcc
  <1>2. g[1] = Combine(0, h[a], 8)
    BY <1>1 DEF Solves, AccBody
  <1>3. 2^8 = 256
    BY SMT
  <1>4. QED
    BY <1>1, <1>2, <1>3 DEF Combine

(***************************************************************************)
(* The cells an access touches, and what a store writes into them.        *)
(***************************************************************************)
LEMMA AccessCells ==
    ASSUME NEW a \in Addrs, NEW w \in Widths
    PROVE  /\ a \in Cells /\ a \in Nat
           /\ LoadCells(a, w) \subseteq Cells /\ StoreCells(a, w) \subseteq Cells
           /\ Bounded => LoadCells(a, w) = a..(a + w \div 8 - 1)
  <1>1. a \in Nat /\ a + w \div 8 <= MaxAddr /\ MaxAddr \in Nat
    BY HeapAssumption
  <1>2. w \div 8 \in 1..8
    BY WidthFacts
  <1>3. QED
    BY <1>1, <1>2 DEF Cells, LoadCells, StoreCells

\* Each byte the store loop writes is a byte: trunc(8) of bval after j
\* arithmetic shifts.
LEMMA StoredByteRange ==
    ASSUME NEW v \in Int, NEW w \in Widths, NEW j \in 0..(w \div 8)
    PROVE  StoredByte(v, w, j) \in 0..255
  <1>1. 8 * j \in 0..w
    BY WidthFacts
  <1>2. 2^(8 * j) \in Nat \ {0}
    BY <1>1, WidthPowers
  <1>3. Signed(v, w) \in Int
    BY WidthFacts DEF Signed
  <1> DEFINE x == Signed(v, w) \div 2^(8 * j)
  <1>4. x \in Int
    BY <1>2, <1>3, DivMod
  <1> HIDE DEF x
  <1>5. x % 256 \in 0..255
    BY <1>4, DivMod
  <1>6. QED
    BY <1>5 DEF StoredByte, x

\* StoreInst leaves integers everywhere, bytes in the cells it writes in
\* bounded mode, and every other cell as it was.
LEMMA StoreImageOK ==
    ASSUME NEW h \in [Cells -> Int], NEW a \in Addrs, NEW w \in Widths,
           NEW v \in StoreVals[w]
    PROVE  /\ StoreImage(h, a, w, v) \in [Cells -> Int]
           /\ Bounded => \A c \in StoreCells(a, w) : StoreImage(h, a, w, v)[c] \in 0..255
           /\ \A c \in Cells \ StoreCells(a, w) : StoreImage(h, a, w, v)[c] = h[c]
  <1>1. v \in Int /\ (Bounded => v \in 0..(2^w - 1))
    BY HeapAssumption
  <1>2. \A c \in StoreCells(a, w) :
            /\ StoreCells(a, w) # {a} => StoredByte(v, w, w \div 8 - (c - a)) \in 0..255
            /\ StoreCells(a, w) = {a} => ~Bounded \/ w = 8
    <2> SUFFICES ASSUME NEW c \in StoreCells(a, w) PROVE
            /\ StoreCells(a, w) # {a} => StoredByte(v, w, w \div 8 - (c - a)) \in 0..255
            /\ StoreCells(a, w) = {a} => ~Bounded \/ w = 8
      OBVIOUS
    <2>1. a \in Nat /\ w \div 8 \in {1, 2, 4, 8} /\ w \in {8, 16, 32, 64}
      BY AccessCells, WidthFacts
    <2>2. StoreCells(a, w) # {a} => w \div 8 - (c - a) \in 0..(w \div 8)
      BY <2>1 DEF StoreCells
    <2>3. StoreCells(a, w) = {a} => ~Bounded \/ w = 8
      BY <2>1 DEF StoreCells
    <2>4. QED
      BY <1>1, <2>1, <2>2, <2>3, StoredByteRange
  <1>3. 2^8 = 256
    BY SMT
  <1> DEFINE g == StoreImage(h, a, w, v)
  <1>4. g \in [Cells -> Int]
    <2>1. \A c \in StoreCells(a, w) : StoreCells(a, w) # {a}
                => StoredByte(v, w, w \div 8 - (c - a)) \in Int
      BY <1>2
    <2>2. QED
      BY <1>1, <2>1 DEF StoreImage
  <1>5. Bounded => \A c \in StoreCells(a, w) : g[c] \in 0..255
    <2> SUFFICES ASSUME Bounded, NEW c \in StoreCells(a, w) PROVE g[c] \in 0..255
      OBVIOUS
    <2>1. c \in Cells
      BY AccessCells
    <2>2. CASE StoreCells(a, w) = {a}
      BY <1>1, <1>2, <1>3, <2>1, <2>2 DEF StoreImage
    <2>3. CASE StoreCells(a, w) # {a}
      BY <1>2, <2>1, <2>3 DEF StoreImage
    <2>4. QED
      BY <2>2, <2>3
  <1>6. \A c \in Cells \ StoreCells(a, w) : g[c] = h[c]
    BY DEF StoreImage
  <1>7. QED
    BY <1>4, <1>5, <1>6

(***************************************************************************)
(* The part of TypeOK that is inductive on its own: the heap map, bytes    *)
(* in bounded mode, and the last store.  The fourth conjunct of TypeOK,   *)
(* that every load would yield a value of its width, follows from it.     *)
(***************************************************************************)
HeapOK ==
    /\ dom \subseteq Cells
    /\ heap \in [Cells -> Int]
    /\ Bounded => \A c \in dom : heap[c] \in 0..255
    /\ lastStore \in Access \cup {NoAccess}

\* A heap of bytes makes every bounded load, wherever done, a w-bit value.
LEMMA LoadsOK ==
    ASSUME HeapOK
    PROVE  TypeOK
  <1>1. ASSUME Bounded, NEW a \in Addrs, NEW w \in Widths
        PROVE  LoadValue(ZeroFill(heap, dom, LoadCells(a, w)), a, w) \in 0..(2^w - 1)
    <2> DEFINE cs == LoadCells(a, w)
               h == ZeroFill(heap, dom, cs)
    <2>1. a \in Nat /\ cs \subseteq Cells /\ cs = a..(a + w \div 8 - 1)
      BY <1>1, AccessCells
    <2>2. \A i \in 0..(w \div 8 - 1) : h[a + i] \in 0..255
      <3> SUFFICES ASSUME NEW i \in 0..(w \div 8 - 1) PROVE h[a + i] \in 0..255
        OBVIOUS
      <3>0. w \div 8 \in 1..8 /\ i \in Nat
        BY WidthFacts
      <3>1. a + i \in cs /\ a + i \in Cells
        <4>1. a + i \in a..(a + w \div 8 - 1)
          BY <2>1, <3>0
        <4>2. QED
          BY <2>1, <4>1
      <3>2. h[a + i] = IF a + i \in cs \ dom THEN 0 ELSE heap[a + i]
        BY <3>1 DEF ZeroFill
      <3>3. QED
        BY <1>1, <3>1, <3>2 DEF HeapOK
    <2> HIDE DEF h
    <2>3. QED
      BY <1>1, <2>1, <2>2, LoadRange DEF h
  <1>2. QED
    BY <1>1 DEF HeapOK, TypeOK

LEMMA HeapInit ==
    Init => HeapOK
  BY DEF Init, HeapOK, NoAccess

\* LoadInst and StoreInst keep the heap a map of integers, of bytes in
\* bounded mode.
LEMMA HeapStep ==
    HeapOK /\ [Next]_vars => HeapOK'
  <1> SUFFICES ASSUME HeapOK, [Next]_vars PROVE HeapOK'
    OBVIOUS
  <1>1. ASSUME NEW a \in Addrs, NEW w \in Widths, Load(a, w) PROVE HeapOK'
    <2> DEFINE cs == LoadCells(a, w)
    <2>1. cs \subseteq Cells
      BY AccessCells
    <2>2. /\ heap' = ZeroFill(heap, dom, cs) /\ dom' = dom \cup cs
          /\ lastStore' = NoAccess
      BY <1>1 DEF Load
    <2>3. QED
      BY <2>1, <2>2 DEF HeapOK, ZeroFill
  <1>2. ASSUME NEW a \in Addrs, NEW w \in Widths, NEW v \in StoreVals[w],
               Store(a, w, v)
        PROVE  HeapOK'
    <2> DEFINE cs == StoreCells(a, w)
    <2>1. cs \subseteq Cells /\ a \in Nat /\ v \in Int
      BY AccessCells, HeapAssumption
    <2>2. /\ heap' = StoreImage(heap, a, w, v) /\ dom' = dom \cup cs
          /\ lastStore' = [addr |-> a, width |-> w, val |-> v]
      BY <1>2 DEF Store
    <2>3. /\ heap' \in [Cells -> Int]
          /\ Bounded => \A c \in cs : heap'[c] \in 0..255
          /\ \A c \in Cells \ cs : heap'[c] = heap[c]
      BY <2>2, StoreImageOK DEF HeapOK
    <2>4. lastStore' \in Access
      BY <2>1, <2>2 DEF Access
    <2>5. QED
      BY <2>1, <2>2, <2>3, <2>4 DEF HeapOK
  <1>3. CASE UNCHANGED vars
    BY <1>3 DEF HeapOK, vars
  <1>4. QED
    BY <1>1, <1>2, <1>3 DEF Next

\* Type correctness of the heap model (LoadInst, StoreInst): for every
\* set of addresses and widths up to 64 bits, the heap is a map of integers,
\* of bytes in bounded mode, and a load anywhere yields a value of its width.
THEOREM HeapTypeCorrect == Spec => []TypeOK
  <1>1. HeapOK /\ [][Next]_vars => []HeapOK
    BY HeapStep, PTL
  <1>2. QED
    BY <1>1, HeapInit, LoadsOK, PTL DEF Spec

\* A byte store writes its value into its one cell (StoreInst's bytes == 1
\* case), and a byte load of that cell reads it back.
LEMMA ByteStoreLoad ==
    ASSUME NEW a \in Addrs, NEW v \in StoreVals[8], 8 \in Widths, Store(a, 8, v)
    PROVE  LoadValue(ZeroFill(heap', dom', LoadCells(a, 8)), a, 8) = v
  <1>1. a \in Cells /\ a \in Nat
    BY AccessCells
  <1>2. StoreCells(a, 8) = {a}
    BY DEF StoreCells
  <1>3. heap' = StoreImage(heap, a, 8, v) /\ dom' = dom \cup {a}
    BY <1>2 DEF Store
  <1>4. heap'[a] = v
    BY <1>1, <1>2, <1>3 DEF StoreImage
  <1> DEFINE h == ZeroFill(heap', dom', LoadCells(a, 8))
  <1>5. h[a] = v
    BY <1>1, <1>3, <1>4 DEF ZeroFill
  <1> HIDE DEF h
  <1>6. Bounded => LoadValue(h, a, 8) = v
    <2> SUFFICES ASSUME Bounded PROVE LoadValue(h, a, 8) = v
      OBVIOUS
    <2>1. StoreVals[8] \subseteq 0..(2^8 - 1)
      BY HeapAssumption
    <2>2. 2^8 = 256
      BY SMT
    <2>3. v \in 0..255
      BY <2>1, <2>2
    <2>4. QED
      BY <1>1, <1>5, <2>3, ByteLoad
  <1>7. ~Bounded => LoadValue(h, a, 8) = v
    BY <1>5 DEF LoadValue
  <1>8. QED
    BY <1>6, <1>7 DEF h

\* The byte round trip (LoadInst after StoreInst at width 8): for every set
\* of addresses and widths, a byte load right after a byte store of the
\* same address returns the stored byte, whatever overlapping wider stores
\* and loads came before.  Every step establishes it afresh: a load
\* clears lastStore and a store of another width makes it vacuous.
THEOREM ByteRoundTripCorrect == Spec => []ByteRoundTrip
  <1>1. Init => ByteRoundTrip
    BY DEF Init, ByteRoundTrip, NoAccess
  <1>2. ByteRoundTrip /\ [Next]_vars => ByteRoundTrip'
    <2> SUFFICES ASSUME ByteRoundTrip, [Next]_vars PROVE ByteRoundTrip'
      OBVIOUS
    <2>1. ASSUME NEW a \in Addrs, NEW w \in Widths, Load(a, w) PROVE ByteRoundTrip'
      BY <2>1 DEF Load, ByteRoundTrip, NoAccess
    <2>2. ASSUME NEW a \in Addrs, NEW w \in Widths, NEW v \in StoreVals[w],
                 Store(a, w, v)
          PROVE  ByteRoundTrip'
      <3>1. lastStore' = [addr |-> a, width |-> w, val |-> v]
        BY <2>2 DEF Store
      <3>2. CASE w = 8
        BY <2>2, <3>1, <3>2, ByteStoreLoad DEF ByteRoundTrip
      <3>3. CASE w # 8
        BY <3>1, <3>3 DEF ByteRoundTrip
      <3>4. QED
        BY <3>2, <3>3
    <2>3. CASE UNCHANGED vars
      BY <2>3 DEF ByteRoundTrip, vars
    <2>4. QED
      BY <2>1, <2>2, <2>3 DEF Next
  <1>3. QED
    BY <1>1, <1>2, PTL DEF Spec

=============================================================================
