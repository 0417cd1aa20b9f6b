------------------------------- MODULE MCHeap -------------------------------
(***************************************************************************)
(* Heap instances for TLC: addresses 0 and 1, so that accesses of width   *)
(* 16 overlap each other and byte accesses; values chosen so that bytes   *)
(* >= 128 (sign extension) and multi-byte values occur.                   *)
(***************************************************************************)
EXTENDS Heap, TLC

MCAddrs == {0, 1}

\* Bounded mode: bytes and 16-bit values with a high byte and a low byte.
MCBoundedVals == (8 :> {1, 200}) @@ (16 :> {1, 300, 65535})

\* Unbounded mode: three word cells, whole values of any sign.
MCUnboundedAddrs == {0, 1, 2}

MCUnboundedVals == (8 :> {-1, 7}) @@ (16 :> {300, -70000})
=============================================================================
