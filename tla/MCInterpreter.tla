---------------------------- MODULE MCInterpreter ----------------------------
(***************************************************************************)
(* A small program for the Interpreter model.  Function f:                 *)
(*   b1 (entry): switch to b2, b3 or b4                                    *)
(*   b2: br to b2 or b3 (a loop without calls)                             *)
(*   b3: two call instructions naming g, then switch to b2, b3 or b4       *)
(*   b4: ret                                                               *)
(* Function g is one block g1 with one call naming g, then ret.  Since    *)
(* call->getFunction() is the caller, every call re-enters the function   *)
(* that contains it.  With Budget = 2 both regimes happen: a call may get *)
(* budget 0 and be cut after one block, or start in a block whose budget  *)
(* is already 0 and get 0 - 1 = UINT32_MAX.  Width 3 makes UINT32_MAX = 7 *)
(* so that wrapping counters are reachable; MaxDepth 4 lets calls nest    *)
(* three deep before the native stack is exhausted.                       *)
(***************************************************************************)
EXTENDS Interpreter, TLC

MCFuncs == {"f", "g"}
MCBlocks == {"b1", "b2", "b3", "b4", "g1"}
MCFunOf == [b \in MCBlocks |-> IF b = "g1" THEN "g" ELSE "f"]
MCEntry == [fn \in MCFuncs |-> IF fn = "f" THEN "b1" ELSE "g1"]
MCTermKind == ("b1" :> "switch" @@ "b2" :> "br" @@ "b3" :> "switch"
               @@ "b4" :> "ret" @@ "g1" :> "ret")
MCSucc == ("b1" :> {"b2", "b3", "b4"} @@ "b2" :> {"b2", "b3"} @@ "b3" :> {"b2", "b3", "b4"}
           @@ "b4" :> {} @@ "g1" :> {})
MCNumCalls == ("b1" :> 0 @@ "b2" :> 0 @@ "b3" :> 2 @@ "b4" :> 0 @@ "g1" :> 1)

=============================================================================
