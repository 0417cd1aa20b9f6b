------------------------------- MODULE MCCodec -------------------------------
(***************************************************************************)
(* Codec instance for TLC: three named values at distinct addresses,       *)
(* negative and multi-digit integers (one with an inner 0 digit), two     *)
(* heap addresses so that heap maps of 0, 1 and 2 entries occur.           *)
(***************************************************************************)
EXTENDS Codec

MCNameOf == [v \in {Arg, Param, CallVal} |->
                CASE v = Arg -> "a" [] v = Param -> "p" [] OTHER -> "c"]

MCPtrOf == (ReturnName :> 0) @@ (CallVal :> 24) @@ (Arg :> 8) @@ (Param :> 16)

MCIntVals == {-12, 305}

MCHeapVals == {-7, 40}

MCFunNames == [caller |-> "f", callee |-> "g"]
=============================================================================
