------------------------------- MODULE MCBlock ------------------------------
(***************************************************************************)
(* A function for TLC, with 2-bit integers:                                *)
(*   b0: switch n [0 -> b5, 1 -> b3, 3 -> b4] dflt b1                     *)
(*   b1: x = phi [b0: c0, b1: y]; y = phi [b0: c1, b1: x];                 *)
(*       k = phi [b0: n, b1: k1];                                          *)
(*       q = load; k1 = add k c1; d = eq q c3; s = select d x y;          *)
(*       z = zext d; o = or d d; a = and d d; store q; p = inttoptr k1;   *)
(*       other;                                                            *)
(*       br d b2 b1                                                        *)
(*   b2: ret x                                                             *)
(*   b3: w = phi [b0: p]; ret w     (p is unbound on this path)            *)
(*   b4: w = add p c1; ret w        (likewise)                             *)
(*   b5: ret x                      (x is unbound on this path)            *)
(* The loop in b1 swaps x and y each time round; it ends when the loaded  *)
(* value is 3, so with a budget of 4 blocks some runs end early.          *)
(***************************************************************************)
EXTENDS Block, TLC

MCBlocks == {"b0", "b1", "b2", "b3", "b4", "b5"}
MCRefs == {"n", "x", "y", "k", "k1", "d", "s", "z", "o", "a", "q", "p", "w",
           "c0", "c1", "c3"}
MCConstVal == ("c0" :> Int_(0)) @@ ("c1" :> Int_(1)) @@ ("c3" :> Int_(3))

I(kind, dst, a, b, c) == [kind |-> kind, dst |-> dst, a |-> a, b |-> b, c |-> c]
P(dst, fromb0, fromb1) ==
    [dst |-> dst, inc |-> [bl \in MCBlocks \cup {"none"} |->
                              IF bl = "b1" THEN fromb1 ELSE fromb0]]
T(kind, a, succs, cases, dflt) ==
    [kind |-> kind, a |-> a, succs |-> succs, cases |-> cases, dflt |-> dflt]
Case(v, b) == [val |-> v, succ |-> b]

MCPhis == [bl \in MCBlocks |->
             IF bl = "b1" THEN <<P("x", "c0", "y"), P("y", "c1", "x"),
                                 P("k", "n", "k1")>>
             ELSE IF bl = "b3" THEN <<P("w", "p", "p")>>
             ELSE <<>>]

MCBody == ("b0" :> <<>>)
       @@ ("b1" :> <<I("load", "q", "c0", "c0", "c0"),
                     I("add", "k1", "k", "c1", "c0"), I("eq", "d", "q", "c3", "c0"),
                     I("select", "s", "d", "x", "y"), I("zext1", "z", "d", "c0", "c0"),
                     I("or", "o", "d", "d", "c0"), I("and1", "a", "d", "d", "c0"),
                     I("store", "c0", "q", "c0", "c0"),
                     I("inttoptr", "p", "k1", "c0", "c0"),
                     I("other", "c0", "c0", "c0", "c0")>>)
       @@ ("b2" :> <<>>)
       @@ ("b3" :> <<>>)
       @@ ("b4" :> <<I("add", "w", "p", "c1", "c0")>>)
       @@ ("b5" :> <<>>)

MCTerm == ("b0" :> T("switch", "n", <<>>,
                     <<Case(0, "b5"), Case(1, "b3"), Case(3, "b4")>>,
                     "b1"))
       @@ ("b1" :> T("condbr", "d", <<"b2", "b1">>, <<>>, "none"))
       @@ ("b2" :> T("ret", "x", <<>>, <<>>, "none"))
       @@ ("b3" :> T("ret", "w", <<>>, <<>>, "none"))
       @@ ("b4" :> T("ret", "w", <<>>, <<>>, "none"))
       @@ ("b5" :> T("ret", "x", <<>>, <<>>, "none"))

MCArgs == {[r \in {"n"} |-> Int_(v)] : v \in 0..3}
=============================================================================
