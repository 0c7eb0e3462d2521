----------------------------- MODULE MC_ConstEval -----------------------------
(***************************************************************************)
(* Inputs for model checking ConstEval: every operator of the folder over  *)
(* every pair of a small set of operands typed as the analyzer types them, *)
(* and the nested trees whose inner nodes fold differently.                *)
(***************************************************************************)
EXTENDS ConstEval

\* 0, 3, 1u, UINT_MAX (4095u at WORD_BITS 12), -1, sizeof(long), and an
\* auto int x, which is never constant.
Minus1   == Unary("uminus", IConstD(1))
Operands == {IConstD(0), IConstD(3), IConstDU(1), IConstDU(4095), Minus1,
             SizeofT("long"), Id("x", "int")}

\* Arrays: a at file scope (an address constant), b automatic (not one).
Arrays == {ArrayId("a", "file"), ArrayId("b", "auto")}

\* (int)a + 3: a sum with an address operand, left unfolded as 0xABCD.
AddrSum == Bin("plus", Cast(ArrayId("a", "file"), "int"), IConstD(3))

Depth1 ==
    {Unary(op, x) : op \in {"uplus", "uminus", "cmpl", "not"}, x \in Operands \cup Arrays}
    \cup {Cast(x, ty) : x \in Operands \cup Arrays, ty \in {"char", "uchar", "int", "unsigned", "long"}}
    \cup {Bin(op, x, y) : op \in ArithOps \cup RelOps \cup BitOps \cup {"and", "or"},
                          x \in Operands, y \in Operands}
    \cup {Bin(op, x, y) : op \in {"and", "or"}, x \in Arrays \cup {IConstD(0), IConstD(3)},
                          y \in Arrays \cup {IConstD(0), IConstD(3)}}
    \cup {Shift(op, x, y) : op \in ShiftOps, x \in Operands, y \in {IConstD(1), IConstD(3)}}
    \cup {Cond(c, x, y) : c \in {IConstD(0), IConstD(3), ArrayId("a", "file"), Id("x", "int")},
                          x \in {IConstD(3), Id("x", "int")}, y \in {Minus1, IConstDU(1)}}

Nested ==
    { AddrSum,
      Bin("minus", AddrSum, IConstD(3)),
      Bin("minus", IConstD(3), AddrSum),
      Bin("and", AddrSum, IConstD(0)),
      Bin("or", IConstD(0), AddrSum),
      Bin("and", IConstD(3), AddrSum),
      Cond(ArrayId("a", "file"), AddrSum, IConstD(0)),
      Cond(Bin("lt", IConstDU(1), Minus1), IConstD(3), IConstD(0)),
      Bin("div", Unary("uminus", IConstDU(1)), IConstD(3)),
      Shift("rshift", Unary("uminus", IConstDU(1)), IConstD(1)),
      Bin("gt", Cast(IConstDU(4095), "long"), IConstD(0)),
      Bin("mul", Cast(Minus1, "unsigned"), Cast(Minus1, "unsigned")) }

MC_Exprs == Depth1 \cup Nested

\* a ? (int)a + 3 : 0: the address condition is stored into the node,
\* which stays OpExp because (int)a + 3 does not fold.
ClobberingConds == {Cond(ArrayId("a", "file"), AddrSum, IConstD(0))}

\* The trees whose evaluation stores nothing into a node left OpExp.
StoreFreeExprs == MC_Exprs \ ClobberingConds
=============================================================================
