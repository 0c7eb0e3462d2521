------------------------------ MODULE MC_ICGen ------------------------------
(***************************************************************************)
(* Inputs for model checking ICGen: function definitions built from a     *)
(* small C subset, as the parser and the analyzer hand them to             *)
(* ic_function_definition (every expression typed, identifiers resolved    *)
(* to a scope).  Each set below is one question asked of the generator.    *)
(***************************************************************************)
EXTENDS ICGen

\* Source identifiers <<base, digits>>: x, y, z, p, t1, c, i, s;
\* ex, ey, ez and ep are the expression nodes naming x, y, z and p.
nX == <<"x", -1>>   nY == <<"y", -1>>   nZ == <<"z", -1>>   nP == <<"p", -1>>
nT1 == <<"t", 1>>   nC == <<"c", -1>>   nI == <<"i", -1>>   nS == <<"s", -1>>

\* The body of a function is block scope 1; a nested block is scope 2.
ex == Id(nX, "int", 1)
ey == Id(nY, "int", 1)
ez == Id(nZ, "int", 2)
ep == Param(nP, "int")

IntParam(v) == [name |-> v, ty |-> "int"]

\* Locals of a body: two ints and a static that gets no slot.
BodyLocals == <<Decl("none", "int", <<nX, nY>>), Decl("static", "int", <<nS>>)>>

\* Conditions: a leaf, a short-circuit &&, and a tree whose right operand
\* needs more registers (so it is lowered first).
Conds == {ex, Bin("and", ex, ep), Bin("mul", ep, Neg(ex))}

\* Right-hand sides of assignments.
Rhs == {IConst(0), Bin("plus", ex, ep), Bin("div", Neg(ep), IConst(2)), Bin("and", ep, ex)}

Simple == {ExpStmt(Assign(ex, r)) : r \in Rhs}
          \cup {Return(ex), Return(NoExp), ExpStmt(NoExp), ExpStmt(Bin("plus", ep, Neg(ey)))}

\* One statement of each kind, a nested block with its own local, and the
\* statements nested once inside if/while.
Stmt1 == Simple
         \cup {If(c, s, NoStmt) : c \in Conds, s \in Simple}
         \cup {If(c, s, Return(ey)) : c \in Conds, s \in Simple}
         \cup {While(c, s) : c \in Conds, s \in Simple}
         \cup {Cmpnd(<<Decl("none", "int", <<nZ>>)>>,
                     <<ExpStmt(Assign(ez, Bin("plus", ey, ep))), ExpStmt(Assign(ex, ez))>>)}

\* int f(int p) { int x, y; static int s; <stmt> return x + y; } and the
\* same returning char.
OneFunction ==
    {FuncDef(rt, <<IntParam(nP)>>,
             Cmpnd(BodyLocals, <<s, Return(Bin("plus", ex, ey))>>)) :
        s \in Stmt1, rt \in {"int", "char"}}

-----------------------------------------------------------------------------
(* Inputs of the runs that show a disagreement with the specification.     *)

\* int f(int p) { int x, y; x = p && y; return x; }, twice.
AndFunction ==
    {FuncDef("int", <<IntParam(nP)>>,
             Cmpnd(BodyLocals, <<ExpStmt(Assign(ex, Bin("and", ep, ey))), Return(ex)>>))}

\* int f(int t1) { return (t1 + 1) * t1; }
T1 == Param(nT1, "int")
TempNamedParam ==
    {FuncDef("int", <<IntParam(nT1)>>,
             Cmpnd(<< >>, <<Return(Bin("mul", Bin("plus", T1, IConst(1)), T1))>>))}

\* void f(void) { char c; int i; ... }
CharThenInt ==
    {FuncDef("int", << >>,
             Cmpnd(<<Decl("none", "char", <<nC>>), Decl("none", "int", <<nI>>)>>,
                   <<ExpStmt(Assign(Id(nI, "int", 1), IConst(0)))>>))}
=============================================================================
