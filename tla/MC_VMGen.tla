------------------------------ MODULE MC_VMGen ------------------------------
(***************************************************************************)
(* Inputs for model checking VMGen: integer function definitions as the   *)
(* analyzer hands them to function_definition, every node typed.  The      *)
(* variable names are distinct over the whole unit.                        *)
(***************************************************************************)
EXTENDS VMGen

\* int loops(int a): a for whose body continues past its e3, a while left
\* by break, a do, a for with no e3 whose continue goes to the test, and
\* postfix, prefix and compound assignments.
ea == Id("a", "int")   es == Id("s", "int")   ei == Id("i", "int")
Loops ==
    FuncDef(<<"l">>, "int", <<Param("a", "int")>>,
      Cmpnd(<<Local("s", "int", IConstD(0)), Local("i", "int", IConstD(0))>>,
        <<For(Assign(ei, IConstD(0)), Bin("lt", ei, IConstD(3)), IncDec("postinc", ei),
              If(Bin("eq", ei, ea), Continue, ExpStmt(OpAssign("plus", es, IConstD(2))))),
          While(Bin("gt", es, IConstD(0)),
                Cmpnd(<<>>, <<ExpStmt(IncDec("postdec", es)),
                              If(Bin("eq", es, IConstD(3)), Break, NoStmt)>>)),
          Do(ExpStmt(IncDec("preinc", es)), Bin("lt", es, IConstD(2))),
          For(NoExp, NoExp, NoExp,
              Cmpnd(<<>>, <<If(Bin("get", es, IConstD(4)), Break, NoStmt),
                            If(Bin("eq", es, IConstD(1)),
                               Cmpnd(<<>>, <<ExpStmt(IncDec("preinc", es)), Continue>>), NoStmt),
                            ExpStmt(OpAssign("mul", es, IConstD(2)))>>)),
          Return(Bin("minus", es, ea))>>))

\* int sw(int b): fall-through between cases, a default in the middle, a
\* switch with no labels, one with cases and no default, and a switch
\* inside a loop whose case continues the loop and whose default breaks
\* the switch only.
eb == Id("b", "int")   er == Id("r", "int")   ek == Id("k", "int")
Sw ==
    FuncDef(<<"s">>, "int", <<Param("b", "int")>>,
      Cmpnd(<<Local("r", "int", IConstD(0)), Local("k", "int", IConstD(0))>>,
        <<Switch(eb, Cmpnd(<<>>,
            <<Case(1, ExpStmt(Assign(er, IConstD(10)))),
              Case(2, ExpStmt(OpAssign("plus", er, IConstD(1)))),
              Break,
              Default(ExpStmt(Assign(er, IConstD(7)))),
              Case(200, ExpStmt(Assign(er, Bin("mul", er, IConstD(2)))))>>)),
          Switch(eb, Cmpnd(<<>>, <<>>)),
          Switch(eb, Cmpnd(<<>>, <<Case(0, ExpStmt(OpAssign("plus", er, IConstD(5)))),
                                   Case(200, ExpStmt(OpAssign("minus", er, IConstD(1))))>>)),
          While(Bin("lt", ek, IConstD(3)),
            Cmpnd(<<>>,
              <<Switch(ek, Cmpnd(<<>>,
                  <<Case(0, ExpStmt(OpAssign("plus", ek, IConstD(2)))), Continue,
                    Default(Break)>>)),
                ExpStmt(Assign(er, Bin("plus", er, ek))),
                ExpStmt(IncDec("postinc", ek))>>)),
          Return(er)>>))

\* char cv(unsigned char c, int d): conversions to and from the character
\* types, an unsigned comparison of an int, sibling blocks that share a
\* slot, and the conditional, logical, bitwise and unary operators.
ec == Id("c", "uchar")   ed == Id("d", "int")   ee == Id("e", "char")
eu == Id("u", "unsigned")   et == Id("t", "int")
eg == Id("g", "int")   eh == Id("h", "char")
Conv ==
    FuncDef(<<"c">>, "char", <<Param("c", "uchar"), Param("d", "int")>>,
      Cmpnd(<<Local("e", "char", ec), Local("u", "unsigned", ed), Local("t", "int", IConstD(0))>>,
        <<ExpStmt(OpAssign("plus", ee, IConstD(1))),
          ExpStmt(IncDec("preinc", ec)),
          If(Bin("lt", eu, IConstD(1)), ExpStmt(Assign(et, IConstD(64))), NoStmt),
          Cmpnd(<<Local("g", "int", ec)>>,
                <<ExpStmt(OpAssign("plus", et, Bin("rem", eg, IConstD(3))))>>),
          Cmpnd(<<Local("h", "char", Unary("uminus", IConstD(1)))>>,
                <<ExpStmt(Assign(et, Bin("div", Bin("plus", et, eh), IConstD(2))))>>),
          ExpStmt(Assign(et, Cond(Bin("gt", et, ee), et, ee))),
          If(Bin("or", Bin("and", ec, ed), Unary("not", ed)),
             ExpStmt(Assign(et, Bin("bw_xor", et, Unary("cmpl", ee)))),
             ExpStmt(Assign(et, Bin("bw_or", Bin("bw_and", et, IConstD(15)), Cast(ed, "uchar"))))),
          Return(Bin("comma", Bin("plus", et, IConstDU(1)), Bin("minus", et, ed)))>>))

\* unsigned un(unsigned char x): a return of an unsigned difference that
\* wraps, and a path that falls off the end of the body.
ex == Id("x", "uchar")   ew == Id("w", "unsigned")
Un ==
    FuncDef(<<"u">>, "unsigned", <<Param("x", "uchar")>>,
      Cmpnd(<<Local("w", "unsigned", ex)>>,
        <<If(Bin("gt", ew, IConstD(100)), Return(Bin("minus", ew, IConstD(300))), NoStmt),
          ExpStmt(Assign(ew, Unary("uminus", ew)))>>))

\* int g(int n): a backward goto closing a loop, a forward goto out of
\* it, and <<, >>, >>= on int and unsigned (>> of a negative int by an
\* unsigned count is sra).
en == Id("n", "int")   eq == Id("q", "int")   ej == Id("j", "int")
ey == Id("y", "unsigned")
Top == <<"t">>   Done == <<"d">>
Gt ==
    FuncDef(<<"g">>, "int", <<Param("n", "int")>>,
      Cmpnd(<<Local("q", "int", IConstD(0)), Local("j", "int", IConstD(0)), Local("y", "unsigned", en)>>,
        <<Labeled(Top, If(Bin("get", ej, IConstD(3)), Goto(Done), NoStmt)),
          ExpStmt(OpAssign("plus", eq, Shift("rshift", en, Cast(ej, "unsigned")))),
          ExpStmt(IncDec("postinc", ej)),
          Goto(Top),
          Labeled(Done, ExpStmt(OpAssign("rshift", eq, IConstD(1)))),
          ExpStmt(Assign(ey, Bin("bw_or", Shift("lshift", ey, ej), Shift("rshift", ey, IConstD(1))))),
          Return(Bin("plus", Bin("plus", eq, Shift("lshift", ej, IConstD(2))), Cast(ey, "int")))>>))

\* int h(int f): static locals in .data and .bss, one in a block entered
\* twice (its initializer applied once, not on each entry), read and
\* written as int, char, unsigned char and unsigned.
ef == Id("f", "int")   el == Id("l", "int")
sm == StaticId("m", "int")   sz == StaticId("z", "char")
sv == StaticId("v", "unsigned")   so == StaticId("o", "uchar")
St ==
    FuncDef(<<"h">>, "int", <<Param("f", "int")>>,
      Cmpnd(<<StaticLocal("m", "int", IConstD(300)), StaticLocal("z", "char", IConstD(-3)),
              StaticLocal("v", "unsigned", NoExp), Local("l", "int", IConstD(0))>>,
        <<While(Bin("lt", el, IConstD(2)),
            Cmpnd(<<StaticLocal("o", "uchar", IConstD(200))>>,
                  <<ExpStmt(OpAssign("plus", so, ef)),
                    ExpStmt(OpAssign("minus", sm, so)),
                    ExpStmt(IncDec("postinc", el))>>)),
          ExpStmt(Assign(sz, Bin("mul", sz, ef))),
          ExpStmt(IncDec("postdec", sv)),
          Return(Bin("plus", sm, sz))>>))

VMFuncs == {Loops, Sw, Conv, Un, Gt, St}

\* int f(int p) { goto a_b; a_b: return p; } and the same function named
\* f_a with its label named b: both labels are mangled to @@f_a_b.
ep == Id("p", "int")
LabelOnly(name, l) ==
    FuncDef(name, "int", <<Param("p", "int")>>,
      Cmpnd(<< >>, <<Goto(l), Labeled(l, Return(ep))>>))
\* int b(int p) { { static int x = 1; p += x; } { static int x = 2; p += x; }
\* return p; }: two objects, both defined as @b_x.
SiblingStatics ==
    FuncDef(<<"b">>, "int", <<Param("p", "int")>>,
      Cmpnd(<< >>,
        <<Cmpnd(<<StaticLocal("x", "int", IConstD(1))>>, <<ExpStmt(OpAssign("plus", ep, StaticId("x", "int")))>>),
          Cmpnd(<<StaticLocal("x", "int", IConstD(2))>>, <<ExpStmt(OpAssign("plus", ep, StaticId("x", "int")))>>),
          Return(ep)>>))
CollidingFuncs == {LabelOnly(<<"f">>, <<"a", "_", "b">>), LabelOnly(<<"f", "_", "a">>, <<"b">>),
                   SiblingStatics}

\* -1 and 200 become 255 and 200 as an unsigned char, -1 and -56 as a char.
VMVals == {0, 1, -1, 200}

\* The frame constants of luxvm/vm.h: locals from BP on, parameters below
\* the saved BP and the return address (two slots of 4 bytes).
VMLocalParamEnd == -8
=============================================================================
