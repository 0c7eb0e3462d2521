---------------------------- MODULE VMSemantics ----------------------------
(***************************************************************************)
(* The integer C subset that src/src/vm_cgen/vm_cgen.c compiles, as the   *)
(* analyzer of src/src/expr.c leaves it (every node carries the type       *)
(* category analyze_* gave it), and two yardsticks for the generator:     *)
(* a reference evaluator of that subset (C semantics) and an interpreter  *)
(* of the stack code the generator emits (the meaning of each LuxVM       *)
(* instruction as the generator relies on it; the VM is not part of this  *)
(* repository).                                                            *)
(*                                                                         *)
(* The machine word has WORD_BITS bits (32 on LuxVM); char has 8.  int and *)
(* unsigned are as wide as the word.  A word is a value in                 *)
(* 0..2^WORD_BITS-1; a C value is a mathematical integer in the range of  *)
(* its type.                                                               *)
(***************************************************************************)
EXTENDS Integers, Sequences, SequencesExt, Bitwise, ExprTypes, Steps

CONSTANT WORD_BITS

WORD    == 2^WORD_BITS
INT_MAX == 2^(WORD_BITS - 1) - 1

NoExp  == [k |-> "none", ty |-> "void"]
NoStmt == [k |-> "none"]

-----------------------------------------------------------------------------
(* Expression nodes as the analyzer types them.                           *)

\* An identifier of the function: a parameter or an auto local, or a
\* static local (attr.var.duration DURATION_STATIC, linkage none).
Id(v, ty)       == [k |-> "id", v |-> v, ty |-> ty, sto |-> "auto"]
StaticId(v, ty) == [k |-> "id", v |-> v, ty |-> ty, sto |-> "static"]

\* analyze_iconst: a decimal constant up to INT_MAX is an int; with the
\* suffix u one up to UINT_MAX is an unsigned.
IConstD(n)  == [k |-> "iconst", val |-> n, ty |-> "int"]
IConstDU(n) == [k |-> "iconst", val |-> n, ty |-> "unsigned"]

RelOps   == {"lt", "gt", "let", "get", "eq", "neq"}
ShiftOps == {"lshift", "rshift"}
ArithOps == {"mul", "div", "rem", "plus", "minus"}
BitOps   == {"bw_and", "bw_or", "bw_xor"}

\* A binary operator node: the comma takes the type of its right operand
\* (analyze_expression), the relational, equality and logical operators
\* give int, the multiplicative, additive and bitwise ones the usual
\* arithmetic conversions of their promoted operands.
Bin(op, l, r) ==
    [k |-> op, l |-> l, r |-> r,
     ty |-> CASE op = "comma"                         -> r.ty
              [] op \in RelOps \cup {"and", "or"}     -> "int"
              [] op \in ArithOps \cup BitOps          -> ArithType(l.ty, r.ty)]

\* analyze_bitwise_operator on << and >>: no usual arithmetic conversions,
\* the type of the promoted left operand.
Shift(op, l, r) == [k |-> op, l |-> l, r |-> r, ty |-> get_promoted_type(l.ty)]

\* analyze_assignment_expression: the type of the left operand; for
\* E1 op= E2 the type of E1 op E2 is saved in the node (child[2]).
Assign(l, r)       == [k |-> "assign", l |-> l, r |-> r, ty |-> l.ty]
OpAssign(op, l, r) == [k |-> "opassign", op |-> op, l |-> l, r |-> r, ty |-> l.ty,
                       cty |-> IF op \in ShiftOps THEN Shift(op, l, r).ty
                              ELSE ArithType(l.ty, r.ty)]

\* analyze_conditional_expression on integer operands.
Cond(c, a, b) == [k |-> "cond", c |-> c, l |-> a, r |-> b, ty |-> ArithType(a.ty, b.ty)]

\* analyze_cast_expression: the type named by the cast.
Cast(e, ty) == [k |-> "cast", l |-> e, ty |-> ty]

\* analyze_inc_dec_operator ("preinc", "predec", "postinc", "postdec"): the
\* type of the operand.
IncDec(op, e) == [k |-> op, l |-> e, ty |-> e.ty]

\* analyze_unary_expression: + - ~ give the promoted operand type, ! int.
Unary(op, e) == [k |-> op, l |-> e, ty |-> IF op = "not" THEN "int" ELSE get_promoted_type(e.ty)]

\* Statement nodes.  A declaration of a compound statement is one
\* declarator [name, ty, init, sto], auto or static.
ExpStmt(e)          == [k |-> "exp", e |-> e]
Return(e)           == [k |-> "ret", e |-> e]
If(c, s1, s2)       == [k |-> "if", c |-> c, s1 |-> s1, s2 |-> s2]
While(c, s)         == [k |-> "while", c |-> c, s1 |-> s]
Do(s, c)            == [k |-> "do", c |-> c, s1 |-> s]
For(e1, e2, e3, s)  == [k |-> "for", e1 |-> e1, c |-> e2, e3 |-> e3, s1 |-> s]
Switch(e, s)        == [k |-> "switch", c |-> e, s1 |-> s]
Case(v, s)          == [k |-> "case", val |-> v, s1 |-> s]
Default(s)          == [k |-> "default", s1 |-> s]
Break               == [k |-> "break"]
Continue            == [k |-> "continue"]
Cmpnd(locals, ss)   == [k |-> "cmpnd", locals |-> locals, stmts |-> ss]
Goto(l)             == [k |-> "goto", label |-> l]
Labeled(l, s)       == [k |-> "label", label |-> l, s1 |-> s]
Local(v, ty, init)  == [name |-> v, ty |-> ty, init |-> init, sto |-> "auto"]
StaticLocal(v, ty, init) == [name |-> v, ty |-> ty, init |-> init, sto |-> "static"]
Param(v, ty)        == [name |-> v, ty |-> ty]
\* Identifiers (function and label names) are sequences of characters.
FuncDef(name, ret, params, body) == [name |-> name, ret |-> ret, params |-> params, body |-> body]

-----------------------------------------------------------------------------
(* Values.                                                                 *)

Wrap(v, bits, signed) ==
    LET m == 2^bits
        r == v % m
    IN  IF signed /\ r >= m \div 2 THEN r - m ELSE r

\* Conversion of an integer to a type (two's complement truncation).
ConvertTo(v, ty) ==
    CASE ty \in {"char", "schar"}   -> Wrap(v, 8, TRUE)
      [] ty = "uchar"               -> Wrap(v, 8, FALSE)
      [] ty \in {"int", "long"}     -> Wrap(v, WORD_BITS, TRUE)
      [] ty \in {"unsigned", "ulong"} -> Wrap(v, WORD_BITS, FALSE)

ToWord(v)   == v % WORD
Signed(w)   == Wrap(w, WORD_BITS, TRUE)

\* C division truncates toward zero.
CDiv(a, b) == LET q == (IF a < 0 THEN -a ELSE a) \div (IF b < 0 THEN -b ELSE b)
              IN  IF (a < 0) = (b < 0) THEN q ELSE -q

\* Bitwise operators on the two's complement words of a and b.
BitOp(op, a, b) ==
    CASE op = "bw_and" -> ToWord(a) & ToWord(b)
      [] op = "bw_or"  -> ToWord(a) | ToWord(b)
      [] op = "bw_xor" -> ToWord(a) ^^ ToWord(b)

\* A zero divisor, or INT_MIN / -1, is undefined behaviour.
ArithUB(op, a, b, ty) ==
    op \in {"div", "rem"} /\ (b = 0 \/ (is_signed_int(ty) /\ a = -INT_MAX - 1 /\ b = -1))

\* a op b for a and b of type ty; the result is wrapped to ty (signed
\* overflow is undefined in C: the wrapped value is one of its outcomes).
ArithIn(op, a, b, ty) ==
    ConvertTo(CASE op = "plus"   -> a + b
                [] op = "minus"  -> a - b
                [] op = "mul"    -> a * b
                [] op = "div"    -> CDiv(a, b)
                [] op = "rem"    -> a - CDiv(a, b) * b
                [] op \in BitOps -> BitOp(op, a, b), ty)

\* E1 << E2 and E1 >> E2 (C99 6.5.7) for a of the promoted type ty of E1 and
\* b of that of E2: a count that is negative or not below the width, and a
\* signed E1 << E2 that is negative or does not fit, are undefined; >> of
\* a negative value is implementation-defined, taken as arithmetic (sra).
ShiftUB(op, a, b, ty) ==
    \/ b < 0 \/ b >= WORD_BITS
    \/ op = "lshift" /\ is_signed_int(ty) /\ (a < 0 \/ a * 2^b > INT_MAX)
ShiftIn(op, a, b, ty) ==
    IF op = "lshift" THEN ConvertTo(a * 2^b, ty) ELSE a \div 2^b

Compare(op, a, b) ==
    CASE op = "lt" -> a < b  [] op = "gt"  -> a > b
      [] op = "let" -> a <= b [] op = "get" -> a >= b
      [] op = "eq" -> a = b  [] op = "neq" -> a # b

B2I(b) == IF b THEN 1 ELSE 0

-----------------------------------------------------------------------------
(* Reference evaluator: C semantics, operands left to right, && and ||    *)
(* short-circuit.  An expression gives [v, env, ub]; ub marks undefined    *)
(* behaviour, after which nothing is compared.                             *)

Val(v, env) == [v |-> v, env |-> env, ub |-> FALSE]
UBAt(env)   == [v |-> 0, env |-> env, ub |-> TRUE]

\* The rest of an evaluation, unless the part before it was undefined.
Then(r, Rest(_)) == Bind(r, LAMBDA x : IF x.ub THEN x ELSE Rest(x))

RECURSIVE EvalE(_, _)
EvalE(e, env) ==
    LET both(F(_, _)) == Then(EvalE(e.l, env), LAMBDA r1 :
                         Then(EvalE(e.r, r1.env), LAMBDA r2 : F(r1, r2)))
        arith(op, ty, a, b, env1) ==
            IF ArithUB(op, ConvertTo(a, ty), ConvertTo(b, ty), ty) THEN UBAt(env1)
            ELSE Val(ArithIn(op, ConvertTo(a, ty), ConvertTo(b, ty), ty), env1)
        shift(op, ty, a, b, env1) ==
            LET x == ConvertTo(a, ty)
                y == ConvertTo(b, get_promoted_type(e.r.ty))
            IN  IF ShiftUB(op, x, y, ty) THEN UBAt(env1) ELSE Val(ShiftIn(op, x, y, ty), env1)
        calc(op, ty, a, b, env1) ==
            IF op \in ShiftOps THEN shift(op, ty, a, b, env1) ELSE arith(op, ty, a, b, env1)
        step(d) == ConvertTo(env[e.l.v] + d, e.ty)
    IN
    CASE e.k = "id"     -> Val(env[e.v], env)
      [] e.k = "iconst" -> Val(e.val, env)
      [] e.k = "comma"  -> Then(EvalE(e.l, env), LAMBDA r1 : EvalE(e.r, r1.env))
      [] e.k = "assign" ->
            Then(EvalE(e.r, env), LAMBDA r :
                LET nv == ConvertTo(r.v, e.ty) IN Val(nv, [r.env EXCEPT ![e.l.v] = nv]))
      [] e.k = "opassign" ->
            both(LAMBDA r1, r2 :
                Then(calc(e.op, e.cty, r1.v, r2.v, r2.env), LAMBDA r :
                    LET nv == ConvertTo(r.v, e.ty) IN Val(nv, [r.env EXCEPT ![e.l.v] = nv])))
      [] e.k = "cond" ->
            Then(EvalE(e.c, env), LAMBDA rc :
            Then(EvalE(IF rc.v # 0 THEN e.l ELSE e.r, rc.env), LAMBDA r :
                Val(ConvertTo(r.v, e.ty), r.env)))
      [] e.k = "and" ->
            Then(EvalE(e.l, env), LAMBDA r1 :
                IF r1.v = 0 THEN Val(0, r1.env)
                ELSE Then(EvalE(e.r, r1.env), LAMBDA r2 : Val(B2I(r2.v # 0), r2.env)))
      [] e.k = "or" ->
            Then(EvalE(e.l, env), LAMBDA r1 :
                IF r1.v # 0 THEN Val(1, r1.env)
                ELSE Then(EvalE(e.r, r1.env), LAMBDA r2 : Val(B2I(r2.v # 0), r2.env)))
      [] e.k \in RelOps ->
            both(LAMBDA r1, r2 :
                LET ct == ArithType(e.l.ty, e.r.ty)
                IN  Val(B2I(Compare(e.k, ConvertTo(r1.v, ct), ConvertTo(r2.v, ct))), r2.env))
      [] e.k \in ArithOps \cup BitOps ->
            both(LAMBDA r1, r2 : arith(e.k, e.ty, r1.v, r2.v, r2.env))
      [] e.k \in ShiftOps ->
            both(LAMBDA r1, r2 : shift(e.k, e.ty, r1.v, r2.v, r2.env))
      [] e.k = "cast" -> Then(EvalE(e.l, env), LAMBDA r : Val(ConvertTo(r.v, e.ty), r.env))
      [] e.k = "preinc"  -> Val(step(1), [env EXCEPT ![e.l.v] = step(1)])
      [] e.k = "predec"  -> Val(step(-1), [env EXCEPT ![e.l.v] = step(-1)])
      [] e.k = "postinc" -> Val(env[e.l.v], [env EXCEPT ![e.l.v] = step(1)])
      [] e.k = "postdec" -> Val(env[e.l.v], [env EXCEPT ![e.l.v] = step(-1)])
      [] e.k \in {"uplus", "uminus", "cmpl", "not"} ->
            Then(EvalE(e.l, env), LAMBDA r :
                Val(CASE e.k = "uplus"  -> ConvertTo(r.v, e.ty)
                      [] e.k = "uminus" -> ConvertTo(-r.v, e.ty)
                      [] e.k = "cmpl"   -> ConvertTo(-r.v - 1, e.ty)
                      [] e.k = "not"    -> B2I(r.v = 0), r.env))

(* A statement runs from [env, mode, ret, fuel, target]; mode is one of    *)
(* "normal", "break", "continue", "return", "goto" (a goto left for the   *)
(* label `target'), "seek" (control is looking for `target': the case     *)
(* label of the switch being entered, or the label of a goto), "timeout"  *)
(* (fuel, the bound on loop iterations and gotos, ran out) and "ub".       *)

Stopped(st) == st.mode \in {"break", "continue", "goto", "return", "timeout", "ub"}

CaseTarget(dflt, val, ty) == [kind |-> "case", dflt |-> dflt, val |-> val, ty |-> ty, label |-> << >>]
LabelTarget(l)            == [kind |-> "label", dflt |-> FALSE, val |-> 0, ty |-> "int", label |-> l]

\* The state after an expression evaluated in st.
AfterE(st, r) == IF r.ub THEN [st EXCEPT !.mode = "ub"] ELSE [st EXCEPT !.env = r.env]

\* Does the label of case, default or labelled statement s select target?
Selects(s, target) ==
    CASE s.k = "label"         -> target.kind = "label" /\ target.label = s.label
      [] target.kind = "label" -> FALSE
      [] s.k = "default"       -> target.dflt
      [] OTHER                 -> ~target.dflt /\ ConvertTo(s.val, target.ty) = target.val

RECURSIVE EvalS(_, _, _), EvalSeq(_, _, _), EvalLoop(_, _, _), LoopNext(_, _, _), EvalLocals(_, _)
EvalS(s, rt, st) ==
    IF Stopped(st) THEN st
    ELSE IF st.mode = "seek" THEN
      CASE s.k \in {"case", "default", "label"} ->
              EvalS(s.s1, rt, IF Selects(s, st.target) THEN [st EXCEPT !.mode = "normal"] ELSE st)
        [] s.k = "switch" /\ st.target.kind = "label" ->
              \* a goto into a switch body: a break there leaves the switch
              Bind(EvalS(s.s1, rt, st), LAMBDA st1 :
                  IF st1.mode = "break" THEN [st1 EXCEPT !.mode = "normal"] ELSE st1)
        [] s.k = "cmpnd" -> EvalSeq(s.stmts, rt, st)
        [] s.k = "if" ->
              Bind(EvalS(s.s1, rt, st), LAMBDA st1 :
                  IF st1.mode = "seek" /\ s.s2 # NoStmt THEN EvalS(s.s2, rt, st1) ELSE st1)
        [] s.k \in {"while", "do", "for"} ->
              \* a label inside the body: the loop goes on after the body
              Bind(EvalS(s.s1, rt, st), LAMBDA st1 :
                  CASE st1.mode = "seek"                    -> st1
                    [] st1.mode \in {"normal", "continue"}  -> LoopNext(s, rt, st1)
                    [] st1.mode = "break"                   -> [st1 EXCEPT !.mode = "normal"]
                    [] OTHER                                -> st1)
        [] OTHER -> st     \* skipped, and nested switches when seeking a case
    ELSE
      CASE s.k = "exp" -> IF s.e = NoExp THEN st ELSE AfterE(st, EvalE(s.e, st.env))
        [] s.k = "ret" ->
              IF s.e = NoExp THEN [st EXCEPT !.mode = "return"]
              ELSE Bind(EvalE(s.e, st.env), LAMBDA r :
                      IF r.ub THEN [st EXCEPT !.mode = "ub"]
                      ELSE [st EXCEPT !.env = r.env, !.mode = "return", !.ret = <<ConvertTo(r.v, rt)>>])
        [] s.k = "if" ->
              Bind(EvalE(s.c, st.env), LAMBDA c :
                  IF c.ub THEN AfterE(st, c)
                  ELSE IF c.v # 0 THEN EvalS(s.s1, rt, AfterE(st, c))
                  ELSE IF s.s2 = NoStmt THEN AfterE(st, c) ELSE EvalS(s.s2, rt, AfterE(st, c)))
        [] s.k = "while" -> EvalLoop(s, rt, st)
        [] s.k = "do" ->
              Bind(EvalS(s.s1, rt, st), LAMBDA st1 :
                  CASE st1.mode \in {"normal", "continue"} -> LoopNext(s, rt, st1)
                    [] st1.mode = "break"                  -> [st1 EXCEPT !.mode = "normal"]
                    [] OTHER                               -> st1)
        [] s.k = "for" ->
              EvalLoop(s, rt, IF s.e1 = NoExp THEN st ELSE AfterE(st, EvalE(s.e1, st.env)))
        [] s.k = "switch" ->
              Bind(EvalE(s.c, st.env), LAMBDA c :
                  LET ty   == get_promoted_type(s.c.ty)
                      seek(d) == EvalS(s.s1, rt, [AfterE(st, c) EXCEPT !.mode = "seek",
                                                   !.target = CaseTarget(d, c.v, ty)])
                  IN  IF c.ub THEN AfterE(st, c)
                      ELSE Bind(seek(FALSE), LAMBDA st1 :
                           Bind(IF st1.mode = "seek" THEN seek(TRUE) ELSE st1, LAMBDA st2 :
                               IF st2.mode \in {"seek", "break"} THEN [st2 EXCEPT !.mode = "normal"]
                               ELSE st2)))
        [] s.k \in {"case", "default", "label"} -> EvalS(s.s1, rt, st)
        [] s.k = "goto"     -> [st EXCEPT !.mode = "goto", !.target = LabelTarget(s.label)]
        [] s.k = "break"    -> [st EXCEPT !.mode = "break"]
        [] s.k = "continue" -> [st EXCEPT !.mode = "continue"]
        [] s.k = "cmpnd"    -> EvalSeq(s.stmts, rt, EvalLocals(s.locals, st))

EvalSeq(ss, rt, st) ==
    IF ss = << >> THEN st
    ELSE Bind(EvalS(Head(ss), rt, st), LAMBDA st1 : EvalSeq(Tail(ss), rt, st1))

\* The initializers of the auto locals of a block, in order; a static
\* local is initialised once, before the program starts (C99 6.2.4).
EvalLocals(ds, st) ==
    IF ds = << >> \/ Stopped(st) THEN st
    ELSE EvalLocals(Tail(ds),
           IF Head(ds).init = NoExp \/ Head(ds).sto = "static" THEN st
           ELSE Bind(EvalE(Head(ds).init, st.env), LAMBDA r :
                    AfterE(st, [r EXCEPT !.env = [@ EXCEPT ![Head(ds).name] = ConvertTo(r.v, Head(ds).ty)]])))

\* A loop from its controlling expression on: test, body, (e3 of a for),
\* and again, at most fuel times.
EvalLoop(s, rt, st) ==
    IF Stopped(st) THEN st
    ELSE Bind(IF s.c = NoExp THEN Val(1, st.env) ELSE EvalE(s.c, st.env), LAMBDA c :
         CASE c.ub      -> AfterE(st, c)
           [] c.v = 0   -> AfterE(st, c)
           [] st.fuel = 0 -> [st EXCEPT !.mode = "timeout"]
           [] OTHER ->
              Bind(EvalS(s.s1, rt, [AfterE(st, c) EXCEPT !.fuel = @ - 1]), LAMBDA st1 :
              CASE st1.mode = "break" -> [st1 EXCEPT !.mode = "normal"]
                [] st1.mode \in {"normal", "continue"} -> LoopNext(s, rt, st1)
                [] OTHER -> st1))

\* After the body of a loop ended normally or by continue: e3 of a for,
\* then the loop again.
LoopNext(s, rt, st) ==
    LET st1 == [st EXCEPT !.mode = "normal"]
    IN  EvalLoop(s, rt, IF s.k = "for" /\ s.e3 # NoExp THEN AfterE(st1, EvalE(s.e3, st1.env)) ELSE st1)

\* The body of f from st; a goto that leaves it runs the body again from
\* the top, seeking the label (labels have function scope), one unit of
\* fuel per goto.
RECURSIVE EvalBody(_, _)
EvalBody(f, st) ==
    Bind(EvalS(f.body, f.ret, st), LAMBDA st1 :
        CASE st1.mode # "goto" -> st1
          [] st1.fuel = 0      -> [st1 EXCEPT !.mode = "timeout"]
          [] OTHER             -> EvalBody(f, [st1 EXCEPT !.mode = "seek", !.fuel = @ - 1]))

\* A function body run from the values env0 of its parameters and locals.
EvalFunction(f, env0, fuel) ==
    EvalBody(f, [env |-> env0, mode |-> "normal", ret |-> << >>, fuel |-> fuel,
                 target |-> CaseTarget(TRUE, 0, "int")])
-----------------------------------------------------------------------------
(* LuxVM.  An instruction is [op, arg]; "lab" places label arg, "ldi@T"    *)
(* loads the address of search table @T<arg>, and an "ldi" with a name     *)
(* loads the address syms gives that data symbol (the linker's).  A state  *)
(* is [pc, stk, mem, mode, ret]: stk is the operand stack, top last; mem   *)
(* maps the word address of each stack slot of the frame and of each      *)
(* static object to the word it holds.  Words are stored little-endian,   *)
(* so a byte access reads or writes the low byte of the word at its       *)
(* address.  Frame addresses are BP + offset.                              *)

BP == 2^(WORD_BITS - 1)

Instr(op, arg) == [op |-> op, arg |-> arg]

\* An instruction naming a label by its name m (a sequence of characters)
\* instead of a number: "jmp @@f_l;" and "@@f_l:".
NamedInstr(op, m) == [op |-> op, arg |-> 0, name |-> m]

SignExtendByte(w) == ToWord(Wrap(w % 256, 8, TRUE))

\* The position of the label that jump instruction j names (0 if it is
\* placed nowhere), and that of numbered label l.
JumpPos(code, j) ==
    LET lab == [j EXCEPT !.op = "lab"]
    IN  IF \E p \in DOMAIN code : code[p] = lab
        THEN CHOOSE p \in DOMAIN code : code[p] = lab ELSE 0
LabelPos(code, l) == JumpPos(code, Instr("jmp", l))

\* The index of the entry of a search table (the dwords emitted for it:
\* size n, the n-1 case values, then n labels, the default's first) that
\* value v selects: the first label when no case value equals v.
TableTarget(t, v) ==
    LET n == t[1]
    IN  IF \E i \in 1..n-1 : t[1 + i] = v
        THEN t[1 + n + CHOOSE i \in 1..n-1 : t[1 + i] = v] ELSE t[1 + n]

ULess(a, b) == a < b
SLess(a, b) == Signed(a) < Signed(b)

BinaryWordOps == {"add", "sub", "mul", "sdiv", "udiv", "smod", "umod", "and", "or", "xor",
                  "sll", "sra", "srl",
                  "eq", "neq", "slt", "sgt", "slet", "sget", "ult", "ugt", "ulet", "uget"}

\* b op a where a was on top of b.
WordOp(op, b, a) ==
    CASE op = "add"  -> ToWord(b + a)
      [] op = "sub"  -> ToWord(b - a)
      [] op = "mul"  -> ToWord(b * a)
      [] op = "sdiv" -> ToWord(CDiv(Signed(b), Signed(a)))
      [] op = "udiv" -> b \div a
      [] op = "smod" -> ToWord(Signed(b) - CDiv(Signed(b), Signed(a)) * Signed(a))
      [] op = "umod" -> b % a
      [] op = "and"  -> b & a
      [] op = "or"   -> b | a
      [] op = "xor"  -> b ^^ a
      \* shift counts modulo the width: C defines only those below it
      [] op = "sll"  -> ToWord(b * 2^(a % WORD_BITS))
      [] op = "srl"  -> b \div 2^(a % WORD_BITS)
      [] op = "sra"  -> ToWord(Signed(b) \div 2^(a % WORD_BITS))
      [] op = "eq"   -> B2I(b = a)
      [] op = "neq"  -> B2I(b # a)
      [] op = "slt"  -> B2I(SLess(b, a))
      [] op = "sgt"  -> B2I(SLess(a, b))
      [] op = "slet" -> B2I(~SLess(a, b))
      [] op = "sget" -> B2I(~SLess(b, a))
      [] op = "ult"  -> B2I(ULess(b, a))
      [] op = "ugt"  -> B2I(ULess(a, b))
      [] op = "ulet" -> B2I(~ULess(a, b))
      [] op = "uget" -> B2I(~ULess(b, a))

\* One instruction from state st; a division by zero traps, a jump to a
\* label that is placed nowhere, or an access outside the frame, is stuck.
StepVM(code, tables, syms, st) ==
    LET i     == code[st.pc]
        stk   == st.stk
        n     == Len(stk)
        top   == stk[n]
        below == stk[n - 1]
        next(s) == [st EXCEPT !.stk = s, !.pc = @ + 1]
        push(w) == next(Append(stk, w))
        go(s, l) == [st EXCEPT !.stk = s, !.pc = LabelPos(code, l)]
        jump(s)  == [st EXCEPT !.stk = s, !.pc = JumpPos(code, i)]
        stuck   == [st EXCEPT !.mode = "stuck"]
        Pop1    == SubSeq(stk, 1, n - 1)
        Pop2    == SubSeq(stk, 1, n - 2)
    IN
    CASE i.op = "ldi"   -> push(IF "name" \in DOMAIN i THEN syms[i.name] ELSE ToWord(i.arg))
      [] i.op = "ldi@T" -> push(i.arg)
      [] i.op = "ldbp"  -> push(ToWord(BP + i.arg))
      [] i.op \in {"lddw", "ldb", "ldub"} ->
            IF top \notin DOMAIN st.mem THEN stuck
            ELSE next(Append(Pop1, CASE i.op = "lddw" -> st.mem[top]
                                     [] i.op = "ldb"  -> SignExtendByte(st.mem[top])
                                     [] i.op = "ldub" -> st.mem[top] % 256))
      [] i.op \in {"stdw", "stb"} ->
            IF top \notin DOMAIN st.mem THEN stuck
            ELSE [next(Append(Pop2, below)) EXCEPT
                    !.mem[top] = IF i.op = "stdw" THEN below ELSE (@ - (@ % 256)) + (below % 256)]
      [] i.op = "pop"   -> next(Pop1)
      [] i.op = "dup"   -> push(top)
      [] i.op = "swap"  -> next(Append(Append(Pop2, top), below))
      [] i.op \in BinaryWordOps ->
            IF i.op \in {"sdiv", "udiv", "smod", "umod"} /\ top = 0
            THEN [st EXCEPT !.mode = "trap"]
            ELSE next(Append(Pop2, WordOp(i.op, below, top)))
      [] i.op = "neg"   -> next(Append(Pop1, ToWord(-top)))
      [] i.op = "cmpl"  -> next(Append(Pop1, WORD - 1 - top))
      [] i.op = "not"   -> next(Append(Pop1, B2I(top = 0)))
      [] i.op = "dw2b"  -> next(Append(Pop1, SignExtendByte(top)))
      [] i.op = "dw2ub" -> next(Append(Pop1, top % 256))
      [] i.op = "jmp"   -> jump(stk)
      [] i.op = "jmpf"  -> IF top = 0 THEN jump(Pop1) ELSE next(Pop1)
      [] i.op = "jmpt"  -> IF top # 0 THEN jump(Pop1) ELSE next(Pop1)
      [] i.op = "switch" -> go(Pop2, TableTarget(tables[top], below))
      [] i.op = "ret"   -> [st EXCEPT !.mode = "done", !.ret = top]
      [] i.op \in {"lab", "addsp"} -> next(stk)

VMRunning(code, st) == st.mode = "run" /\ st.pc \in DOMAIN code

\* At most k instructions from st, nested in chunks of VMChunk so that
\* the depth of the evaluation stays small.
VMChunk == 16

RECURSIVE VMSteps(_, _, _, _, _), VMRun(_, _, _, _, _)
VMSteps(code, tables, syms, st, k) ==
    IF k = 0 \/ ~VMRunning(code, st) THEN st
    ELSE Bind(StepVM(code, tables, syms, st), LAMBDA st1 : VMSteps(code, tables, syms, st1, k - 1))

\* Run until ret, a trap, a stuck state or fuel instructions; falling off
\* the code or jumping to label 0 is "stuck".
VMRun(code, tables, syms, st, fuel) ==
    IF st.mode = "run" /\ st.pc \notin DOMAIN code THEN [st EXCEPT !.mode = "stuck"]
    ELSE IF ~VMRunning(code, st) THEN st
    ELSE IF fuel <= 0 THEN [st EXCEPT !.mode = "timeout"]
    ELSE Bind(VMSteps(code, tables, syms, st, VMChunk), LAMBDA st1 : VMRun(code, tables, syms, st1, fuel - VMChunk))

RunVM(code, tables, syms, mem0, fuel) ==
    VMRun(code, tables, syms, [pc |-> 1, stk |-> << >>, mem |-> mem0, mode |-> "run", ret |-> 0], fuel)
=============================================================================
