---------------------------- MODULE ICSemantics ----------------------------
(***************************************************************************)
(* Meaning of the C subset that ic.c lowers, and of the quads it emits.   *)
(*                                                                         *)
(* These definitions are the yardstick of the properties of ICGen: a      *)
(* reference evaluator of the abstract syntax tree (C semantics) and an    *)
(* interpreter of the quad stream (the meaning of each OpKind as the       *)
(* back end gives it).  Neither translates code of the generator.          *)
(*                                                                         *)
(* An identifier of the source is a pair <<base, suffix>>: the name is     *)
(* the string base followed by the decimal digits of suffix, or by no      *)
(* digits when suffix is -1.  An identifier of the quads (a "sid") is a    *)
(* triple <<base, suffix, scope>>; scope -1 means "no :scope part".        *)
(***************************************************************************)
EXTENDS Integers, Sequences, Steps

NoExp  == [k |-> "none"]
NoStmt == [k |-> "none"]

\* Expression nodes; `ty' is the type category the analyzer gave the node.
Id(v, ty, sc)  == [k |-> "id", v |-> v, param |-> FALSE, scope |-> sc, ty |-> ty]
Param(v, ty)   == [k |-> "id", v |-> v, param |-> TRUE, scope |-> 0, ty |-> ty]
IConst(n)      == [k |-> "iconst", val |-> n, ty |-> "int"]
Bin(op, l, r)  == [k |-> op, l |-> l, r |-> r, ty |-> "int"]
Neg(e)         == [k |-> "neg", l |-> e, ty |-> "int"]
Assign(lhs, r) == [k |-> "assign", l |-> lhs, r |-> r, ty |-> lhs.ty]

\* Statement nodes, declarations and function definitions.
ExpStmt(e)           == [k |-> "exp", e |-> e]
Return(e)            == [k |-> "ret", e |-> e]
If(c, s1, s2)        == [k |-> "if", c |-> c, s1 |-> s1, s2 |-> s2]
While(c, s)          == [k |-> "while", c |-> c, s1 |-> s]
Cmpnd(locals, stmts) == [k |-> "cmpnd", locals |-> locals, stmts |-> stmts]
Decl(sc, ty, names)  == [sc |-> sc, ty |-> ty, names |-> names]
FuncDef(ret, params, body) == [ret |-> ret, params |-> params, body |-> body]

\* Conversion of an integer value to a narrow type (two's complement).
Wrap(v, bits, signed) ==
    LET m == 2^bits
        r == v % m
    IN  IF signed /\ r >= m \div 2 THEN r - m ELSE r

ConvertTo(v, ty) ==
    CASE ty \in {"char", "schar"} -> Wrap(v, 8, TRUE)
      [] ty = "uchar"             -> Wrap(v, 8, FALSE)
      [] ty = "short"             -> Wrap(v, 16, TRUE)
      [] ty = "ushort"            -> Wrap(v, 16, FALSE)
      [] OTHER                    -> v

\* C division truncates toward zero.
CDiv(a, b) == LET q == (IF a < 0 THEN -a ELSE a) \div (IF b < 0 THEN -b ELSE b)
              IN  IF (a < 0) = (b < 0) THEN q ELSE -q

Arith(op, a, b) ==
    CASE op = "plus" -> a + b
      [] op = "mul"  -> a * b
      [] op = "div"  -> CDiv(a, b)

-----------------------------------------------------------------------------
(* Reference evaluator: C semantics of the source, left to right, with    *)
(* short-circuit &&.  The state of a statement is                          *)
(* [env, mode \in {"normal","return","timeout"}, ret, fuel]; ret is << >> *)
(* or <<value>>; fuel bounds the loop iterations.                          *)

RECURSIVE EvalE(_, _)
EvalE(e, env) ==
    CASE e.k = "id"     -> [v |-> env[e.v], env |-> env]
      [] e.k = "iconst" -> [v |-> e.val, env |-> env]
      [] e.k = "neg"    -> LET r == EvalE(e.l, env) IN [v |-> -r.v, env |-> r.env]
      [] e.k = "and"    ->
            LET r1 == EvalE(e.l, env)
                r2 == EvalE(e.r, r1.env)
            IN  IF r1.v = 0 THEN [v |-> 0, env |-> r1.env]
                ELSE [v |-> IF r2.v = 0 THEN 0 ELSE 1, env |-> r2.env]
      [] e.k \in {"plus", "mul", "div"} ->
            LET r1 == EvalE(e.l, env)
                r2 == EvalE(e.r, r1.env)
            IN  [v |-> Arith(e.k, r1.v, r2.v), env |-> r2.env]
      [] e.k = "assign" ->
            LET r  == EvalE(e.r, env)
                nv == ConvertTo(r.v, e.l.ty)
            IN  [v |-> nv, env |-> [r.env EXCEPT ![e.l.v] = nv]]

RECURSIVE EvalS(_, _, _), EvalSeq(_, _, _), EvalWhile(_, _, _)
EvalS(s, rt, st) ==
    IF st.mode # "normal" THEN st
    ELSE CASE s.k = "exp" ->
                IF s.e = NoExp THEN st ELSE [st EXCEPT !.env = EvalE(s.e, st.env).env]
           [] s.k = "ret" ->
                IF s.e = NoExp THEN [st EXCEPT !.mode = "return"]
                ELSE LET r == EvalE(s.e, st.env)
                     IN  [st EXCEPT !.env = r.env, !.mode = "return",
                                    !.ret = <<ConvertTo(r.v, rt)>>]
           [] s.k = "if" ->
                LET c   == EvalE(s.c, st.env)
                    st1 == [st EXCEPT !.env = c.env]
                IN  IF c.v # 0 THEN EvalS(s.s1, rt, st1)
                    ELSE IF s.s2 = NoStmt THEN st1 ELSE EvalS(s.s2, rt, st1)
           [] s.k = "while" -> EvalWhile(s, rt, st)
           [] s.k = "cmpnd" -> EvalSeq(s.stmts, rt, st)

EvalSeq(ss, rt, st) ==
    IF ss = << >> THEN st ELSE EvalSeq(Tail(ss), rt, EvalS(Head(ss), rt, st))

EvalWhile(s, rt, st) ==
    LET c == EvalE(s.c, st.env)
    IN  CASE st.mode # "normal" -> st
          [] c.v = 0            -> [st EXCEPT !.env = c.env]
          [] st.fuel = 0        -> [st EXCEPT !.mode = "timeout"]
          [] OTHER              ->
                EvalWhile(s, rt, EvalS(s.s1, rt, [st EXCEPT !.env = c.env, !.fuel = @ - 1]))

\* Run of a function body from the environment env0.
EvalFunction(f, env0, fuel) ==
    EvalS(f.body, f.ret, [env |-> env0, mode |-> "normal", ret |-> << >>, fuel |-> fuel])

\* The identifier nodes of an expression and of a statement.
RECURSIVE IdsOfE(_), IdsOfS(_)
IdsOfE(e) ==
    CASE e.k = "id"                  -> {e}
      [] e.k \in {"neg"}             -> IdsOfE(e.l)
      [] e.k \in {"none", "iconst"}  -> {}
      [] OTHER                       -> IdsOfE(e.l) \cup IdsOfE(e.r)

IdsOfS(s) ==
    CASE s.k \in {"exp", "ret"} -> IdsOfE(s.e)
      [] s.k = "if"    -> IdsOfE(s.c) \cup IdsOfS(s.s1) \cup IdsOfS(s.s2)
      [] s.k = "while" -> IdsOfE(s.c) \cup IdsOfS(s.s1)
      [] s.k = "cmpnd" -> UNION {IdsOfS(s.stmts[i]) : i \in DOMAIN s.stmts}
      [] OTHER         -> {}

-----------------------------------------------------------------------------
(* Quad interpreter.  A variable address names its sid; the environment  *)
(* holds every sid of the address table.  Ret records the returned value and      *)
(* control continues (to the Jmp to the exit label), as the back ends do. *)

IRRead(addrs, env, a) ==
    IF addrs[a].kind = "IConst" THEN addrs[a].val ELSE env[addrs[a].id]

IRWrite(addrs, env, a, v) == [env EXCEPT ![addrs[a].id] = v]

\* Position of the Lab quad of label number v (0 if none).
LabPos(instrs, addrs, v) ==
    IF \E p \in 1..Len(instrs) : instrs[p].op = "Lab" /\ addrs[instrs[p].tar].val = v
    THEN CHOOSE p \in 1..Len(instrs) : instrs[p].op = "Lab" /\ addrs[instrs[p].tar].val = v
    ELSE 0

ConvOpType == [Ch |-> "char", UCh |-> "uchar", Sh |-> "short", USh |-> "ushort"]

\* One quad executed from state st = [pc, env, ret, mode].
StepIR(instrs, addrs, st) ==
    LET q   == instrs[st.pc]
        rd(a) == IRRead(addrs, st.env, a)
        wr(v) == [st EXCEPT !.env = IRWrite(addrs, st.env, q.tar, v), !.pc = @ + 1]
        go(l) == [st EXCEPT !.pc = LabPos(instrs, addrs, addrs[l].val)]
    IN  CASE q.op = "Asn" -> wr(rd(q.arg1))
          [] q.op = "Add" -> wr(rd(q.arg1) + rd(q.arg2))
          [] q.op = "Mul" -> wr(rd(q.arg1) * rd(q.arg2))
          [] q.op = "Div" -> wr(CDiv(rd(q.arg1), rd(q.arg2)))
          [] q.op = "Neg" -> wr(-rd(q.arg1))
          [] q.op \in DOMAIN ConvOpType -> wr(ConvertTo(rd(q.arg1), ConvOpType[q.op]))
          [] q.op = "CBr" -> IF rd(q.tar) # 0 THEN go(q.arg1) ELSE go(q.arg2)
          [] q.op = "Jmp" -> go(q.tar)
          [] q.op = "Lab" -> [st EXCEPT !.pc = @ + 1]
          [] q.op = "Ret" -> [st EXCEPT !.ret = <<rd(q.arg1)>>, !.pc = @ + 1]

\* Execution stops at pc 0 (a jump to a label with no Lab: "stuck") or past
\* the last quad ("done").
Running(instrs, st) == st.mode = "run" /\ st.pc \in 1..Len(instrs)

Halt(instrs, st) ==
    IF st.mode # "run" THEN st
    ELSE [st EXCEPT !.mode = IF st.pc = 0 THEN "stuck" ELSE "done"]

\* At most n quads from st; the runs are nested in chunks of IRChunk quads
\* so that the depth of the evaluation stays small.
IRChunk == 16

RECURSIVE RunSteps(_, _, _, _), RunIR(_, _, _, _)
RunSteps(instrs, addrs, st, n) ==
    IF n = 0 \/ ~Running(instrs, st) THEN st
    ELSE LET st1 == StepIR(instrs, addrs, st)
         IN  InOrder(<<st1, RunSteps(instrs, addrs, st1, n - 1)>>)

\* Up to fuel quads; "timeout" if the quads have not stopped by then.
RunIR(instrs, addrs, st, fuel) ==
    IF ~Running(instrs, st) THEN Halt(instrs, st)
    ELSE IF fuel <= 0 THEN [st EXCEPT !.mode = "timeout"]
    ELSE LET st1 == RunSteps(instrs, addrs, st, IRChunk)
         IN  InOrder(<<st1, RunIR(instrs, addrs, st1, fuel - IRChunk)>>)

RunQuads(instrs, addrs, env0, fuel) ==
    RunIR(instrs, addrs, [pc |-> 1, env |-> env0, ret |-> << >>, mode |-> "run"], fuel)
=============================================================================
