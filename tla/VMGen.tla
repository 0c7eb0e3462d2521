------------------------------- MODULE VMGen -------------------------------
(***************************************************************************)
(* The LuxVM code generator of src/src/vm_cgen/vm_cgen.c, on the integer  *)
(* subset of C: statement and expression lowering to stack code, the      *)
(* break/continue target stacks, the switch search tables, the frame      *)
(* layout of function_definition and compound_statement, and the file-wide *)
(* static state (the label counter, the target stacks, the switch label   *)
(* tables, the local-offset cursor) that persists from one function to the *)
(* next.                                                                   *)
(*                                                                         *)
(* vm_cgen lowers one function definition at a time with no suspension    *)
(* point, so a definition is one step.  The lowering is written as         *)
(* operators that thread a record g holding every static the code reads   *)
(* or writes, plus the instructions emitted so far (g.code) and the       *)
(* search tables (g.data: table label -> the dwords emitted for it).       *)
(***************************************************************************)
EXTENDS Integers, Sequences, SequencesExt, FiniteSets, VMSemantics

CONSTANTS
    VM_LOCAL_START,     \* frame offset of the first local (luxvm/vm.h)
    VM_LOCAL_PARAM_END, \* frame offset just above the last parameter (luxvm/vm.h)
    VM_STACK_ALIGN,     \* alignment of stack slots (luxvm/vm.h)
    Funcs,              \* function definitions the driver may lower
    MaxFuncs,           \* bound on the definitions of a translation unit
    Vals,               \* initial values of parameters and locals
    LoopFuel,           \* loop iterations the reference evaluator runs at most
    StepFuel            \* instructions the VM interpreter executes at most

VARIABLES
    out_text,           \* the code written for each definition so far
    out_data,           \* search tables written so far: label -> dwords
    out_static,         \* the static objects written for each definition
    label_count,        \* the static counter of new_label
    bt_stack, ct_stack, \* btarget_stack/ctarget_stack up to bt/ct_stack_top
    switch_labels,      \* per nesting level, the labels installed in it
    local_offset,
    size_of_local_area,
    func,               \* ghost: the definition lowered last
    defined,            \* ghost: the names of the functions defined so far
    frames              \* ghost: sets of stack slots live together in it

vars == <<out_text, out_data, out_static, label_count, bt_stack, ct_stack, switch_labels,
          local_offset, size_of_local_area, func, defined, frames>>

NoFunc == [ret |-> "none"]

\* round_up(x, m) of util.h: the least multiple of m not below x.
round_up(x, m) == IF x % m = 0 THEN x ELSE x + (m - (x % m))

I(op) == Instr(op, 0)

emit(g, is) == [g EXCEPT !.code = @ \o is]

\* new_label: the static label_count, from 1 on.
new_label(g) == [g |-> [g EXCEPT !.label_count = @ + 1], l |-> g.label_count]

-----------------------------------------------------------------------------
(* The location collaborator (src/src/loc.c is not in the repository):    *)
(* g.scopes is a stack of sets of slots [name, off, size]; `frames'        *)
(* collects the set of slots live at every location_new.                   *)

location_push_scope(g) == [g EXCEPT !.scopes = Append(@, {})]
location_pop_scope(g)  == [g EXCEPT !.scopes = Front(@)]

location_new(g, v, off, size) ==
    LET scopes == [g.scopes EXCEPT ![Len(g.scopes)] = @ \cup {[name |-> v, off |-> off, size |-> size]}]
    IN  [g EXCEPT !.scopes = scopes, !.frames = @ \cup {UNION Range(scopes)}]

\* The offset of v in the innermost scope that declares it.
location_get_offset(g, v) ==
    LET i == Max({j \in DOMAIN g.scopes : \E sl \in g.scopes[j] : sl.name = v})
    IN  (CHOOSE sl \in g.scopes[i] : sl.name = v).off

-----------------------------------------------------------------------------
(* Expressions: each returns the new generator state.                      *)

load(ty) ==
    CASE ty \in {"int", "unsigned", "long", "ulong"} -> I("lddw")
      [] ty \in {"char", "schar"}                   -> I("ldb")
      [] ty = "uchar"                               -> I("ldub")

store(ty) == IF ty \in {"char", "schar", "uchar"} THEN I("stb") ELSE I("stdw")

\* The mangled name of a static local: "@" + function name + "_" + its
\* name (a static local's name is one token here).
StaticSym(f, v) == <<"@">> \o f \o <<"_", v>>

\* Mutant of load_addr: the offset printed with %d, not %u.
load_addr_signed(g, e) ==
    IF e.sto = "static" THEN emit(g, <<NamedInstr("ldi", StaticSym(g.func_name, e.v))>>)
    ELSE emit(g, <<Instr("ldbp", location_get_offset(g, e.v))>>)

\* load_addr: a static local by its mangled name, a parameter or an auto
\* local by its frame offset.
load_addr(g, e) ==
    IF e.sto = "static" THEN emit(g, <<NamedInstr("ldi", StaticSym(g.func_name, e.v))>>)
    ELSE emit(g, <<Instr("ldbp", ToWord(location_get_offset(g, e.v)))>>)

\* The conversion expr_convert appends for a value of category src.
ConvCode(src, dest) ==
    CASE dest \in {"char", "schar"} /\ src \notin {"char", "schar"} -> <<I("dw2b")>>
      [] dest = "uchar" /\ src # "uchar"                         -> <<I("dw2ub")>>
      [] OTHER                                                   -> << >>

\* The relational instruction: unsigned if either promoted operand is.
\* Mutant of RelInstr: the signedness taken from the type of the result
\* (always int) instead of the operands.
RelInstr_result(e) ==
    I((IF is_unsigned_int(e.ty) THEN "u" ELSE "s") \o e.k)

RelInstr(e) ==
    LET sc == IF is_unsigned_int(get_promoted_type(e.l.ty)) \/ is_unsigned_int(get_promoted_type(e.r.ty))
              THEN "u" ELSE "s"
    IN  I(sc \o e.k)

\* The instruction of an arithmetic or bitwise operator of result type ty.
ArithInstr(op, ty) ==
    CASE op = "plus"   -> I("add")
      [] op = "minus"  -> I("sub")
      [] op = "mul"    -> I("mul")
      [] op = "div"    -> I(IF is_unsigned_int(ty) THEN "udiv" ELSE "sdiv")
      [] op = "rem"    -> I(IF is_unsigned_int(ty) THEN "umod" ELSE "smod")
      [] op = "bw_and" -> I("and")
      [] op = "bw_or"  -> I("or")
      [] op = "bw_xor" -> I("xor")

\* << is sll; >> is srl when the promoted left operand (the node's type)
\* is unsigned, else sra.
ShiftInstr(op, ty) ==
    I(CASE op = "lshift"        -> "sll"
        [] is_unsigned_int(ty)  -> "srl"
        [] OTHER                -> "sra")

RECURSIVE expression(_, _, _), expr_convert(_, _, _), controlling_expression(_, _),
          assignment_expression(_, _),
          conditional_expression(_, _), logical_expression(_, _), binary_expression(_, _),
          inc_dec_expression(_, _), unary_expression(_, _)

\* comma, = and the compound assignments (the node new_e carries the op
\* and the saved type of E1 op E2, and is converted to the type of E1).
assignment_expression(e, g) ==
    CASE e.k = "comma" ->
            Bind(expression(e.l, FALSE, g), LAMBDA g1 : expression(e.r, FALSE, emit(g1, <<I("pop")>>)))
      [] e.k = "assign" ->
            Bind(expr_convert(e.r, e.ty, g), LAMBDA g1 :
                emit(expression(e.l, TRUE, g1), <<store(e.ty)>>))
      [] e.k = "opassign" ->
            Bind(expr_convert([k |-> e.op, l |-> e.l, r |-> e.r, ty |-> e.cty], e.ty, g), LAMBDA g1 :
                emit(expression(e.l, TRUE, g1), <<store(e.ty)>>))

\* e1 ? e2 : e3; neither e2 nor e3 is converted to the type of the result.
conditional_expression(e, g) ==
    Bind(new_label(g), LAMBDA L1 :
    Bind(new_label(L1.g), LAMBDA L2 :
    Bind(controlling_expression(e.c, L2.g), LAMBDA g1 :
    Bind(expression(e.l, FALSE, emit(g1, <<Instr("jmpf", L1.l)>>)), LAMBDA g2 :
        emit(expression(e.r, FALSE, emit(g2, <<Instr("jmp", L2.l), Instr("lab", L1.l)>>)),
             <<Instr("lab", L2.l)>>)))))

\* || and &&: jump to L1 when the left or the right operand decides, else
\* fall through to the other constant.
logical_expression(e, g) ==
    LET jmp == IF e.k = "and" THEN "jmpf" ELSE "jmpt"
        v   == IF e.k = "and" THEN 1 ELSE 0
    IN
    Bind(new_label(g), LAMBDA L1 :
    Bind(new_label(L1.g), LAMBDA L2 :
    Bind(controlling_expression(e.l, L2.g), LAMBDA g1 :
    Bind(controlling_expression(e.r, emit(g1, <<Instr(jmp, L1.l)>>)), LAMBDA g2 :
        emit(g2, <<Instr(jmp, L1.l), Instr("ldi", v), Instr("jmp", L2.l),
                   Instr("lab", L1.l), Instr("ldi", 1 - v), Instr("lab", L2.l)>>)))))

\* The binary operators on integers: both operands, then the instruction;
\* and a cast, which is expr_convert to the type named.
binary_expression(e, g) ==
    LET operands == Bind(expression(e.l, FALSE, g), LAMBDA g1 : expression(e.r, FALSE, g1))
    IN  CASE e.k \in {"eq", "neq"}              -> emit(operands, <<I(e.k)>>)
          [] e.k \in {"lt", "gt", "let", "get"} -> emit(operands, <<RelInstr(e)>>)
          [] e.k \in ArithOps \cup BitOps       -> emit(operands, <<ArithInstr(e.k, e.ty)>>)
          [] e.k \in ShiftOps                   -> emit(operands, <<ShiftInstr(e.k, e.ty)>>)
          [] e.k = "cast"                        -> expr_convert(e.l, e.ty, g)

\* ++ and --: the lvalue address, then the exact stack shuffle of the code.
inc_dec_expression(e, g) ==
    LET addsub == IF e.k \in {"preinc", "postinc"} THEN I("add") ELSE I("sub")
        is == IF e.k \in {"preinc", "predec"}
              THEN <<I("dup"), I("dup"), load(e.ty), Instr("ldi", 1), addsub, I("swap"),
                     store(e.ty), I("pop"), load(e.ty)>>
              ELSE <<I("dup"), load(e.ty), I("swap"), I("dup"), load(e.ty), Instr("ldi", 1),
                     addsub, I("swap"), store(e.ty), I("pop")>>
    IN  emit(expression(e.l, TRUE, g), is)

\* Unary + - ~ !, integer constants and identifiers.
unary_expression(e, g) ==
    LET op == [uminus |-> <<I("neg")>>, cmpl |-> <<I("cmpl")>>, not |-> <<I("not")>>, uplus |-> << >>]
    IN  emit(expression(e.l, FALSE, g), op[e.k])

\* expression(e, is_addr): the code leaving the value of e (its address
\* if is_addr) on the stack.
expression(e, is_addr, g) ==
    CASE e.k \in {"comma", "assign", "opassign"}          -> assignment_expression(e, g)
      [] e.k = "cond"                                      -> conditional_expression(e, g)
      [] e.k \in {"and", "or"}                             -> logical_expression(e, g)
      [] e.k \in RelOps \cup ArithOps \cup BitOps \cup ShiftOps \cup {"cast"} ->
            binary_expression(e, g)
      [] e.k \in {"preinc", "predec", "postinc", "postdec"} -> inc_dec_expression(e, g)
      [] e.k \in {"uplus", "uminus", "cmpl", "not"}        -> unary_expression(e, g)
      [] e.k = "iconst" -> emit(g, <<Instr("ldi", ToWord(e.val))>>)
      [] e.k = "id" ->
            IF is_addr THEN load_addr(g, e) ELSE emit(load_addr(g, e), <<load(e.ty)>>)

expr_convert(e, dest, g) == emit(expression(e, FALSE, g), ConvCode(e.ty, dest))

\* controlling_expression: the value of e (an or for long longs).
controlling_expression(e, g) == expression(e, FALSE, g)
-----------------------------------------------------------------------------
(* Statements.                                                             *)

push_target(stack, l) == Append(stack, l)
pop_target(stack)     == Front(stack)

\* install_switch_label: into the label set of the current nesting level.
install_switch_label(g, val, is_default, lab) ==
    [g EXCEPT !.switch_labels[Len(g.switch_labels)] = @ \cup {[lab |-> lab, val |-> val, is_default |-> is_default]}]

\* cmp_switch_label: the default label first, then by increasing value.
cmp_switch_label(x1, x2) == x1.is_default \/ (~x2.is_default /\ x1.val < x2.val)

\* The dwords of search table ST: the size (the number of case values plus
\* one), the case values, then the labels, the default's (or EXIT's) first.
SearchTable(labels, EXIT) ==
    LET t    == SetToSortSeq(labels, cmp_switch_label)
        vals == [i \in DOMAIN t |-> ToWord(t[i].val)]
        labs == [i \in DOMAIN t |-> t[i].lab]
    IN  CASE labels = {}         -> <<1, EXIT>>
          [] ~t[1].is_default    -> <<Len(t) + 1>> \o vals \o <<EXIT>> \o labs
          [] OTHER               -> <<Len(t)>> \o Tail(vals) \o labs

\* do_auto_init of a scalar: value, address, store, pop.
do_auto_init(g, ty, e, offset) ==
    emit(expr_convert(e, ty, g), <<Instr("ldbp", ToWord(offset)), store(ty), I("pop")>>)

\* do_static_init of a scalar: the directive of its category and the
\* number do_static_expr gives an integer constant (attr.uval).
do_static_init(ty, e) ==
    [dir |-> IF ty \in {"char", "schar", "uchar"} THEN ".byte" ELSE ".dword", val |-> e.val]

\* static_object_definition(ds, dct, TRUE): a static local goes to .data
\* with its initializer, or to .bss reserving its size, under its mangled
\* name (the alignment directive only places it).  name and ty are ghosts
\* for the properties.
static_object_definition(g, d) ==
    LET obj == IF d.init = NoExp THEN [seg |-> ".bss", dir |-> ".res", val |-> get_sizeof(d.ty)]
               ELSE [seg |-> ".data"] @@ do_static_init(d.ty, d.init)
    IN  [g EXCEPT !.statics = Append(@, [sym |-> StaticSym(g.func_name, d.name),
                                          name |-> d.name, ty |-> d.ty] @@ obj)]

\* One declarator of a block: a static one defined in place, an auto one
\* laid out in the frame.
declare_local(g, d) ==
    IF d.sto = "static" THEN static_object_definition(g, d) ELSE
    Bind([g EXCEPT !.local_offset = round_up(@, get_alignment(d.ty))], LAMBDA g1 :
    Bind(location_new(g1, d.name, g1.local_offset, get_sizeof(d.ty)), LAMBDA g2 :
    Bind(IF d.init = NoExp THEN g2 ELSE do_auto_init(g2, d.ty, d.init, g1.local_offset), LAMBDA g3 :
        [g3 EXCEPT !.local_offset = @ + get_sizeof(d.ty)])))

RECURSIVE statement(_, _), compound_statement(_, _, _), if_statement(_, _), label_statement(_, _),
          while_statement(_, _), do_statement(_, _), for_statement(_, _),
          switch_statement(_, _), case_statement(_, _), default_statement(_, _)

\* The body of a loop with its break and continue targets pushed.
loop_body(g, brk, cnt) ==
    [g EXCEPT !.bt_stack = push_target(@, brk), !.ct_stack = push_target(@, cnt)]
end_loop_body(g) ==
    [g EXCEPT !.bt_stack = pop_target(@), !.ct_stack = pop_target(@)]

\* if (e) s1 [else s2]: L1 = L2 = new_label() after e; L2 anew for else.
if_statement(s, g) ==
    Bind(controlling_expression(s.c, g), LAMBDA g1 :
    Bind(new_label(g1), LAMBDA L1 :
    Bind(statement(s.s1, emit(L1.g, <<Instr("jmpf", L1.l)>>)), LAMBDA g2 :
        IF s.s2 = NoStmt THEN emit(g2, <<Instr("lab", L1.l)>>)
        ELSE Bind(new_label(g2), LAMBDA L2 :
                 emit(statement(s.s2, emit(L2.g, <<Instr("jmp", L2.l), Instr("lab", L1.l)>>)),
                      <<Instr("lab", L2.l)>>)))))

\* while (e) s: L1: e; jmpf L2; s; jmp L1; L2:
while_statement(s, g) ==
    Bind(new_label(g), LAMBDA L1 :
    Bind(new_label(L1.g), LAMBDA L2 :
    Bind(controlling_expression(s.c, emit(L2.g, <<Instr("lab", L1.l)>>)), LAMBDA g1 :
    Bind(statement(s.s1, loop_body(emit(g1, <<Instr("jmpf", L2.l)>>), L2.l, L1.l)), LAMBDA g2 :
        emit(end_loop_body(g2), <<Instr("jmp", L1.l), Instr("lab", L2.l)>>)))))

\* do s while (e): L1: s; L2: e; jmpf L3; jmp L1; L3:
do_statement(s, g) ==
    Bind(new_label(g), LAMBDA L1 :
    Bind(new_label(L1.g), LAMBDA L2 :
    Bind(new_label(L2.g), LAMBDA L3 :
    Bind(statement(s.s1, loop_body(emit(L3.g, <<Instr("lab", L1.l)>>), L3.l, L2.l)), LAMBDA g1 :
    Bind(controlling_expression(s.c, emit(end_loop_body(g1), <<Instr("lab", L2.l)>>)), LAMBDA g2 :
        emit(g2, <<Instr("jmpf", L3.l), Instr("jmp", L1.l), Instr("lab", L3.l)>>))))))

\* for (e1; e2; e3) s: e1; pop; L1: [e2; jmpf L3]; s; [L2: e3; pop]; jmp L1;
\* L3: -- L2 exists only with e3, and continue goes to L2, else to L1.
for_statement(s, g) ==
    Bind(IF s.e1 = NoExp THEN g ELSE emit(expression(s.e1, FALSE, g), <<I("pop")>>), LAMBDA g0 :
    Bind(new_label(g0), LAMBDA L1 :
    Bind(IF s.e3 = NoExp THEN [g |-> L1.g, l |-> 0] ELSE new_label(L1.g), LAMBDA L2 :
    Bind(new_label(L2.g), LAMBDA L3 :
    Bind(IF s.c = NoExp THEN emit(L3.g, <<Instr("lab", L1.l)>>)
         ELSE emit(controlling_expression(s.c, emit(L3.g, <<Instr("lab", L1.l)>>)),
                   <<Instr("jmpf", L3.l)>>), LAMBDA g1 :
    Bind(statement(s.s1, loop_body(g1, L3.l, IF s.e3 # NoExp THEN L2.l ELSE L1.l)), LAMBDA g2 :
    Bind(IF s.e3 = NoExp THEN end_loop_body(g2)
         ELSE emit(expression(s.e3, FALSE, emit(end_loop_body(g2), <<Instr("lab", L2.l)>>)),
                   <<I("pop")>>), LAMBDA g3 :
        emit(g3, <<Instr("jmp", L1.l), Instr("lab", L3.l)>>))))))))

\* switch (e) s: ST = new_label(); e; ldi @T<ST>; switch; one nesting level
\* more; EXIT = new_label(); s with EXIT as the break target; EXIT:; then
\* the search table of the labels installed at that level goes to .data.
switch_statement(s, g) ==
    Bind(new_label(g), LAMBDA ST :
    Bind(emit(expression(s.c, FALSE, ST.g), <<Instr("ldi@T", ST.l), I("switch")>>), LAMBDA g1 :
    Bind(new_label([g1 EXCEPT !.switch_labels = Append(@, {})]), LAMBDA EXIT :
    Bind(statement(s.s1, [EXIT.g EXCEPT !.bt_stack = push_target(@, EXIT.l)]), LAMBDA g2 :
        [emit(g2, <<Instr("lab", EXIT.l)>>) EXCEPT
            !.bt_stack = pop_target(@),
            !.data = @ @@ (ST.l :> SearchTable(Last(g2.switch_labels), EXIT.l)),
            !.switch_labels = Front(@)]))))

case_statement(s, g) ==
    Bind(new_label(g), LAMBDA L :
        statement(s.s1, emit(install_switch_label(L.g, s.val, FALSE, L.l), <<Instr("lab", L.l)>>)))

default_statement(s, g) ==
    Bind(new_label(g), LAMBDA L :
        statement(s.s1, emit(install_switch_label(L.g, 0, TRUE, L.l), <<Instr("lab", L.l)>>)))

\* The mangled name of label l of function f: "@@" f "_" l.
MangledLabel(f, l) == <<"@", "@">> \o f \o <<"_">> \o l

\* goto l: a jump to the mangled label of the current function.
goto_statement(s, g) == emit(g, <<NamedInstr("jmp", MangledLabel(g.func_name, s.label))>>)

\* l: s -- the mangled label placed, then s.
label_statement(s, g) ==
    statement(s.s1, emit(g, <<NamedInstr("lab", MangledLabel(g.func_name, s.label))>>))

\* continue and break: a jump to the innermost target.
continue_statement(g) == emit(g, <<Instr("jmp", Last(g.ct_stack))>>)
break_statement(g)    == emit(g, <<Instr("jmp", Last(g.bt_stack))>>)

\* return [e]: e converted to the return type, or 0; then ret.
return_statement(s, g) ==
    IF s.e = NoExp THEN emit(g, <<Instr("ldi", 0), I("ret")>>)
    ELSE emit(expr_convert(s.e, g.ret_ty, g), <<I("ret")>>)

expression_statement(s, g) ==
    IF s.e = NoExp THEN g ELSE emit(expression(s.e, FALSE, g), <<I("pop")>>)

\* statement: the dispatch on the kind of s.
statement(s, g) ==
    CASE s.k = "cmpnd"    -> compound_statement(s, TRUE, g)
      [] s.k = "if"       -> if_statement(s, g)
      [] s.k = "switch"   -> switch_statement(s, g)
      [] s.k = "while"    -> while_statement(s, g)
      [] s.k = "do"       -> do_statement(s, g)
      [] s.k = "for"      -> for_statement(s, g)
      [] s.k = "goto"     -> goto_statement(s, g)
      [] s.k = "continue" -> continue_statement(g)
      [] s.k = "break"    -> break_statement(g)
      [] s.k = "ret"      -> return_statement(s, g)
      [] s.k = "case"     -> case_statement(s, g)
      [] s.k = "default"  -> default_statement(s, g)
      [] s.k = "exp"      -> expression_statement(s, g)
      [] s.k = "label"    -> label_statement(s, g)

\* compound_statement(s, push_scope): lay out the auto locals (each at the
\* cursor rounded up to its alignment), lower the statements, record the
\* high-water mark, and give the cursor back if a scope was pushed.
compound_statement(s, push_scope, g) ==
    LET opened == IF s.locals # << >> /\ push_scope THEN location_push_scope(g) ELSE g
    IN
    Bind(FoldInOrder(declare_local, opened, s.locals), LAMBDA g1 :
    Bind(FoldInOrder(LAMBDA h, st : statement(st, h), g1, s.stmts), LAMBDA g2 :
    Bind([g2 EXCEPT !.size_of_local_area = IF g2.local_offset > @ THEN g2.local_offset ELSE @],
         LAMBDA g3 :
        IF push_scope /\ s.locals # << >>
        THEN location_pop_scope([g3 EXCEPT !.local_offset = g.local_offset])
        ELSE g3)))

\* Mutant of function_definition: each parameter located at the offset
\* before the decrement.
function_definition_offs_late(f, g) ==
    Bind(FoldInOrder(LAMBDA acc, p :
                        LET offs == acc.offs - round_up(get_sizeof(p.ty), VM_STACK_ALIGN)
                        IN  [g |-> location_new(acc.g, p.name, acc.offs, get_sizeof(p.ty)), offs |-> offs],
                     [g |-> location_push_scope(emit(g, <<I("addsp")>>)), offs |-> VM_LOCAL_PARAM_END],
                     f.params), LAMBDA params :
    Bind(compound_statement(f.body, FALSE, [params.g EXCEPT !.ret_ty = f.ret, !.func_name = f.name]), LAMBDA g1 :
    Bind(location_pop_scope(g1), LAMBDA g2 :
        [emit(g2, <<Instr("ldi", 0), I("ret")>>) EXCEPT
            !.code[Len(g.code) + 1].arg = round_up(g2.size_of_local_area - VM_LOCAL_START, VM_STACK_ALIGN),
            !.size_of_local_area = 0,
            !.local_offset = VM_LOCAL_START])))
\* Mutant of function_definition: the label counter reset with the other
\* per-function statics.
function_definition_label_reset(f, g) ==
    Bind(FoldInOrder(LAMBDA acc, p :
                        LET offs == acc.offs - round_up(get_sizeof(p.ty), VM_STACK_ALIGN)
                        IN  [g |-> location_new(acc.g, p.name, offs, get_sizeof(p.ty)), offs |-> offs],
                     [g |-> location_push_scope(emit(g, <<I("addsp")>>)), offs |-> VM_LOCAL_PARAM_END],
                     f.params), LAMBDA params :
    Bind(compound_statement(f.body, FALSE, [params.g EXCEPT !.ret_ty = f.ret, !.func_name = f.name]), LAMBDA g1 :
    Bind(location_pop_scope(g1), LAMBDA g2 :
        [emit(g2, <<Instr("ldi", 0), I("ret")>>) EXCEPT
            !.code[Len(g.code) + 1].arg = round_up(g2.size_of_local_area - VM_LOCAL_START, VM_STACK_ALIGN),
            !.size_of_local_area = 0,
            !.label_count = 1,
            !.local_offset = VM_LOCAL_START])))
\* function_definition: the prologue addsp (fixed up at the end with the
\* size of the local area), the parameters at offsets going down from
\* VM_LOCAL_PARAM_END, the body as compound_statement(body, FALSE), the
\* epilogue "ldi 0; ret", and the cursor and high-water mark reset.
function_definition(f, g) ==
    Bind(FoldInOrder(LAMBDA acc, p :
                        LET offs == acc.offs - round_up(get_sizeof(p.ty), VM_STACK_ALIGN)
                        IN  [g |-> location_new(acc.g, p.name, offs, get_sizeof(p.ty)), offs |-> offs],
                     [g |-> location_push_scope(emit(g, <<I("addsp")>>)), offs |-> VM_LOCAL_PARAM_END],
                     f.params), LAMBDA params :
    Bind(compound_statement(f.body, FALSE, [params.g EXCEPT !.ret_ty = f.ret, !.func_name = f.name]), LAMBDA g1 :
    Bind(location_pop_scope(g1), LAMBDA g2 :
        [emit(g2, <<Instr("ldi", 0), I("ret")>>) EXCEPT
            !.code[Len(g.code) + 1].arg = round_up(g2.size_of_local_area - VM_LOCAL_START, VM_STACK_ALIGN),
            !.size_of_local_area = 0,
            !.local_offset = VM_LOCAL_START])))
-----------------------------------------------------------------------------
(* The driver: vm_cgen lowers the definitions of the translation unit one *)
(* after the other; the statics carry over from one to the next.          *)

\* The generator state at the start of a definition: the statics as the
\* last definition left them, an empty output and the location table that
\* location_init made.
GenState ==
    [code |-> << >>, data |-> out_data, label_count |-> label_count,
     bt_stack |-> bt_stack, ct_stack |-> ct_stack, switch_labels |-> switch_labels,
     local_offset |-> local_offset, size_of_local_area |-> size_of_local_area,
     scopes |-> << >>, frames |-> {}, ret_ty |-> "none", func_name |-> << >>,
     statics |-> << >>]

Init ==
    /\ out_text = << >>
    /\ out_data = [l \in {} |-> << >>]
    /\ out_static = << >>
    /\ label_count = 1
    /\ bt_stack = << >>
    /\ ct_stack = << >>
    /\ switch_labels = << >>
    /\ local_offset = VM_LOCAL_START
    /\ size_of_local_area = 0
    /\ func = NoFunc
    /\ defined = {}
    /\ frames = {}

\* function_definition(f) of the external declaration loop of vm_cgen; the
\* analyzer has rejected a second definition of a name.
DefineFunction(f) ==
    /\ Len(out_text) < MaxFuncs
    /\ f.name \notin defined
    /\ LET g == function_definition(f, GenState)
       IN  /\ out_text' = Append(out_text, g.code)
           /\ out_data' = g.data
           /\ out_static' = Append(out_static, g.statics)
           /\ label_count' = g.label_count
           /\ bt_stack' = g.bt_stack
           /\ ct_stack' = g.ct_stack
           /\ switch_labels' = g.switch_labels
           /\ local_offset' = g.local_offset
           /\ size_of_local_area' = g.size_of_local_area
           /\ frames' = g.frames
    /\ func' = f
    /\ defined' = defined \cup {f.name}

Next == \E f \in Funcs : DefineFunction(f)

Spec == Init /\ [][Next]_vars

-----------------------------------------------------------------------------
(* Properties.                                                             *)

Code == Last(out_text)

\* The slots of the definition lowered last, and their frame addresses.
Slots     == UNION frames
Addr(sl)  == ToWord(BP + sl.off)
ParamNames == {func.params[i].name : i \in DOMAIN func.params}
ParamType(v) == func.params[CHOOSE i \in DOMAIN func.params : func.params[i].name = v].ty

\* The word of a slot as its type sees it: the low byte of a char slot.
Low(w, size) == IF size = 1 THEN w % 256 ELSE w

\* The static objects of the definition lowered last, and the linker's
\* layout: one word each, in the order they were written.
Statics   == Last(out_static)
SymAddr   == [m \in {o.sym : o \in Range(Statics)} |->
                 4 * Min({i \in DOMAIN Statics : Statics[i].sym = m})]
SAddr(o)  == SymAddr[o.sym]

\* The word the assembler makes of a directive: the low bytes of the
\* number (a .byte keeps one, a .dword the word), zeros for a .res.
DataWord(o) == CASE o.dir = ".res"  -> 0
                 [] o.dir = ".byte" -> o.val % 256
                 [] o.dir = ".dword" -> o.val % WORD

\* The start of a call: the parameters hold the arguments vs converted to
\* their types; every auto local holds 0 (the programs initialise their
\* locals); a static local holds its initializer converted to its type,
\* or 0 (C99 6.7.8p10).
Env0(vs)  == [v \in {sl.name : sl \in Slots} \cup {o.name : o \in Range(Statics)} |->
                 IF v \in ParamNames THEN ConvertTo(vs[v], ParamType(v))
                 ELSE IF \E o \in Range(Statics) : o.name = v
                 THEN LET o == CHOOSE x \in Range(Statics) : x.name = v
                      IN  IF o.seg = ".bss" THEN 0 ELSE ConvertTo(o.val, o.ty)
                 ELSE 0]
Mem0(vs)  == [a \in {Addr(sl) : sl \in Slots} \cup {SAddr(o) : o \in Range(Statics)} |->
                 IF \E o \in Range(Statics) : SAddr(o) = a
                 THEN DataWord(CHOOSE o \in Range(Statics) : SAddr(o) = a)
                 ELSE LET sl == CHOOSE x \in Slots : Addr(x) = a
                      IN  IF sl.name \in ParamNames THEN ToWord(Env0(vs)[sl.name]) ELSE 0]

\* Slots no other slot of the definition shares.
OwnSlots == {sl \in Slots : \A x \in Slots : x.off = sl.off => x = sl}

\* An instruction operand is a word (the code prints every operand with
\* %u), or a jump or label names a label by its mangled name.
TypeOK ==
    /\ out_text \in Seq(Seq([op : STRING, arg : 0..WORD - 1]
                             \cup [op : {"jmp", "lab", "ldi"}, arg : {0}, name : Seq(STRING)]))
    /\ label_count \in Nat \ {0}
    /\ size_of_local_area \in Nat
    /\ \A l \in DOMAIN out_data : out_data[l] \in Seq(Nat)

\* The code vm_cgen emits for a definition computes what the C semantics of
\* its source computes: for every argument values, whenever the source
\* returns or falls off its end without undefined behaviour within LoopFuel
\* iterations, the LuxVM code reaches ret, returns the same value (when
\* the source returns one), and leaves every slot it does not share, and
\* every static local, with the value the source leaves in that variable
\* (a static local starting from the data its directive assembles to,
\* not initialised again on entry to its block).  This is about the
\* lowering of every statement and operator together: the label plumbing
\* of the loops and the switch, break and continue targets, the relational
\* and division signedness, the conversions of expr_convert, and the
\* instruction sequences of ++, -- and the compound assignments.
VMImplementsSource ==
    func # NoFunc =>
        \A vs \in [ParamNames -> Vals] :
            LET ref == EvalFunction(func, Env0(vs), LoopFuel)
                vm  == RunVM(Code, out_data, SymAddr, Mem0(vs), StepFuel)
            IN  ref.mode \in {"normal", "return"} =>
                    /\ vm.mode = "done"
                    /\ ref.mode = "return" => vm.ret = ToWord(ref.ret[1])
                    /\ \A sl \in OwnSlots :
                          Low(vm.mem[Addr(sl)], sl.size) = Low(ToWord(ref.env[sl.name]), sl.size)
                    /\ \A o \in Range(Statics) :
                          Low(vm.mem[SAddr(o)], get_sizeof(o.ty)) = Low(ToWord(ref.env[o.name]), get_sizeof(o.ty))

\* The frame layout of compound_statement and function_definition: the
\* variables live together never overlap, each is aligned to its size, the
\* locals lie within the area the prologue's addsp reserves (fixed up from
\* size_of_local_area after the body), and the parameters below
\* VM_LOCAL_PARAM_END.
FrameSound ==
    /\ \A fr \in frames : \A s1, s2 \in fr :
          s1 # s2 => s1.off + s1.size <= s2.off \/ s2.off + s2.size <= s1.off
    /\ \A sl \in Slots :
          /\ sl.off % sl.size = 0
          /\ IF sl.name \in ParamNames
             THEN sl.off + sl.size <= VM_LOCAL_PARAM_END
             ELSE /\ VM_LOCAL_START <= sl.off
                  /\ sl.off + sl.size <= VM_LOCAL_START + Code[1].arg

\* The operators of every definition lowered are typed by get_result_type
\* as C99 6.3.1.8 prescribes for each pair of promoted integer types on the
\* data model of the target (ILP32 or LP64), although the code hardcodes
\* which signed type can hold which unsigned one instead of comparing sizes.
ResultTypesAsStandard == func # NoFunc => ResultTypeAsStandard

\* Labels and data symbols are names of the whole assembly file: new_label
\* never hands out a label twice, so every label is placed once in the
\* file, and every jump, search table and table entry of a definition
\* names a label placed in that definition; likewise every static object
\* is defined under a symbol of its own, and every load_addr of a static
\* local names the symbol static_object_definition gave it.
Placed(t) == {t[p] : p \in {q \in DOMAIN t : t[q].op = "lab"}}
TableLabels(t) == {Instr("lab", t[i]) : i \in t[1] + 1 .. Len(t)}

LabelsPlacedOnce ==
    /\ \A i, j \in DOMAIN out_text : \A p \in DOMAIN out_text[i], q \in DOMAIN out_text[j] :
          out_text[i][p].op = "lab" /\ out_text[j][q] = out_text[i][p] => i = j /\ p = q
    /\ \A i \in DOMAIN out_text : \A p \in DOMAIN out_text[i] :
          LET ins == out_text[i][p]
          IN  /\ ins.op \in {"jmp", "jmpf", "jmpt"} => [ins EXCEPT !.op = "lab"] \in Placed(out_text[i])
              /\ ins.op = "ldi@T" => /\ ins.arg \in DOMAIN out_data
                                    /\ TableLabels(out_data[ins.arg]) \subseteq Placed(out_text[i])
              /\ ins.op = "ldi" /\ "name" \in DOMAIN ins =>
                    ins.name \in {o.sym : o \in Range(out_static[i])}
    /\ \A i, j \in DOMAIN out_static : \A p \in DOMAIN out_static[i], q \in DOMAIN out_static[j] :
          out_static[i][p].sym = out_static[j][q].sym => i = j /\ p = q
=============================================================================
