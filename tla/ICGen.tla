------------------------------- MODULE ICGen -------------------------------
(***************************************************************************)
(* The intermediate code generator of src/src/ic.c: the process-wide      *)
(* state (instruction, address and CFG arrays, label and temporary         *)
(* counters, the nid interning table, the local-offset cursor) and the     *)
(* three operations the driver applies to it: ic_init (Init),              *)
(* ic_function_definition (DefineFunction) and ic_reset (Reset).           *)
(*                                                                         *)
(* Lowering a function is one atomic step: ic.c runs it to completion      *)
(* with no suspension point.  It is written as recursive operators that    *)
(* thread a record `g' holding every global the lowering reads or writes,  *)
(* and return [g |-> new state, a |-> address index] for expressions.      *)
(* Addresses are indices into ic_addresses; index 0 is the empty address.  *)
(***************************************************************************)
EXTENDS Integers, Sequences, SequencesExt, FiniteSets, ICSemantics

CONSTANTS
    Funcs,            \* function definitions the driver may lower
    MaxFuncs,         \* bound on the number of definitions in a translation unit
    MAX_IN_EDGES,     \* capacity of the in-edge arrays of a CFG node
    targeting_arch64, \* target flag read by get_sizeof / get_alignment
    Vals,             \* initial values of the variables of a lowered function
    LoopFuel,         \* loop iterations the reference evaluator runs at most
    StepFuel          \* quads the quad interpreter executes at most

INSTANCE CFG

VARIABLES
    ic_instructions,    \* Quad array (a sequence; quad k is position k+1)
    ic_addresses,       \* Address array; position i is address index i
    label_counter,      \* static label counter of new_label
    t_counter,          \* static counter of new_temp_addr
    id_table,           \* entries [sid, nid] of the interning table, newest first
    nid_counter,
    nid2sid,            \* nid2sid[nid + 1] is the sid of nid
    local_offset,
    size_of_local_area,
    exit_label,
    cfg,                \* CFG nodes and the four orderings (module CFG)
    func,               \* ghost: the definition lowered last
    frames,             \* ghost: sets of stack slots live together (location map)
    nfuncs              \* ghost: number of definitions lowered so far

vars == <<ic_instructions, ic_addresses, label_counter, t_counter, id_table,
          nid_counter, nid2sid, local_offset, size_of_local_area, exit_label,
          cfg, func, frames, nfuncs>>

\* true_addr and false_addr are the first two addresses ic_init creates.
true_addr  == 1
false_addr == 2

NoFunc == [ret |-> "none"]

-----------------------------------------------------------------------------
(* Type sizes and alignments of the scalar categories (expr.c).            *)

get_sizeof(ty) ==
    CASE ty \in {"char", "schar", "uchar"} -> 1
      [] ty \in {"short", "ushort"}        -> 2
      [] ty \in {"int", "unsigned"}        -> 4
      [] ty \in {"long", "ulong"}          -> IF targeting_arch64 THEN 8 ELSE 4

get_alignment(ty) == get_sizeof(ty)

\* round_up(x, m) of util.h: the least multiple of m not below x.
round_up(x, m) == IF x % m = 0 THEN x ELSE x + (m - (x % m))

-----------------------------------------------------------------------------
(* Allocation helpers: each returns [g, a].                                *)

Quad(op, tar, a1, a2) == [op |-> op, tar |-> tar, arg1 |-> a1, arg2 |-> a2]

emit_i(g, qs) == [g EXCEPT !.ic_instructions = @ \o qs]

new_address(g, addr) ==
    [g |-> [g EXCEPT !.ic_addresses = Append(@, addr)], a |-> Len(g.ic_addresses) + 1]

\* Mutant of get_nid: a lookup miss is not recorded in the table.
get_nid_no_insert(g, sid) ==
    [g |-> [g EXCEPT !.nid2sid = Append(@, sid), !.nid_counter = @ + 1], nid |-> -1]

\* The hash chains are one list here: a lookup finds the newest entry of
\* sid, a new entry is put in front; nid2sid[nid_counter++] = sid.
get_nid(g, sid) ==
    LET hits == SelectSeq(g.id_table, LAMBDA en : en.sid = sid)
        k    == g.nid_counter + 1
    IN  IF hits # << >>
        THEN [g |-> g, nid |-> Head(hits).nid]
        ELSE [g |-> [g EXCEPT !.id_table    = <<[sid |-> sid, nid |-> g.nid_counter]>> \o @,
                              !.nid2sid     = IF k <= Len(@) THEN [@ EXCEPT ![k] = sid]
                                              ELSE Append(@, sid),
                              !.nid_counter = @ + 1],
              nid |-> g.nid_counter]

\* The name sprintf'd as "t%u" is the sid <<"t", n, -1>>.
new_temp_addr(g) ==
    LET sid == <<"t", g.t_counter, -1>>
    IN  Bind(get_nid([g EXCEPT !.t_counter = @ + 1], sid), LAMBDA r :
            new_address(r.g, [kind |-> "Temp", id |-> sid, nid |-> r.nid]))

\* Mutant of new_label: label_counter is not advanced.
new_label_no_incr(g) ==
    new_address(g, [kind |-> "IConst", val |-> g.label_counter])

new_label(g) ==
    new_address([g EXCEPT !.label_counter = @ + 1],
                [kind |-> "IConst", val |-> g.label_counter])

\* "%s:%d" of name and scope.
get_mangled_name(v, scope) == <<v[1], v[2], scope>>

\* The var_id of an identifier: a parameter keeps its name, others are mangled.
SidOf(e) == IF e.param THEN <<e.v[1], e.v[2], -1>> ELSE get_mangled_name(e.v, e.scope)

-----------------------------------------------------------------------------
(* Expressions.  `num' tells whether number_expression_tree annotated the *)
(* tree; `junk' is the outcome of comparing the nreg fields of a tree it   *)
(* did not annotate (fields the parser left as they were).                 *)

is_binary(e) == e.k \in {"and", "plus", "mul", "div"}

RECURSIVE number_expression_tree(_)
number_expression_tree(e) ==
    IF is_binary(e)
    THEN LET nl == number_expression_tree(e.l)
             nr == number_expression_tree(e.r)
         IN  IF nl = nr THEN nl + 1 ELSE IF nl > nr THEN nl ELSE nr
    ELSE IF e.k \in {"neg", "assign"} THEN number_expression_tree(e.l) + 1
    ELSE 1

\* NREG(l) >= NREG(r) for the operands of a binary node.
LeftFirst(e, num, junk) ==
    IF num THEN number_expression_tree(e.l) >= number_expression_tree(e.r) ELSE junk

\* Mutant of ConvOp: no narrowing to plain or signed char.
ConvOp_no_char(src, dest) ==
    CASE dest = "uchar"  -> IF src = "uchar" THEN "none" ELSE "UCh"
      [] dest = "short"  -> IF src \in {"char", "schar", "uchar", "short"} THEN "none" ELSE "Sh"
      [] dest = "ushort" -> IF src \in {"uchar", "ushort"} THEN "none" ELSE "USh"
      [] OTHER           -> "none"

ConvOp(src, dest) ==
    CASE dest \in {"char", "schar"} -> IF src \in {"char", "schar"} THEN "none" ELSE "Ch"
      [] dest = "uchar"  -> IF src = "uchar" THEN "none" ELSE "UCh"
      [] dest = "short"  -> IF src \in {"char", "schar", "uchar", "short"} THEN "none" ELSE "Sh"
      [] dest = "ushort" -> IF src \in {"uchar", "ushort"} THEN "none" ELSE "USh"
      [] OTHER           -> "none"

RECURSIVE ic_expression(_, _, _, _), ic_expr_convert(_, _, _, _, _)
ic_expression(e, g, num, junk) ==
    LET sub(x, h) == ic_expression(x, h, num, junk)
        \* a binary node: operands, higher nreg first, then the temporary
        binop(op) ==
            Bind(IF LeftFirst(e, num, junk)
                 THEN Bind(sub(e.l, g), LAMBDA r1 : Bind(sub(e.r, r1.g), LAMBDA r2 :
                          [g |-> r2.g, a1 |-> r1.a, a2 |-> r2.a]))
                 ELSE Bind(sub(e.r, g), LAMBDA r2 : Bind(sub(e.l, r2.g), LAMBDA r1 :
                          [g |-> r1.g, a1 |-> r1.a, a2 |-> r2.a])), LAMBDA o :
            Bind(new_temp_addr(o.g), LAMBDA t :
                [g |-> emit_i(t.g, <<Quad(op, t.a, o.a1, o.a2)>>), a |-> t.a]))
    IN
    CASE e.k = "assign" ->
            Bind(ic_expr_convert(e.r, e.ty, g, FALSE, junk), LAMBDA r2 :
            Bind(sub(e.l, r2.g), LAMBDA r1 :
                [g |-> emit_i(r1.g, <<Quad("Asn", r1.a, r2.a, 0)>>), a |-> r1.a]))
      [] e.k = "and" ->
            Bind(new_label(g), LAMBDA L1 :
            Bind(new_label(L1.g), LAMBDA L2 :
            Bind(new_label(L2.g), LAMBDA L3 :
            Bind(new_label(L3.g), LAMBDA L4 :
            Bind(sub(e.l, L4.g), LAMBDA r1 :
            Bind(sub(e.r, emit_i(r1.g, <<Quad("CBr", r1.a, L1.a, L3.a), Quad("Lab", L1.a, 0, 0)>>)), LAMBDA r2 :
            Bind(new_temp_addr(emit_i(r2.g, <<Quad("CBr", r2.a, L2.a, L3.a), Quad("Lab", L2.a, 0, 0)>>)), LAMBDA a3 :
                [g |-> emit_i(a3.g, <<Quad("Asn", a3.a, true_addr, 0), Quad("Jmp", L4.a, 0, 0),
                                      Quad("Lab", L3.a, 0, 0),
                                      Quad("Asn", a3.a, false_addr, 0), Quad("Jmp", L4.a, 0, 0),
                                      Quad("Lab", L4.a, 0, 0)>>),
                 a |-> a3.a])))))))
      [] e.k = "plus" -> binop("Add")
      [] e.k = "mul"  -> binop("Mul")
      [] e.k = "div"  -> binop("Div")
      [] e.k = "neg" ->
            Bind(sub(e.l, g), LAMBDA r1 :
            Bind(new_temp_addr(r1.g), LAMBDA a2 :
                [g |-> emit_i(a2.g, <<Quad("Neg", a2.a, r1.a, 0)>>), a |-> a2.a]))
      [] e.k = "iconst" -> new_address(g, [kind |-> "IConst", val |-> e.val])
      [] e.k = "id" ->
            Bind(get_nid(g, SidOf(e)), LAMBDA r :
                new_address(r.g, [kind |-> "Id", id |-> SidOf(e), nid |-> r.nid]))

ic_expr_convert(e, dest, g, num, junk) ==
    Bind(ic_expression(e, g, num, junk), LAMBDA a1 :
        IF ConvOp(e.ty, dest) = "none" THEN a1
        ELSE Bind(new_temp_addr(a1.g), LAMBDA a2 :
                 [g |-> emit_i(a2.g, <<Quad(ConvOp(e.ty, dest), a2.a, a1.a, 0)>>), a |-> a2.a]))

ic_expression2(e, g, junk) == ic_expression(e, g, TRUE, junk)

-----------------------------------------------------------------------------
(* Statements: each returns the new generator state.  The location       *)
(* collaborator (outside src/) is the field `scopes' of g, a stack of sets *)
(* of slots [name, off, size]; `frames' collects, at every location_new,   *)
(* the set of slots live at that moment.                                   *)

location_push_scope(g) == [g EXCEPT !.scopes = Append(@, {})]
location_pop_scope(g)  == [g EXCEPT !.scopes = SubSeq(@, 1, Len(@) - 1)]

location_new(g, v, off, size) ==
    LET top    == Len(g.scopes)
        scopes == [g.scopes EXCEPT ![top] = @ \cup {[name |-> v, off |-> off, size |-> size]}]
    IN  [g EXCEPT !.scopes = scopes, !.frames = @ \cup {UNION Range(scopes)}]

\* Mutant of declare_local: the size is not subtracted from the cursor.
declare_local_no_sub(g, v, ty) ==
    LET off == round_up(g.local_offset, get_alignment(ty))
    IN  location_new([g EXCEPT !.local_offset = off], v, off, get_sizeof(ty))

\* One auto declarator: round the cursor, subtract the size, record the slot.
declare_local(g, v, ty) ==
    LET off == round_up(g.local_offset, get_alignment(ty)) - get_sizeof(ty)
    IN  location_new([g EXCEPT !.local_offset = off], v, off, get_sizeof(ty))

\* The declaration list of a compound statement; static, extern and typedef
\* declarations give no slot.
declare_locals(g, decls) ==
    FoldInOrder(LAMBDA h, d :
                IF d.sc # "none" THEN h
                ELSE FoldInOrder(LAMBDA h2, v : declare_local(h2, v, d.ty), h, d.names),
             g, decls)

RECURSIVE ic_statement(_, _, _), ic_statements(_, _, _)
ic_statement(s, g, junk) ==
    CASE s.k = "cmpnd" ->
            \* ic_compound_statement(s, TRUE)
            Bind(ic_statements(s.stmts,
                               declare_locals(IF s.locals # << >> THEN location_push_scope(g) ELSE g,
                                              s.locals), junk), LAMBDA g1 :
            Bind([g1 EXCEPT !.size_of_local_area = IF g1.local_offset < @ THEN g1.local_offset ELSE @],
                 LAMBDA g2 :
                IF s.locals # << >>
                THEN location_pop_scope([g2 EXCEPT !.local_offset = g.local_offset])
                ELSE g2))
      [] s.k = "if" ->
            Bind(new_label(g), LAMBDA L1 :
            Bind(new_label(L1.g), LAMBDA L2 :
            Bind(IF s.s2 # NoStmt THEN new_label(L2.g) ELSE [g |-> L2.g, a |-> 0], LAMBDA L3 :
            Bind(ic_expression2(s.c, L3.g, junk), LAMBDA c :
            Bind(ic_statement(s.s1, emit_i(c.g, <<Quad("CBr", c.a, L1.a, L2.a),
                                                 Quad("Lab", L1.a, 0, 0)>>), junk), LAMBDA g1 :
            Bind(emit_i(g1, <<Quad("Jmp", IF s.s2 # NoStmt THEN L3.a ELSE L2.a, 0, 0),
                              Quad("Lab", L2.a, 0, 0)>>), LAMBDA g2 :
                IF s.s2 # NoStmt
                THEN emit_i(ic_statement(s.s2, g2, junk),
                            <<Quad("Jmp", L3.a, 0, 0), Quad("Lab", L3.a, 0, 0)>>)
                ELSE g2))))))
      [] s.k = "while" ->
            Bind(new_label(g), LAMBDA L1 :
            Bind(new_label(L1.g), LAMBDA L3 :
            Bind(ic_expression2(s.c, L3.g, junk), LAMBDA c1 :
            Bind(ic_statement(s.s1, emit_i(c1.g, <<Quad("CBr", c1.a, L1.a, L3.a),
                                                  Quad("Lab", L1.a, 0, 0)>>), junk), LAMBDA g1 :
            Bind(ic_expression2(s.c, g1, junk), LAMBDA c2 :
                emit_i(c2.g, <<Quad("CBr", c2.a, L1.a, L3.a), Quad("Lab", L3.a, 0, 0)>>))))))
      [] s.k = "ret" ->
            Bind(IF s.e = NoExp THEN g
                 ELSE Bind(ic_expr_convert(s.e, g.ret_ty, g, FALSE, junk), LAMBDA r :
                          emit_i(r.g, <<Quad("Ret", 0, r.a, 0)>>)), LAMBDA g1 :
            Bind(new_label(g1), LAMBDA L :
                emit_i(L.g, <<Quad("Jmp", g.exit_label, 0, 0), Quad("Lab", L.a, 0, 0)>>)))
      [] s.k = "exp" ->
            IF s.e = NoExp THEN g ELSE ic_expression2(s.e, g, junk).g

ic_statements(ss, g, junk) ==
    IF ss = << >> THEN g
    ELSE Bind(ic_statement(Head(ss), g, junk), LAMBDA g1 : ic_statements(Tail(ss), g1, junk))

\* ic_function_definition up to build_CFG.  Parameters get offsets upward
\* from X86_PARAM_END = 8; the body is ic_compound_statement(body, FALSE),
\* so its locals share the scope of the parameters and keep the cursor.
ic_function_definition(f, g, junk) ==
    Bind(FoldInOrder(LAMBDA acc, p :
                        [g |-> location_new(acc.g, p.name, acc.offs, round_up(get_sizeof(p.ty), 4)),
                         offs |-> acc.offs + round_up(get_sizeof(p.ty), 4)],
                     [g |-> location_push_scope(g), offs |-> 8], f.params), LAMBDA params :
    Bind([params.g EXCEPT !.local_offset = IF f.ret \in {"struct", "union"} THEN @ - 4 ELSE @,
                          !.ret_ty = f.ret], LAMBDA g1 :
    Bind(new_label(g1), LAMBDA entry :
    Bind(new_label(entry.g), LAMBDA exit :
    Bind(ic_statements(f.body.stmts,
                       declare_locals(emit_i([exit.g EXCEPT !.exit_label = exit.a],
                                             <<Quad("Jmp", entry.a, 0, 0), Quad("Lab", entry.a, 0, 0)>>),
                                      f.body.locals), junk), LAMBDA g3 :
    Bind([g3 EXCEPT !.size_of_local_area = IF g3.local_offset < @ THEN g3.local_offset ELSE @],
         LAMBDA g4 :
        location_pop_scope(emit_i(g4, <<Quad("Jmp", exit.a, 0, 0), Quad("Lab", exit.a, 0, 0)>>))))))))

-----------------------------------------------------------------------------
(* The driver: ic_init, then per function definition                      *)
(* ic_function_definition followed by ic_reset.                            *)

GenState == [ic_instructions |-> ic_instructions, ic_addresses |-> ic_addresses,
             label_counter |-> label_counter, t_counter |-> t_counter,
             id_table |-> id_table, nid_counter |-> nid_counter, nid2sid |-> nid2sid,
             local_offset |-> local_offset, size_of_local_area |-> size_of_local_area,
             exit_label |-> exit_label, ret_ty |-> "none", scopes |-> << >>, frames |-> {}]

\* ic_init: address 0 is reserved, then true_addr (1) and false_addr (0).
Init ==
    /\ ic_instructions = << >>
    /\ ic_addresses = <<[kind |-> "IConst", val |-> 1], [kind |-> "IConst", val |-> 0]>>
    /\ label_counter = 1
    /\ t_counter = 1
    /\ id_table = << >>
    /\ nid_counter = 0
    /\ nid2sid = << >>
    /\ local_offset = 0
    /\ size_of_local_area = 0
    /\ exit_label = 0
    /\ cfg = EmptyCFG
    /\ func = NoFunc
    /\ frames = {}
    /\ nfuncs = 0

\* ic_function_definition(f): lower the body, then build_CFG if any quad
\* was emitted.  The driver lowers a function only after ic_reset (or
\* ic_init), i.e. when no quad is pending.
DefineFunction(f, junk) ==
    /\ nfuncs < MaxFuncs
    /\ ic_instructions = << >>
    /\ LET g == ic_function_definition(f, GenState, junk)
       IN  /\ ic_instructions' = g.ic_instructions
           /\ ic_addresses' = g.ic_addresses
           /\ label_counter' = g.label_counter
           /\ t_counter' = g.t_counter
           /\ id_table' = g.id_table
           /\ nid_counter' = g.nid_counter
           /\ nid2sid' = g.nid2sid
           /\ local_offset' = g.local_offset
           /\ size_of_local_area' = g.size_of_local_area
           /\ exit_label' = g.exit_label
           /\ cfg' = IF g.ic_instructions # << >> THEN BuildCFG(g.ic_instructions, g.ic_addresses)
                                                  ELSE EmptyCFG
           /\ frames' = g.frames
    /\ func' = f
    /\ nfuncs' = nfuncs + 1

\* ic_reset: clear the arrays, the counters of instructions, addresses and
\* CFG nodes, local_offset, size_of_local_area and nid_counter.  The hash
\* table of nids, the label counter and the temporary counter are kept.
Reset ==
    /\ ic_instructions # << >>
    /\ ~cfg.aborted
    /\ ic_instructions' = << >>
    /\ ic_addresses' = << >>
    /\ cfg' = EmptyCFG
    /\ nid_counter' = 0
    /\ local_offset' = 0
    /\ size_of_local_area' = 0
    /\ UNCHANGED <<label_counter, t_counter, id_table, nid2sid, exit_label, func, frames, nfuncs>>

Next ==
    \/ \E f \in Funcs, junk \in BOOLEAN : DefineFunction(f, junk)
    \/ Reset

Spec == Init /\ [][Next]_vars

-----------------------------------------------------------------------------
(* Properties.                                                             *)

Sid == (STRING \X Int \X Int)

TypeOK ==
    /\ ic_instructions \in Seq([op : STRING, tar : Nat, arg1 : Nat, arg2 : Nat])
    /\ \A i \in DOMAIN ic_addresses :
           \/ ic_addresses[i] \in [kind : {"IConst"}, val : Int]
           \/ ic_addresses[i] \in [kind : {"Id", "Temp"}, id : Sid, nid : Nat]
    /\ label_counter \in Nat /\ t_counter \in Nat /\ nid_counter \in Nat
    /\ id_table \in Seq([sid : Sid, nid : Nat])
    /\ nid2sid \in Seq(Sid)
    /\ local_offset \in Int /\ size_of_local_area \in Int /\ size_of_local_area <= 0
    /\ nfuncs \in 0..MaxFuncs

\* The quads of the function just lowered, run from any initial values of
\* its variables, end with the return value and the variable values that
\* the C semantics of its body gives (ic_function_definition and the whole
\* expression/statement lowering, with the sentinel true_addr/false_addr
\* of &&, the temporaries and the narrowing conversions).  A run the
\* reference does not finish within LoopFuel iterations is not compared.
IRImplementsSource ==
    (ic_instructions # << >> /\ ~cfg.aborted) =>
        LET ids  == IdsOfS(func.body)
            names == {e.v : e \in ids}
        IN  \A env0 \in [names -> Vals] :
              LET ref  == EvalFunction(func, env0, LoopFuel)
                  sids  == {ic_addresses[i].id : i \in {i \in DOMAIN ic_addresses :
                                                        ic_addresses[i].kind # "IConst"}}
                  \* variables start from env0; temporaries are written before read
                  irEnv == [x \in sids |-> IF \E e \in ids : SidOf(e) = x
                                           THEN env0[(CHOOSE e \in ids : SidOf(e) = x).v]
                                           ELSE 0]
                  ir   == RunQuads(ic_instructions, ic_addresses, irEnv, StepFuel)
              IN  \/ ref.mode = "timeout"
                  \/ /\ ir.mode = "done"
                     /\ ir.ret = ref.ret
                     /\ \A e \in ids : ir.env[SidOf(e)] = ref.env[e.v]

\* Labels of the quad stream: the label numbers of Lab quads and of the
\* targets of Jmp and CBr.
LabQuads == {p \in DOMAIN ic_instructions : ic_instructions[p].op = "Lab"}
LabelOf(a) == ic_addresses[a].val
BranchTargets ==
    UNION {CASE ic_instructions[p].op = "Jmp" -> {LabelOf(ic_instructions[p].tar)}
             [] ic_instructions[p].op = "CBr" -> {LabelOf(ic_instructions[p].arg1),
                                                   LabelOf(ic_instructions[p].arg2)}
             [] OTHER -> {}
           : p \in DOMAIN ic_instructions}

\* Every label a Jmp or CBr of the function names is placed by exactly one
\* Lab quad of the same function, so build_CFG never reads an unset entry
\* of lab2node (labels come from the never-reset label_counter; exit_label
\* is a global set by ic_function_definition and read by every return).
BranchTargetsDefined ==
    \A l \in BranchTargets :
        Cardinality({p \in LabQuads : LabelOf(ic_instructions[p].tar) = l}) = 1

\* Every basic block but the last ends with a Jmp or CBr (the assumption
\* build_CFG states), so no block falls through into the next one without
\* an edge: this is what every lowering rule (if, while, &&, return, the
\* prologue) must emit before each Lab.
InnerBlocksEndInBranch ==
    \A i \in 1..cfg.n - 1 : ic_instructions[cfg.last[i]].op \in {"Jmp", "CBr"}

\* build_CFG: u is an in-edge of v exactly as often as v is an out-edge of u.
CFGEdgesSymmetric ==
    ~cfg.aborted =>
        \A u, v \in 1..cfg.n :
            Cardinality({j \in DOMAIN cfg.out[u] : cfg.out[u][j] = v})
              = Cardinality({j \in DOMAIN cfg.in[v] : cfg.in[v][j] = u})

\* number_CFG: PO and RPO of the CFG and of the reverse CFG number every
\* node exactly once, RPO is PO reversed, and every edge u -> v goes
\* forward in RPO unless it is a back edge to a node that dominates u.
NumberingSound ==
    ~cfg.aborted =>
        /\ \A s \in {cfg.po, cfg.rpo, cfg.rpoR, cfg.rrpo} :
               Len(s) = cfg.n /\ ToSet(s) = 1..cfg.n
        /\ \A k \in 1..cfg.n : cfg.rpo[cfg.n + 1 - k] = cfg.po[k]
        /\ \A e \in Edges(cfg) :
               IndexIn(cfg.rpo, e[1]) < IndexIn(cfg.rpo, e[2]) \/ Dominates(cfg, e[2], e[1])

\* ic_function_definition / ic_compound_statement: slots that are live at
\* the same time (parameters, enclosing and current locals) never overlap,
\* and every local lies inside the area size_of_local_area reserves.
FrameLayoutSound ==
    ic_instructions # << >> => \A F \in frames :
        /\ \A s1, s2 \in F :
               s1 # s2 => (s1.off + s1.size <= s2.off \/ s2.off + s2.size <= s1.off)
        /\ \A s1 \in F : s1.off < 0 => s1.off >= size_of_local_area

=============================================================================
