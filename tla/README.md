# TLA+ models of the LuxCC code generators

This directory holds TLA+ models of parts of LuxCC (`src/src`), and the TLC
configurations that check them. Six parts are modelled:
- the IR generator of `ic.c`. It lowers an analysed function to quads, builds
  and numbers the control-flow graph (CFG), and is reset between functions;
- the identifier interning of `ic.c`, over the name arena;
- the arena allocator of `arena.c`;
- the scalar type model of `expr.c`, and the result types its analyzer gives
  the integer operators;
- the LuxVM code generator of `vm_cgen/vm_cgen.c`, for integer programs;
- the constant-expression folder `eval_const_expr` of `expr.c`, on integer
  trees.

The models are written from the C source. The spec (`spec.md`) is used only
for two things:
- code that is not in this repository: `round_up` of `util.h`, the location
  collaborator, the translation-unit driver, and the LuxVM machine;
- stating what the code is supposed to do, where a property comes from it.

## 1. The system and its parts

| Part | Source | State | Operations |
|---|---|---|---|
| IR generator lifecycle | `ic.c` 30-67, 185-248 | instruction array, address array, `label_counter`, static `t_counter`, `true_addr`/`false_addr`, `id_table` + `nid_counter` + `nid2sid`, `local_offset`, `size_of_local_area`, `exit_label`, name arena | `ic_init`, `ic_function_definition`, `ic_reset` |
| IR statement lowering | `ic.c` 590-788 | the globals above, plus the location collaborator's scope stack | `ic_statement`, `ic_if_statement`, `ic_while_statement`, `ic_return_statement`, `ic_compound_statement`, `ic_expression_statement` |
| IR expression lowering | `ic.c` 810-1251 | the same globals | `number_expression_tree`, `ic_expression`, `ic_expr_convert`, `new_temp_addr`, `new_label`, `get_nid`, `get_mangled_name` |
| CFG | `ic.c` 379-537 | `cfg_nodes` (leader, last, out/in edge arrays of capacity `MAX_IN_EDGES`), `CFG_PO/RPO`, `RCFG_PO/RPO` | `build_CFG`, `number_CFG`, `number_subCFG`, `number_subRCFG` |
| Arena allocator | `arena.c` | list of blocks (`avail`, `limit`), `first`, `last` | `arena_new`, `arena_alloc`, `allocate`, `arena_reset`, `arena_destroy` |
| Type model | `expr.c` 62-415, 1941-2041 | none (pure functions) | `get_sizeof`, `get_alignment`, categories, ranks, promotions, `get_result_type` |
| Expression analyzer | `expr.c` 415-1940 | diagnostics; the types written into the tree | `analyze_*` |
| Constant evaluator | `expr.c` 2061-2506 | none | `eval_const_expr` |
| VM code generator | `vm_cgen/vm_cgen.c` | output text and data, `label_count`, break/continue target stacks `bt_stack`/`ct_stack`, `switch_labels`, `local_offset`, `size_of_local_area` | `vm_cgen`, `function_definition`, every `*_statement`, every `*_expression`, `expr_convert`, `load`, `store`, `load_addr` |
| `stdarg.h` | `lib/include/stdarg.h` | none | macros |

### How the parts interact

The analyzer (`expr.c`) gives every expression node a type. It uses the type
model (`get_result_type`, `get_promoted_type`). Both generators read those
types: `ic_expr_convert` and the VM generator's `expr_convert` narrow a value,
and the VM generator picks signed or unsigned instructions from them.

**The IR generator.** For each function definition, the driver calls
`ic_function_definition` and then `ic_reset`. `ic_function_definition` does
four things:
1. it lowers the body into the global quad and address arrays;
2. it allocates mangled names from the name arena (`arena.c`);
3. it interns every name through `get_nid`;
4. it calls `build_CFG`.

`ic_reset` clears the arrays, rewinds the arena and zeroes `nid_counter`. It
keeps the following, so they are state shared between functions:
- the interning table, whose keys point into the rewound arena;
- `label_counter`;
- the static `t_counter`;
- the indices `true_addr`/`false_addr`.

**The VM generator.** `vm_cgen` calls `function_definition` for each function
in turn. Several file-scope statics live from one function to the next:
- `label_count`, since labels are names of the whole assembly file;
- the target stacks;
- the switch label tables;
- `local_offset` and `size_of_local_area`.

The dataflow passes (`dflow_*`) read the CFG and the nids. Their code is not in
this repository.

### Hard behaviours

The code is sequential and single-threaded. It has no interleavings, no
messages, and nothing persisted, so nothing to recover after a crash. What is
hard to test is the following:
- **State carried across functions.** Examples: address indices cached by
  `ic_init`; an interning table whose counter restarts; label and temporary
  counters that keep running; an arena rewound under names still used as table
  keys; and the VM generator's statics.
- **Name spaces that must not collide.** Parameters are not mangled, and
  temporaries are named `t1`, `t2`, ... In the VM generator, named labels
  are the function name and the label name joined by `_`, and static locals
  are the function name and their own name joined by `_`, whatever block
  declares them.
- **Numeric edges.**
  - Rounding a negative offset cursor.
  - Narrowing conversions.
  - Signedness of comparisons and division.
  - The index arithmetic of the post-order arrays.
  - The fixed in-edge capacity.
- **Protocols between lowering steps.**
  - Labels placed once, and every jump placed.
  - The continue target of `for`.
  - The search table of a switch and its fall-through.
  - The `addsp` operand fixed up after the body.
- **The block-structure assumption.** `build_CFG` assumes every block ends in
  a branch.

## 2. Modules

| Module | Models | Kind |
|---|---|---|
| `Steps` | No code. `InOrder` runs a series of steps in program order. `Bind` runs one step and passes its result to the rest. `FoldInOrder` folds in order. | helper |
| `ICSemantics` | Yardsticks: the abstract syntax of the IR generator's C subset, a reference evaluator of it, and an interpreter of the quads. | pure operators |
| `CFG` | `build_CFG` and `number_CFG` as one operator `BuildCFG(instrs, addrs)`, and graph helpers (`Edges`, `ReachFrom`, `Dominates`) | pure operators |
| `ICGen` | The IR generator's globals as VARIABLES. `Init` is `ic_init`. `DefineFunction` is all of `ic_function_definition`, including `build_CFG` and numbering. `Reset` is `ic_reset`. | state machine, `INSTANCE CFG` |
| `MC_ICGen` | sets of function definitions, one per question | MC module |
| `ArenaSpec` | What the arena promises: a sequence of live region contents. `Alloc` appends to it. Reset and destroy empty it. | abstract spec |
| `Arena` | `arena.c`. Blocks are `[limit, avail, mem]` with byte contents. `Init` is `arena_new`. `Alloc(n)` is `arena_alloc`/`allocate` plus the client's copy, with malloc failure as a choice. `Reset` and `Destroy` are actions. | state machine, refines `ArenaSpec` |
| `MC_Arena` | block sizes and request sizes | MC module |
| `NameTable` | `get_mangled_name`, `get_nid` and the nid part of `ic_reset`, over the `Arena` operators. Keys are arena pointers, compared by the bytes they point at. | state machine, composes `Arena` |
| `MC_NameTable` | names, their lengths and hash buckets | MC module |
| `ExprTypes` | `is_integer`, `is_signed_int`, `is_unsigned_int`, `get_sizeof`, `get_alignment`, `get_promoted_type`, `get_rank`, `get_result_type` for the integer categories, and a C99 6.3.1.8 reference | pure operators |
| `VMSemantics` | Yardsticks for the VM generator: the analysed integer subset (node constructors typed as `analyze_*` types them), a C reference evaluator, and an interpreter of the LuxVM instructions the generator emits | pure operators, `EXTENDS ExprTypes` |
| `VMGen` | `vm_cgen.c`: the statics as VARIABLES; `DefineFunction(f)` is all of `function_definition` | state machine |
| `MC_VMGen` | six integer function definitions covering every statement kind (`goto` and labels included), operator (shifts included) and static locals, and three functions whose mangled names clash | MC module |
| `ConstEval` | `eval_const_expr` as the RECURSIVE operator `eval_const_expr(e, is_addr, is_iconst)`, one operator per group of cases (`EvalUnary`, `EvalCast`, `EvalArith`, `EvalAdditive`, `EvalShift`, `EvalRelBit`, `EvalLogical`, `EvalCond`, `EvalId`). It returns the value, the verdict (ok, fatal error, host trap) and the rewritten tree. `Evaluate` is one call by the parser on the tree left by earlier calls. `CValue` is the C99 reference. | state machine, `EXTENDS VMSemantics` |
| `MC_ConstEval` | every operator over every pair of seven operands, casts, `&&`/`||` and `?:` over address constants, and nested trees | MC module |

### Correspondence of `ICGen` to `ic.c`

Lowering a function is one atomic step, because the C code runs it to
completion without suspending. The lowering is written as recursive operators.
`ic_statement`, `ic_expression` and `ic_expr_convert` keep the C names. They
thread a record `g` that holds every global the lowering reads or writes:
- the operators over expressions return `[g, a]`, where `a` is the address
  index the C function returns;
- the steps of each operator are in the order of the calls in its C function.
  For example, the four labels of `&&` are created before its operands are
  lowered, as at `ic.c` 925-931;
- each call is one `Bind(step, LAMBDA r : rest)`. The result of a C call is
  bound to a parameter named after the C variable (`L1`, `a3`, `g1`).

The C data maps to the model as follows:
- **Quads and addresses.** A quad is a record `[op, tar, arg1, arg2]`. Quad
  `k` of `ic_instructions` is position `k+1`. Address `i` is position `i`, and
  index 0 is the empty address.
- **Names (sids).** A sid is a triple `<<base, digits, scope>>`.
  - `get_mangled_name` gives `name:scope`.
  - A parameter is unmangled, with scope -1.
  - A temporary `t%u` is `<<"t", n, -1>>`. So a parameter named `t1` and
    temporary 1 are the same sid, exactly as the strings are equal in C.
- **The interning table.** The hash chains are one newest-first list. The
  bytes behind the keys are modelled in `NameTable`, not here.
- **The location collaborator** (outside `src/`). It is a stack of slot sets.
  The ghost variable `frames` records the slots live together.
- **`nreg` fields `number_expression_tree` never set.** This affects the right
  side of `=` and a returned expression. The Sethi-Ullman comparison on them
  is a nondeterministic boolean `junk`, and both outcomes are explored.
- **`number_CFG`.** `DFS` numbers a node as `number_subCFG` does:
  `CFG_RPO[cfg_nodes_counter - pocount] = n`, then `CFG_PO[pocount++] = n`.
  The `rpo` array has indices `0..N`, and 0 marks a slot never written
  (the code `malloc`s it). `NumberingSound` therefore checks the index
  arithmetic and not a reversal written into the model.
- **The spec's CFG invariants.** spec.md section 3 says every block ends in
  `Jmp` or `CBr`, and every node but the entry has an in-edge. The code does
  not build that. The last block is the lone `Lab exit_label` (`ic.c:294`).
  The block after a `return` starts at a label no quad names (`ic.c:719`).
  `InnerBlocksEndInBranch` checks what `build_CFG` really assumes: every
  block but the last ends in a branch. The spec's stronger statement is
  listed as a hazard.

### Correspondence of `Arena` and `NameTable` to `arena.c` and `ic.c`

A pointer is `<<block, offset>>`. A block's `mem` maps each offset to the last
byte stored there.
- `allocate` and `arena_alloc` are operators, and `Alloc(n)` calls them and
  then stores the client's bytes. `get_mangled_name` copies the name into the
  allocation the same way.
- The ghost `handed` records the regions handed out since the last reset.
- The refinement mapping `LiveContents` reads those regions back from the
  blocks. `ArenaRefinement` is `INSTANCE ArenaSpec WITH live <- LiveContents`,
  with the abstract `Spec` checked as a PROPERTY.

`NameTable` uses the `Arena` operators through `INSTANCE`. Each `get_nid`
compares the query with every key in its bucket, by the bytes the key points
at when the lookup runs. `Reset` does what `ic_reset` does to this state: it
sets `nid_counter` to 0, runs `arena_reset`, and keeps `id_table`.

### Correspondence of `ConstEval` to `eval_const_expr`

- A result is `[st, v, n]`: `st` is `"ok"`, `"error"` (the fatal
  `emit_error(TRUE, ...)` that every `break` reaches, `expr.c:2502`) or
  `"trap"` (the host's division by zero); `v` is the `long long` returned; `n`
  is the node after the call. A node that folds becomes an `iconst` with the
  returned value, as `KIND(e) = IConstExp; VALUE(e) = ...` does.
- Values are the host's `long long`: `LL` wraps to `HOST_BITS = 2*WORD_BITS`
  bits, `UL` to the host's `unsigned long` of the same width. Values are not
  reduced to the node's type; only a cast reduces them (`expr.c:2167`).
- The signedness of `/`, `%`, `>>` and the relational operators is read from
  the node's type, as the code reads `e->type`. The analyzer types relational
  nodes `int` and shift nodes by the promoted left operand; the constructors
  of `VMSemantics` and `Shift` do the same.
- A `+` or `-` with an address operand returns `0xABCD` without folding, as
  the code does (`expr.c:2245`, `2264`); `&&`, `||` and `?:` then decide from
  the node kinds, including the `child[0]` test after evaluating `child[1]`.
- A `?:` whose condition is an identifier runs `VALUE(e) = cond`
  (`expr.c:2440`) on a node that stays `OpExp` when the selected operand does
  not fold. `attr` is a union, and the code reads the operator from
  `attr.op`, so the store replaces the operator with token 1.
  `AttrOpAfterStore(1)` is that operator. `parser.h`, which numbers the
  tokens, is not in the repository. The model takes token 1 to be none of
  the folder's operators, so a later evaluation of the node ends in the
  invalid-constant-expression error.
- `sizeof` reaches the folder already folded by the analyzer
  (`expr.c:1395`), so `SizeofT` is an `iconst` of type `unsigned long`.
- Not modelled: the pointer arms (subscript, `.`, `->`, `&`, `*`, pointer
  `+`/`-`) and string literals.
- `expr.h:21` declares the function returning `long`; its definition
  (`expr.c:2061`) returns `long long`. This is a declaration mismatch no model
  run can show.

### Correspondence of `VMGen` to `vm_cgen.c`

`function_definition(f, g)` threads a record `g` that holds every static of
the file:
- `label_count`, `bt_stack`, `ct_stack`, `switch_labels`, `local_offset`,
  `size_of_local_area`;
- the instructions emitted so far (`g.code`);
- the search tables (`g.data`: table label to the dwords emitted for it).

Each C function is an operator of the same name: `if_statement`,
`for_statement`, `switch_statement`, `case_statement`,
`conditional_expression`, `inc_dec_expression`, `expr_convert` and so on.
- Its steps are the C calls in their order.
- `new_label` increments `label_count` at the point the code calls it.
- The prologue's `addsp` operand is patched after the body from
  `size_of_local_area`, as the code fixes up the buffer.
- A switch's search table is sorted with `cmp_switch_label` and written to
  `g.data` by `SearchTable`.
- `DefineFunction(f)` copies the resulting statics back into the VARIABLES,
  so the next definition starts from them. Its guard `f.name \notin
  defined` stands for the analyzer, which rejects a second definition of a
  name, so a unit never defines one function twice.
- `goto_statement` and `label_statement` emit `jmp @@f_l` and `@@f_l:`.
  The name is `MangledLabel(curr_func_name, l)`. Names are sequences of
  characters and the mangled name is their concatenation, because the
  joining is what can go wrong. An instruction that names a label is
  `NamedInstr(op, name)`; the numbered labels `@Ln` stay `Instr(op, n)`.
- `<<` is `sll`. `>>` is `srl` or `sra`, by the node's type, which is the
  promoted left operand (`ShiftInstr`). In the C reference, a count that is
  negative or not below the width is undefined, and so is a signed `<<`
  that overflows; `>>` of a negative value is taken as arithmetic. In the
  VM, counts are taken modulo the width. The two are compared only where C
  defines the shift.
- The reference evaluator runs a `goto` by leaving the statements
  (mode `"goto"`). The body is then run again from the top in mode
  `"seek"` until the label is found, one unit of fuel per goto. Blocks
  entered while seeking skip their initialisers, as in C.
- A static declarator of a block goes to `static_object_definition` and is
  skipped by the frame layout, as in `compound_statement`. It appends an
  object `[sym, seg, dir, val]` to `g.statics`. `sym` is
  `StaticSym(curr_func_name, name)`, `"@f_x"`. `seg` is `.data` with the
  directive of `do_static_init` (`.byte` for the character types, `.dword`
  for the others) and the constant's value, or `.bss` with `.res` and its
  size. The `.align` directive and the `.text` that follows are layout and
  are left out. `load_addr` of a static local emits `ldi @f_x`
  (`NamedInstr("ldi", sym)`). The variable `out_static` keeps the objects
  of each definition. Initialisers are integer constants, as the analyzer
  leaves them after folding, which is the `IConstExp` arm of
  `do_static_expr`. A static's name is one token, so the underscore split
  of the label clash is not reproduced for statics.

Instructions are `[op, arg]`. Their names are the mnemonics the code prints
(`ldi`, `ldbp`, `lddw`, `ldb`, `ldub`, `stdw`, `stb`, `jmpf`, `switch`, ...).

**Assumed LuxVM semantics.** LuxVM is not in the repository. `VMSemantics`
gives each instruction the meaning the generator relies on:
- `stdw`/`stb` pop the address and leave the value;
- `jmpf`/`jmpt` pop the condition;
- `switch` pops the value and the table address. The table is the size `n`,
  then the `n-1` case values, then `n` labels with the default first;
- the frame base BP is `2^(W-1)`, and frame addresses are BP + offset;
- words are little-endian, so a byte access reads or writes the low byte of
  the word slot;
- the assembler keeps the low bytes of a `.byte` or `.dword` number, and
  `.res` is zeros (`DataWord`); the linker gives each static object of the
  definition a word of its own (`SymAddr`), and `ldi` of a symbol pushes it.

**Word width.** `WORD_BITS = 12` in `vmgen.cfg`, not 32. TLC integers are
32-bit signed, so 2^32 cannot be computed. char stays 8 bits, so 12 bits keeps
every case the code distinguishes:
- int is wider than char;
- unsigned arithmetic wraps;
- -1 is a large unsigned value.

## 3. Runs

The IR runs use `MC_ICGen` with the following bounds:
- `Vals = {0, 1, 200}`. 200 does not fit in a `char`, so narrowing shows.
- `LoopFuel = 3` and `StepFuel = 300`.

| Run | Expect | Properties | What it shows |
|---|---|---|---|
| `ic_one_function` | pass | `TypeOK`, `BranchTargetsDefined`, `InnerBlocksEndInBranch`, `CFGEdgesSymmetric`, `NumberingSound`, `FrameLayoutSound`, `IRImplementsSource` | The first function of a translation unit is lowered correctly over every input shape, and `ic_reset` then fires. |
| `ic_and_second_function` | violation | `IRImplementsSource` | `&&` in a function after `ic_reset` assigns label numbers instead of 1/0: `true_addr`/`false_addr` are stale indices (finding at `ic.c:937`). |
| `ic_temp_named_param` | violation | `IRImplementsSource` | In `int f(int t1) { return (t1+1)*t1; }` the first temporary is the parameter (`ic.c:1177`). |
| `ic_char_then_int` | violation | `FrameLayoutSound` | In `char c; int i;`, `i` is placed over `c`, because `round_up` is applied to a negative cursor (`ic.c:760`). |
| `arena` | pass | `TypeOK`, `ArenaRefinement` | Any sequence of allocations, resets and destroys keeps every region handed out since the last reset intact, as `ArenaSpec` promises. This includes a malloc failure and a retained block that is reused or skipped. |
| `nametable` | pass | `TypeOK`, `KeysIntactSinceReset` | Within a function, later allocations never overwrite a key interned in that function. |
| `nametable_stale_keys` | violation | `NidsIdentifyNames` | After `ic_reset`, a local is answered from its stale entry with nid 0 while a new parameter also gets nid 0 (`ic.c:246`, `ic.c:247`). |
| `consteval` | pass | `TypeOK`, `FoldIdempotent` | Over 1888 initial states (every input tree but the one of `consteval_cond_clobber`, in an integer-constant context and outside one), a second evaluation of the rewritten tree gives the same value and verdict as the first, and every value is a host `long long`. |
| `consteval_as_c` | violation | `ConstFoldAsC` | The folder disagrees with C99. TLC's trace folds `1u < -1` to 0 where C gives 1, because relational nodes are typed `int` and compared signed (`expr.c:2320`); `-1 < 1u` likewise folds to 1. |
| `consteval_cond_clobber` | violation | `FoldIdempotent` | `a ? (int)a + 3 : 0`, with `a` a file-scope array, evaluates first to the unfolded sum. The store of the condition into the node's `attr` union (`expr.c:2440`) has replaced its operator, so the second evaluation fails. |
| `vmgen_label_clash` | violation | `LabelsPlacedOnce` | TLC's shortest trace lowers `int b(int p) { { static int x = 1; p += x; } { static int x = 2; p += x; } return p; }`, which defines `@b_x` twice (`vm_cgen.c:1876`). With `SiblingStatics` left out of `CollidingFuncs`, `int f(int p) { goto a_b; a_b: return p; }` and the same function `f_a` with label `b` both place `@@f_a_b` in the file (`vm_cgen.c:554`). |
| `vmgen` | pass | `TypeOK`, `VMImplementsSource`, `FrameSound`, `LabelsPlacedOnce`, `ResultTypesAsStandard` | The run covers every order of lowering up to four of six distinct definitions, one of them a loop made of gotos with shifts and one with static locals. The LuxVM code computes what the C source computes on every argument tuple, static locals included. Frame slots are disjoint, aligned and inside the `addsp` area. Labels and data symbols are unique in the file, and every jump, table entry and static load names one that is defined. `get_result_type` agrees with C99. |

### The central properties

**`IRImplementsSource` (ICGen).** After a function is lowered, it runs the
quads from every assignment of `Vals` to the variables. It compares the
returned value and every variable with the reference evaluator, which uses C
semantics: short-circuit `&&`, truncating division, and narrowing on
assignment and return. It checks the following together:
- operand order;
- the `&&` sequence;
- temporaries;
- conversions;
- the doubled `while` test;
- the jump to `exit_label`.

**`VMImplementsSource` (VMGen).** This is the same check for the LuxVM code.
- It runs the code from the frame that holds the converted arguments.
- Runs where the source does not finish within `LoopFuel` iterations are not
  compared.
- Runs with undefined behaviour in the source are also not compared.
- It compares the returned value and every slot no other slot shares, at the
  width of the slot.

It covers all of these:
- the label plumbing of `while`/`do`/`for`, including continue in `for` with
  and without a third expression;
- break and continue inside a switch inside a loop;
- the search tables with fall-through and a middle default;
- signed and unsigned relational operators and division;
- the conversions of `expr_convert`;
- the sequences of `++`/`--`, pre and post, on `char`;
- compound assignment;
- `?:`, `&&`, `||`, `!`, `~`, and casts.

**`ArenaRefinement` (Arena).** The byte-level arena implements the abstract
"allocations keep their contents until reset" spec.

**`FoldIdempotent` and `ConstFoldAsC` (ConstEval).** The folder rewrites the
tree in place and the parser may evaluate it again (spec 8.4), so the stored
values must be the returned ones: `FoldIdempotent` compares a second call with
the first. `ConstFoldAsC` compares a successful first call, converted to the
expression's type, with the C99 value of the source tree wherever C defines
one, and says the host never traps.

**`NidsIdentifyNames` (NameTable).** Two identifier nodes of one function get
the same nid exactly when they name the same variable.

### Bounds and why they are enough

- **`ic_one_function`.** `OneFunction` builds
  `int f(int p) { int x, y; static int s; S return x + y; }`, and the same
  function returning `char`. `S` is one of the following:
  - every simple statement;
  - `if` and `if`/`else`, and `while`, each over three conditions: a leaf, an
    `&&`, and a product whose right side needs more registers;
  - a nested block with its own local.

  The rules compose by concatenation, so one statement per function reaches
  every rule, both operand orders and both `junk` outcomes.
- **The violation runs.** Each uses the smallest input that reaches its case:
  - two functions where the case needs state carried across `ic_reset`.
- **`arena`.**
  - `FIRST_SIZE = 4`, `MEMINCR_BYTES = 2`, `MULTIPLE = 4`.
  - Request sizes `{1, 4, 6}`.
  - Up to 6 allocations and 3 blocks.

  This reaches every path of `allocate`: a fit in the current block, reuse of
  a retained block, skipping a retained block that is too small, and a new
  block larger than the increment. It also reaches a failing malloc, and a
  reset followed by reuse.
- **`nametable`.**
  - Two locals and one parameter.
  - Mangled lengths 4 and 5 against an 8-byte first block.
  - Three buckets, 8 references, 2 functions.

  So the second function's allocations land on the first function's keys.
- **`vmgen`.**
  - Six definitions (`Loops`, `Sw`, `Conv`, `Un`, `Gt`, `St`), up to 4 of them
    lowered in every order, so the statics carry over in every combination.
  - `Gt` is a loop closed by a backward `goto` and left by a forward one.
    It sums `n >> j` for `j` = 0, 1, 2, which is `sra` of a negative `n`,
    then does `q >>= 1`, an unsigned `y << j | y >> 1`, a signed `j << 2`,
    and `n >> (unsigned)j`, whose result type is that of the left operand.
  - `Loops` has a `for (;;)` with no third expression whose body does a
    `continue`, which must jump back to the condition label.
  - `Sw` has a switch with cases and no `default`, so a value matching no
    case must reach the exit label.
  - `St` has static locals of type int (300, above a byte), char (-3),
    unsigned (in `.bss`, decremented through 0) and, in a block a loop
    enters twice, unsigned char (200). A static initialised again on each
    entry, or a `.byte` for the int, changes the result.
  - `vmgen_label_clash` lowers `SiblingStatics` and the two functions `f`
    and `f_a`, two at most, in every order.
  - `Vals = {0, 1, -1, 200}`: -1 separates signed from unsigned, and 200
    separates char from unsigned char.
  - `LoopFuel = 8` covers the loop bodies to completion. `StepFuel = 400` is
    enough instructions for them.

- **`consteval`, `consteval_as_c` and `consteval_cond_clobber`.** `WORD_BITS = 12`, so `int` is 12
  bits and the host's `long long` 24. Operands 0, 3, 1u, `UINT_MAX` (4095u),
  -1, `sizeof(long)` and an automatic `int x`, under every unary, cast and
  binary operator, and shifts by 1 and 3. These reach both signs, the
  unsigned wrap, zero divisors and every non-constant path. Two arrays, one
  static (an address constant) and one automatic, reach the `IdExp` rules,
  `&&`/`||` with unknown operands and the unfolded `0xABCD` sum. `MaxEvals =
  2` is the second evaluation the idempotence property needs. The one tree
  that stores into a node left `OpExp` (`ClobberingConds`) is checked on its
  own by `consteval_cond_clobber`; `consteval` checks the rest
  (`StoreFreeExprs`).

### Fairness and liveness

None of the runs assumes fairness. Every generator is a sequential pass that
its driver calls once per definition, and each call is one atomic step here.
Nothing waits and no scheduler is involved. Each run ends at a named bound:
- the function count (`MaxFuncs`);
- the allocation count (`MaxAllocs`);
- the reference count (`MaxRefs`);
- the evaluation count (`MaxEvals`), or the first failed evaluation, which is
  fatal;
- `arena_destroy`.

Every cfg says `CHECK_DEADLOCK FALSE`, and the reason is that the translation
unit really ends at that bound.

### Mutants

Each property of a passing run is broken by a plausible bug in the operator
it is about. The mutant operator is defined just before the definition it
replaces.

| Run | Mutant (replaces) | Breaks |
|---|---|---|
| `ic_one_function` | `get_nid_no_insert` (`get_nid`) | `TypeOK` |
| `ic_one_function` | `new_label_no_incr` (`new_label`) | `BranchTargetsDefined` |
| `ic_one_function` | `LastOf_at_leader` (`LastOf`) | `InnerBlocksEndInBranch` |
| `ic_one_function` | `AddInEdges_slot0` (`AddInEdges`) | `CFGEdgesSymmetric` |
| `ic_one_function` | `DFS_rpo_late` (`DFS`) | `NumberingSound` |
| `ic_one_function` | `declare_local_no_sub` (`declare_local`) | `FrameLayoutSound` |
| `ic_one_function` | `ConvOp_no_char` (`ConvOp`) | `IRImplementsSource` |
| `arena` | `allocate_last_next` (`allocate`) | `TypeOK` |
| `arena` | `allocate_no_sub` (`allocate`) | `ArenaRefinement` |
| `nametable` | `get_nid_post` (`get_nid`) | `TypeOK` |
| `nametable` | `get_mangled_name_no_nul` (`get_mangled_name`) | `KeysIntactSinceReset` |
| `consteval` | `EvalArith_mul_wide` (`EvalArith`) | `TypeOK` |
| `consteval` | `EvalUnary_no_store` (`EvalUnary`) | `FoldIdempotent` |
| `vmgen` | `load_addr_signed` (`load_addr`) | `TypeOK` |
| `vmgen` | `RelInstr_result` (`RelInstr`) | `VMImplementsSource` |
| `vmgen` | `function_definition_offs_late` (`function_definition`) | `FrameSound` |
| `vmgen` | `function_definition_label_reset` (`function_definition`) | `LabelsPlacedOnce` |
| `vmgen` | `get_result_type_no_llong` (`get_result_type`) | `ResultTypesAsStandard` |

## 4. Not modelled, and why

- **Pointers, arrays, structs, calls, string literals, file-scope objects,
  `long long` and `short` values, floating types.** The models' values are integers of one
  word, plus char. In `ic.c`, switch, for, do and goto are under `#if 0`,
  and `ICGen` has no shifts. In `vm_cgen.c` the modelled subset is every
  statement except `asm`, and every integer operator. The type model still
  covers every integer category.
- **The `MAX_IN_EDGES` capacity of `build_CFG`.** It is defined in a header
  that is not in the repository. `ICGen` keeps the assert (`cfg.aborted`),
  but no run can tie a bound to the real capacity.
- **The pointer arms of `eval_const_expr`.** Subscript, `.`/`->`, `&`, `*`,
  pointer arithmetic and string literals need address values the models do
  not have. The integer arms are modelled in `ConstEval`.
- **Dataflow (`dflow_*`) and `disassemble`.** The dataflow code is not in the
  repository, and `disassemble` only prints.
- **Growth of the arrays, the string pool, and the 128-entry target stacks.**
  The reallocation paths only preserve contents. The bounds are far above what
  a checkable program reaches. The hazards list records them with a note.
- **`stdarg.h`.** It is macros over the argument pointer, with no state of
  its own.

## 5. Plan

1. The pointer arms of `eval_const_expr`, with symbolic addresses.
2. A second passing `ICGen` run over two functions without `&&`. It would
   check that `IRImplementsSource` and the CFG properties survive `ic_reset`.
3. File-scope objects (`vm_cgen`'s external declarations that are not
   functions) and the address-constant arms of `do_static_expr`.
