------------------------------ MODULE ConstEval ------------------------------
(***************************************************************************)
(* The constant folder eval_const_expr of src/src/expr.c on integer        *)
(* expressions, the identifiers that may stand for an address constant,   *)
(* and the shifts.  The folder computes in the host's long long, and       *)
(* rewrites the tree it evaluates in place: a node that folds becomes an   *)
(* IConstExp holding the value (KIND(e) = IConstExp; VALUE(e) = ...), so   *)
(* the next evaluation of the tree reads it without descending.            *)
(*                                                                         *)
(* An evaluation gives [v, n, st]: the value returned, the node as the     *)
(* evaluation leaves it, and st, "ok", "error" (the `break' to emit_error, *)
(* a fatal diagnostic that ends the translation unit) or "trap" (a host    *)
(* division by zero, which kills the compiler).                            *)
(*                                                                         *)
(* Widths are those of VMSemantics, scaled: the host's long long and its   *)
(* unsigned long (an LP64 host) are two target words, int one.             *)
(***************************************************************************)
EXTENDS VMSemantics

HOST_BITS == 2 * WORD_BITS

\* The long long a result is stored in, and (unsigned long)v.
LL(v) == Wrap(v, HOST_BITS, TRUE)
UL(v) == Wrap(v, HOST_BITS, FALSE)

\* Nodes the generators' subset lacks.  An array identifier declared at
\* file scope (is_external_id) or with a storage class; sizeof of a type
\* name, which analyze_unary_expression already turns into an IConstExp
\* of type unsigned long (so the TOK_SIZEOF arm of the folder is never
\* reached).
ArrayId(v, sto) == [k |-> "id", v |-> v, ty |-> "array", sto |-> sto]
SizeofT(tn)     == [k |-> "iconst", val |-> get_sizeof(tn), ty |-> "ulong"]

Ok(v, n)  == [v |-> v, n |-> n, st |-> "ok"]
Fail(n)   == [v |-> 0, n |-> n, st |-> "error"]
Trap(n)   == [v |-> 0, n |-> n, st |-> "trap"]

\* KIND(e) = IConstExp; return (VALUE(e) = v).
Fold(e, v) == Ok(v, [k |-> "iconst", val |-> v, ty |-> e.ty])

IsConst(r) == r.n.k = "iconst"

\* The rest of the evaluation after a child's; an error or a trap ends it.
After(r, Rest(_)) == IF r.st # "ok" THEN r ELSE Rest(r)

RECURSIVE eval_const_expr(_, _, _)

\* Mutant of EvalUnary: the node is marked IConstExp but its value is not
\* stored (VALUE(e) keeps the operand's value).
EvalUnary_no_store(e, c) ==
    IF ~IsConst(c) THEN Fail([e EXCEPT !.l = c.n])
    ELSE LET v == CASE e.k = "uplus"  -> c.v
                    [] e.k = "uminus" -> LL(-c.v)
                    [] e.k = "cmpl"   -> LL(-c.v - 1)
                    [] e.k = "not"    -> B2I(c.v = 0)
         IN  [Fold(e, c.v) EXCEPT !.v = v]

\* TOK_UNARY_PLUS, TOK_UNARY_MINUS, TOK_COMPLEMENT, TOK_NEGATION, the
\* operand c evaluated: it must have folded.
EvalUnary(e, c) ==
    IF ~IsConst(c) THEN Fail([e EXCEPT !.l = c.n])
    ELSE Fold(e, CASE e.k = "uplus"  -> c.v
                   [] e.k = "uminus" -> LL(-c.v)
                   [] e.k = "cmpl"   -> LL(-c.v - 1)
                   [] e.k = "not"    -> B2I(c.v = 0))

\* TOK_CAST to an integer type: a folded operand is truncated by the host
\* cast the destination names; long and the wider types are not converted
\* (default arm).  An operand that did not fold (an address) may only be
\* cast to a type as wide as a pointer.
EvalCast(e, c) ==
    IF IsConst(c)
    THEN Fold(e, CASE e.ty \in {"char", "schar"} -> Wrap(c.v, 8, TRUE)
                   [] e.ty = "uchar"             -> Wrap(c.v, 8, FALSE)
                   [] e.ty = "int"               -> Wrap(c.v, WORD_BITS, TRUE)
                   [] e.ty = "unsigned"          -> Wrap(c.v, WORD_BITS, FALSE)
                   [] OTHER                      -> c.v)
    ELSE IF e.ty \in {"char", "schar", "uchar"} \/ (e.ty \in {"int", "unsigned"} /\ targeting_arch64)
         THEN Fail([e EXCEPT !.l = c.n])
         ELSE Ok(c.v, [e EXCEPT !.l = c.n])

\* Mutant of EvalArith: the product is folded without the wrap of the
\* host's long long.
EvalArith_mul_wide(e, a, b) ==
    IF e.k = "mul" /\ IsConst(a) /\ IsConst(b) THEN Fold(e, a.v * b.v)
    ELSE IF ~IsConst(a) \/ ~IsConst(b) THEN Fail([e EXCEPT !.l = a.n, !.r = b.n])
    ELSE LET uns == is_unsigned_int(e.ty)
         IN  CASE e.k = "div" /\ b.v = 0 -> Trap(e)
               [] e.k = "rem" /\ b.v = 0 -> Trap(e)
               [] e.k = "div" -> Fold(e, IF uns THEN LL(UL(a.v) \div UL(b.v)) ELSE LL(CDiv(a.v, b.v)))
               [] e.k = "rem" -> Fold(e, IF uns THEN LL(UL(a.v) % UL(b.v))
                                         ELSE a.v - CDiv(a.v, b.v) * b.v)

\* TOK_MUL, TOK_DIV, TOK_REM: both operands must have folded; the host
\* divides in unsigned long when the node's type is unsigned, and traps on
\* a zero divisor.
EvalArith(e, a, b) ==
    IF ~IsConst(a) \/ ~IsConst(b) THEN Fail([e EXCEPT !.l = a.n, !.r = b.n])
    ELSE LET uns == is_unsigned_int(e.ty)
         IN  CASE e.k = "mul" -> Fold(e, LL(a.v * b.v))
               [] e.k \in {"div", "rem"} /\ b.v = 0 -> Trap(e)
               [] e.k = "div" -> Fold(e, IF uns THEN LL(UL(a.v) \div UL(b.v)) ELSE LL(CDiv(a.v, b.v)))
               [] e.k = "rem" -> Fold(e, IF uns THEN LL(UL(a.v) % UL(b.v))
                                         ELSE a.v - CDiv(a.v, b.v) * b.v)

\* TOK_PLUS and TOK_MINUS of integers: a sum of a non-constant operand is
\* an unknown value (0xABCD, "doesn't matter") that does not fold; a
\* difference whose right operand did not fold is an error.
EvalAdditive(e, a, b) ==
    LET kept == [e EXCEPT !.l = a.n, !.r = b.n]
    IN  CASE e.k = "plus" /\ IsConst(a) /\ IsConst(b)  -> Fold(e, LL(a.v + b.v))
          [] e.k = "plus"                               -> Ok(43981, kept)
          [] ~IsConst(b)                                -> Fail(kept)
          [] IsConst(a)                                 -> Fold(e, LL(a.v - b.v))
          [] OTHER                                      -> Ok(43981, kept)

\* TOK_LSHIFT, TOK_RSHIFT on the host's long long; >> is logical when the
\* node's type is unsigned, arithmetic (the host's) otherwise.  Counts are
\* non-negative and below HOST_BITS in every input, where the host shift
\* is defined.
EvalShift(e, a, b) ==
    IF ~IsConst(a) \/ ~IsConst(b) THEN Fail([e EXCEPT !.l = a.n, !.r = b.n])
    ELSE Fold(e, CASE e.k = "lshift"        -> LL(a.v * 2^b.v)
                   [] is_unsigned_int(e.ty) -> LL(UL(a.v) \div 2^b.v)
                   [] OTHER                 -> a.v \div 2^b.v)

\* The relational, equality and bitwise operators: both operands folded;
\* they compare in unsigned long when the node's type is unsigned.
EvalRelBit(e, a, b) ==
    IF ~IsConst(a) \/ ~IsConst(b) THEN Fail([e EXCEPT !.l = a.n, !.r = b.n])
    ELSE LET uns == is_unsigned_int(e.ty)
         IN  Fold(e, CASE e.k \in RelOps -> B2I(Compare(e.k, IF uns THEN UL(a.v) ELSE a.v,
                                                             IF uns THEN UL(b.v) ELSE b.v))
                       [] e.k = "bw_and" -> LL(UL(a.v) & UL(b.v))
                       [] e.k = "bw_or"  -> LL(UL(a.v) | UL(b.v))
                       [] e.k = "bw_xor" -> LL(UL(a.v) ^^ UL(b.v)))

\* TOK_AND, TOK_OR: an operand that is an operator node and did not fold
\* is unknown; the result is known when the other operand decides it.
EvalLogical(e, is_iconst) ==
    LET unknown(r) == ~IsConst(r) /\ r.n.k \notin {"id", "iconst"}
        decides    == IF e.k = "and" THEN 0 ELSE 1
    IN
    After(eval_const_expr(e.l, FALSE, is_iconst), LAMBDA a :
      IF unknown(a)
      THEN After(eval_const_expr(e.r, FALSE, is_iconst), LAMBDA b :
             IF unknown(b) \/ B2I(b.v # 0) # decides
             THEN Fail([e EXCEPT !.l = a.n, !.r = b.n])
             ELSE Fold(e, decides))
      ELSE IF B2I(a.v # 0) = decides THEN Fold(e, decides)
      ELSE After(eval_const_expr(e.r, FALSE, is_iconst), LAMBDA b :
             IF unknown(a) THEN Fail([e EXCEPT !.l = a.n, !.r = b.n])
             ELSE Fold(e, B2I(b.v # 0))))

\* The operator tag an OpExp node reads after VALUE(e) = v: attr is a
\* union (spec.md, ExecNode), so attr.op is the low bytes of v, a token
\* number of parser.h (not in the repository) that the model takes to be
\* none of the folder's operators.
AttrOpAfterStore(v) == "attr.op=" \o ToString(v)

\* TOK_CONDITIONAL: the condition must not be an unfolded operator node;
\* an identifier condition (an address constant) is stored as VALUE(e)
\* in a node that stays OpExp; only the selected operand is evaluated,
\* and the node folds with it.
EvalCond(e, is_iconst) ==
    After(eval_const_expr(e.c, FALSE, is_iconst), LAMBDA c :
      IF ~IsConst(c) /\ c.n.k \notin {"id"} THEN Fail([e EXCEPT !.c = c.n])
      ELSE LET stored == IF IsConst(c) THEN e ELSE [e EXCEPT !.k = AttrOpAfterStore(c.v)]
               side   == IF c.v # 0 THEN "l" ELSE "r"
           IN  After(eval_const_expr(e[side], FALSE, is_iconst), LAMBDA x :
                 IF IsConst(x) THEN Fold(e, x.v)
                 ELSE Ok(x.v, [stored EXCEPT !.c = c.n, ![side] = x.n])))

\* IdExp: only an array (or function) designator, or an operand of &,
\* whose object has static storage duration is an address constant; its
\* value is unknown but true.
EvalId(e, is_addr, is_iconst) ==
    IF is_iconst \/ (~is_addr /\ e.ty # "array") \/ e.sto \notin {"file", "static", "extern"}
    THEN Fail(e) ELSE Ok(1, e)

eval_const_expr(e, is_addr, is_iconst) ==
    LET child(x)   == eval_const_expr(x, FALSE, is_iconst)
        both(F(_, _)) == After(child(e.l), LAMBDA a : After(child(e.r), LAMBDA b : F(a, b)))
    IN
    CASE e.k = "iconst"                   -> Ok(e.val, e)
      [] e.k = "id"                       -> EvalId(e, is_addr, is_iconst)
      [] e.k \in {"uplus", "uminus", "cmpl", "not"} ->
            After(child(e.l), LAMBDA c : EvalUnary(e, c))
      [] e.k = "cast" ->
            IF is_iconst /\ ~is_integer(e.ty) THEN Fail(e)
            ELSE After(child(e.l), LAMBDA c : EvalCast(e, c))
      [] e.k \in {"mul", "div", "rem"}    -> both(LAMBDA a, b : EvalArith(e, a, b))
      [] e.k \in {"plus", "minus"}        -> both(LAMBDA a, b : EvalAdditive(e, a, b))
      [] e.k \in ShiftOps                 -> both(LAMBDA a, b : EvalShift(e, a, b))
      [] e.k \in RelOps \cup BitOps       -> both(LAMBDA a, b : EvalRelBit(e, a, b))
      [] e.k \in {"and", "or"}            -> EvalLogical(e, is_iconst)
      [] e.k = "cond"                     -> EvalCond(e, is_iconst)
      [] OTHER                            -> Fail(e)
-----------------------------------------------------------------------------
(* A caller of the folder: the parser hands it the analysed tree of a      *)
(* constant expression, in an integer-constant context or not, and may     *)
(* evaluate the same tree again (spec.md, 8.4).  The folder is fatal on    *)
(* its first error, so nothing evaluates after an error or a trap.        *)

CONSTANTS Exprs,      \* the analysed trees
          MaxEvals    \* how many times a tree is evaluated

VARIABLES source,     \* the tree as the analyzer left it
          tree,       \* the tree as the evaluations so far left it
          is_iconst,  \* the context flag of the caller
          results     \* [v, st] of each evaluation, in order

vars == <<source, tree, is_iconst, results>>

Init ==
    /\ source \in Exprs
    /\ tree = source
    /\ is_iconst \in BOOLEAN
    /\ results = << >>

\* v = eval_const_expr(tree, FALSE, is_iconst)
Evaluate ==
    /\ Len(results) < MaxEvals
    /\ \A i \in DOMAIN results : results[i].st = "ok"
    /\ LET r == eval_const_expr(tree, FALSE, is_iconst)
       IN  /\ tree' = r.n
           /\ results' = Append(results, [v |-> r.v, st |-> r.st])
    /\ UNCHANGED <<source, is_iconst>>

Next == Evaluate

Spec == Init /\ [][Next]_vars

-----------------------------------------------------------------------------
(* C99 6.5 and 6.6 on the same trees: the value of a constant expression   *)
(* of the target (int and long of WORD_BITS bits, ILP32), or undefined     *)
(* (def = FALSE) for an evaluated identifier, a zero divisor, a signed     *)
(* result out of range, or a shift count out of range.                     *)

CVal(v)  == [v |-> v, def |-> TRUE]
NoCVal   == [v |-> 0, def |-> FALSE]
Width(ty) == IF ty \in {"char", "schar", "uchar"} THEN 8 ELSE WORD_BITS

\* x op y exactly, of operands already converted to their common type.
Exact(op, x, y) ==
    CASE op = "plus"  -> x + y  [] op = "minus" -> x - y  [] op = "mul" -> x * y
      [] op = "div"   -> CDiv(x, y)
      [] op = "rem"   -> x - CDiv(x, y) * y
      [] op \in ShiftOps -> IF op = "lshift" THEN x * 2^y ELSE x \div 2^y

RECURSIVE CValue(_)
CValue(e) ==
    LET l    == CValue(e.l)
        r    == CValue(e.r)
        sure(x, F(_)) == IF x.def THEN F(x.v) ELSE NoCVal
        inTy(v) == IF is_signed_int(e.ty) /\ ConvertTo(v, e.ty) # v THEN NoCVal
                   ELSE CVal(ConvertTo(v, e.ty))
    IN
    CASE e.k = "iconst" -> CVal(e.val)
      [] e.k = "id"     -> NoCVal
      [] e.k = "cast"   -> sure(l, LAMBDA x : CVal(ConvertTo(x, e.ty)))
      [] e.k = "uplus"  -> sure(l, LAMBDA x : CVal(ConvertTo(x, e.ty)))
      [] e.k = "uminus" -> sure(l, LAMBDA x : inTy(-ConvertTo(x, e.ty)))
      [] e.k = "cmpl"   -> sure(l, LAMBDA x : CVal(ConvertTo(-ConvertTo(x, e.ty) - 1, e.ty)))
      [] e.k = "not"    -> sure(l, LAMBDA x : CVal(B2I(x = 0)))
      [] e.k \in {"and", "or"} ->
            LET decides == IF e.k = "and" THEN 0 ELSE 1
            IN  sure(l, LAMBDA x : IF B2I(x # 0) = decides THEN CVal(decides)
                                   ELSE sure(r, LAMBDA y : CVal(B2I(y # 0))))
      [] e.k = "cond" ->
            sure(CValue(e.c), LAMBDA c :
                sure(CValue(IF c # 0 THEN e.l ELSE e.r), LAMBDA x : CVal(ConvertTo(x, e.ty))))
      [] e.k \in RelOps ->
            LET ct == ArithType(e.l.ty, e.r.ty)
            IN  sure(l, LAMBDA x : sure(r, LAMBDA y :
                    CVal(B2I(Compare(e.k, ConvertTo(x, ct), ConvertTo(y, ct))))))
      [] e.k \in BitOps ->
            sure(l, LAMBDA x : sure(r, LAMBDA y :
                CVal(ConvertTo(BitOp(e.k, ConvertTo(x, e.ty), ConvertTo(y, e.ty)), e.ty))))
      [] e.k \in ShiftOps ->
            sure(l, LAMBDA x : sure(r, LAMBDA y :
                LET a == ConvertTo(x, e.ty)
                IN  IF y < 0 \/ y >= Width(e.ty) \/ (e.k = "lshift" /\ a < 0) THEN NoCVal
                    ELSE inTy(Exact(e.k, a, y))))
      [] e.k \in ArithOps ->
            sure(l, LAMBDA x : sure(r, LAMBDA y :
                IF e.k \in {"div", "rem"} /\ ConvertTo(y, e.ty) = 0 THEN NoCVal
                ELSE inTy(Exact(e.k, ConvertTo(x, e.ty), ConvertTo(y, e.ty)))))

-----------------------------------------------------------------------------
(* Properties.                                                             *)

LLONG_MAX == 2^(HOST_BITS - 1) - 1

\* Every value the folder returns is a long long.
TypeOK ==
    /\ is_iconst \in BOOLEAN
    /\ results \in Seq([v : -LLONG_MAX - 1 .. LLONG_MAX, st : {"ok", "error", "trap"}])
    /\ Len(results) <= MaxEvals

\* Folding is idempotent (spec.md, 8.4): once eval_const_expr has
\* evaluated a tree, rewriting its folded nodes to IConstExp in place,
\* evaluating the rewritten tree again gives the same value and the same
\* verdict.  About the in-place KIND/VALUE stores of every operator, and
\* the nodes (0xABCD sums, address operands) that are left unfolded.
FoldIdempotent ==
    \A i, j \in DOMAIN results :
        i < j /\ results[i].st = "ok" => results[j] = results[i]

\* The folder either rejects a constant expression with a diagnostic or
\* gives it the value C gives it: it never kills the compiler on a zero
\* divisor, and whenever the C value is defined, the value eval_const_expr
\* returns, read in the type the analyzer gave the expression, is that
\* value.  About the signedness every operator of eval_const_expr reads
\* from the node's own type and the long long it keeps unreduced values in.
ConstFoldAsC ==
    results # << >> =>
        /\ results[1].st # "trap"
        /\ results[1].st = "ok" /\ CValue(source).def =>
              ConvertTo(results[1].v, source.ty) = CValue(source).v
=============================================================================
