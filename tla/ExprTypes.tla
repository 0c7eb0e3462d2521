------------------------------ MODULE ExprTypes ------------------------------
(***************************************************************************)
(* The type model of src/src/expr.c for the scalar integer types: the     *)
(* type category tokens, their sizes and alignments, the integer           *)
(* promotions, the conversion ranks and the usual arithmetic conversions  *)
(* (get_result_type), and the result types the analyzer gives the         *)
(* integer operators.  A type category is a string naming its token:       *)
(* "char" is TOK_CHAR, "uchar" TOK_UNSIGNED_CHAR, "llong" TOK_LONG_LONG... *)
(*                                                                         *)
(* Struct, union, array, pointer and floating types are left out: the      *)
(* generators are modelled on integer programs only.                        *)
(***************************************************************************)
EXTENDS Integers

CONSTANT targeting_arch64   \* the target flag read by get_sizeof and get_result_type

SignedTypes   == {"char", "schar", "short", "int", "long", "llong"}
UnsignedTypes == {"uchar", "ushort", "unsigned", "ulong", "ullong"}
IntegerTypes  == SignedTypes \cup UnsignedTypes

is_integer(ty)      == ty \in IntegerTypes
is_signed_int(ty)   == ty \in SignedTypes
is_unsigned_int(ty) == ty \in UnsignedTypes

\* get_sizeof for the scalar categories.
get_sizeof(ty) ==
    CASE ty \in {"char", "schar", "uchar"} -> 1
      [] ty \in {"short", "ushort"}        -> 2
      [] ty \in {"int", "unsigned"}        -> 4
      [] ty \in {"long", "ulong"}          -> IF targeting_arch64 THEN 8 ELSE 4
      [] ty \in {"llong", "ullong"}        -> 8

\* get_alignment for the scalar categories; a long long is aligned to 4 on
\* the 32-bit targets (the `default' arm of the target_arch switch).
get_alignment(ty) ==
    IF ty \in {"llong", "ullong"}
    THEN IF targeting_arch64 THEN 8 ELSE 4
    ELSE get_sizeof(ty)

get_promoted_type(ty) ==
    IF ty \in {"char", "uchar", "schar", "short", "ushort"} THEN "int" ELSE ty

get_rank(ty) ==
    CASE ty \in {"llong", "ullong"}        -> 5
      [] ty \in {"long", "ulong"}          -> 4
      [] ty \in {"int", "unsigned"}        -> 3
      [] ty \in {"short", "ushort"}        -> 2
      [] ty \in {"char", "schar", "uchar"} -> 1

\* Mutant of get_result_type: the ILP32 test that a signed long long can
\* represent every unsigned value is dropped.
get_result_type_no_llong(ty1, ty2) ==
    LET rank1 == get_rank(ty1)   rank2 == get_rank(ty2)
        sign1 == is_signed_int(ty1)   sign2 == is_signed_int(ty2)
    IN  IF ty1 = ty2 THEN ty1
        ELSE IF sign1 = sign2 THEN IF rank1 > rank2 THEN ty1 ELSE ty2
        ELSE IF ~sign1 /\ rank1 >= rank2 THEN ty1
        ELSE IF ~sign2 /\ rank2 >= rank1 THEN ty2
        ELSE IF targeting_arch64 /\ sign1 /\ ty2 # "ulong" THEN ty1
        ELSE IF targeting_arch64 /\ ~sign1 /\ ty1 # "ulong" THEN ty2
        ELSE IF sign1 THEN IF ty1 = "long" THEN "ulong" ELSE "ullong"
        ELSE IF ty2 = "long" THEN "ulong" ELSE "ullong"

\* get_result_type(ty1, ty2) of two promoted operand types: the usual
\* arithmetic conversions, the early returns in the order of the code.
get_result_type(ty1, ty2) ==
    LET rank1 == get_rank(ty1)   rank2 == get_rank(ty2)
        sign1 == is_signed_int(ty1)   sign2 == is_signed_int(ty2)
    IN  IF ty1 = ty2 THEN ty1
        ELSE IF sign1 = sign2 THEN IF rank1 > rank2 THEN ty1 ELSE ty2
        ELSE IF ~sign1 /\ rank1 >= rank2 THEN ty1
        ELSE IF ~sign2 /\ rank2 >= rank1 THEN ty2
        ELSE IF targeting_arch64 /\ sign1 /\ ty2 # "ulong" THEN ty1
        ELSE IF targeting_arch64 /\ ~sign1 /\ ty1 # "ulong" THEN ty2
        ELSE IF ~targeting_arch64 /\ sign1 /\ ty1 = "llong" THEN ty1
        ELSE IF ~targeting_arch64 /\ ~sign1 /\ ty2 = "llong" THEN ty2
        ELSE IF sign1 THEN IF ty1 = "long" THEN "ulong" ELSE "ullong"
        ELSE IF ty2 = "long" THEN "ulong" ELSE "ullong"

\* Result types of the analyzer (analyze_multiplicative_expression,
\* analyze_additive_expression on integers, analyze_bitwise_operator,
\* analyze_conditional_expression on integers): the usual arithmetic
\* conversions of the promoted operands.
ArithType(ty1, ty2) == get_result_type(get_promoted_type(ty1), get_promoted_type(ty2))

-----------------------------------------------------------------------------
(* The usual arithmetic conversions as C99 6.3.1.8 words them, with the    *)
(* representability question answered from the sizes of the types.        *)

UnsignedOf(ty) == [char |-> "uchar", schar |-> "uchar", short |-> "ushort", int |-> "unsigned",
                   long |-> "ulong", llong |-> "ullong"][ty]

UsualConversion(ty1, ty2) ==
    LET s == IF is_signed_int(ty1) THEN ty1 ELSE ty2
        u == IF is_signed_int(ty1) THEN ty2 ELSE ty1
    IN  CASE ty1 = ty2                                   -> ty1
          [] is_signed_int(ty1) = is_signed_int(ty2)     -> IF get_rank(ty1) >= get_rank(ty2) THEN ty1 ELSE ty2
          [] get_rank(u) >= get_rank(s)                  -> u
          [] get_sizeof(s) > get_sizeof(u)               -> s
          [] OTHER                                       -> UnsignedOf(s)

PromotedTypes == {get_promoted_type(t) : t \in IntegerTypes}

\* Does get_result_type give every pair of promoted integer types the
\* common type C99 6.3.1.8 prescribes, on the data model of the target?
ResultTypeAsStandard ==
    \A t1, t2 \in PromotedTypes : get_result_type(t1, t2) = UsualConversion(t1, t2)
=============================================================================
