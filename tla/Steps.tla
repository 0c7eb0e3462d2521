------------------------------- MODULE Steps -------------------------------
(***************************************************************************)
(* Sequential composition of the steps of a generator pass.  The passes of *)
(* ic.c thread one state through a long series of calls; these operators   *)
(* state that series in program order, each step taking the state the one  *)
(* before it produced.                                                     *)
(***************************************************************************)
EXTENDS Sequences

\* The last of a series of steps listed in the order they are performed
\* (the elements of a tuple are evaluated from left to right).
InOrder(steps) == steps[Len(steps)]

\* The result of step, passed to the rest of the series.  The step is
\* evaluated before the rest, and each of its uses in the rest reads the
\* same value.
Bind(step, Rest(_)) == LET v == step IN InOrder(<<v, Rest(v)>>)

RECURSIVE FoldInOrder(_, _, _)
\* op applied to acc and each element of seq in turn, first element first.
FoldInOrder(op(_, _), acc, seq) ==
    IF seq = << >> THEN acc
    ELSE Bind(op(acc, Head(seq)), LAMBDA acc1 : FoldInOrder(op, acc1, Tail(seq)))
=============================================================================
