----------------------------- MODULE ArenaSpec -----------------------------
(***************************************************************************)
(* What the arena allocator promises its clients (spec.md, 4.1): storage  *)
(* handed out by alloc keeps what the client wrote into it until the next *)
(* reset; reset (and destroy) give all of it back at once.                 *)
(*                                                                         *)
(* `live' is the sequence of the contents of the allocations handed out   *)
(* since the last reset, in the order they were handed out.  A failed     *)
(* allocation (null) hands out nothing and is a stuttering step.          *)
(***************************************************************************)
EXTENDS Sequences

CONSTANT Tags      \* what a client may write into an allocation

VARIABLE live

Init == live = << >>

\* alloc: one more region, holding v; the earlier ones are untouched.
Alloc(v) == live' = Append(live, v)

\* reset or destroy: every region handed out so far is given back.
Release == live' = << >>

Next == (\E v \in Tags : Alloc(v)) \/ Release

Spec == Init /\ [][Next]_live
=============================================================================
