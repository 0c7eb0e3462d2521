------------------------------- MODULE Arena -------------------------------
(***************************************************************************)
(* The arena allocator of src/src/arena.c.                                 *)
(*                                                                         *)
(* A block is a record [limit, avail, mem]: its data area holds `limit'    *)
(* bytes (the header of sizeof(Block) bytes is left out, and offsets are   *)
(* counted from the end of it); `avail' is the offset of the first free    *)
(* byte; mem maps each byte offset to what was last stored there.  The    *)
(* list first -> next -> ... is the sequence `blocks' (first is block 1),  *)
(* and `last' is the index of a->last.  A pointer is <<block, offset>>.    *)
(*                                                                         *)
(* The client stores a tag into every allocation it gets, as              *)
(* get_mangled_name copies the name into it: byte k of an allocation      *)
(* holding t holds <<t, k>>.  `handed' records the pointers handed out     *)
(* since the last reset (the pointers the clients still hold).             *)
(***************************************************************************)
EXTENDS Integers, Sequences

CONSTANTS
    FIRST_SIZE,     \* the size passed to arena_new (ic_init passes 1024)
    MEMINCR_BYTES,  \* MEMINCR*1024, the slack of every chained block
    MULTIPLE,       \* MULTIPLE, the rounding of a chained block's size
    Sizes,          \* request sizes n passed to arena_alloc
    MaxAllocs,      \* bound on the number of arena_alloc calls
    MaxBlocks       \* bound on the length of the block list

VARIABLES
    blocks,     \* the block list
    last,       \* a->last
    destroyed,  \* arena_destroy has freed everything
    handed,     \* pointers and sizes handed out since the last reset
    serial      \* number of arena_alloc calls so far; also the next tag

vars == <<blocks, last, destroyed, handed, serial>>

NULL    == <<0, 0>>
Undef   == <<-1, -1>>   \* a byte malloc has not initialised
Garbled == -1           \* a region that does not hold one tag whole

round_up(n, m) == ((n + m - 1) \div m) * m

NewBlock(size) == [limit |-> size, avail |-> 0, mem |-> [o \in 0..size-1 |-> Undef]]

\* allocate: from ap = a->last, move to the next block (resetting its avail)
\* or chain a new one until a block has room for n bytes; a->last follows
\* ap.  mallocOK is the outcome of the malloc of a new block.
RECURSIVE allocate(_, _, _, _)
\* Mutant of allocate: the pointer returned is ap->avail after the bump
\* (the "- n" of "return ap->avail-n" dropped).
allocate_no_sub(bl, ap, n, mallocOK) ==
    IF bl[ap].avail + n <= bl[ap].limit
    THEN [blocks |-> [bl EXCEPT ![ap].avail = @ + n], last |-> ap, p |-> <<ap, bl[ap].avail + n>>]
    ELSE IF ap < Len(bl)
    THEN allocate([bl EXCEPT ![ap + 1].avail = 0], ap + 1, n, mallocOK)
    ELSE IF ~mallocOK
    THEN [blocks |-> bl, last |-> ap, p |-> NULL]
    ELSE allocate(Append(bl, NewBlock(round_up(n, MULTIPLE) + MEMINCR_BYTES)), ap + 1, n, mallocOK)

\* Mutant of allocate: a->last is set to the block after the one that has
\* room.
allocate_last_next(bl, ap, n, mallocOK) ==
    IF bl[ap].avail + n <= bl[ap].limit
    THEN [blocks |-> [bl EXCEPT ![ap].avail = @ + n], last |-> ap + 1, p |-> <<ap, bl[ap].avail>>]
    ELSE IF ap < Len(bl)
    THEN allocate([bl EXCEPT ![ap + 1].avail = 0], ap + 1, n, mallocOK)
    ELSE IF ~mallocOK
    THEN [blocks |-> bl, last |-> ap, p |-> NULL]
    ELSE allocate(Append(bl, NewBlock(round_up(n, MULTIPLE) + MEMINCR_BYTES)), ap + 1, n, mallocOK)

allocate(bl, ap, n, mallocOK) ==
    IF bl[ap].avail + n <= bl[ap].limit
    THEN [blocks |-> [bl EXCEPT ![ap].avail = @ + n], last |-> ap, p |-> <<ap, bl[ap].avail>>]
    ELSE IF ap < Len(bl)
    THEN allocate([bl EXCEPT ![ap + 1].avail = 0], ap + 1, n, mallocOK)
    ELSE IF ~mallocOK
    THEN [blocks |-> bl, last |-> ap, p |-> NULL]
    ELSE allocate(Append(bl, NewBlock(round_up(n, MULTIPLE) + MEMINCR_BYTES)), ap + 1, n, mallocOK)

\* arena_alloc: bump avail of the last block; past the limit, allocate.
\* The bumped avail of that block is left as it is.
arena_alloc(bl, ap, n, mallocOK) ==
    IF bl[ap].avail + n > bl[ap].limit
    THEN allocate([bl EXCEPT ![ap].avail = @ + n], ap, n, mallocOK)
    ELSE [blocks |-> [bl EXCEPT ![ap].avail = @ + n], last |-> ap, p |-> <<ap, bl[ap].avail>>]

\* The client's copy of tag t into the n bytes at p.
Store(bl, p, n, t) ==
    [bl EXCEPT ![p[1]].mem = [o \in DOMAIN @ |->
                                 IF o >= p[2] /\ o < p[2] + n THEN <<t, o - p[2]>> ELSE @[o]]]

\* The tag the n bytes at p hold, or Garbled.
ReadRegion(bl, p, n) ==
    LET m == bl[p[1]].mem
    IN  IF /\ \A k \in 0..n-1 : p[2] + k \in DOMAIN m
           /\ \A k \in 0..n-1 : m[p[2] + k] = <<m[p[2]][1], k>>
        THEN m[p[2]][1] ELSE Garbled

-----------------------------------------------------------------------------

\* arena_new(FIRST_SIZE)
Init ==
    /\ blocks = <<NewBlock(FIRST_SIZE)>>
    /\ last = 1
    /\ destroyed = FALSE
    /\ handed = << >>
    /\ serial = 0

\* p = arena_alloc(a, n) followed by the client's copy into p (if p is not
\* null); the malloc of a chained block may fail.
Alloc(n) ==
    /\ ~destroyed
    /\ serial < MaxAllocs
    /\ \E mallocOK \in BOOLEAN :
         LET r == arena_alloc(blocks, last, n, mallocOK)
         IN  /\ Len(r.blocks) <= MaxBlocks
             /\ last' = r.last
             /\ IF r.p = NULL
                THEN blocks' = r.blocks /\ UNCHANGED handed
                ELSE /\ blocks' = Store(r.blocks, r.p, n, serial)
                     /\ handed' = Append(handed, [p |-> r.p, n |-> n])
    /\ serial' = serial + 1
    /\ UNCHANGED destroyed

\* arena_reset
Reset ==
    /\ ~destroyed
    /\ last' = 1
    /\ blocks' = [blocks EXCEPT ![1].avail = 0]
    /\ handed' = << >>
    /\ UNCHANGED <<destroyed, serial>>

\* arena_destroy: every block and the arena itself are freed.
Destroy ==
    /\ ~destroyed
    /\ destroyed' = TRUE
    /\ blocks' = << >>
    /\ handed' = << >>
    /\ UNCHANGED <<last, serial>>

Next == (\E n \in Sizes : Alloc(n)) \/ Reset \/ Destroy

Spec == Init /\ [][Next]_vars

-----------------------------------------------------------------------------
(* Properties.                                                             *)

Pointer == (1..MaxBlocks) \X Nat

TypeOK ==
    /\ destroyed \in BOOLEAN
    /\ \A b \in DOMAIN blocks :
         /\ blocks[b].limit \in Nat /\ blocks[b].avail \in Nat
         /\ DOMAIN blocks[b].mem = 0..blocks[b].limit - 1
    /\ ~destroyed => last \in 1..Len(blocks)
    /\ handed \in Seq([p : Pointer, n : Sizes])
    /\ serial \in 0..MaxAllocs

\* The contents of the regions the clients hold, read from the blocks.
LiveContents == [i \in DOMAIN handed |-> ReadRegion(blocks, handed[i].p, handed[i].n)]

Abstract == INSTANCE ArenaSpec WITH live <- LiveContents, Tags <- 0..MaxAllocs - 1

\* Refinement: arena_alloc, allocate, arena_reset and arena_destroy
\* implement ArenaSpec: whatever a client copied into a region it got from
\* arena_alloc is still there, intact, until the next arena_reset, however
\* the allocations walk, reuse and chain blocks.
ArenaRefinement == Abstract!Spec
=============================================================================
