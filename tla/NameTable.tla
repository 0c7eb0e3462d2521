----------------------------- MODULE NameTable -----------------------------
(***************************************************************************)
(* The identifier interning of src/src/ic.c (get_mangled_name, get_nid,    *)
(* the nid part of ic_reset) over the name arena of src/src/arena.c.       *)
(*                                                                         *)
(* Every lowering of an identifier node (ic_expression, IdExp) interns its *)
(* name: a local's "name:scope" is copied into a fresh arena allocation,   *)
(* a parameter's name is the string of the syntax tree.  get_nid hashes   *)
(* the string, and compares it with the key string of each entry of that  *)
(* bucket; a key is a pointer, so what it compares is whatever the memory *)
(* behind it holds at that moment.  ic_reset rewinds the arena and the    *)
(* nid counter but keeps id_table.                                         *)
(*                                                                         *)
(* A name is a model value; NameLen[v] is the sprintf length of its       *)
(* mangled form plus the NUL.  A key is [kind, p, name]: kind "arena" (a   *)
(* pointer p into the arena) or "str" (a parameter's string, `name').     *)
(* The fields `name' and `epoch' of a table entry record what it was      *)
(* interned under and in which function; the code keeps neither.         *)
(***************************************************************************)
EXTENDS Integers, Sequences

CONSTANTS
    Locals,         \* names lowered through get_mangled_name
    Params,         \* names of parameters, kept verbatim (ic.c 1175-1176)
    NameLen,        \* sprintf("%s:%d")+1 for a local
    Bucket,         \* hash(sid) % ID_TABLE_SIZE for each name
    FIRST_SIZE, MEMINCR_BYTES, MULTIPLE, MaxBlocks,
    MaxRefs,        \* bound on the identifier nodes lowered
    MaxFuncs        \* bound on the functions (ic_reset calls + 1)

VARIABLES
    blocks, last,   \* the name arena
    id_table,       \* bucket -> entries [key, nid, name, epoch], head first
    nid_counter,
    nid2sid,        \* nid -> key
    refs,           \* the (name, nid) of every node lowered in this function
    nrefs,          \* identifier nodes lowered so far
    funcs           \* functions begun so far

vars == <<blocks, last, id_table, nid_counter, nid2sid, refs, nrefs, funcs>>

Names == Locals \cup Params

NameArena == INSTANCE Arena WITH destroyed <- FALSE, handed <- << >>, serial <- 0,
                                 Sizes <- {}, MaxAllocs <- 0

StrKey(v) == [kind |-> "str", p |-> NameArena!NULL, name |-> v]

\* The C string a key points to: a name whose bytes are all intact from the
\* key on, or Garbled (a suffix of a name, or pieces of two).
CString(bl, key) ==
    IF key.kind = "str" THEN key.name
    ELSE LET c == bl[key.p[1]].mem[key.p[2]]
         IN  IF c[2] = 0 /\ NameArena!ReadRegion(bl, key.p, NameLen[c[1]]) = c[1]
             THEN c[1] ELSE NameArena!Garbled

\* Mutant of get_mangled_name: the "+1" for the NUL dropped from the size.
get_mangled_name_no_nul(bl, lst, v) ==
    LET r == NameArena!arena_alloc(bl, lst, NameLen[v] - 1, TRUE)
    IN  [blocks |-> NameArena!Store(r.blocks, r.p, NameLen[v], v), last |-> r.last,
         key |-> [kind |-> "arena", p |-> r.p, name |-> v]]

\* get_mangled_name: arena_alloc(name_arena, sprintf(buf, ...)+1), then
\* strcpy of the NameLen[v] bytes.  A malloc failure makes strcpy write
\* through NULL and the compiler dies; that outcome is left out.
get_mangled_name(bl, lst, v) ==
    LET r == NameArena!arena_alloc(bl, lst, NameLen[v], TRUE)
    IN  [blocks |-> NameArena!Store(r.blocks, r.p, NameLen[v], v), last |-> r.last,
         key |-> [kind |-> "arena", p |-> r.p, name |-> v]]

\* Mutant of get_nid: the entry gets the nid after the increment, minus one
\* (np->nid = nid_counter-1 with the statements reordered).
get_nid_post(st, key, v) ==
    LET h    == Bucket[v]
        hits == {i \in DOMAIN st.id_table[h] : CString(st.blocks, st.id_table[h][i].key) = v}
    IN  IF hits # {}
        THEN [st EXCEPT !.nid = st.id_table[h][CHOOSE i \in hits : \A j \in hits : i <= j].nid]
        ELSE [st EXCEPT
                !.id_table[h] = <<[key |-> key, nid |-> st.nid_counter - 1, name |-> v,
                                   epoch |-> funcs]>> \o @,
                !.nid2sid = IF st.nid_counter < Len(@) THEN [@ EXCEPT ![st.nid_counter + 1] = key]
                            ELSE Append(@, key),
                !.nid_counter = @ + 1,
                !.nid = st.nid_counter - 1]

\* get_nid: the first entry of the bucket whose key string equals the
\* string at sid gives the nid; otherwise a new entry goes at the head of
\* the bucket and nid2sid[nid_counter++] = sid (realloc grows nid2sid).
get_nid(st, key, v) ==
    LET h    == Bucket[v]
        hits == {i \in DOMAIN st.id_table[h] : CString(st.blocks, st.id_table[h][i].key) = v}
    IN  IF hits # {}
        THEN [st EXCEPT !.nid = st.id_table[h][CHOOSE i \in hits : \A j \in hits : i <= j].nid]
        ELSE [st EXCEPT
                !.id_table[h] = <<[key |-> key, nid |-> st.nid_counter, name |-> v,
                                   epoch |-> funcs]>> \o @,
                !.nid2sid = IF st.nid_counter < Len(@) THEN [@ EXCEPT ![st.nid_counter + 1] = key]
                            ELSE Append(@, key),
                !.nid_counter = @ + 1,
                !.nid = st.nid_counter]

-----------------------------------------------------------------------------

\* ic_init: empty id_table, nid_counter = 0, name_arena = arena_new(1024).
Init ==
    /\ blocks = <<NameArena!NewBlock(FIRST_SIZE)>>
    /\ last = 1
    /\ id_table = [h \in {Bucket[v] : v \in Names} |-> << >>]
    /\ nid_counter = 0
    /\ nid2sid = << >>
    /\ refs = << >>
    /\ nrefs = 0
    /\ funcs = 1

State == [blocks |-> blocks, id_table |-> id_table, nid_counter |-> nid_counter,
          nid2sid |-> nid2sid, nid |-> 0]

\* Record the result st of interning v in the state.
Interned(st, v) ==
    /\ id_table' = st.id_table
    /\ nid_counter' = st.nid_counter
    /\ nid2sid' = st.nid2sid
    /\ refs' = Append(refs, [name |-> v, nid |-> st.nid])
    /\ nrefs' = nrefs + 1

\* ic_expression, IdExp, of a local: get_mangled_name, then get_nid.
LowerLocal(v) ==
    /\ nrefs < MaxRefs
    /\ LET m  == get_mangled_name(blocks, last, v)
           st == get_nid([State EXCEPT !.blocks = m.blocks], m.key, v)
       IN  /\ Len(m.blocks) <= MaxBlocks
           /\ blocks' = m.blocks
           /\ last' = m.last
           /\ Interned(st, v)
    /\ UNCHANGED funcs

\* ic_expression, IdExp, of a parameter: get_nid of the name itself.
LowerParam(v) ==
    /\ nrefs < MaxRefs
    /\ Interned(get_nid(State, StrKey(v), v), v)
    /\ UNCHANGED <<blocks, last, funcs>>

\* ic_reset between two functions: nid_counter = 0; arena_reset.
Reset ==
    /\ funcs < MaxFuncs
    /\ nid_counter' = 0
    /\ last' = 1
    /\ blocks' = [blocks EXCEPT ![1].avail = 0]
    /\ refs' = << >>
    /\ funcs' = funcs + 1
    /\ UNCHANGED <<id_table, nid2sid, nrefs>>

Next == (\E v \in Locals : LowerLocal(v)) \/ (\E v \in Params : LowerParam(v)) \/ Reset

Spec == Init /\ [][Next]_vars

-----------------------------------------------------------------------------
(* Properties.                                                             *)

Key == [kind : {"arena"}, p : (1..MaxBlocks) \X Nat, name : Names]
       \cup {StrKey(v) : v \in Params}

TypeOK ==
    /\ \A h \in DOMAIN id_table :
         id_table[h] \in Seq([key : Key, nid : Nat, name : Names, epoch : 1..MaxFuncs])
    /\ nid_counter \in Nat
    /\ nid2sid \in Seq(Key)
    /\ refs \in Seq([name : Names, nid : Nat])
    /\ nrefs \in 0..MaxRefs
    /\ funcs \in 1..MaxFuncs

\* Every id_table entry made in the current function still points at the
\* name it was interned under: the arena allocations of later lowerings
\* (get_mangled_name) never overwrite a key handed to get_nid since the
\* last ic_reset.
KeysIntactSinceReset ==
    \A h \in DOMAIN id_table : \A i \in DOMAIN id_table[h] :
        id_table[h][i].epoch = funcs => CString(blocks, id_table[h][i].key) = id_table[h][i].name

\* Within one function, nids identify variables: two identifier nodes get
\* the same nid from get_nid exactly when they name the same variable, so
\* that the nid-indexed dataflow sets see one bit per variable.  Broken
\* across ic_reset either way: a name answered from its entry of an
\* earlier function shares its old nid with a name new since the reset
\* (nid_counter restarted at 0), and a name whose stale key is later
\* overwritten in the rewound arena misses and gets a second nid.
NidsIdentifyNames ==
    \A i, j \in DOMAIN refs : refs[i].name = refs[j].name <=> refs[i].nid = refs[j].nid
=============================================================================
