----------------------------- MODULE Capability -----------------------------
(***************************************************************************)
(* Capability entries, handles and lineage of kernel/src/capability_table.c*)
(* as pure operators on two functions:                                     *)
(*   incn[t]  the incarnation of table t (0: zeroed memory),               *)
(*   ent[q]   the entry at position q = <<table, slot>>.                   *)
(* A handle is the pair the code packs into 64 bits: a slot and a          *)
(* generation.  A parent reference names a position together with the      *)
(* incarnation of its table and the generation of its entry at the time of *)
(* the derivation.                                                         *)
(***************************************************************************)
EXTENDS Integers, FiniteSets

CONSTANTS
  Table,      \* the capability tables: one per process, and the kernel's own
  NoTable,    \* the null parent_table pointer
  NumSlots,   \* AGENT_OS_CAPABILITY_SLOTS
  Object,     \* kernel objects a capability can name
  NoObject,   \* object word 0
  Right,      \* the CAP_RIGHT_* bits
  TRANSFER,   \* CAP_RIGHT_TRANSFER
  REVOKE,     \* CAP_RIGHT_REVOKE
  MaxGen,     \* UINT32_MAX, the last generation of a slot
  MaxDepth    \* AGENT_OS_CAPABILITY_MAX_DEPTH

ASSUME CapabilityAssumption ==
  /\ NoTable \notin Table
  /\ NoObject \notin Object
  /\ {TRANSFER, REVOKE} \subseteq Right
  /\ NumSlots \in Nat \ {0}
  /\ MaxGen \in Nat \ {0}
  /\ MaxDepth \in Nat \ {0}

Slot     == 0 .. NumSlots - 1
Pos      == Table \X Slot
NoPos    == <<NoTable, 0>>
Handle   == [slot : Slot, gen : 0 .. MaxGen]

(* The lineage words of an entry.  NoParent is parent_table == 0. *)
ParentRef == [pos : Pos \cup {NoPos}, inc : Nat, gen : 0 .. MaxGen]
NoParent  == [pos |-> NoPos, inc |-> 0, gen |-> 0]

Entry == [active : BOOLEAN,
          object : Object \cup {NoObject},
          rights : SUBSET Right,
          gen    : 0 .. MaxGen,
          depth  : 0 .. MaxDepth,
          parent : ParentRef]

(* An inactive entry of generation g: every other word is cleared. *)
Blank(g) == [active |-> FALSE, object |-> NoObject, rights |-> {},
             gen |-> g, depth |-> 0, parent |-> NoParent]

\* Slips: the wrap restarts at generation 1; the wrap is forgotten.
NextGenRestarts(g) == IF g = MaxGen THEN 1 ELSE g + 1
NextGenUnbounded(g) == g + 1

(* Generation zero is invalid, so a slot whose generation would wrap is    *)
(* never handed out again.                                                 *)
NextGen(g) == IF g = MaxGen THEN 0 ELSE g + 1

(* Retiring an entry clears it and moves its slot to the next generation.  *)
Retire(e) == Blank(NextGen(e.gen))

IsRoot(e) == e.parent.pos = NoPos

\* Slip: the parent's generation is not compared.
LinkAnyGeneration(incn, ent, e) ==
  LET p == e.parent IN
    /\ e.depth \in 1 .. MaxDepth
    /\ p.gen # 0
    /\ incn[p.pos[1]] = p.inc
    /\ ent[p.pos].active
    /\ ent[p.pos].depth + 1 = e.depth

\* Slip: the incarnation of the parent's table is not compared.
LinkAnyIncarnation(incn, ent, e) ==
  LET p == e.parent IN
    /\ e.depth \in 1 .. MaxDepth
    /\ p.gen # 0
    /\ ent[p.pos].active
    /\ ent[p.pos].gen = p.gen
    /\ ent[p.pos].depth + 1 = e.depth

(* One iteration of the walk of validate_handle: the parent reference of   *)
(* the active entry e still names the entry it was derived from.           *)
LinkOk(incn, ent, e) ==
  LET p == e.parent IN
    /\ e.depth \in 1 .. MaxDepth
    /\ p.gen # 0
    /\ incn[p.pos[1]] = p.inc
    /\ ent[p.pos].active
    /\ ent[p.pos].gen = p.gen
    /\ ent[p.pos].depth + 1 = e.depth

(* The active entries whose own parent reference is intact.                *)
Intact(incn, ent) ==
  {q \in Pos : ent[q].active /\ (IsRoot(ent[q]) \/ LinkOk(incn, ent, ent[q]))}

(* A set of positions that holds the parent of each of its members.        *)
HoldsParents(ent, S) == \A q \in S : IsRoot(ent[q]) \/ ent[q].parent.pos \in S

(* The positions validate_handle accepts.  LinkOk makes depth fall by      *)
(* exactly one along the lineage, so the walk from q stops at a root after *)
(* at most MaxDepth steps iff q is in some set of intact entries that      *)
(* holds the parents of its members: the path walked is one.               *)
(* ValidateWalk below is the loop itself.                                  *)
Live(incn, ent) == UNION {S \in SUBSET Intact(incn, ent) : HoldsParents(ent, S)}

(* validate_handle: the handle is current and its whole lineage is intact. *)
Valid(incn, ent, t, h) ==
  /\ h.gen # 0
  /\ ent[<<t, h.slot>>].active
  /\ ent[<<t, h.slot>>].gen = h.gen
  /\ <<t, h.slot>> \in Live(incn, ent)

\* Slip: the budget runs out one step early.
WalkShort(incn, ent) ==
  LET walk[left \in 0 .. MaxDepth] ==
        [q \in Pos |->
           \/ IsRoot(ent[q])
           \/ /\ left > 1
              /\ LinkOk(incn, ent, ent[q])
              /\ walk[left - 1][ent[q].parent.pos]]
  IN  {q \in Pos : ent[q].active /\ walk[MaxDepth][q]}

(* The loop of validate_handle: left is what remains of the iteration      *)
(* budget depth++ < MAX_DEPTH when the walk stands at q.                   *)
ValidateWalk(incn, ent) ==
  LET walk[left \in 0 .. MaxDepth] ==
        [q \in Pos |->
           \/ IsRoot(ent[q])
           \/ /\ left > 0
              /\ LinkOk(incn, ent, ent[q])
              /\ walk[left - 1][ent[q].parent.pos]]
  IN  {q \in Pos : ent[q].active /\ walk[MaxDepth][q]}

(* mint_with_parent takes the lowest slot that is neither in use nor       *)
(* retired; with none it answers NO_MEMORY.                                *)
Free(ent, t) == {s \in Slot : ~ent[<<t, s>>].active /\ ent[<<t, s>>].gen # 0}

IsFirstFree(ent, t, s) == s \in Free(ent, t) /\ \A r \in Free(ent, t) : s <= r

(* The entry mint_with_parent writes over e. *)
Minted(e, object, rights, depth, parent) ==
  [active |-> TRUE, object |-> object, rights |-> rights,
   gen |-> e.gen, depth |-> depth, parent |-> parent]

(* mint: a root capability in slot s of table t. *)
MintRoot(ent, t, s, object, rights) ==
  [ent EXCEPT ![<<t, s>>] = Minted(ent[<<t, s>>], object, rights, 0, NoParent)]

(* The reference restrict and transfer store to the source handle. *)
RefTo(incn, t, h) == [pos |-> <<t, h.slot>>, inc |-> incn[t], gen |-> h.gen]

(* restrict and transfer: a child of handle h of table src in slot s of    *)
(* table dst, with the source's object.                                    *)
MintChild(incn, ent, src, h, dst, s, rights) ==
  LET e == ent[<<src, h.slot>>] IN
    [ent EXCEPT ![<<dst, s>>] =
       Minted(ent[<<dst, s>>], e.object, rights, e.depth + 1, RefTo(incn, src, h))]

\* Slips: rights the source lacks are accepted; the depth limit is checked
\* on the source instead of the child.
DeriveAnyRights(incn, ent, t, h, rights) ==
  /\ Valid(incn, ent, t, h)
  /\ ent[<<t, h.slot>>].depth + 1 <= MaxDepth
DeriveTooDeep(incn, ent, t, h, rights) ==
  /\ Valid(incn, ent, t, h)
  /\ rights \subseteq ent[<<t, h.slot>>].rights
  /\ ent[<<t, h.slot>>].depth <= MaxDepth

(* Derivation needs an intact source, rights the source has and room in    *)
(* the depth budget.                                                       *)
MayDerive(incn, ent, t, h, rights) ==
  /\ Valid(incn, ent, t, h)
  /\ rights \subseteq ent[<<t, h.slot>>].rights
  /\ ent[<<t, h.slot>>].depth + 1 <= MaxDepth

(* lookup succeeds: the handle is valid and carries the rights asked for.  *)
Permits(incn, ent, t, h, required) ==
  /\ Valid(incn, ent, t, h)
  /\ required \subseteq ent[<<t, h.slot>>].rights

(* revoke_all, revoke_object and revoke_process_capabilities retire every  *)
(* active entry of a table that satisfies their filter.                    *)
RetireWhere(ent, Doomed) ==
  [q \in Pos |-> IF q \in Doomed THEN Retire(ent[q]) ELSE ent[q]]

ActiveIn(ent, t) == {q \in Pos : q[1] = t /\ ent[q].active}
Naming(ent, t, object) == {q \in ActiveIn(ent, t) : ent[q].object = object}

(* clear_process zeroes a table; capability_table_init makes generation 1  *)
(* the first of every slot.                                                *)
Wiped(ent, t)  == [q \in Pos |-> IF q[1] = t THEN Blank(0) ELSE ent[q]]
Opened(ent, t) == [q \in Pos |-> IF q[1] = t THEN Blank(1) ELSE ent[q]]
=============================================================================
