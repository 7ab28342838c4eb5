---------------------------- MODULE AddressSpace ----------------------------
(***************************************************************************)
(* Page tables of kernel/src/address_space.c, as operators on              *)
(*   a space [root, tables, leaves, regions]: the root frame, the child    *)
(*   tables with their frames and user bits, the page-table entries that   *)
(*   are present, and the list of mapped regions;                          *)
(*   a pool m the allocator callback takes table frames from (Take).       *)
(* A child table is named by its level and the span of pages it covers.    *)
(* Addresses are page numbers: unaligned arguments are answered E_INVAL    *)
(* first thing and left out.  The kernel reaches a table through the       *)
(* identity mapping of its frame: reach is the set of frames it can        *)
(* address that way, and touching any other one is a fault in ring 0.      *)
(***************************************************************************)
EXTENDS Integers, Sequences, FiniteSets

CONSTANTS
  Span,        \* level -> pages covered by one child table of that level
  UserLimit,   \* AGENT_OS_USER_LIMIT
  PageLimit,   \* end of the address range
  MaxRegions,  \* AGENT_OS_VM_MAX_REGIONS
  Take(_, _)   \* the allocator callback: pool and reach to
               \* [status, frame, pool]

Page  == 0 .. PageLimit - 1
Flag  == {"R", "W", "X", "U"}
Level == DOMAIN Span

TableAt(k, v) == <<k, v \div Span[k]>>

(* agent_os_address_space_init: only a root; the bootstrap root it copies  *)
(* its upper half from has nothing there.                                  *)
EmptySpace(root) ==
  [root |-> root, tables |-> <<>>, leaves |-> <<>>, regions |-> <<>>]

\* f with x mapped to y.
With(f, x, y) == [z \in DOMAIN f \cup {x} |-> IF z = x THEN y ELSE f[z]]

(* The outcome of an operation so far. *)
Outcome(sp, m, status) == [sp |-> sp, m |-> m, status |-> status]

TableFrames(sp) == {sp.root} \cup {sp.tables[t].frame : t \in DOMAIN sp.tables}

(* child_table at level k on the way to page v. *)
ChildTable(r, k, v, user, reach) ==
  LET id == TableAt(k, v) IN
    IF r.status # "OK" THEN r
    ELSE IF id \in DOMAIN r.sp.tables
      THEN IF user /\ ~r.sp.tables[id].user THEN [r EXCEPT !.status = "DENIED"]
           ELSE IF r.sp.tables[id].frame \notin reach THEN [r EXCEPT !.status = "FAULT"]
           ELSE r
      ELSE LET a == Take(r.m, reach) IN
             IF a.status # "OK" THEN Outcome(r.sp, a.pool, a.status)
             ELSE Outcome([r.sp EXCEPT !.tables =
                             With(@, id, [frame |-> a.frame, user |-> user])],
                          a.pool, "OK")

\* Slip: a leaf under user tables is a user leaf.
LeafFlagsUser(flags) == flags \cup {"R", "U"}

(* page_flags_to_pte: whatever is present can be read. *)
LeafFlags(flags) == flags \cup {"R"}

\* Slip: a user page that is mapped already is mapped anew.
VacantForUser(sp, v) == v \in DOMAIN sp.leaves => "U" \in sp.leaves[v].flags

Vacant(sp, v) == v \notin DOMAIN sp.leaves

(* One round of the loop of map: the tables on the way, then the entry. *)
MapPage(r, v, frame, flags, reach) ==
  LET way[k \in {0} \cup Level] ==
        IF k = 0 THEN r ELSE ChildTable(way[k - 1], k, v, "U" \in flags, reach)
      w == way[Len(Span)]
  IN  IF w.status # "OK" THEN w
      ELSE IF ~Vacant(w.sp, v) THEN [w EXCEPT !.status = "BUSY"]
      ELSE [w EXCEPT !.sp.leaves = With(@, v, [frame |-> frame, flags |-> LeafFlags(flags)])]

(* What map refuses before it touches a table. *)
MapArguments(v, n, flags) ==
  IF n = 0 \/ v + n > PageLimit \/ flags \cap {"R", "W", "X"} = {} \/ {"W", "X"} \subseteq flags
    THEN "INVAL"
  ELSE IF "U" \in flags /\ v + n > UserLimit THEN "DENIED"
  ELSE "OK"

RegionsFull(sp) == Len(sp.regions) >= MaxRegions

(* agent_os_address_space_map: n pages from v to the frames from frame on. *)
(* A failure leaves what was done so far and records no region.            *)
Map(sp, m, v, frame, n, flags, reach) ==
  LET round[i \in 0 .. n] ==
        IF i = 0 THEN Outcome(sp, m, IF sp.root \in reach THEN "OK" ELSE "FAULT")
        ELSE LET p == round[i - 1] IN
               IF p.status = "OK" THEN MapPage(p, v + i - 1, frame + i - 1, flags, reach)
                                  ELSE p
      r == round[n]
  IN  IF MapArguments(v, n, flags) # "OK" THEN Outcome(sp, m, MapArguments(v, n, flags))
      ELSE IF RegionsFull(sp) THEN Outcome(sp, m, "NO_MEMORY")
      ELSE IF r.status # "OK" THEN r
      ELSE [r EXCEPT !.sp.regions =
              Append(@, [page |-> v, frame |-> frame, length |-> n, flags |-> flags])]

(* walk_to_pte finds the entry of page v; with user set, by user tables. *)
Walks(sp, v, user) ==
  \A k \in Level : /\ TableAt(k, v) \in DOMAIN sp.tables
                   /\ user => sp.tables[TableAt(k, v)].user

(* The table frames walk_to_pte reads on its way to v. *)
WalkFrames(sp, v) ==
  {sp.root} \cup {sp.tables[TableAt(k, v)].frame :
                    k \in {l \in Level : TableAt(l, v) \in DOMAIN sp.tables}}

(* agent_os_address_space_lookup: v is mapped to frame with these flags. *)
MappedTo(sp, v, frame, flags) ==
  /\ Walks(sp, v, FALSE)
  /\ v \in DOMAIN sp.leaves
  /\ sp.leaves[v] = [frame |-> frame, flags |-> LeafFlags(flags)]

(* agent_os_address_space_user_range_ok, page by page: user code may read  *)
(* page v, and write or execute it if asked for.                           *)
UserPageOk(sp, v, write, execute) ==
  /\ v < UserLimit
  /\ Walks(sp, v, TRUE)
  /\ v \in DOMAIN sp.leaves
  /\ "U" \in sp.leaves[v].flags
  /\ write => "W" \in sp.leaves[v].flags
  /\ execute => "X" \in sp.leaves[v].flags

UserRangeOk(sp, v, n, write, execute) ==
  n # 0 /\ \A p \in v .. v + n - 1 : UserPageOk(sp, p, write, execute)
=============================================================================
