-------------------------- MODULE CapabilityTable ---------------------------
(***************************************************************************)
(* The capability tables of the kernel as a state machine: one action per  *)
(* function of kernel/src/capability_table.c that changes a table, plus    *)
(* the wipe of a reaped process (process.c, clear_process).  A call that   *)
(* returns an error changes nothing and is a stuttering step.              *)
(***************************************************************************)
EXTENDS Capability

CONSTANTS
  MaxInc,     \* bound: how many incarnations are handed out
  RightsArg   \* the rights words callers pass

ASSUME TableAssumption ==
  /\ MaxInc \in Nat \ {0}
  /\ RightsArg \subseteq SUBSET Right

VARIABLES
  incarnation,      \* table -> incarnation, 0 while its memory is zeroed
  nextIncarnation,  \* next_table_incarnation
  entry             \* position -> entry

vars == <<incarnation, nextIncarnation, entry>>

TypeOK ==
  /\ incarnation \in [Table -> 0 .. MaxInc]
  /\ nextIncarnation \in 1 .. MaxInc + 1
  /\ entry \in [Pos -> Entry]

Init ==
  /\ incarnation = [t \in Table |-> 0]
  /\ nextIncarnation = 1
  /\ entry = [q \in Pos |-> Blank(0)]

-----------------------------------------------------------------------------
(* The operations. *)

(* agent_os_capability_table_init, called on the zeroed table of a process *)
(* that is being provisioned.                                              *)
TableInit(t) ==
  /\ incarnation[t] = 0
  /\ nextIncarnation <= MaxInc
  /\ incarnation' = [incarnation EXCEPT ![t] = nextIncarnation]
  /\ nextIncarnation' = nextIncarnation + 1
  /\ entry' = Opened(entry, t)

(* clear_process: the reaped owner's table is zeroed, incarnation and all. *)
Wipe(t) ==
  /\ incarnation[t] # 0
  /\ incarnation' = [incarnation EXCEPT ![t] = 0]
  /\ entry' = Wiped(entry, t)
  /\ UNCHANGED nextIncarnation

Mint(t, object, rights) ==
  /\ \E s \in Slot : /\ IsFirstFree(entry, t, s)
                     /\ entry' = MintRoot(entry, t, s, object, rights)
  /\ UNCHANGED <<incarnation, nextIncarnation>>

Restrict(t, h, rights) ==
  /\ MayDerive(incarnation, entry, t, h, rights)
  /\ \E s \in Slot : /\ IsFirstFree(entry, t, s)
                     /\ entry' = MintChild(incarnation, entry, t, h, t, s, rights)
  /\ UNCHANGED <<incarnation, nextIncarnation>>

Transfer(t, h, dst, rights) ==
  /\ MayDerive(incarnation, entry, t, h, rights)
  /\ TRANSFER \in entry[<<t, h.slot>>].rights
  /\ \E s \in Slot : /\ IsFirstFree(entry, dst, s)
                     /\ entry' = MintChild(incarnation, entry, t, h, dst, s, rights)
  /\ UNCHANGED <<incarnation, nextIncarnation>>

Revoke(t, h) ==
  /\ Permits(incarnation, entry, t, h, {REVOKE})
  /\ entry' = [entry EXCEPT ![<<t, h.slot>>] = Retire(@)]
  /\ UNCHANGED <<incarnation, nextIncarnation>>

RevokeAll(t) ==
  /\ entry' = RetireWhere(entry, ActiveIn(entry, t))
  /\ UNCHANGED <<incarnation, nextIncarnation>>

RevokeObject(t, object) ==
  /\ entry' = RetireWhere(entry, Naming(entry, t, object))
  /\ UNCHANGED <<incarnation, nextIncarnation>>

Next ==
  \/ \E t \in Table : TableInit(t) \/ Wipe(t) \/ RevokeAll(t)
  \/ \E t \in Table, object \in Object : RevokeObject(t, object)
  \/ \E t \in Table, object \in Object, rights \in RightsArg :
       Mint(t, object, rights)
  \/ \E t \in Table, h \in Handle : Revoke(t, h)
  \/ \E t \in Table, h \in Handle, rights \in RightsArg : Restrict(t, h, rights)
  \/ \E t, dst \in Table, h \in Handle, rights \in RightsArg :
       Transfer(t, h, dst, rights)

Spec == Init /\ [][Next]_vars

-----------------------------------------------------------------------------
(* Properties. *)

(* The name of a capability: a slot generation of one incarnation. *)
Name == [table : Table, inc : 1 .. MaxInc, slot : Slot, gen : 1 .. MaxGen]
NoName == NoParent

NameAt(q) == [table |-> q[1], inc |-> incarnation[q[1]],
              slot |-> q[2], gen |-> entry[q].gen]

LivePos == Live(incarnation, entry)

(* A name that no mint can produce any more and that is not live: its      *)
(* incarnation is over, or its slot has moved past its generation, or it   *)
(* sits in its slot with a broken lineage.                                 *)
Spent ==
  LET Past(n) ==
        \/ n.inc # incarnation[n.table] /\ n.inc < nextIncarnation
        \/ /\ n.inc = incarnation[n.table]
           /\ LET e == entry[<<n.table, n.slot>>] IN
                \/ e.gen = 0
                \/ n.gen < e.gen
                \/ n.gen = e.gen /\ e.active
  IN  {n \in Name : Past(n)} \ {NameAt(q) : q \in LivePos}

(* The parent of a derived entry is the entry it was derived from, with    *)
(* that entry's object and at least its rights, or it is gone for good:    *)
(* the slot has moved on or the table has another incarnation.  This is    *)
(* what lets validate_handle decide lineage from a (slot, generation,      *)
(* incarnation) triple read long after the derivation.                     *)
ParentKept(e) ==
  LET p == e.parent IN
    /\ p.pos \in Pos
    /\ p.inc \in 1 .. nextIncarnation - 1
    /\ p.gen # 0
    /\ e.depth # 0
    /\ incarnation[p.pos[1]] = p.inc =>
         LET o == entry[p.pos] IN
           \/ o.gen = 0
           \/ o.gen > p.gen
           \/ /\ o.active /\ o.gen = p.gen /\ o.depth + 1 = e.depth
              /\ o.object = e.object /\ e.rights \subseteq o.rights

IncarnationBehind == \A t \in Table : incarnation[t] < nextIncarnation

InactiveBlank == \A q \in Pos : ~entry[q].active => entry[q] = Blank(entry[q].gen)

ZeroedBlank == \A q \in Pos : incarnation[q[1]] = 0 => entry[q] = Blank(0)

ActiveKept ==
  \A q \in Pos : entry[q].active =>
    /\ entry[q].gen # 0
    /\ entry[q].object # NoObject
    /\ IsRoot(entry[q]) => entry[q].depth = 0
    /\ ~IsRoot(entry[q]) => ParentKept(entry[q])

LineageInv == IncarnationBehind /\ InactiveBlank /\ ZeroedBlank /\ ActiveKept

(* Authority never grows: a capability the kernel accepts names the object *)
(* of its parent and has at most its parent's rights, in whatever table    *)
(* and after whatever reuse of slots, so by its lineage at most those of   *)
(* the root it comes from.                                                 *)
Attenuated ==
  \A q \in LivePos : ~IsRoot(entry[q]) =>
    LET p == entry[q].parent.pos IN
      /\ p \in LivePos
      /\ entry[q].object = entry[p].object
      /\ entry[q].rights \subseteq entry[p].rights

(* A dead handle stays dead: neither slot reuse, the wrap of a generation, *)
(* the reuse of a table nor the revival of an ancestor's slot brings back  *)
(* a name that was revoked, directly or through its lineage.               *)
DeadStaysDead == [][Spent \subseteq Spent']_vars

(* What a mint, restrict or transfer returns OK for is accepted by the     *)
(* next lookup, up to the deepest lineage allowed.                         *)
MintedHandlesWork ==
  [][\A q \in Pos : ~entry[q].active /\ entry'[q].active => q \in LivePos']_vars

(* The bounded walk of validate_handle computes ancestry: its iteration    *)
(* budget is never what rejects a handle.                                  *)
WalkAgrees == LivePos = ValidateWalk(incarnation, entry)

(* The tables implement the forest of capabilities: the lazy lineage check *)
(* is the same as removing whole subtrees eagerly.                         *)
Forest == INSTANCE CapabilityTree WITH
  tree <- [n \in {NameAt(q) : q \in LivePos} |->
             LET e == entry[<<n.table, n.slot>>] IN
               [object |-> e.object, rights |-> e.rights,
                parent |-> IF IsRoot(e) THEN NoName ELSE NameAt(e.parent.pos)]],
  spent <- Spent

RefinesForest == Forest!Spec
=============================================================================
