----------------------- MODULE CapabilityTableProofs ------------------------
(***************************************************************************)
(* Theorems about CapabilityTable for every number of tables, slots,       *)
(* objects, rights, generations and depths.                                *)
(***************************************************************************)
EXTENDS CapabilityTable, TLAPS, WellFoundedInduction

USE CapabilityAssumption, TableAssumption

(***************************************************************************)
(* What the entry constructors return.                                     *)
(***************************************************************************)
LEMMA PosFacts ==
  /\ NoPos \notin Pos
  /\ \A q \in Pos : q[1] \in Table /\ q[2] \in Slot /\ q = <<q[1], q[2]>>
  /\ \A t \in Table, s \in Slot : <<t, s>> \in Pos
BY DEF Pos, NoPos

(* A generation moves up, or the slot is retired for good.                 *)
LEMMA NextGenType ==
  ASSUME NEW g \in 0 .. MaxGen
  PROVE  NextGen(g) \in 0 .. MaxGen /\ (NextGen(g) = 0 \/ NextGen(g) > g)
BY DEF NextGen

(* A cleared entry is an entry.                                            *)
LEMMA BlankType ==
  ASSUME NEW g \in 0 .. MaxGen
  PROVE  /\ Blank(g) \in Entry
         /\ ~Blank(g).active /\ Blank(g).gen = g
BY DEF Blank, Entry, ParentRef, NoParent

(* So is a retired one, of a later generation or none.                     *)
LEMMA RetireType ==
  ASSUME NEW e \in Entry
  PROVE  /\ Retire(e) \in Entry
         /\ Retire(e) = Blank(Retire(e).gen)
         /\ Retire(e).gen = 0 \/ Retire(e).gen > e.gen
<1>1. e.gen \in 0 .. MaxGen
  BY DEF Entry
<1>2. QED
  BY <1>1, NextGenType, BlankType DEF Retire

(* So is a minted one.                                                     *)
LEMMA MintedType ==
  ASSUME NEW e \in Entry, NEW object \in Object \cup {NoObject}, NEW rights \in SUBSET Right,
         NEW depth \in 0 .. MaxDepth, NEW parent \in ParentRef
  PROVE  Minted(e, object, rights, depth, parent) \in Entry
BY DEF Minted, Entry

(***************************************************************************)
(* The variables keep their types: in particular generations stay within   *)
(* 0 .. MaxGen and lineages within MaxDepth.                               *)
(***************************************************************************)
(* Every operation keeps the types.                                        *)
LEMMA TypeStep == TypeOK /\ [Next]_vars => TypeOK'
<1> SUFFICES ASSUME TypeOK, [Next]_vars PROVE TypeOK'
  OBVIOUS
<1> USE DEF TypeOK
<1>1. ASSUME NEW t \in Table, TableInit(t) PROVE TypeOK'
  BY <1>1, BlankType DEF TableInit, Opened
<1>2. ASSUME NEW t \in Table, Wipe(t) PROVE TypeOK'
  BY <1>2, BlankType DEF Wipe, Wiped
<1>3. ASSUME NEW t \in Table, RevokeAll(t) PROVE TypeOK'
  BY <1>3, RetireType DEF RevokeAll, RetireWhere
<1>4. ASSUME NEW t \in Table, NEW object \in Object, RevokeObject(t, object)
      PROVE TypeOK'
  BY <1>4, RetireType DEF RevokeObject, RetireWhere
<1>5. ASSUME NEW t \in Table, NEW object \in Object, NEW rights \in RightsArg,
             Mint(t, object, rights)
      PROVE TypeOK'
  <2>1. NoParent \in ParentRef /\ rights \in SUBSET Right
    BY DEF ParentRef, NoParent
  <2>2. PICK s \in Slot : entry' = MintRoot(entry, t, s, object, rights)
    BY <1>5 DEF Mint
  <2>3. <<t, s>> \in Pos
    BY PosFacts
  <2>4. Minted(entry[<<t, s>>], object, rights, 0, NoParent) \in Entry
    BY <2>1, <2>3, MintedType
  <2>5. QED
    BY <1>5, <2>2, <2>3, <2>4 DEF Mint, MintRoot
<1>6. ASSUME NEW t \in Table, NEW dst \in Table, NEW h \in Handle, NEW s \in Slot,
             NEW rights \in RightsArg,
             MayDerive(incarnation, entry, t, h, rights),
             entry' = MintChild(incarnation, entry, t, h, dst, s, rights),
             UNCHANGED <<incarnation, nextIncarnation>>
      PROVE TypeOK'
  <2> DEFINE e == entry[<<t, h.slot>>]
  <2>1. <<t, h.slot>> \in Pos /\ <<dst, s>> \in Pos /\ h.gen \in 0 .. MaxGen
    BY PosFacts DEF Handle
  <2>2. e \in Entry /\ entry[<<dst, s>>] \in Entry
    BY <2>1
  <2>3. e.depth + 1 \in 0 .. MaxDepth /\ e.object \in Object \cup {NoObject}
    BY <1>6, <2>2 DEF MayDerive, Entry
  <2>4. RefTo(incarnation, t, h) \in ParentRef
    BY <2>1 DEF RefTo, ParentRef
  <2>5. Minted(entry[<<dst, s>>], e.object, rights, e.depth + 1,
               RefTo(incarnation, t, h)) \in Entry
    BY <2>2, <2>3, <2>4, MintedType
  <2>6. QED
    BY <1>6, <2>1, <2>5 DEF MintChild
<1>7. ASSUME NEW t \in Table, NEW h \in Handle, Revoke(t, h) PROVE TypeOK'
  <2>1. <<t, h.slot>> \in Pos
    BY PosFacts DEF Handle
  <2>2. Retire(entry[<<t, h.slot>>]) \in Entry
    BY <2>1, RetireType
  <2>3. QED
    BY <1>7, <2>1, <2>2 DEF Revoke
<1>8. ASSUME NEW t \in Table, NEW h \in Handle, NEW rights \in RightsArg,
             Restrict(t, h, rights)
      PROVE TypeOK'
  BY <1>6, <1>8 DEF Restrict
<1>9. ASSUME NEW t \in Table, NEW dst \in Table, NEW h \in Handle,
             NEW rights \in RightsArg, Transfer(t, h, dst, rights)
      PROVE TypeOK'
  BY <1>6, <1>9 DEF Transfer
<1>10. CASE UNCHANGED vars
  BY <1>10 DEF vars
<1>11. QED
  BY <1>1, <1>2, <1>3, <1>4, <1>5, <1>7, <1>8, <1>9, <1>10 DEF Next

(* Generations, depths, rights and parent references of the tables stay in  *)
(* range through every sequence of calls.                                  *)
THEOREM TypeCorrect == Spec => []TypeOK
<1>1. Init => TypeOK
  BY BlankType DEF Init, TypeOK
<1>2. QED
  BY <1>1, TypeStep, PTL DEF Spec

(***************************************************************************)
(* Lineage: retiring entries, minting one, opening and wiping a table all  *)
(* leave every parent reference intact or dead for good.                   *)
(***************************************************************************)
(* The reference p of the untouched entry q still holds, or is dead for    *)
(* good, after a step that leaves o at its parent's place.                 *)
LEMMA KeepParent ==
  ASSUME NEW q, ParentKept(entry[q]), entry'[q] = entry[q],
         nextIncarnation \in Int, nextIncarnation' \in Int,
         nextIncarnation' >= nextIncarnation,
         NEW p, p = entry[q].parent, NEW o, o = entry'[p.pos],
         incarnation'[p.pos[1]] = p.inc =>
           \/ o.gen = 0
           \/ o.gen > p.gen
           \/ /\ o.active /\ o.gen = p.gen /\ o.depth + 1 = entry[q].depth
              /\ o.object = entry[q].object /\ entry[q].rights \subseteq o.rights
  PROVE  ParentKept(entry[q])'
<1>1. /\ p.pos \in Pos /\ p.inc \in 1 .. nextIncarnation - 1 /\ p.gen # 0
      /\ entry[q].depth # 0
  BY DEF ParentKept
<1>2. p.inc \in 1 .. nextIncarnation' - 1
  BY <1>1
<1>3. entry'[q].parent = p /\ entry'[entry'[q].parent.pos] = o
  OBVIOUS
<1>4. QED
  BY <1>1, <1>2, <1>3 DEF ParentKept

(* Retiring any active entries.                                            *)
LEMMA RetireStep ==
  ASSUME TypeOK, LineageInv,
         NEW D \in SUBSET {q \in Pos : entry[q].active},
         entry' = RetireWhere(entry, D),
         UNCHANGED <<incarnation, nextIncarnation>>
  PROVE  LineageInv'
<1>1. \A q \in Pos : entry'[q] = IF q \in D THEN Retire(entry[q]) ELSE entry[q]
  BY DEF RetireWhere
<1>2. \A q \in Pos : entry[q] \in Entry /\ entry[q].gen \in 0 .. MaxGen
  BY DEF TypeOK, Entry
<1>3. \A q \in D : /\ entry'[q] = Blank(entry'[q].gen) /\ ~entry'[q].active
                   /\ entry'[q].gen = 0 \/ entry'[q].gen > entry[q].gen
  BY <1>1, <1>2, RetireType, BlankType DEF Entry
<1>4. IncarnationBehind'
  BY DEF LineageInv, IncarnationBehind
<1>5. InactiveBlank'
  BY <1>1, <1>3 DEF LineageInv, InactiveBlank
<1>6. ZeroedBlank'
  <2> SUFFICES ASSUME NEW q \in Pos, incarnation[q[1]] = 0 PROVE entry'[q] = Blank(0)
    BY DEF ZeroedBlank
  <2>1. entry[q] = Blank(0)
    BY DEF LineageInv, ZeroedBlank
  <2>2. q \notin D
    BY <2>1, BlankType
  <2>3. QED
    BY <1>1, <2>1, <2>2
<1>7. ActiveKept'
  <2> SUFFICES ASSUME NEW q \in Pos, entry'[q].active
               PROVE  /\ entry'[q].gen # 0
                      /\ entry'[q].object # NoObject
                      /\ IsRoot(entry'[q]) => entry'[q].depth = 0
                      /\ ~IsRoot(entry'[q]) => ParentKept(entry[q])'
    BY DEF ActiveKept
  <2>1. entry'[q] = entry[q] /\ q \notin D
    BY <1>1, <1>3
  <2>2. ASSUME ~IsRoot(entry[q]) PROVE ParentKept(entry[q])'
    <3>1. ParentKept(entry[q])
      BY <2>1, <2>2 DEF LineageInv, ActiveKept
    <3> DEFINE p == entry[q].parent
               o == entry[p.pos]
    <3>2. p.gen \in 0 .. MaxGen /\ p.pos \in Pos
      BY <1>2, <3>1 DEF Entry, ParentRef, ParentKept
    <3>3. CASE p.pos \notin D
      BY <1>1, <2>1, <3>1, <3>2, <3>3 DEF ParentKept
    <3>4. CASE p.pos \in D
      <4>1. o.gen # 0 /\ o.gen \in 0 .. MaxGen
        BY <1>2, <3>2, <3>4 DEF LineageInv, ActiveKept
      <4>2. incarnation[p.pos[1]] = p.inc => o.gen >= p.gen
        BY <3>1, <3>2, <4>1 DEF ParentKept
      <4>3. entry'[p.pos].gen = 0 \/ entry'[p.pos].gen > o.gen
        BY <1>3, <3>4
      <4>4. entry'[p.pos].gen \in 0 .. MaxGen
        BY <1>1, <1>2, <3>2, RetireType DEF Entry
      <4>5. incarnation'[p.pos[1]] = p.inc =>
              entry'[p.pos].gen = 0 \/ entry'[p.pos].gen > p.gen
        BY <3>2, <4>1, <4>2, <4>3, <4>4
      <4>6. nextIncarnation \in Int
        BY DEF TypeOK
      <4> HIDE DEF o
      <4>7. QED
        BY <2>1, <3>1, <4>5, <4>6, KeepParent
    <3>5. QED
      BY <3>3, <3>4
  <2>3. QED
    BY <2>1, <2>2 DEF LineageInv, ActiveKept
<1>8. QED
  BY <1>4, <1>5, <1>6, <1>7 DEF LineageInv

(* A parent a new child may be given: the entry the source handle names.   *)
IntactParent(p, object, rights, depth) ==
  /\ p.pos \in Pos /\ p.inc = incarnation[p.pos[1]] /\ p.gen # 0
  /\ LET o == entry[p.pos] IN
       /\ o.active /\ o.gen = p.gen /\ o.depth + 1 = depth
       /\ o.object = object /\ rights \subseteq o.rights

(* Minting over a free entry, as a root or under an intact parent.         *)
LEMMA MintStep ==
  ASSUME TypeOK, LineageInv,
         NEW q \in Pos, ~entry[q].active, entry[q].gen # 0,
         NEW object \in Object, NEW rights \in SUBSET Right,
         NEW depth \in 0 .. MaxDepth, NEW parent \in ParentRef,
         \/ parent = NoParent /\ depth = 0
         \/ IntactParent(parent, object, rights, depth),
         entry' = [entry EXCEPT ![q] = Minted(entry[q], object, rights, depth, parent)],
         UNCHANGED <<incarnation, nextIncarnation>>
  PROVE  LineageInv'
<1> DEFINE m == Minted(entry[q], object, rights, depth, parent)
<1>1. /\ entry'[q] = m /\ m.active /\ m.gen = entry[q].gen /\ m.object = object
      /\ m.rights = rights /\ m.depth = depth /\ m.parent = parent
  BY DEF TypeOK, Minted
<1>2. \A r \in Pos : r # q => entry'[r] = entry[r]
  BY DEF TypeOK
<1>3. \A r \in Pos : entry[r] \in Entry
  BY DEF TypeOK
<1>4. IncarnationBehind'
  BY DEF LineageInv, IncarnationBehind
<1>5. InactiveBlank'
  BY <1>1, <1>2 DEF LineageInv, InactiveBlank
<1>6. incarnation[q[1]] # 0
  BY BlankType DEF LineageInv, ZeroedBlank
<1>7. ZeroedBlank'
  BY <1>2, <1>6 DEF LineageInv, ZeroedBlank
<1>8. ASSUME NEW r \in Pos, entry[r].active, ~IsRoot(entry[r])
      PROVE  ParentKept(entry[r])'
  <2> DEFINE p == entry[r].parent
             o == entry[p.pos]
  <2>1. ParentKept(entry[r]) /\ p.pos \in Pos /\ entry'[r] = entry[r]
    BY <1>2, <1>8 DEF LineageInv, ActiveKept, ParentKept
  <2>2. CASE p.pos # q
    <3>1. entry'[p.pos] = o /\ nextIncarnation \in Int
      BY <1>2, <2>1, <2>2 DEF TypeOK
    <3>2. incarnation'[p.pos[1]] = p.inc =>
            \/ o.gen = 0
            \/ o.gen > p.gen
            \/ /\ o.active /\ o.gen = p.gen /\ o.depth + 1 = entry[r].depth
               /\ o.object = entry[r].object /\ entry[r].rights \subseteq o.rights
      BY <2>1 DEF ParentKept
    <3>3. QED
      BY <2>1, <3>1, <3>2, KeepParent
  <2>3. CASE p.pos = q
    <3>1. incarnation[p.pos[1]] = p.inc => o.gen > p.gen
      BY <2>1, <2>3 DEF ParentKept
    <3>2. entry'[p.pos].gen = o.gen
      BY <1>1, <2>3
    <3>3. QED
      BY <2>1, <3>1, <3>2 DEF ParentKept
  <2>4. QED
    BY <2>2, <2>3
<1>9. ASSUME ~IsRoot(m) PROVE ParentKept(entry[q])'
  <2>1. IntactParent(parent, object, rights, depth)
    BY <1>1, <1>9 DEF IsRoot, NoParent
  <2> DEFINE o == entry[parent.pos]
  <2>2. o.active /\ parent.pos \in Pos /\ parent.pos # q /\ o \in Entry
    BY <1>3, <2>1 DEF IntactParent
  <2>3. incarnation[parent.pos[1]] # 0
    BY <2>2, BlankType DEF LineageInv, ZeroedBlank
  <2>4. parent.pos[1] \in Table
    BY <2>2, PosFacts
  <2>5. parent.inc \in 1 .. nextIncarnation - 1
    BY <2>1, <2>3, <2>4 DEF IntactParent, TypeOK, LineageInv, IncarnationBehind
  <2>6. depth # 0
    BY <2>1, <2>2 DEF IntactParent, Entry
  <2>7. entry'[parent.pos] = o
    BY <1>2, <2>2
  <2>8. QED
    BY <1>1, <2>1, <2>2, <2>5, <2>6, <2>7 DEF ParentKept, IntactParent
<1>10. ActiveKept'
  <2> SUFFICES ASSUME NEW r \in Pos, entry'[r].active
               PROVE  /\ entry'[r].gen # 0
                      /\ entry'[r].object # NoObject
                      /\ IsRoot(entry'[r]) => entry'[r].depth = 0
                      /\ ~IsRoot(entry'[r]) => ParentKept(entry[r])'
    BY DEF ActiveKept
  <2>1. CASE r = q
    <3>1. parent.pos = NoPos => depth = 0
      BY PosFacts DEF IntactParent
    <3>2. IsRoot(entry'[r]) => entry'[r].depth = 0
      BY <1>1, <2>1, <3>1 DEF IsRoot
    <3>3. ~IsRoot(entry'[r]) => ParentKept(entry[r])'
      BY <1>1, <1>9, <2>1
    <3>4. QED
      BY <1>1, <2>1, <3>2, <3>3
  <2>2. CASE r # q
    BY <1>2, <1>8, <2>2 DEF LineageInv, ActiveKept
  <2>3. QED
    BY <2>1, <2>2
<1>11. QED
  BY <1>4, <1>5, <1>7, <1>10 DEF LineageInv

(* Opening a zeroed table or wiping one: references into it die with its   *)
(* incarnation, since no incarnation is handed out twice.                  *)
LEMMA ResetStep ==
  ASSUME TypeOK, LineageInv,
         NEW t \in Table, NEW inc \in 0 .. MaxInc, NEW g \in {0, 1},
         \/ g = 0 /\ inc = 0 /\ nextIncarnation' = nextIncarnation
         \/ /\ g = 1 /\ inc = nextIncarnation
            /\ nextIncarnation' = nextIncarnation + 1,
         incarnation' = [incarnation EXCEPT ![t] = inc],
         entry' = [q \in Pos |-> IF q[1] = t THEN Blank(g) ELSE entry[q]]
  PROVE  LineageInv'
<1>1. /\ incarnation'[t] = inc
      /\ \A u \in Table : u # t => incarnation'[u] = incarnation[u]
      /\ nextIncarnation \in Nat \ {0}
  BY DEF TypeOK
<1>2. ~Blank(g).active /\ Blank(g).gen = g
  BY BlankType
<1>3. IncarnationBehind'
  BY <1>1 DEF TypeOK, LineageInv, IncarnationBehind
<1>4. InactiveBlank'
  BY <1>2 DEF LineageInv, InactiveBlank
<1>5. ZeroedBlank'
  BY <1>1, PosFacts DEF LineageInv, ZeroedBlank
<1>6. ActiveKept'
  <2> SUFFICES ASSUME NEW q \in Pos, entry'[q].active
               PROVE  /\ entry'[q].gen # 0
                      /\ entry'[q].object # NoObject
                      /\ IsRoot(entry'[q]) => entry'[q].depth = 0
                      /\ ~IsRoot(entry'[q]) => ParentKept(entry[q])'
    BY DEF ActiveKept
  <2>1. entry'[q] = entry[q] /\ q[1] # t
    BY <1>2
  <2>2. /\ nextIncarnation \in Int /\ nextIncarnation' \in Int
        /\ nextIncarnation' >= nextIncarnation
    BY <1>1
  <2>3. ASSUME ~IsRoot(entry[q]) PROVE ParentKept(entry[q])'
    <3> DEFINE p == entry[q].parent
    <3>1. ParentKept(entry[q]) /\ p.pos \in Pos /\ p.pos[1] \in Table
      BY <2>1, <2>3, PosFacts DEF LineageInv, ActiveKept, ParentKept
    <3>2. p.inc \in 1 .. nextIncarnation - 1
      BY <3>1 DEF ParentKept
    <3>3. CASE p.pos[1] = t
      <4>1. incarnation'[p.pos[1]] # p.inc
        BY <1>1, <3>2, <3>3
      <4>2. QED
        BY <2>1, <2>2, <3>1, <4>1, KeepParent
    <3>4. CASE p.pos[1] # t
      <4> DEFINE o == entry[p.pos]
      <4>1. entry'[p.pos] = o /\ incarnation'[p.pos[1]] = incarnation[p.pos[1]]
        BY <1>1, <3>1, <3>4
      <4>2. incarnation'[p.pos[1]] = p.inc =>
              \/ o.gen = 0
              \/ o.gen > p.gen
              \/ /\ o.active /\ o.gen = p.gen /\ o.depth + 1 = entry[q].depth
                 /\ o.object = entry[q].object /\ entry[q].rights \subseteq o.rights
        BY <3>1, <4>1 DEF ParentKept
      <4>3. QED
        BY <2>1, <2>2, <3>1, <4>1, <4>2, KeepParent
    <3>5. QED
      BY <3>3, <3>4
  <2>4. QED
    BY <2>1, <2>3 DEF LineageInv, ActiveKept
<1>7. QED
  BY <1>3, <1>4, <1>5, <1>6 DEF LineageInv

(* A derivation goes through MintStep with the source as intact parent. *)
LEMMA DeriveStep ==
  ASSUME TypeOK, LineageInv,
         NEW t \in Table, NEW dst \in Table, NEW h \in Handle, NEW s \in Slot,
         NEW rights \in RightsArg,
         MayDerive(incarnation, entry, t, h, rights),
         IsFirstFree(entry, dst, s),
         entry' = MintChild(incarnation, entry, t, h, dst, s, rights),
         UNCHANGED <<incarnation, nextIncarnation>>
  PROVE  LineageInv'
<1> DEFINE src == <<t, h.slot>>
           q == <<dst, s>>
           e == entry[src]
           p == RefTo(incarnation, t, h)
<1>1. src \in Pos /\ q \in Pos /\ h.gen \in 0 .. MaxGen /\ src[1] = t
  BY PosFacts DEF Handle
<1>2. e \in Entry /\ ~entry[q].active /\ entry[q].gen # 0
  BY <1>1 DEF TypeOK, IsFirstFree, Free
<1>3. /\ h.gen # 0 /\ e.active /\ e.gen = h.gen
      /\ rights \subseteq e.rights /\ e.depth + 1 <= MaxDepth
  BY DEF MayDerive, Valid
<1>4. e.object \in Object /\ e.depth + 1 \in 0 .. MaxDepth
  BY <1>1, <1>2, <1>3 DEF Entry, LineageInv, ActiveKept
<1>5. p \in ParentRef /\ p.pos = src /\ p.inc = incarnation[t] /\ p.gen = h.gen
  BY <1>1 DEF RefTo, ParentRef, TypeOK
<1>6. IntactParent(p, e.object, rights, e.depth + 1)
  BY <1>1, <1>3, <1>5 DEF IntactParent
<1>7. entry' = [entry EXCEPT ![q] = Minted(entry[q], e.object, rights, e.depth + 1, p)]
  BY DEF MintChild
<1>8. rights \in SUBSET Right
  OBVIOUS
<1> DEFINE o == e.object
           d == e.depth + 1
<1>9. /\ q \in Pos /\ ~entry[q].active /\ entry[q].gen # 0
      /\ o \in Object /\ d \in 0 .. MaxDepth /\ p \in ParentRef
      /\ IntactParent(p, o, rights, d)
      /\ entry' = [entry EXCEPT ![q] = Minted(entry[q], o, rights, d, p)]
  BY <1>1, <1>2, <1>4, <1>5, <1>6, <1>7
<1> HIDE DEF src, q, e, p, o, d
<1>10. QED
  BY <1>8, <1>9, MintStep

(* Every operation keeps the parent references.                            *)
LEMMA LineageStep == TypeOK /\ LineageInv /\ [Next]_vars => LineageInv'
<1> SUFFICES ASSUME TypeOK, LineageInv, [Next]_vars PROVE LineageInv'
  OBVIOUS
<1>1. ASSUME NEW t \in Table, TableInit(t) PROVE LineageInv'
  <2>1. nextIncarnation \in 0 .. MaxInc
    BY <1>1 DEF TypeOK, TableInit
  <2>2. QED
    BY <1>1, <2>1, ResetStep DEF TableInit, Opened
<1>2. ASSUME NEW t \in Table, Wipe(t) PROVE LineageInv'
  <2>1. 0 \in 0 .. MaxInc /\ 0 \in {0, 1}
    OBVIOUS
  <2>2. QED
    BY <1>2, <2>1, ResetStep DEF Wipe, Wiped
<1>3. ASSUME NEW t \in Table, RevokeAll(t) PROVE LineageInv'
  BY <1>3, RetireStep DEF RevokeAll, ActiveIn
<1>4. ASSUME NEW t \in Table, NEW object \in Object, RevokeObject(t, object)
      PROVE LineageInv'
  BY <1>4, RetireStep DEF RevokeObject, Naming, ActiveIn
<1>5. ASSUME NEW t \in Table, NEW h \in Handle, Revoke(t, h) PROVE LineageInv'
  <2> DEFINE q == <<t, h.slot>>
  <2>1. q \in Pos /\ entry[q].active
    BY <1>5, PosFacts DEF Handle, Revoke, Permits, Valid
  <2>2. entry' = RetireWhere(entry, {q})
    BY <1>5, <2>1 DEF Revoke, RetireWhere, TypeOK
  <2>3. QED
    BY <1>5, <2>1, <2>2, RetireStep DEF Revoke
<1>6. ASSUME NEW t \in Table, NEW object \in Object, NEW rights \in RightsArg,
             Mint(t, object, rights)
      PROVE LineageInv'
  <2>1. PICK s \in Slot : /\ IsFirstFree(entry, t, s)
                          /\ entry' = MintRoot(entry, t, s, object, rights)
    BY <1>6 DEF Mint
  <2> DEFINE q == <<t, s>>
  <2>2. q \in Pos /\ ~entry[q].active /\ entry[q].gen # 0
    BY <2>1, PosFacts DEF IsFirstFree, Free
  <2>3. NoParent \in ParentRef /\ rights \in SUBSET Right /\ 0 \in 0 .. MaxDepth
    BY DEF ParentRef, NoParent
  <2>4. entry' = [entry EXCEPT ![q] = Minted(entry[q], object, rights, 0, NoParent)]
    BY <2>1 DEF MintRoot
  <2>5. QED
    BY <1>6, <2>2, <2>3, <2>4, MintStep DEF Mint
<1>7. ASSUME NEW t \in Table, NEW h \in Handle, NEW rights \in RightsArg,
             Restrict(t, h, rights)
      PROVE LineageInv'
  BY <1>7, DeriveStep DEF Restrict
<1>8. ASSUME NEW t \in Table, NEW dst \in Table, NEW h \in Handle,
             NEW rights \in RightsArg, Transfer(t, h, dst, rights)
      PROVE LineageInv'
  BY <1>8, DeriveStep DEF Transfer
<1>9. CASE UNCHANGED vars
  BY <1>9 DEF vars, LineageInv, IncarnationBehind, InactiveBlank, ZeroedBlank,
              ActiveKept, ParentKept
<1>10. QED
  BY <1>1, <1>2, <1>3, <1>4, <1>5, <1>6, <1>7, <1>8, <1>9 DEF Next

(* Parent references are never re-bound: whatever the interleaving of      *)
(* mints, derivations, revocations, wipes and re-initialisations, an       *)
(* active entry's parent is still the entry it was derived from, or its    *)
(* reference can never match again.                                        *)
THEOREM LineageKept == Spec => []LineageInv
<1>1. Init => LineageInv
  <2> SUFFICES ASSUME Init PROVE LineageInv
    OBVIOUS
  <2>1. \A q \in Pos : entry[q] = Blank(0) /\ ~entry[q].active /\ entry[q].gen = 0
    BY BlankType DEF Init
  <2>2. QED
    BY <2>1 DEF Init, LineageInv, IncarnationBehind, InactiveBlank, ZeroedBlank, ActiveKept
<1>2. QED
  BY <1>1, TypeCorrect, LineageStep, PTL DEF Spec

(***************************************************************************)
(* Liveness of a handle.                                                   *)
(***************************************************************************)
(* A set of active entries that holds the intact parent of each member.    *)
Closed(incn, ent, S) ==
  \A q \in S :
    /\ ent[q].active
    /\ ~IsRoot(ent[q]) => /\ LinkOk(incn, ent, ent[q])
                          /\ ent[q].parent.pos \in S

(* What a live position has, whatever the tables hold.                     *)
LEMMA LiveIn ==
  ASSUME NEW incn, NEW ent
  PROVE  /\ Live(incn, ent) \subseteq Pos
         /\ Closed(incn, ent, Live(incn, ent))
         /\ \A S \in SUBSET Pos : Closed(incn, ent, S) => S \subseteq Live(incn, ent)
<1>1. ASSUME NEW S \in SUBSET Intact(incn, ent), HoldsParents(ent, S)
      PROVE  S \in SUBSET Pos /\ Closed(incn, ent, S) /\ S \subseteq Live(incn, ent)
  BY <1>1 DEF Intact, HoldsParents, Closed, Live
<1>2. \A q \in Live(incn, ent) :
        \E S \in SUBSET Intact(incn, ent) :
          q \in S /\ S \in SUBSET Pos /\ Closed(incn, ent, S) /\ S \subseteq Live(incn, ent)
  BY <1>1 DEF Live
<1>3. Closed(incn, ent, Live(incn, ent))
  BY <1>2 DEF Closed
<1>4. ASSUME NEW S \in SUBSET Pos, Closed(incn, ent, S)
      PROVE  S \subseteq Live(incn, ent)
  <2>1. S \in SUBSET Intact(incn, ent) /\ HoldsParents(ent, S)
    BY <1>4 DEF Closed, Intact, HoldsParents
  <2>2. QED
    BY <1>4, <2>1 DEF Live
<1>5. QED
  BY <1>2, <1>3, <1>4

(* The same of the positions that are live now.                            *)
LEMMA LiveClosed ==
  /\ LivePos \subseteq Pos
  /\ Closed(incarnation, entry, LivePos)
  /\ \A S \in SUBSET Pos : Closed(incarnation, entry, S) => S \subseteq LivePos
BY LiveIn DEF LivePos

(* A live entry's parent is live, so the reference to it still holds.      *)
LEMMA AttenuatedFromLineage == TypeOK /\ LineageInv => Attenuated
<1> SUFFICES ASSUME TypeOK, LineageInv, NEW q \in LivePos, ~IsRoot(entry[q])
             PROVE  /\ entry[q].parent.pos \in LivePos
                    /\ entry[q].object = entry[entry[q].parent.pos].object
                    /\ entry[q].rights \subseteq entry[entry[q].parent.pos].rights
  BY DEF Attenuated
<1> DEFINE p == entry[q].parent
<1>1. /\ q \in Pos /\ entry[q].active /\ p.pos \in LivePos
      /\ LinkOk(incarnation, entry, entry[q])
  BY LiveClosed DEF Closed
<1>2. ParentKept(entry[q]) /\ p.pos \in Pos
  BY <1>1, LiveClosed DEF LineageInv, ActiveKept
<1>3. incarnation[p.pos[1]] = p.inc /\ entry[p.pos].gen = p.gen /\ p.gen # 0
  BY <1>1 DEF LinkOk
<1>4. ~(entry[p.pos].gen > p.gen)
  <2>1. p.gen \in 0 .. MaxGen
    BY <1>1 DEF TypeOK, Entry, ParentRef
  <2>2. QED
    BY <1>3, <2>1
<1>5. QED
  BY <1>1, <1>2, <1>3, <1>4 DEF ParentKept

(* Authority never grows along a lineage, for tables of any size.          *)
THEOREM AuthorityAttenuates == Spec => []Attenuated
BY TypeCorrect, LineageKept, AttenuatedFromLineage, PTL

(***************************************************************************)
(* What one step may do to one entry.                                      *)
(***************************************************************************)
SameInc(r)  == incarnation'[r[1]] = incarnation[r[1]]
Same(r)     == SameInc(r) /\ entry'[r] = entry[r]
Retired(r)  == /\ SameInc(r) /\ entry[r].active /\ ~entry'[r].active
               /\ entry'[r].gen = 0 \/ entry'[r].gen > entry[r].gen
Born(r)     == /\ SameInc(r) /\ ~entry[r].active /\ entry[r].gen # 0
               /\ entry'[r].gen = entry[r].gen
Reset(r)    == /\ ~SameInc(r) /\ ~entry'[r].active
               /\ incarnation'[r[1]] \in {0, nextIncarnation}

(* Every operation leaves, retires, mints or resets an entry.              *)
LEMMA StepShape ==
  ASSUME TypeOK, LineageInv, [Next]_vars
  PROVE  /\ \A r \in Pos : Same(r) \/ Retired(r) \/ Born(r) \/ Reset(r)
         /\ nextIncarnation' \in Int /\ nextIncarnation' >= nextIncarnation
<1> DEFINE Shape == /\ \A r \in Pos : Same(r) \/ Retired(r) \/ Born(r) \/ Reset(r)
                    /\ nextIncarnation' \in Int /\ nextIncarnation' >= nextIncarnation
<1>1. \A r \in Pos : entry[r] \in Entry /\ r[1] \in Table
  BY PosFacts DEF TypeOK
<1>2. nextIncarnation \in Nat \ {0}
  BY DEF TypeOK
<1>3. ASSUME NEW D \in SUBSET {q \in Pos : entry[q].active},
             entry' = RetireWhere(entry, D),
             UNCHANGED <<incarnation, nextIncarnation>>
      PROVE  Shape
  <2> SUFFICES ASSUME NEW r \in Pos PROVE Same(r) \/ Retired(r)
    BY <1>2, <1>3
  <2>1. CASE r \in D
    BY <1>1, <1>3, <2>1, RetireType, BlankType DEF RetireWhere, Retired, SameInc, Entry
  <2>2. CASE r \notin D
    BY <1>3, <2>2 DEF RetireWhere, Same, SameInc
  <2>3. QED
    BY <2>1, <2>2
<1>4. ASSUME NEW q \in Pos, ~entry[q].active, entry[q].gen # 0,
             NEW e, e.gen = entry[q].gen,
             entry' = [entry EXCEPT ![q] = e],
             UNCHANGED <<incarnation, nextIncarnation>>
      PROVE  Shape
  BY <1>2, <1>4 DEF Same, Born, SameInc, TypeOK
<1>5. ASSUME NEW t \in Table, TableInit(t) PROVE Shape
  <2>1. 1 \in 0 .. MaxGen
    OBVIOUS
  <2>2. QED
    BY <1>1, <1>2, <1>5, <2>1, BlankType
       DEF TableInit, Opened, Same, Reset, SameInc, TypeOK
<1>6. ASSUME NEW t \in Table, Wipe(t) PROVE Shape
  <2>1. 0 \in 0 .. MaxGen
    OBVIOUS
  <2>2. QED
    BY <1>1, <1>2, <1>6, <2>1, BlankType
       DEF Wipe, Wiped, Same, Reset, SameInc, TypeOK
<1>7. ASSUME NEW t \in Table, RevokeAll(t) PROVE Shape
  BY <1>3, <1>7 DEF RevokeAll, ActiveIn
<1>8. ASSUME NEW t \in Table, NEW object \in Object, RevokeObject(t, object)
      PROVE Shape
  BY <1>3, <1>8 DEF RevokeObject, Naming, ActiveIn
<1>9. ASSUME NEW t \in Table, NEW h \in Handle, Revoke(t, h) PROVE Shape
  <2> DEFINE q == <<t, h.slot>>
  <2>1. q \in Pos /\ entry[q].active
    BY <1>9, PosFacts DEF Handle, Revoke, Permits, Valid
  <2>2. entry' = RetireWhere(entry, {q})
    BY <1>9, <2>1 DEF Revoke, RetireWhere, TypeOK
  <2>3. QED
    BY <1>3, <1>9, <2>1, <2>2 DEF Revoke
<1>10. ASSUME NEW t \in Table, NEW s \in Slot, IsFirstFree(entry, t, s)
       PROVE  /\ <<t, s>> \in Pos /\ ~entry[<<t, s>>].active
              /\ entry[<<t, s>>].gen # 0
  BY <1>10, PosFacts DEF IsFirstFree, Free
<1>11. \A e, object, rights, depth, parent :
         Minted(e, object, rights, depth, parent).gen = e.gen
  BY DEF Minted
<1>12. ASSUME NEW t \in Table, NEW s \in Slot, IsFirstFree(entry, t, s),
              NEW object, NEW rights, NEW depth, NEW parent,
              entry' = [entry EXCEPT ![<<t, s>>] =
                          Minted(entry[<<t, s>>], object, rights, depth, parent)],
              UNCHANGED <<incarnation, nextIncarnation>>
       PROVE  Shape
  <2> DEFINE q == <<t, s>>
             e == Minted(entry[q], object, rights, depth, parent)
  <2>1. q \in Pos /\ ~entry[q].active /\ entry[q].gen # 0 /\ e.gen = entry[q].gen
    BY <1>10, <1>11, <1>12
  <2>2. entry' = [entry EXCEPT ![q] = e]
    BY <1>12
  <2> HIDE DEF q, e
  <2>3. QED
    BY <1>4, <1>12, <2>1, <2>2
<1>13. ASSUME NEW t \in Table, NEW object \in Object, NEW rights \in RightsArg,
              Mint(t, object, rights)
       PROVE  Shape
  BY <1>12, <1>13 DEF Mint, MintRoot
<1>14. ASSUME NEW t \in Table, NEW dst \in Table, NEW h \in Handle, NEW rights,
              NEW s \in Slot, IsFirstFree(entry, dst, s),
              entry' = MintChild(incarnation, entry, t, h, dst, s, rights),
              UNCHANGED <<incarnation, nextIncarnation>>
       PROVE  Shape
  BY <1>12, <1>14 DEF MintChild
<1>15. ASSUME NEW t \in Table, NEW h \in Handle, NEW rights \in RightsArg,
              Restrict(t, h, rights)
       PROVE  Shape
  BY <1>14, <1>15 DEF Restrict
<1>16. ASSUME NEW t \in Table, NEW dst \in Table, NEW h \in Handle,
              NEW rights \in RightsArg, Transfer(t, h, dst, rights)
       PROVE  Shape
  BY <1>14, <1>16 DEF Transfer
<1>17. CASE UNCHANGED vars
  BY <1>2, <1>17 DEF vars, Same, SameInc
<1>18. QED
  BY <1>5, <1>6, <1>7, <1>8, <1>9, <1>13, <1>15, <1>16, <1>17 DEF Next

(* An entry that is live after a step and was there before it was live     *)
(* before it: no step repairs a broken lineage.                            *)
LEMMA NoRepair ==
  ASSUME TypeOK, LineageInv, [Next]_vars,
         NEW q \in LivePos', Same(q)
  PROVE  q \in LivePos
<1> DEFINE S == {r \in LivePos' : Same(r)}
<1>1. LivePos' \subseteq Pos /\ Closed(incarnation', entry', LivePos')
  <2>1. LivePos' = Live(incarnation', entry')
    BY DEF LivePos
  <2>2. QED
    BY <2>1, LiveIn
<1>2. ASSUME NEW r \in S, ~IsRoot(entry[r])
      PROVE  LinkOk(incarnation, entry, entry[r]) /\ entry[r].parent.pos \in S
  <2> DEFINE p == entry[r].parent
             o == entry[p.pos]
  <2>1. r \in Pos /\ entry'[r] = entry[r] /\ entry[r].active
    BY <1>1 DEF Same, Closed
  <2>2. p.pos \in LivePos' /\ LinkOk(incarnation', entry', entry[r])
    BY <1>1, <1>2, <2>1 DEF Closed
  <2>3. ParentKept(entry[r]) /\ p.pos \in Pos
    BY <1>2, <2>1 DEF LineageInv, ActiveKept, ParentKept
  <2>4. /\ entry'[p.pos].active /\ entry'[p.pos].gen = p.gen /\ p.gen # 0
        /\ incarnation'[p.pos[1]] = p.inc
    BY <2>2 DEF LinkOk
  <2>5. Same(p.pos) \/ Born(p.pos)
    BY <2>3, <2>4, StepShape DEF Retired, Reset
  <2>6. ~Born(p.pos)
    <3> SUFFICES ASSUME Born(p.pos) PROVE FALSE
      OBVIOUS
    <3>1. /\ incarnation[p.pos[1]] = p.inc /\ ~o.active /\ o.gen # 0
          /\ o.gen = p.gen
      BY <2>4 DEF Born, SameInc
    <3>2. ~(o.gen > p.gen)
      <4>1. p.gen \in 0 .. MaxGen
        BY <2>1 DEF TypeOK, Entry, ParentRef
      <4>2. QED
        BY <3>1, <4>1
    <3>3. QED
      BY <2>3, <3>1, <3>2 DEF ParentKept
  <2>7. Same(p.pos)
    BY <2>5, <2>6
  <2>8. LinkOk(incarnation, entry, entry[r])
    BY <2>2, <2>7 DEF LinkOk, Same, SameInc
  <2>9. QED
    BY <2>2, <2>7, <2>8
<1>3. \A r \in S : entry[r].active
  BY <1>1 DEF Same, Closed
<1>4. Closed(incarnation, entry, S)
  BY <1>2, <1>3 DEF Closed
<1>5. S \in SUBSET Pos /\ q \in S
  BY <1>1
<1>6. QED
  BY <1>4, <1>5, LiveClosed

(***************************************************************************)
(* A name that is spent stays spent.                                       *)
(***************************************************************************)
Past(n) ==
  \/ n.inc # incarnation[n.table] /\ n.inc < nextIncarnation
  \/ /\ n.inc = incarnation[n.table]
     /\ LET e == entry[<<n.table, n.slot>>] IN
          \/ e.gen = 0
          \/ n.gen < e.gen
          \/ n.gen = e.gen /\ e.active

(* A name is spent once it is past and no live entry carries it.           *)
LEMMA SpentIsPast ==
  /\ Spent = {n \in Name : Past(n)} \ {NameAt(q) : q \in LivePos}
  /\ Spent' = {n \in Name : Past(n)'} \ {NameAt(q)' : q \in LivePos'}
BY DEF Spent, Past

(* No step brings a spent name back.                                       *)
LEMMA SpentStep == TypeOK /\ LineageInv /\ [Next]_vars => Spent \subseteq Spent'
<1> SUFFICES ASSUME TypeOK, LineageInv, [Next]_vars, NEW n \in Spent
             PROVE  n \in Spent'
  OBVIOUS
<1> DEFINE q == <<n.table, n.slot>>
<1>1. /\ n \in Name /\ Past(n) /\ q \in Pos /\ q[1] = n.table /\ q[2] = n.slot
      /\ n.table \in Table /\ n.inc \in 1 .. MaxInc /\ n.gen \in 1 .. MaxGen
  BY SpentIsPast, PosFacts DEF Name
<1>2. /\ entry[q] \in Entry /\ entry[q].gen \in 0 .. MaxGen
      /\ entry'[q].gen \in 0 .. MaxGen
      /\ incarnation[n.table] \in 0 .. MaxInc /\ nextIncarnation \in 1 .. MaxInc + 1
  BY <1>1, TypeStep DEF TypeOK, Entry
<1>3. incarnation[n.table] < nextIncarnation
  BY <1>1 DEF LineageInv, IncarnationBehind
<1>4. Same(q) \/ Retired(q) \/ Born(q) \/ Reset(q)
  BY <1>1, StepShape
<1>5. nextIncarnation' \in Int /\ nextIncarnation' >= nextIncarnation
  BY StepShape
<1>6. n.inc < nextIncarnation
  BY <1>1, <1>2, <1>3 DEF Past
<1>7. Past(n)'
  <2>1. CASE Reset(q)
    <3>1. n.inc # incarnation'[n.table]
      BY <1>1, <1>2, <1>6, <2>1 DEF Reset
    <3>2. QED
      BY <1>1, <1>2, <1>5, <1>6, <3>1 DEF Past
  <2>2. CASE Same(q) \/ Retired(q) \/ Born(q)
    <3>1. incarnation'[n.table] = incarnation[n.table]
      BY <1>1, <2>2 DEF Same, Retired, Born, SameInc
    <3>2. CASE n.inc # incarnation[n.table]
      BY <1>1, <1>2, <1>5, <1>6, <3>1, <3>2 DEF Past
    <3>3. CASE n.inc = incarnation[n.table]
      <4>1. \/ entry[q].gen = 0 \/ n.gen < entry[q].gen
            \/ n.gen = entry[q].gen /\ entry[q].active
        BY <1>1, <3>3 DEF Past
      <4>2. \/ entry'[q].gen = 0 \/ n.gen < entry'[q].gen
            \/ n.gen = entry'[q].gen /\ entry'[q].active
        <5>1. CASE Same(q)
          BY <4>1, <5>1 DEF Same
        <5>2. CASE Retired(q)
          <6>1. entry[q].gen # 0
            BY <1>1, <5>2 DEF Retired, LineageInv, ActiveKept
          <6>2. QED
            BY <1>1, <1>2, <4>1, <5>2, <6>1 DEF Retired
        <5>3. CASE Born(q)
          BY <1>1, <4>1, <5>3 DEF Born
        <5>4. QED
          BY <2>2, <5>1, <5>2, <5>3
      <4>3. QED
        BY <3>1, <3>3, <4>2 DEF Past
    <3>4. QED
      BY <3>2, <3>3
  <2>3. QED
    BY <1>4, <2>1, <2>2
<1>8. ASSUME NEW r \in LivePos', n = NameAt(r)' PROVE FALSE
  <2>1. r \in Pos /\ entry'[r].active
    BY DEF LivePos, Live, Intact
  <2>2. /\ n.table = r[1] /\ n.slot = r[2]
        /\ n.inc = incarnation'[r[1]] /\ n.gen = entry'[r].gen
    BY <1>8 DEF NameAt
  <2>3. r = q
    BY <2>1, <2>2, PosFacts
  <2>4. ~Reset(q)
    BY <2>1, <2>3 DEF Reset
  <2>5. ~Retired(q)
    BY <2>1, <2>3 DEF Retired
  <2>6. n.inc = incarnation[n.table]
    BY <1>1, <1>4, <2>2, <2>3, <2>4, <2>5 DEF Same, Born, SameInc
  <2>7. \/ entry[q].gen = 0 \/ n.gen < entry[q].gen
        \/ n.gen = entry[q].gen /\ entry[q].active
    BY <1>1, <2>6 DEF Past
  <2>8. ~Born(q)
    BY <1>1, <1>2, <2>2, <2>3, <2>7 DEF Born
  <2>9. Same(q)
    BY <1>4, <2>4, <2>5, <2>8
  <2>10. q \in LivePos
    BY <2>3, <2>9, NoRepair
  <2>11. n = NameAt(q)
    BY <1>8, <2>2, <2>3, <2>6, <2>9 DEF NameAt, Same
  <2>12. QED
    BY <2>10, <2>11, SpentIsPast
<1>9. QED
  BY <1>1, <1>7, <1>8, SpentIsPast

(* No sequence of operations makes a dead handle valid again.              *)
THEOREM DeadHandlesStayDead == Spec => DeadStaysDead
<1>1. TypeOK /\ LineageInv /\ [Next]_vars => [Spent \subseteq Spent']_vars
  BY SpentStep
<1>2. QED
  BY <1>1, TypeCorrect, LineageKept, PTL DEF Spec, DeadStaysDead

(***************************************************************************)
(* A minted entry is live, and so is whatever was live before the mint.    *)
(***************************************************************************)
LEMMA MintedIsLive ==
  ASSUME TypeOK, LineageInv,
         NEW q \in Pos, ~entry[q].active,
         NEW object, NEW rights, NEW depth \in 0 .. MaxDepth, NEW parent,
         \/ parent = NoParent
         \/ /\ IntactParent(parent, object, rights, depth)
            /\ parent.pos \in LivePos,
         entry' = [entry EXCEPT ![q] = Minted(entry[q], object, rights, depth, parent)],
         incarnation' = incarnation
  PROVE  q \in LivePos'
<1> DEFINE S == LivePos \cup {q}
<1>1. /\ entry'[q].active /\ entry'[q].gen = entry[q].gen
      /\ entry'[q].depth = depth /\ entry'[q].parent = parent
  BY DEF TypeOK, Minted
<1>2. \A r \in Pos : r # q => entry'[r] = entry[r]
  BY DEF TypeOK
<1>3. LivePos \subseteq Pos /\ \A r \in LivePos : entry[r].active
  BY LiveClosed DEF Closed
<1>4. ASSUME NEW r \in LivePos
      PROVE  /\ entry'[r].active
             /\ ~IsRoot(entry'[r]) => /\ LinkOk(incarnation', entry', entry'[r])
                                     /\ entry'[r].parent.pos \in S
  <2>1. r # q /\ entry'[r] = entry[r]
    BY <1>2, <1>3
  <2>2. ASSUME ~IsRoot(entry[r])
        PROVE  /\ LinkOk(incarnation, entry, entry[r])
               /\ entry[r].parent.pos \in LivePos
    BY <2>2, LiveClosed DEF Closed
  <2>3. ASSUME ~IsRoot(entry[r])
        PROVE  entry'[entry[r].parent.pos] = entry[entry[r].parent.pos]
    BY <1>2, <1>3, <2>2, <2>3
  <2>4. QED
    BY <1>3, <2>1, <2>2, <2>3 DEF LinkOk
<1>5. ASSUME ~IsRoot(entry'[q])
      PROVE  LinkOk(incarnation', entry', entry'[q]) /\ entry'[q].parent.pos \in S
  <2>1. IntactParent(parent, object, rights, depth) /\ parent.pos \in LivePos
    BY <1>1, <1>5 DEF IsRoot, NoParent
  <2> DEFINE o == entry[parent.pos]
  <2>2. entry'[parent.pos] = o /\ o \in Entry
    BY <1>2, <1>3, <2>1 DEF TypeOK
  <2>3. depth \in 1 .. MaxDepth
    BY <2>1, <2>2 DEF IntactParent, Entry
  <2>4. QED
    BY <1>1, <2>1, <2>2, <2>3 DEF LinkOk, IntactParent
<1>6. S \in SUBSET Intact(incarnation', entry') /\ HoldsParents(entry', S)
  BY <1>1, <1>3, <1>4, <1>5 DEF Intact, HoldsParents
<1>7. LivePos' = UNION {T \in SUBSET Intact(incarnation', entry') : HoldsParents(entry', T)}
  BY DEF LivePos, Live
<1>8. q \in S
  OBVIOUS
<1>9. QED
  BY <1>6, <1>7, <1>8

(* Whatever a step mints is live after it.                                 *)
LEMMA MintedStep ==
  TypeOK /\ LineageInv /\ [Next]_vars
    => \A q \in Pos : ~entry[q].active /\ entry'[q].active => q \in LivePos'
<1> SUFFICES ASSUME TypeOK, LineageInv, [Next]_vars,
                    NEW q \in Pos, ~entry[q].active, entry'[q].active
             PROVE  q \in LivePos'
  OBVIOUS
<1>1. ASSUME NEW D \in SUBSET {r \in Pos : entry[r].active},
             entry' = RetireWhere(entry, D)
      PROVE  FALSE
  BY <1>1 DEF RetireWhere
<1>2. ASSUME NEW t \in Table, NEW g \in 0 .. MaxGen,
             entry' = [r \in Pos |-> IF r[1] = t THEN Blank(g) ELSE entry[r]]
      PROVE  FALSE
  BY <1>2, BlankType
<1>3. ASSUME NEW t \in Table, NEW dst \in Table, NEW h \in Handle, NEW s \in Slot,
             NEW rights \in RightsArg,
             MayDerive(incarnation, entry, t, h, rights),
             entry' = MintChild(incarnation, entry, t, h, dst, s, rights),
             IsFirstFree(entry, dst, s),
             incarnation' = incarnation
      PROVE  q \in LivePos'
  <2> DEFINE src == <<t, h.slot>>
             e == entry[src]
             p == RefTo(incarnation, t, h)
             r == <<dst, s>>
             o == e.object
             d == e.depth + 1
  <2>1. /\ src \in Pos /\ src[1] = t /\ e \in Entry /\ src \in LivePos
        /\ r \in Pos /\ ~entry[r].active
    BY <1>3, PosFacts DEF Handle, MayDerive, Valid, TypeOK, IsFirstFree, Free, LivePos
  <2>2. /\ h.gen # 0 /\ e.active /\ e.gen = h.gen
        /\ rights \subseteq e.rights /\ d \in 0 .. MaxDepth
    BY <1>3, <2>1 DEF MayDerive, Valid, Entry
  <2>3. IntactParent(p, o, rights, d) /\ p.pos = src
    BY <2>1, <2>2 DEF IntactParent, RefTo
  <2>4. entry' = [entry EXCEPT ![r] = Minted(entry[r], o, rights, d, p)]
    BY <1>3 DEF MintChild
  <2>5. q = r
    BY <2>1, <2>4 DEF TypeOK
  <2>6. /\ r \in Pos /\ ~entry[r].active /\ d \in 0 .. MaxDepth
        /\ IntactParent(p, o, rights, d) /\ p.pos \in LivePos
        /\ incarnation' = incarnation
    BY <1>3, <2>1, <2>2, <2>3
  <2> HIDE DEF e, p, r, o, d, src
  <2>7. r \in LivePos'
    BY <2>4, <2>6, MintedIsLive
  <2>8. QED
    BY <2>5, <2>7
<1>4. ASSUME NEW t \in Table, NEW object \in Object, NEW rights \in RightsArg,
             Mint(t, object, rights)
      PROVE  q \in LivePos'
  <2>1. PICK s \in Slot : /\ IsFirstFree(entry, t, s)
                          /\ entry' = MintRoot(entry, t, s, object, rights)
    BY <1>4 DEF Mint
  <2> DEFINE r == <<t, s>>
  <2>2. r \in Pos /\ ~entry[r].active
    BY <2>1, PosFacts DEF IsFirstFree, Free
  <2>3. entry' = [entry EXCEPT ![r] = Minted(entry[r], object, rights, 0, NoParent)]
    BY <2>1 DEF MintRoot
  <2>4. q = r /\ 0 \in 0 .. MaxDepth
    BY <2>2, <2>3 DEF TypeOK
  <2> HIDE DEF r
  <2>5. QED
    BY <1>4, <2>2, <2>3, <2>4, MintedIsLive DEF Mint
<1>5. ASSUME NEW t \in Table, TableInit(t) \/ Wipe(t) PROVE FALSE
  <2>1. 0 \in 0 .. MaxGen /\ 1 \in 0 .. MaxGen
    OBVIOUS
  <2>2. QED
    BY <1>2, <1>5, <2>1 DEF TableInit, Wipe, Opened, Wiped
<1>6. ASSUME NEW t \in Table, RevokeAll(t) PROVE FALSE
  BY <1>1, <1>6 DEF RevokeAll, ActiveIn
<1>7. ASSUME NEW t \in Table, NEW object \in Object, RevokeObject(t, object)
      PROVE  FALSE
  BY <1>1, <1>7 DEF RevokeObject, Naming, ActiveIn
<1>8. ASSUME NEW t \in Table, NEW h \in Handle, Revoke(t, h) PROVE FALSE
  <2> DEFINE r == <<t, h.slot>>
  <2>1. r \in Pos /\ entry[r].active
    BY <1>8, PosFacts DEF Handle, Revoke, Permits, Valid
  <2>2. entry' = RetireWhere(entry, {r})
    BY <1>8, <2>1 DEF Revoke, RetireWhere, TypeOK
  <2>3. QED
    BY <1>1, <2>1, <2>2
<1>9. CASE UNCHANGED vars
  BY <1>9 DEF vars
<1>10. ASSUME NEW t \in Table, NEW h \in Handle, NEW rights \in RightsArg,
              Restrict(t, h, rights)
       PROVE  q \in LivePos'
  BY <1>3, <1>10 DEF Restrict
<1>11. ASSUME NEW t \in Table, NEW dst \in Table, NEW h \in Handle,
              NEW rights \in RightsArg, Transfer(t, h, dst, rights)
       PROVE  q \in LivePos'
  BY <1>3, <1>11 DEF Transfer
<1>12. QED
  BY <1>4, <1>5, <1>6, <1>7, <1>8, <1>9, <1>10, <1>11 DEF Next

(* Every handle a mint, restrict or transfer hands out is accepted, up to  *)
(* the depth limit.                                                        *)
THEOREM MintedHandlesAreLive == Spec => MintedHandlesWork
<1>1. TypeOK /\ LineageInv /\ [Next]_vars
        => [\A q \in Pos : ~entry[q].active /\ entry'[q].active => q \in LivePos']_vars
  BY MintedStep
<1>2. QED
  BY <1>1, TypeCorrect, LineageKept, PTL DEF Spec, MintedHandlesWork

(***************************************************************************)
(* The bounded walk of validate_handle.                                    *)
(***************************************************************************)
(* Induction over the naturals up to n, for a set in place of a predicate. *)
LEMMA UpTo ==
  ASSUME NEW n \in Nat, NEW S, 0 \in S, \A i \in 0 .. n - 1 : i \in S => i + 1 \in S
  PROVE  0 .. n \subseteq S
<1> SUFFICES ASSUME NEW k \in 0 .. n, k \notin S PROVE FALSE
  OBVIOUS
<1> DEFINE B == {i \in 0 .. n : i \notin S}
           L == OpToRel(<, Nat)
<1>1. IsWellFoundedOn(L, Nat)
  BY NatLessThanWellFounded
<1>2. B \subseteq Nat /\ B # {}
  OBVIOUS
<1>3. \A a, b \in Nat : a < b => <<a, b>> \in L
  BY DEF OpToRel
<1> HIDE DEF L
<1>4. PICK x \in B : \A y \in B : ~(<<y, x>> \in L)
  BY <1>1, <1>2, WFMin
<1>5. x \in 1 .. n /\ x - 1 \in 0 .. n - 1
  BY <1>4
<1>6. x - 1 \in S
  <2>1. x - 1 \in Nat /\ x \in Nat /\ x - 1 < x /\ x - 1 \in 0 .. n
    BY <1>5
  <2>2. <<x - 1, x>> \in L
    BY <1>3, <2>1
  <2>3. x - 1 \notin B
    BY <1>4, <2>2
  <2>4. QED
    BY <2>1, <2>3
<1>7. x \in S
  BY <1>5, <1>6
<1>8. QED
  BY <1>4, <1>7

(* What the loop answers at q with the budget left, from what it answers   *)
(* one step further.                                                       *)
Passes(f, left, q) ==
  \/ IsRoot(entry[q])
  \/ /\ left > 0
     /\ LinkOk(incarnation, entry, entry[q])
     /\ f[left - 1][entry[q].parent.pos]

(* The loop as the function in its definition.                             *)
Walked(f, n) == f = [left \in 0 .. n |-> [q \in Pos |-> Passes(f, left, q)]]

(* There is such a function, so that the walk does what it says.           *)
LEMMA WalkExists == \E f : Walked(f, MaxDepth)
<1> DEFINE S == {n \in Nat : \E f : Walked(f, n)}
<1>1. 0 \in S
  <2> DEFINE f == [left \in 0 .. 0 |-> [q \in Pos |-> IsRoot(entry[q])]]
  <2>1. \A left \in 0 .. 0 : f[left] = [q \in Pos |-> Passes(f, left, q)]
    <3>1. f[0] = [q \in Pos |-> IsRoot(entry[q])] /\ ~(0 > 0)
      OBVIOUS
    <3> HIDE DEF f
    <3>2. \A q \in Pos : Passes(f, 0, q) <=> IsRoot(entry[q])
      BY <3>1 DEF Passes
    <3>3. f[0] = [q \in Pos |-> Passes(f, 0, q)]
      BY <3>1, <3>2 DEF Passes, IsRoot
    <3>4. QED
      BY <3>3
  <2>2. f = [left \in 0 .. 0 |-> f[left]]
    OBVIOUS
  <2> HIDE DEF f
  <2>3. Walked(f, 0)
    BY <2>1, <2>2 DEF Walked
  <2>4. QED
    BY <2>3
<1>2. ASSUME NEW n \in 0 .. MaxDepth - 1, n \in S PROVE n + 1 \in S
  <2>1. PICK f : Walked(f, n)
    BY <1>2
  <2> DEFINE g == [left \in 0 .. n + 1 |->
                     IF left = n + 1 THEN [q \in Pos |-> Passes(f, n + 1, q)] ELSE f[left]]
  <2>2. n \in Nat /\ n + 1 \in Nat
    OBVIOUS
  <2>3. \A left \in 0 .. n : f[left] = [q \in Pos |-> Passes(f, left, q)]
    BY <2>1 DEF Walked
  <2>4. \A left \in 0 .. n : g[left] = f[left]
    BY <2>2
  <2>5. g[n + 1] = [q \in Pos |-> Passes(f, n + 1, q)]
    BY <2>2
  <2>6. g = [left \in 0 .. n + 1 |-> g[left]]
    OBVIOUS
  <2> HIDE DEF g
  <2>7. ASSUME NEW left \in 0 .. n + 1, NEW q \in Pos
        PROVE  Passes(f, left, q) = Passes(g, left, q)
    <3>1. CASE left = 0
      BY <3>1 DEF Passes
    <3>2. CASE left # 0
      <4>1. left - 1 \in 0 .. n
        BY <2>2, <3>2
      <4>2. f[left - 1] = g[left - 1]
        BY <2>4, <4>1
      <4>3. QED
        BY <4>2 DEF Passes
    <3>3. QED
      BY <3>1, <3>2
  <2>8. ASSUME NEW left \in 0 .. n + 1
        PROVE  g[left] = [q \in Pos |-> Passes(g, left, q)]
    <3>1. g[left] = [q \in Pos |-> Passes(f, left, q)]
      <4>1. CASE left = n + 1
        BY <2>5, <4>1
      <4>2. CASE left # n + 1
        <5>1. left \in 0 .. n
          BY <2>2, <4>2
        <5>2. QED
          BY <2>3, <2>4, <5>1
      <4>3. QED
        BY <4>1, <4>2
    <3>2. QED
      BY <2>7, <3>1
  <2>9. Walked(g, n + 1)
    BY <2>6, <2>8 DEF Walked
  <2>10. QED
    BY <2>2, <2>9
<1> HIDE DEF S
<1>3. 0 .. MaxDepth \subseteq S
  BY <1>1, <1>2, UpTo
<1>4. MaxDepth \in S
  BY <1>3
<1>5. QED
  BY <1>4 DEF S

(* What a walk of validate_handle does with the budget left.               *)
LEMMA WalkFacts ==
  \E f : /\ ValidateWalk(incarnation, entry) = {q \in Pos : entry[q].active /\ f[MaxDepth][q]}
         /\ \A left \in 0 .. MaxDepth, q \in Pos : f[left][q] = Passes(f, left, q)
<1> DEFINE walk == CHOOSE f : Walked(f, MaxDepth)
<1>1. ValidateWalk(incarnation, entry) = {q \in Pos : entry[q].active /\ walk[MaxDepth][q]}
  BY DEF ValidateWalk, Walked, Passes
<1>2. Walked(walk, MaxDepth)
  BY WalkExists
<1> HIDE DEF walk
<1>3. \A left \in 0 .. MaxDepth, q \in Pos : walk[left][q] = Passes(walk, left, q)
  BY <1>2 DEF Walked
<1>4. QED
  BY <1>1, <1>3

(* The loop accepts the live entries and no others.                        *)
LEMMA WalkIsAncestry == TypeOK /\ LineageInv => WalkAgrees
<1> SUFFICES ASSUME TypeOK, LineageInv PROVE LivePos = ValidateWalk(incarnation, entry)
  BY DEF WalkAgrees
<1>1. PICK f :
        /\ ValidateWalk(incarnation, entry) = {q \in Pos : entry[q].active /\ f[MaxDepth][q]}
        /\ \A left \in 0 .. MaxDepth, q \in Pos : f[left][q] = Passes(f, left, q)
  BY WalkFacts
<1>2. \A q \in Pos : entry[q].depth \in 0 .. MaxDepth
  BY DEF TypeOK, Entry
<1>3. ASSUME NEW q \in Pos, entry[q].active, ~IsRoot(entry[q])
      PROVE  entry[q].parent.pos \in Pos
  BY <1>3 DEF LineageInv, ActiveKept, ParentKept
<1>4. ValidateWalk(incarnation, entry) \subseteq LivePos
  <2> DEFINE S == {q \in Pos : entry[q].active /\ \E left \in 0 .. MaxDepth : f[left][q]}
  <2>1. ASSUME NEW q \in S, ~IsRoot(entry[q])
        PROVE  LinkOk(incarnation, entry, entry[q]) /\ entry[q].parent.pos \in S
    <3>1. PICK left \in 0 .. MaxDepth : f[left][q]
      OBVIOUS
    <3>2. Passes(f, left, q)
      BY <1>1, <3>1
    <3>3. /\ left - 1 \in 0 .. MaxDepth
          /\ LinkOk(incarnation, entry, entry[q])
          /\ f[left - 1][entry[q].parent.pos]
      BY <2>1, <3>2 DEF Passes
    <3>4. entry[q].parent.pos \in Pos /\ entry[entry[q].parent.pos].active
      BY <1>3, <2>1, <3>3 DEF LinkOk
    <3>5. QED
      BY <3>3, <3>4
  <2>2. Closed(incarnation, entry, S)
    BY <2>1 DEF Closed
  <2>3. S \subseteq LivePos
    BY <2>2, LiveClosed
  <2>4. MaxDepth \in 0 .. MaxDepth
    OBVIOUS
  <2>5. QED
    BY <1>1, <2>3, <2>4
<1>5. LivePos \subseteq ValidateWalk(incarnation, entry)
  <2> DEFINE S == {n \in Nat : \A q \in LivePos, left \in 0 .. MaxDepth :
                                 entry[q].depth = n /\ n <= left => f[left][q]}
  <2>1. \A q \in LivePos : q \in Pos /\ entry[q].active
    BY LiveClosed DEF Closed
  <2>2. \A q \in LivePos : ~IsRoot(entry[q]) => /\ LinkOk(incarnation, entry, entry[q])
                                               /\ entry[q].parent.pos \in LivePos
    BY LiveClosed DEF Closed
  <2>3. 0 \in S
    <3>1. ASSUME NEW q \in LivePos, NEW left \in 0 .. MaxDepth, entry[q].depth = 0
          PROVE  f[left][q]
      <4>1. IsRoot(entry[q])
        BY <2>2, <3>1 DEF LinkOk
      <4>2. QED
        BY <1>1, <2>1, <4>1 DEF Passes
    <3>2. QED
      BY <3>1
  <2>4. ASSUME NEW n \in 0 .. MaxDepth - 1, n \in S PROVE n + 1 \in S
    <3>1. ASSUME NEW q \in LivePos, NEW left \in 0 .. MaxDepth,
                 entry[q].depth = n + 1, n + 1 <= left
          PROVE  f[left][q]
      <4> DEFINE p == entry[q].parent.pos
      <4>1. CASE IsRoot(entry[q])
        BY <1>1, <2>1, <4>1 DEF Passes
      <4>2. CASE ~IsRoot(entry[q])
        <5>1. p \in LivePos /\ LinkOk(incarnation, entry, entry[q])
          BY <2>2, <4>2
        <5>2. entry[p].depth + 1 = n + 1 /\ entry[p].depth \in 0 .. MaxDepth
          BY <1>2, <2>1, <3>1, <5>1 DEF LinkOk
        <5>3. entry[p].depth = n /\ left - 1 \in 0 .. MaxDepth /\ n <= left - 1
          BY <3>1, <5>2
        <5>4. f[left - 1][p]
          BY <2>4, <5>1, <5>3
        <5>5. left > 0
          BY <3>1
        <5>6. QED
          BY <1>1, <2>1, <5>1, <5>4, <5>5 DEF Passes
      <4>3. QED
        BY <4>1, <4>2
    <3>2. QED
      BY <3>1
  <2> HIDE DEF S
  <2>5. 0 .. MaxDepth \subseteq S
    BY <2>3, <2>4, UpTo
  <2>6. ASSUME NEW q \in LivePos PROVE f[MaxDepth][q]
    <3>1. entry[q].depth \in S /\ entry[q].depth <= MaxDepth /\ MaxDepth \in 0 .. MaxDepth
      BY <1>2, <2>1, <2>5
    <3>2. QED
      BY <3>1 DEF S
  <2>7. QED
    BY <1>1, <2>1, <2>6
<1>6. QED
  BY <1>4, <1>5

(* The bounded walk of validate_handle decides ancestry, for every depth   *)
(* limit: a handle is never turned away because the walk ran out of steps. *)
THEOREM WalkDecidesLineage == Spec => []WalkAgrees
BY TypeCorrect, LineageKept, WalkIsAncestry, PTL

(***************************************************************************)
(* The forest the tables implement.                                        *)
(***************************************************************************)
LiveNames == {NameAt(q) : q \in LivePos}
PosOf(n)  == <<n.table, n.slot>>

(* The node of the forest that the entry at the place of n stands for.     *)
Node(n) ==
  LET e == entry[<<n.table, n.slot>>] IN
    [object |-> e.object, rights |-> e.rights,
     parent |-> IF IsRoot(e) THEN NoName ELSE NameAt(e.parent.pos)]

(* A live position has a name of its own.                                  *)
LEMMA NameFacts ==
  ASSUME TypeOK, LineageInv
  PROVE  /\ \A q \in Pos : entry[q].gen # 0 => NameAt(q) \in Name /\ PosOf(NameAt(q)) = q
         /\ \A q \in LivePos : /\ q \in Pos /\ entry[q].active /\ entry[q].gen # 0
                               /\ incarnation[q[1]] # 0
                               /\ NameAt(q) \in Name /\ PosOf(NameAt(q)) = q
         /\ \A n \in LiveNames : n \in Name /\ PosOf(n) \in LivePos /\ n = NameAt(PosOf(n))
         /\ Spent \subseteq Name \ LiveNames
<1>1. ASSUME NEW q \in Pos, entry[q].gen # 0
      PROVE  NameAt(q) \in Name /\ PosOf(NameAt(q)) = q /\ incarnation[q[1]] # 0
  <2>1. incarnation[q[1]] # 0
    BY <1>1, BlankType DEF LineageInv, ZeroedBlank
  <2>2. q[1] \in Table /\ q[2] \in Slot /\ q = <<q[1], q[2]>>
    BY PosFacts
  <2>3. incarnation[q[1]] \in 1 .. MaxInc
    BY <2>1, <2>2 DEF TypeOK
  <2>4. entry[q].gen \in 1 .. MaxGen
    BY <1>1 DEF TypeOK, Entry
  <2>5. QED
    BY <2>1, <2>2, <2>3, <2>4 DEF NameAt, Name, PosOf
<1>2. ASSUME NEW q \in LivePos PROVE q \in Pos /\ entry[q].active /\ entry[q].gen # 0
  <2>1. q \in Pos /\ entry[q].active
    BY LiveClosed DEF Closed
  <2>2. QED
    BY <2>1 DEF LineageInv, ActiveKept
<1>3. Spent \subseteq Name \ LiveNames
  BY SpentIsPast DEF LiveNames
<1>4. QED
  BY <1>1, <1>2, <1>3 DEF LiveNames

(* What is the same and was live is still live while every ancestor is.    *)
LEMMA StillLive ==
  ASSUME TypeOK, LineageInv,
         NEW S \in SUBSET LivePos, HoldsParents(entry, S), \A q \in S : Same(q)
  PROVE  S \subseteq LivePos'
<1>1. S \in SUBSET Pos /\ Closed(incarnation, entry, LivePos)
  BY LiveClosed
<1>2. ASSUME NEW q \in S
      PROVE  /\ entry'[q].active
             /\ ~IsRoot(entry'[q]) => /\ LinkOk(incarnation', entry', entry'[q])
                                     /\ entry'[q].parent.pos \in S
  <2>1. entry'[q] = entry[q] /\ entry[q].active
    BY <1>1 DEF Same, Closed
  <2>2. ASSUME ~IsRoot(entry[q])
        PROVE  LinkOk(incarnation', entry', entry[q]) /\ entry[q].parent.pos \in S
    <3>1. entry[q].parent.pos \in S /\ LinkOk(incarnation, entry, entry[q])
      BY <1>1, <2>2 DEF HoldsParents, Closed
    <3>2. Same(entry[q].parent.pos)
      BY <3>1
    <3>3. QED
      BY <3>1, <3>2 DEF LinkOk, Same, SameInc
  <2>3. QED
    BY <2>1, <2>2
<1>3. Closed(incarnation', entry', S)
  BY <1>2 DEF Closed
<1>4. S \subseteq Live(incarnation', entry')
  BY <1>1, <1>3, LiveIn
<1>5. QED
  BY <1>4 DEF LivePos

(* The live positions after a step: nothing comes back.                    *)
LEMMA LiveAfter ==
  ASSUME TypeOK, LineageInv, [Next]_vars
  PROVE  /\ LivePos' \subseteq Pos
         /\ \A q \in LivePos' : Born(q) \/ (Same(q) /\ q \in LivePos)
         /\ \A q \in LivePos' : /\ ~IsRoot(entry'[q]) => entry'[q].parent.pos \in LivePos'
                                /\ entry'[q].active
<1>1. LivePos' = Live(incarnation', entry')
  BY DEF LivePos
<1>2. LivePos' \subseteq Pos /\ Closed(incarnation', entry', LivePos')
  BY <1>1, LiveIn
<1>3. ASSUME NEW q \in LivePos' PROVE Born(q) \/ Same(q)
  BY <1>2, StepShape DEF Closed, Retired, Reset
<1>4. QED
  BY <1>2, <1>3, NoRepair DEF Closed

(* A name that is no longer live is spent.                                 *)
LEMMA GoneIsSpent ==
  ASSUME TypeOK, LineageInv, [Next]_vars,
         NEW n \in LiveNames, n \notin LiveNames'
  PROVE  n \in Spent'
<1> DEFINE q == PosOf(n)
<1>1. /\ n \in Name /\ q \in LivePos /\ n = NameAt(q)
      /\ q \in Pos /\ entry[q].active /\ entry[q].gen # 0
  BY NameFacts
<1>2. /\ n.table = q[1] /\ q[1] \in Table /\ n.inc = incarnation[q[1]] /\ n.gen = entry[q].gen
      /\ q = <<n.table, n.slot>>
  BY <1>1, PosFacts DEF NameAt, PosOf
<1>3. Same(q) \/ Retired(q) \/ Reset(q)
  BY <1>1, StepShape DEF Born
<1>4. Past(n)'
  <2>1. CASE Same(q)
    BY <1>1, <1>2, <2>1 DEF Past, Same, SameInc
  <2>2. CASE Retired(q)
    BY <1>2, <2>2 DEF Past, Retired, SameInc
  <2>3. CASE Reset(q)
    <3>1. nextIncarnation' \in Int /\ nextIncarnation' >= nextIncarnation
      BY StepShape
    <3>2. n.inc < nextIncarnation /\ n.inc \in Int /\ nextIncarnation \in Int
      BY <1>2 DEF LineageInv, IncarnationBehind, TypeOK
    <3>3. n.inc < nextIncarnation' /\ n.inc # incarnation'[n.table]
      BY <1>2, <2>3, <3>1, <3>2 DEF Reset, SameInc
    <3>4. QED
      BY <3>3 DEF Past
  <2>4. QED
    BY <1>3, <2>1, <2>2, <2>3
<1>5. QED
  BY <1>1, <1>4, SpentIsPast DEF LiveNames

(* The node of a position that is live before and after a step.            *)
LEMMA NodeKept ==
  ASSUME TypeOK, LineageInv, [Next]_vars,
         NEW q \in LivePos, Same(q), q \in LivePos',
         ~IsRoot(entry[q]) => Same(entry[q].parent.pos)
  PROVE  /\ NameAt(q)' = NameAt(q)
         /\ Node(NameAt(q))' = Node(NameAt(q))
<1>1. NameAt(q)' = NameAt(q)
  BY DEF NameAt, Same, SameInc
<1>2. PosOf(NameAt(q)) = q
  BY NameFacts
<1>3. entry'[q] = entry[q]
  BY DEF Same
<1>4. ~IsRoot(entry[q]) => NameAt(entry[q].parent.pos)' = NameAt(entry[q].parent.pos)
  BY <1>3 DEF NameAt, Same, SameInc
<1>5. QED
  BY <1>1, <1>2, <1>3, <1>4 DEF Node, PosOf

(* The forest as the abstract specification sees it.                       *)
TreeNow == [n \in LiveNames |-> Node(n)]

(* The operators of the forest, over the tables.                           *)
LEMMA ForestIs ==
  /\ Forest!Alive = LiveNames
  /\ \A K : Forest!Survivors(K) =
              UNION {S \in SUBSET (LiveNames \ K) :
                       \A n \in S : Node(n).parent = NoName \/ Node(n).parent \in S}
<1>1. Forest!Alive = LiveNames
  BY DEF Forest!Alive, LiveNames
<1>2. ASSUME NEW K, NEW S \in SUBSET (LiveNames \ K)
      PROVE  (\A n \in S : TreeNow[n].parent = NoName \/ TreeNow[n].parent \in S)
               <=> (\A n \in S : Node(n).parent = NoName \/ Node(n).parent \in S)
  <2>1. \A n \in S : TreeNow[n] = Node(n)
    BY DEF TreeNow
  <2> QED BY <2>1
<1>3. ASSUME NEW K
      PROVE  Forest!Survivors(K) =
              UNION {S \in SUBSET (LiveNames \ K) :
                       \A n \in S : TreeNow[n].parent = NoName \/ TreeNow[n].parent \in S}
  BY <1>1 DEF Forest!Survivors, TreeNow, LiveNames, Node
<1> QED BY <1>1, <1>2, <1>3

(* No capability is named by the reference of a root.                      *)
LEMMA NoNameIsNone == \A q : NameAt(q) # NoName
<1> SUFFICES ASSUME NEW q PROVE NameAt(q) # NoName
  OBVIOUS
<1>1. "table" \in DOMAIN NameAt(q)
  BY DEF NameAt
<1>2. "table" \notin DOMAIN NoName
  BY DEF NoName, NoParent
<1> QED BY <1>1, <1>2

(* A step that takes D away, among the live entries, prunes the forest.    *)
LEMMA PruneStep ==
  ASSUME TypeOK, LineageInv, [Next]_vars,
         NEW D \in SUBSET LivePos,
         \A q \in LivePos : Same(q) <=> q \notin D,
         \A q \in Pos : entry'[q].active => entry[q].active,
         NEW K, K = {NameAt(q) : q \in D}
  PROVE  Forest!Prune(K)
<1> DEFINE Kept == UNION {S \in SUBSET (LiveNames \ K) :
                            \A n \in S : Node(n).parent = NoName \/ Node(n).parent \in S}
<1>1. /\ LivePos' \subseteq Pos
      /\ \A q \in LivePos' : /\ Same(q) /\ q \in LivePos /\ q \notin D
                             /\ ~IsRoot(entry[q]) => entry[q].parent.pos \in LivePos'
  BY LiveAfter DEF Same, Born
<1>2. \A q \in LivePos : NameAt(q) \in LiveNames /\ PosOf(NameAt(q)) = q
  BY NameFacts DEF LiveNames
<1>3. \A q \in LivePos : Node(NameAt(q)) =
          [object |-> entry[q].object, rights |-> entry[q].rights,
           parent |-> IF IsRoot(entry[q]) THEN NoName ELSE NameAt(entry[q].parent.pos)]
  BY <1>2 DEF Node, PosOf
<1>4. \A q \in LivePos : NameAt(q) \in K <=> q \in D
  BY <1>2
<1>5. \A q \in LivePos' : NameAt(q)' = NameAt(q) /\ Node(NameAt(q))' = Node(NameAt(q))
  BY <1>1, NodeKept
<1> DEFINE After == {NameAt(q) : q \in LivePos'}
<1>6. LiveNames' = After
  <2>1. LiveNames' = {NameAt(q)' : q \in LivePos'}
    BY DEF LiveNames
  <2> QED BY <1>5, <2>1
<1>7. After \subseteq Kept
  <2>1. After \in SUBSET (LiveNames \ K)
    BY <1>1, <1>2, <1>4
  <2>2. \A n \in After : Node(n).parent = NoName \/ Node(n).parent \in After
    BY <1>1, <1>3
  <2> QED BY <2>1, <2>2
<1>8. Kept \subseteq After
  <2> SUFFICES ASSUME NEW S \in SUBSET (LiveNames \ K),
                      \A n \in S : Node(n).parent = NoName \/ Node(n).parent \in S
               PROVE  S \subseteq After
    OBVIOUS
  <2> DEFINE P == {q \in LivePos : NameAt(q) \in S}
  <2>1. \A q \in P : Same(q)
    BY <1>4
  <2>2. ASSUME NEW q \in P, ~IsRoot(entry[q]) PROVE entry[q].parent.pos \in P
    <3>1. Node(NameAt(q)).parent = NameAt(entry[q].parent.pos)
      BY <1>3, <2>2
    <3>2. NameAt(entry[q].parent.pos) \in S
      BY <3>1, NoNameIsNone
    <3>3. entry[q].parent.pos \in LivePos
      BY <2>2, LiveClosed DEF Closed
    <3> QED BY <3>2, <3>3
  <2>3. P \subseteq LivePos'
    BY <2>1, <2>2, StillLive DEF HoldsParents
  <2>4. \A n \in S : n \in LiveNames /\ PosOf(n) \in LivePos /\ n = NameAt(PosOf(n))
    BY NameFacts
  <2> QED BY <2>3, <2>4
<1>9. Kept = After
  BY <1>7, <1>8
<1>10. Forest!Survivors(K) = Kept /\ Forest!Alive = LiveNames
  BY ForestIs
<1>11. TreeNow' = [n \in After |-> TreeNow[n]]
  <2>1. TreeNow' = [n \in After |-> Node(n)']
    BY <1>6 DEF TreeNow
  <2>2. \A n \in After : Node(n)' = Node(n) /\ n \in LiveNames
    BY <1>1, <1>2, <1>5
  <2>3. \A n \in After : Node(n)' = TreeNow[n]
    BY <2>2 DEF TreeNow
  <2> QED BY <2>1, <2>3
<1>12. Spent \cup (LiveNames \ After) \subseteq Spent'
  BY <1>6, SpentStep, GoneIsSpent
<1>13. Spent' \in SUBSET (Name \ After)
  <2>1. Spent' \subseteq Name \ LiveNames'
    BY SpentIsPast DEF LiveNames
  <2> QED BY <1>6, <2>1
<1> HIDE DEF Kept, After
<1> QED
  BY <1>9, <1>10, <1>11, <1>12, <1>13 DEF Forest!Prune, TreeNow, LiveNames, Node

(* A step that mints one entry adds one node to the forest, whose name is  *)
(* new, and takes no name out of circulation.                              *)
LEMMA AddStep ==
  ASSUME TypeOK, LineageInv, [Next]_vars,
         NEW q \in Pos, ~entry[q].active, entry[q].gen # 0,
         NEW object \in Object, NEW rights \in SUBSET Right,
         NEW depth \in 0 .. MaxDepth, NEW parent,
         \/ parent = NoParent
         \/ /\ IntactParent(parent, object, rights, depth)
            /\ parent.pos \in LivePos,
         entry' = [entry EXCEPT ![q] = Minted(entry[q], object, rights, depth, parent)],
         UNCHANGED <<incarnation, nextIncarnation>>,
         NEW n, n = NameAt(q),
         NEW up, up = IF parent = NoParent THEN NoName ELSE NameAt(parent.pos)
  PROVE  n \in Forest!Born /\ Forest!Add(n, object, rights, up)
<1>1. /\ entry'[q].active /\ entry'[q].gen = entry[q].gen
      /\ entry'[q].object = object /\ entry'[q].rights = rights
      /\ entry'[q].parent = parent
  BY DEF TypeOK, Minted
<1>2. \A r \in Pos : r # q => Same(r)
  BY DEF TypeOK, Same, SameInc
<1>3. q \notin LivePos /\ LivePos \subseteq Pos /\ n \in Name /\ PosOf(n) = q
  BY NameFacts
<1>4. \A r \in Pos : NameAt(r)' = NameAt(r)
  <2>1. \A r \in Pos : entry'[r].gen = entry[r].gen
    BY <1>1, <1>2 DEF Same
  <2> QED BY <2>1 DEF NameAt
<1>5. LivePos' = LivePos \cup {q}
  <2>1. LivePos' \subseteq LivePos \cup {q}
    BY <1>2, LiveAfter DEF Same, Born
  <2>2. LivePos \subseteq LivePos'
    <3>1. HoldsParents(entry, LivePos)
      BY LiveClosed DEF Closed, HoldsParents
    <3>2. \A r \in LivePos : Same(r)
      BY <1>2, <1>3
    <3> QED BY <3>1, <3>2, StillLive
  <2>3. q \in LivePos'
    BY MintedIsLive
  <2> QED BY <2>1, <2>2, <2>3
<1>6. LiveNames' = LiveNames \cup {n}
  <2>1. LiveNames' = {NameAt(r)' : r \in LivePos'}
    BY DEF LiveNames
  <2>2. LiveNames' = {NameAt(r) : r \in LivePos \cup {q}}
    BY <1>3, <1>4, <1>5, <2>1
  <2> QED BY <2>2 DEF LiveNames
<1>7. n \notin LiveNames
  BY <1>3, NameFacts
<1>8. n \notin Spent
  <2>1. n.table = q[1] /\ n.slot = q[2] /\ n.inc = incarnation[q[1]] /\ n.gen = entry[q].gen
    BY DEF NameAt
  <2>2. <<n.table, n.slot>> = q
    BY <1>3 DEF PosOf
  <2>3. entry[q].gen \in Int
    BY DEF TypeOK, Entry
  <2>4. ~Past(n)
    BY <2>1, <2>2, <2>3 DEF Past
  <2> QED BY <2>4, SpentIsPast
<1>9. Spent' = Spent
  <2>1. Spent \subseteq Spent'
    BY SpentStep
  <2>2. ASSUME NEW m \in Spent' PROVE m \in Spent
    <3>1. m \in Name /\ Past(m)' /\ m \notin LiveNames'
      BY SpentIsPast DEF LiveNames
    <3> DEFINE r == PosOf(m)
    <3>2. r \in Pos /\ m.table \in Table /\ m.gen \in Int
      BY <3>1, PosFacts DEF Name, PosOf
    <3>3. entry'[r].gen = entry[r].gen
      BY <1>1, <1>2, <3>2 DEF Same
    <3>4. m.inc = incarnation[m.table] /\ m.gen = entry[r].gen => m = NameAt(r)
      <4>1. r[1] = m.table /\ r[2] = m.slot
        BY DEF PosOf
      <4>2. m = [table |-> m.table, inc |-> m.inc, slot |-> m.slot, gen |-> m.gen]
        BY <3>1 DEF Name
      <4> QED BY <4>1, <4>2 DEF NameAt
    <3>5. ASSUME m.inc = incarnation[m.table], m.gen = entry[r].gen
          PROVE  r # q
      BY <1>6, <3>1, <3>4, <3>5
    <3>6. r # q => entry'[r] = entry[r]
      BY <1>2, <3>2 DEF Same
    <3>7. Past(m)
      BY <3>1, <3>3, <3>5, <3>6 DEF Past, PosOf
    <3> QED BY <1>6, <3>1, <3>7, SpentIsPast DEF LiveNames
  <2> QED BY <2>1, <2>2
<1>10. ASSUME NEW m \in LiveNames PROVE Node(m)' = Node(m)
  <2>1. PosOf(m) \in LivePos /\ m = NameAt(PosOf(m)) /\ Same(PosOf(m)) /\ PosOf(m) \in LivePos'
    BY <1>2, <1>3, <1>5, NameFacts
  <2>2. ~IsRoot(entry[PosOf(m)]) => Same(entry[PosOf(m)].parent.pos)
    BY <1>2, <1>3, <2>1, LiveClosed DEF Closed
  <2> QED BY <2>1, <2>2, NodeKept
<1>11. Node(n)' = [object |-> object, rights |-> rights, parent |-> up]
  <2>1. IsRoot(entry'[q]) <=> parent = NoParent
    BY <1>1, PosFacts DEF IsRoot, NoParent, IntactParent
  <2>2. parent # NoParent => NameAt(parent.pos)' = NameAt(parent.pos)
    BY <1>3, <1>4
  <2>4. <<n.table, n.slot>> = q
    BY <1>3 DEF PosOf
  <2>5. Node(n)' = [object |-> entry'[q].object, rights |-> entry'[q].rights,
                    parent |-> IF IsRoot(entry'[q]) THEN NoName ELSE NameAt(entry[q].parent.pos)']
    BY <2>4 DEF Node
  <2>6. ~IsRoot(entry'[q]) => NameAt(entry[q].parent.pos)' = NameAt(parent.pos)'
    BY <1>1 DEF NameAt
  <2> QED BY <1>1, <2>1, <2>2, <2>5, <2>6
<1>12. TreeNow' = [m \in LiveNames \cup {n} |->
                     IF m = n THEN [object |-> object, rights |-> rights, parent |-> up]
                              ELSE TreeNow[m]]
  <2>0. \A m \in LiveNames : TreeNow[m] = Node(m)
    BY DEF TreeNow
  <2>2. TreeNow' = [m \in LiveNames \cup {n} |-> Node(m)']
    BY <1>6 DEF TreeNow
  <2>3. \A m \in LiveNames \cup {n} :
          Node(m)' = IF m = n THEN [object |-> object, rights |-> rights, parent |-> up]
                              ELSE TreeNow[m]
    BY <1>10, <1>11, <2>0
  <2> QED BY <2>2, <2>3
<1>13. Forest!Alive = LiveNames /\ (Forest!Alive)' = LiveNames'
  <2>1. Forest!Alive = LiveNames
    BY ForestIs
  <2>2. (Forest!Alive)' = LiveNames'
    BY DEF Forest!Alive, LiveNames
  <2> QED BY <2>1, <2>2
<1>14. n \in Forest!Born
  BY <1>3, <1>6, <1>7, <1>8, <1>13 DEF Forest!Born, Forest!Fresh
<1>15. Forest!Add(n, object, rights, up)
  BY <1>9, <1>12, <1>13 DEF Forest!Add, TreeNow, LiveNames, Node
<1> QED BY <1>14, <1>15

(* A derivation adds a child of the capability it derives from.            *)
LEMMA DeriveRefines ==
  ASSUME TypeOK, LineageInv, [Next]_vars,
         NEW t \in Table, NEW dst \in Table, NEW h \in Handle, NEW s \in Slot,
         NEW rights \in RightsArg,
         MayDerive(incarnation, entry, t, h, rights),
         t # dst => TRANSFER \in entry[<<t, h.slot>>].rights,
         IsFirstFree(entry, dst, s),
         entry' = MintChild(incarnation, entry, t, h, dst, s, rights),
         UNCHANGED <<incarnation, nextIncarnation>>
  PROVE  Forest!Next
<1> DEFINE src == <<t, h.slot>>
           q == <<dst, s>>
           e == entry[src]
<1>1. src \in Pos /\ q \in Pos /\ src[1] = t /\ q[1] = dst /\ src \in LivePos
  BY PosFacts DEF Handle, MayDerive, Valid, LivePos
<1>2. e \in Entry /\ ~entry[q].active /\ entry[q].gen # 0
  BY <1>1 DEF TypeOK, IsFirstFree, Free
<1>3. /\ h.gen # 0 /\ e.active /\ e.gen = h.gen
      /\ rights \subseteq e.rights /\ e.depth + 1 <= MaxDepth
  BY DEF MayDerive, Valid
<1>4. PICK p, o, d, n, up : /\ p = RefTo(incarnation, t, h)
                            /\ o = e.object
                            /\ d = e.depth + 1
                            /\ n = NameAt(q)
                            /\ up = NameAt(src)
  OBVIOUS
<1>5. o \in Object /\ d \in 0 .. MaxDepth /\ rights \in SUBSET Right
  BY <1>1, <1>2, <1>3, <1>4 DEF Entry, LineageInv, ActiveKept
<1>6. p.pos = src /\ p.inc = incarnation[t] /\ p.gen = h.gen /\ p # NoParent
  BY <1>1, <1>4, PosFacts DEF RefTo, NoParent
<1>7. IntactParent(p, o, rights, d)
  BY <1>1, <1>3, <1>4, <1>6 DEF IntactParent
<1>8. entry' = [entry EXCEPT ![q] = Minted(entry[q], o, rights, d, p)]
  BY <1>4 DEF MintChild
<1>9. /\ up \in LiveNames
      /\ Node(up).object = o /\ Node(up).rights = e.rights
      /\ up.table = t /\ n.table = dst
  <2>1. PosOf(up) = src
    BY <1>1, <1>4, NameFacts
  <2>2. up.table = src[1] /\ n.table = q[1]
    BY <1>4 DEF NameAt
  <2> QED BY <1>1, <1>4, <2>1, <2>2 DEF LiveNames, Node, PosOf
<1>10. /\ n \in Forest!Born
       /\ Forest!Add(n, o, rights, up)
  <2>1. up = IF p = NoParent THEN NoName ELSE NameAt(p.pos)
    BY <1>4, <1>6
  <2>2. p.pos \in LivePos
    BY <1>1, <1>6
  <2>3. /\ q \in Pos /\ ~entry[q].active /\ entry[q].gen # 0
        /\ o \in Object /\ rights \in SUBSET Right /\ d \in 0 .. MaxDepth
        /\ n = NameAt(q)
    BY <1>1, <1>2, <1>4, <1>5
  <2> HIDE DEF q, e, src
  <2> QED BY <1>7, <1>8, <2>1, <2>2, <2>3, AddStep
<1>11. up \in LiveNames /\ TreeNow[up].object = o /\ TreeNow[up].rights = e.rights
  BY <1>9 DEF TreeNow
<1>12. Forest!Derive(up, n, rights)
  <2>1. rights \subseteq TreeNow[up].rights
    BY <1>3, <1>11
  <2>2. up.table # n.table => TRANSFER \in TreeNow[up].rights
    BY <1>9, <1>11
  <2>3. Forest!Add(n, TreeNow[up].object, rights, up)
    BY <1>10, <1>11 DEF Forest!Add
  <2> QED BY <2>1, <2>2, <2>3 DEF Forest!Derive, Forest!Add, TreeNow, LiveNames, Node
<1>13. up \in Forest!Alive
  BY <1>11, ForestIs
<1> QED BY <1>5, <1>10, <1>12, <1>13 DEF Forest!Next

(* Every call on the tables is a step of the forest, or leaves it alone.   *)
LEMMA ForestStep ==
  TypeOK /\ LineageInv /\ [Next]_vars => [Forest!Next]_Forest!vars
<1> SUFFICES ASSUME TypeOK, LineageInv, [Next]_vars PROVE [Forest!Next]_Forest!vars
  OBVIOUS
<1>1. Forest!Alive = LiveNames
  BY ForestIs
<1>2. \A q \in LivePos : /\ q \in Pos /\ entry[q].active
                         /\ NameAt(q).table = q[1] /\ PosOf(NameAt(q)) = q
                         /\ NameAt(q) \in LiveNames
  BY NameFacts DEF NameAt, LiveNames
<1>3. \A n \in LiveNames : n = NameAt(PosOf(n)) /\ PosOf(n) \in LivePos
  BY NameFacts
(* Retiring the active entries of D prunes the names of the live ones.     *)
<1>4. ASSUME NEW D \in SUBSET {q \in Pos : entry[q].active},
             entry' = RetireWhere(entry, D),
             UNCHANGED <<incarnation, nextIncarnation>>,
             NEW K, K = {NameAt(q) : q \in D \cap LivePos}
      PROVE  Forest!Prune(K)
  <2>1. \A q \in Pos : entry'[q] = IF q \in D THEN Retire(entry[q]) ELSE entry[q]
    BY <1>4 DEF RetireWhere
  <2>2. \A q \in D : ~entry'[q].active
    BY <2>1, RetireType, BlankType DEF TypeOK, Entry
  <2>3. PICK E : E = D \cap LivePos
    OBVIOUS
  <2>4. \A q \in LivePos : Same(q) <=> q \notin E
    BY <1>2, <1>4, <2>1, <2>2, <2>3 DEF Same, SameInc
  <2>5. \A q \in Pos : entry'[q].active => entry[q].active
    BY <2>1, <2>2
  <2> QED BY <1>4, <2>3, <2>4, <2>5, PruneStep
(* Clearing the table t, with another incarnation than it had, prunes what *)
(* it holds.                                                               *)
<1>5. ASSUME NEW t \in Table, NEW g \in 0 .. MaxGen,
             entry' = [q \in Pos |-> IF q[1] = t THEN Blank(g) ELSE entry[q]],
             \A u \in Table : incarnation'[u] = incarnation[u] <=> u # t,
             NEW K, K = {NameAt(q) : q \in {r \in LivePos : r[1] = t}}
      PROVE  Forest!Prune(K)
  <2>1. PICK D : D = {r \in LivePos : r[1] = t}
    OBVIOUS
  <2>2. \A q \in Pos : entry'[q] = IF q[1] = t THEN Blank(g) ELSE entry[q]
    BY <1>5
  <2>3. \A q \in LivePos : Same(q) <=> q \notin D
    BY <1>2, <1>5, <2>1, <2>2, PosFacts DEF Same, SameInc
  <2>4. \A q \in Pos : entry'[q].active => entry[q].active
    BY <2>2, BlankType
  <2> QED BY <1>5, <2>1, <2>3, <2>4, PruneStep
<1>6. ASSUME NEW t \in Table,
             NEW K, K = {NameAt(q) : q \in {r \in LivePos : r[1] = t}},
             Forest!Prune(K)
      PROVE  Forest!Next
  <2>1. K = {n \in Forest!Alive : n.table = t}
    BY <1>1, <1>2, <1>3, <1>6
  <2>2. Forest!Drop(t)
    BY <1>6, <2>1 DEF Forest!Drop, Forest!Prune
  <2> QED BY <2>2 DEF Forest!Next
<1>7. ASSUME NEW t \in Table, TableInit(t) PROVE Forest!Next
  <2>1. incarnation'[t] # incarnation[t] /\ \A u \in Table : u # t => incarnation'[u] = incarnation[u]
    BY <1>7 DEF TableInit, TypeOK
  <2>2. 1 \in 0 .. MaxGen
    OBVIOUS
  <2>3. PICK K : K = {NameAt(q) : q \in {r \in LivePos : r[1] = t}}
    OBVIOUS
  <2>4. Forest!Prune(K)
    BY <1>5, <1>7, <2>1, <2>2, <2>3 DEF TableInit, Opened
  <2> QED BY <1>6, <2>3, <2>4
<1>9. ASSUME NEW t \in Table, Wipe(t) PROVE Forest!Next
  <2>1. incarnation'[t] # incarnation[t] /\ \A u \in Table : u # t => incarnation'[u] = incarnation[u]
    BY <1>9 DEF Wipe, TypeOK
  <2>2. 0 \in 0 .. MaxGen
    OBVIOUS
  <2>3. PICK K : K = {NameAt(q) : q \in {r \in LivePos : r[1] = t}}
    OBVIOUS
  <2>4. Forest!Prune(K)
    BY <1>5, <1>9, <2>1, <2>2, <2>3 DEF Wipe, Wiped
  <2> QED BY <1>6, <2>3, <2>4
<1>10. ASSUME NEW t \in Table, RevokeAll(t) PROVE Forest!Next
  <2>1. PICK D : D = ActiveIn(entry, t)
    OBVIOUS
  <2>2. D \cap LivePos = {r \in LivePos : r[1] = t}
    BY <1>2, <2>1 DEF ActiveIn
  <2>3. D \in SUBSET {q \in Pos : entry[q].active}
    BY <2>1 DEF ActiveIn
  <2>4. PICK K : K = {NameAt(q) : q \in D \cap LivePos}
    OBVIOUS
  <2>5. Forest!Prune(K)
    BY <1>4, <1>10, <2>1, <2>3, <2>4 DEF RevokeAll
  <2>6. K = {NameAt(q) : q \in {r \in LivePos : r[1] = t}}
    BY <2>2, <2>4
  <2> QED BY <1>6, <2>5, <2>6
<1>11. ASSUME NEW t \in Table, NEW object \in Object, RevokeObject(t, object)
       PROVE Forest!Next
  <2>1. PICK D : D = Naming(entry, t, object)
    OBVIOUS
  <2>2. D \cap LivePos = {r \in LivePos : r[1] = t /\ entry[r].object = object}
    BY <1>2, <2>1 DEF ActiveIn, Naming
  <2>3. D \in SUBSET {q \in Pos : entry[q].active}
    BY <2>1 DEF ActiveIn, Naming
  <2>4. PICK K : K = {NameAt(q) : q \in D \cap LivePos}
    OBVIOUS
  <2>5. Forest!Prune(K)
    BY <1>4, <1>11, <2>1, <2>3, <2>4 DEF RevokeObject
  <2>6. \A n \in LiveNames : TreeNow[n].object = entry[PosOf(n)].object
    BY DEF TreeNow, Node, PosOf
  <2>7. K = {n \in LiveNames : n.table = t /\ TreeNow[n].object = object}
    BY <1>2, <1>3, <2>2, <2>4, <2>6
  <2>8. K = {n \in Forest!Alive : n.table = t /\ TreeNow[n].object = object}
    BY <1>1, <2>7
  <2>9. Forest!Forget(t, object)
    BY <2>5, <2>8 DEF Forest!Forget, Forest!Prune, TreeNow, LiveNames, Node
  <2> QED BY <2>9 DEF Forest!Next
<1>12. ASSUME NEW t \in Table, NEW h \in Handle, Revoke(t, h) PROVE Forest!Next
  <2> DEFINE q == <<t, h.slot>>
  <2>1. q \in LivePos /\ q \in Pos /\ REVOKE \in entry[q].rights
    BY <1>12, PosFacts DEF Handle, Revoke, Permits, Valid, LivePos
  <2>2. entry' = RetireWhere(entry, {q})
    BY <1>12, <2>1 DEF Revoke, RetireWhere, TypeOK
  <2>3. {q} \in SUBSET {r \in Pos : entry[r].active}
    BY <1>2, <2>1
  <2>4. PICK n : n = NameAt(q)
    OBVIOUS
  <2>5. {n} = {NameAt(r) : r \in {q} \cap LivePos}
    BY <2>1, <2>4
  <2>6. n \in LiveNames /\ TreeNow[n].rights = entry[q].rights
    BY <1>2, <2>1, <2>4 DEF TreeNow, Node, PosOf
  <2> HIDE DEF q
  <2>7. Forest!Prune({n})
    BY <1>4, <1>12, <2>2, <2>3, <2>5 DEF Revoke
  <2>8. REVOKE \in TreeNow[n].rights
    BY <2>1, <2>6
  <2>9. Forest!Revoke(n)
    BY <2>7, <2>8 DEF Forest!Revoke, TreeNow, LiveNames, Node
  <2> QED BY <1>1, <2>6, <2>9 DEF Forest!Next
<1>13. ASSUME NEW t \in Table, NEW object \in Object, NEW rights \in RightsArg,
              Mint(t, object, rights)
       PROVE Forest!Next
  <2>1. PICK s \in Slot : /\ IsFirstFree(entry, t, s)
                          /\ entry' = MintRoot(entry, t, s, object, rights)
    BY <1>13 DEF Mint
  <2> DEFINE q == <<t, s>>
  <2>2. q \in Pos /\ ~entry[q].active /\ entry[q].gen # 0
    BY <2>1, PosFacts DEF IsFirstFree, Free
  <2>3. rights \in SUBSET Right /\ 0 \in 0 .. MaxDepth
    OBVIOUS
  <2>4. entry' = [entry EXCEPT ![q] = Minted(entry[q], object, rights, 0, NoParent)]
    BY <2>1 DEF MintRoot
  <2>5. PICK n : n = NameAt(q)
    OBVIOUS
  <2> HIDE DEF q
  <2>6. n \in Forest!Born /\ Forest!Add(n, object, rights, NoName)
    BY <1>13, <2>2, <2>3, <2>4, <2>5, AddStep DEF Mint, NoName
  <2>7. Forest!Grant(n, object, rights)
    BY <2>6 DEF Forest!Grant
  <2> QED BY <2>3, <2>6, <2>7 DEF Forest!Next
<1>14. ASSUME NEW t \in Table, NEW h \in Handle, NEW rights \in RightsArg,
              Restrict(t, h, rights)
       PROVE Forest!Next
  BY <1>14, DeriveRefines DEF Restrict
<1>15. ASSUME NEW t \in Table, NEW dst \in Table, NEW h \in Handle,
              NEW rights \in RightsArg, Transfer(t, h, dst, rights)
       PROVE Forest!Next
  BY <1>15, DeriveRefines DEF Transfer
<1>16. CASE UNCHANGED vars
  <2>1. Spent' = Spent
    BY <1>16 DEF vars, Spent, Name, NameAt, LivePos, Live, Intact, HoldsParents, LinkOk
  <2>2. TreeNow' = TreeNow
    BY <1>16 DEF vars, TreeNow, LiveNames, Node, NameAt, LivePos
  <2> QED BY <2>1, <2>2 DEF Forest!vars, TreeNow, LiveNames, Node
<1> QED BY <1>7, <1>9, <1>10, <1>11, <1>12, <1>13, <1>14, <1>15, <1>16 DEF Next

(* The tables implement the forest of capabilities: the lazy lineage check *)
(* of a lookup is the same as removing whole subtrees eagerly, for tables  *)
(* of any size and lineages of any depth.                                  *)
THEOREM TablesAreForest == Spec => RefinesForest
<1>1. Init => Forest!Init
  <2> SUFFICES ASSUME Init PROVE Forest!Init
    OBVIOUS
  <2>1. \A q \in Pos : ~entry[q].active /\ entry[q].gen = 0
    BY BlankType DEF Init
  <2>2. LivePos = {}
    BY <2>1, LiveClosed DEF Closed
  <2>3. Spent = {}
    <3>1. \A n \in Name : ~Past(n)
      BY DEF Init, Past, Name
    <3> QED BY <3>1, SpentIsPast
  <2>4. TreeNow = [n \in {} |-> NoName]
    <3>1. LiveNames = {}
      BY <2>2 DEF LiveNames
    <3> QED BY <3>1 DEF TreeNow
  <2> QED BY <2>3, <2>4 DEF Forest!Init, TreeNow, LiveNames, Node
<1>2. TypeOK /\ LineageInv /\ [Next]_vars => [Forest!Next]_Forest!vars
  BY ForestStep
<1>3. QED
  BY <1>1, <1>2, TypeCorrect, LineageKept, PTL DEF Spec, RefinesForest, Forest!Spec

=============================================================================
