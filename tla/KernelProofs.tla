---------------------------- MODULE KernelProofs -----------------------------
(***************************************************************************)
(* Proofs about the kernel, for every fixture and every size of its pools. *)
(*                                                                         *)
(* Two views of a step carry the argument.  On the capability tables every *)
(* step leaves an entry, retires it, zeroes it with its whole table, or    *)
(* fills a free one (TablesStep); on the process table it has one of a few *)
(* shapes (Shape): the running process gives up the CPU, falls asleep in a *)
(* receive, or stays while others are woken or ended, or nothing moves.    *)
(* Both are proved once from the actions; the invariants are then proved   *)
(* from the views.  ProcessInv is inductive, and so is KernelInv,   *)
(* which adds who may hold the policy authority.  Parented, the lineage of *)
(* live entries, says that an entry which stays in place does not become   *)
(* valid again; HandleInv says that the handle a blocked receive was made  *)
(* with is never ahead of its table.                                       *)
(***************************************************************************)
EXTENDS Kernel, FiniteSetTheorems, TLAPS

(* Every nonempty set of naturals has a least element; with it, induction  *)
(* over naturals is an argument about sets.                                *)
LEMMA Least ==
  ASSUME NEW S, S \subseteq Nat, S # {}
  PROVE  \E x \in S : \A y \in S : x <= y
<1> DEFINE L == OpToRel(<, Nat)
<1>1. IsWellFoundedOn(L, Nat)
  BY NatLessThanWellFounded
<1>2. \A a, b \in Nat : a < b => <<a, b>> \in L
  BY DEF OpToRel
<1> HIDE DEF L
<1>3. \E x \in S : \A y \in S : ~(<<y, x>> \in L)
  BY <1>1, WFMin
<1>4. PICK x \in S : \A y \in S : ~(<<y, x>> \in L)
  BY <1>3
<1>5. ASSUME NEW y \in S PROVE x <= y
  <2>1. x \in Nat /\ y \in Nat
    OBVIOUS
  <2>2. ~(y < x)
    BY <1>2, <1>4, <2>1
  <2> QED BY <2>1, <2>2
<1> QED BY <1>5

(* Induction over the naturals, for a set in place of a predicate.         *)
LEMMA Induction ==
  ASSUME NEW S, 0 \in S, \A n \in Nat : n \in S => n + 1 \in S
  PROVE  Nat \subseteq S
<1> SUFFICES ASSUME ~(Nat \subseteq S) PROVE FALSE
  OBVIOUS
<1> DEFINE T == Nat \ S
<1>1. T \subseteq Nat /\ T # {}
  OBVIOUS
<1>2. PICK x \in T : \A y \in T : x <= y
  BY <1>1, Least
<1>3. x \in Nat /\ x # 0
  BY <1>2
<1>4. x - 1 \in Nat /\ x - 1 \in S
  BY <1>2, <1>3
<1> QED BY <1>2, <1>3, <1>4

-----------------------------------------------------------------------------
(* The process table. *)

(* The processes and the objects, as the boot configurations give them.    *)
LEMMA ProcFacts ==
  /\ Proc \subseteq Nat /\ NoProc \notin Proc
  /\ 0 \in Proc /\ 1 \in Proc
  /\ IsFiniteSet(Proc) /\ Cardinality(Proc) \in Nat \ {0}
  /\ Endpoint \subseteq Object /\ NoObject \notin Object /\ Authority \in Object
  /\ Static \in Endpoint /\ Authority \notin Endpoint
  /\ \A p \in Proc : p # 0 => Parent(p) \in Proc
  /\ \A p \in Proc : Parent(p) # p
<1>1. Proc \in {0 .. 1, 0 .. 2}
  BY KernelAssumption DEF Proc
<1>2. ASSUME NEW n \in Nat
      PROVE  IsFiniteSet(0 .. n) /\ Cardinality(0 .. n) = n + 1
  <2>1. 0 \in Int /\ n \in Int /\ ~(0 > n) /\ n - 0 + 1 = n + 1
    OBVIOUS
  <2> QED BY <2>1, FS_Interval
<1>3. NoProc \notin Proc
  BY KernelAssumption DEF Proc
<1>4. \A p \in Proc : p # 0 => Parent(p) \in Proc
  BY KernelAssumption DEF Proc, Parent
<1>5. \A p \in Proc : Parent(p) # p
  BY <1>1, <1>3 DEF Parent
<1>6. Static \in Endpoint
  BY KernelAssumption DEF Static, Endpoint
<1>7. IsFiniteSet(Proc) /\ Cardinality(Proc) \in Nat \ {0}
  <2>1. CASE Proc = 0 .. 1
    <3>1. IsFiniteSet(0 .. 1) /\ Cardinality(0 .. 1) = 1 + 1
      BY <1>2
    <3> QED BY <2>1, <3>1
  <2>2. CASE Proc = 0 .. 2
    <3>1. IsFiniteSet(0 .. 2) /\ Cardinality(0 .. 2) = 2 + 1
      BY <1>2
    <3> QED BY <2>2, <3>1
  <2> QED BY <1>1, <2>1, <2>2
<1>8. Proc \subseteq Nat /\ 0 \in Proc /\ 1 \in Proc
  BY <1>1
<1>9. Endpoint \subseteq Object /\ NoObject \notin Object /\ Authority \in Object /\ Authority \notin Endpoint
  BY KernelAssumption, CapabilityAssumption
<1> QED BY <1>3, <1>4, <1>5, <1>6, <1>7, <1>8, <1>9

(* The search of the scheduler finds a process when there is one.          *)
LEMMA NextReadyFound ==
  ASSUME NEW st, NEW from \in Proc \cup {NoProc}, \E q \in Proc : st[q] = "READY"
  PROVE  NextReady(st, from) \in Proc /\ st[NextReady(st, from)] = "READY"
<1> DEFINE R == {q \in Proc : st[q] = "READY"}
           T == {Turns(q, from) : q \in R}
<1>1. \A q \in Proc : Turns(q, from) \in Nat
  <2>1. ASSUME NEW a \in Int, NEW n \in Nat \ {0} PROVE a % n \in Nat
    OBVIOUS
  <2>2. ASSUME NEW q \in Proc PROVE Turns(q, from) \in Nat
    <3>1. CASE from = NoProc
      BY <3>1, ProcFacts DEF Turns
    <3>2. CASE from # NoProc
      <4>1. q - from - 1 \in Int
        BY <3>2, ProcFacts
      <4>2. (q - from - 1) % Cardinality(Proc) \in Nat
        BY <2>1, <4>1, ProcFacts
      <4> QED BY <3>2, <4>2 DEF Turns
    <3> QED BY <3>1, <3>2
  <2> QED BY <2>2
<1>2. T \subseteq Nat /\ T # {}
  BY <1>1
<1>3. PICK x \in T : \A y \in T : x <= y
  BY <1>2, Least
<1>4. PICK q \in R : x = Turns(q, from)
  BY <1>3
<1>5. \A r \in Proc : st[r] = "READY" => Turns(q, from) <= Turns(r, from)
  BY <1>3, <1>4
<1> QED BY <1>4, <1>5 DEF NextReady

-----------------------------------------------------------------------------
(* Ranks of slots. *)

(* The slots are finitely many naturals, so that sets of them are counted. *)
LEMMA SlotsFinite ==
  ASSUME NEW S \in SUBSET Slot
  PROVE  IsFiniteSet(S) /\ Cardinality(S) \in Nat /\ S \subseteq Nat
<1>1. 0 \in Int /\ NumSlots - 1 \in Int /\ Slot \subseteq Nat
  BY CapabilityAssumption DEF Slot
<1>2. IsFiniteSet(Slot)
  BY <1>1, FS_Interval DEF Slot
<1> QED BY <1>1, <1>2, FS_Subset, FS_CardinalityType

(* A nonempty set of slots has a last one. *)
LEMMA LastSlot ==
  ASSUME NEW S \in SUBSET Slot, S # {}
  PROVE  \E m \in S : \A r \in S : r <= m
<1> DEFINE T == {NumSlots - r : r \in S}
<1>1. \A r \in Slot : r \in Nat /\ NumSlots - r \in Nat
  BY CapabilityAssumption DEF Slot
<1>2. T \subseteq Nat /\ T # {}
  BY <1>1
<1>3. PICK x \in T : \A y \in T : x <= y
  BY <1>2, Least
<1>4. PICK m \in S : x = NumSlots - m
  BY <1>3
<1>5. ASSUME NEW r \in S PROVE r <= m
  <2>1. NumSlots - m <= NumSlots - r
    BY <1>3, <1>4
  <2>2. m \in Nat /\ r \in Nat /\ NumSlots \in Nat
    BY <1>1, CapabilityAssumption
  <2> QED BY <2>1, <2>2
<1> QED BY <1>5

(* Every number up to the size of a set of slots is the rank of one. *)
LEMMA RankTaken ==
  ASSUME NEW S \in SUBSET Slot, NEW n \in 1 .. Cardinality(S)
  PROVE  \E s \in S : RankIn(s, S) = n
<1> DEFINE Good(R) == \A i \in 1 .. Cardinality(R) : \E s \in R : RankIn(s, R) = i
           K == {k \in Nat : \A R \in SUBSET Slot : Cardinality(R) = k => Good(R)}
<1>1. 0 \in K
  OBVIOUS
<1>2. ASSUME NEW k \in Nat, k \in K PROVE k + 1 \in K
  <2> SUFFICES ASSUME NEW R \in SUBSET Slot, Cardinality(R) = k + 1, NEW i \in 1 .. k + 1
               PROVE  \E s \in R : RankIn(s, R) = i
    OBVIOUS
  <2>1. R # {}
    BY FS_EmptySet
  <2>2. PICK m \in R : \A r \in R : r <= m
    BY <2>1, LastSlot
  <2> DEFINE Q == R \ {m}
  <2>3. Q \in SUBSET Slot /\ Cardinality(Q) = k
    BY SlotsFinite, FS_RemoveElement
  <2>4. CASE i = k + 1
    <3>1. {r \in R : r <= m} = R
      BY <2>2
    <3> QED BY <2>4, <3>1 DEF RankIn
  <2>5. CASE i # k + 1
    <3>1. i \in 1 .. k
      BY <2>5
    <3>2. Good(Q)
      BY <1>2, <2>3
    <3>3. PICK s \in Q : RankIn(s, Q) = i
      BY <2>3, <3>1, <3>2
    <3>4. s \in Nat /\ m \in Nat /\ s <= m /\ s # m
      BY <2>2, SlotsFinite
    <3>5. {r \in R : r <= s} = {r \in Q : r <= s}
      BY <3>4
    <3> QED BY <3>3, <3>5 DEF RankIn
  <2> QED BY <2>4, <2>5
<1> HIDE DEF K
<1>3. Nat \subseteq K
  BY <1>1, <1>2, Induction
<1>4. Cardinality(S) \in K
  BY <1>3, SlotsFinite
<1> USE DEF K
<1>5. Good(S)
  BY <1>4
<1> QED BY <1>5

(* The n-th free slot of a set of them is in it and has rank n there.      *)
LEMMA NthFound ==
  ASSUME NEW S \in SUBSET Slot, NEW n \in 1 .. Cardinality(S)
  PROVE  NthOf(S, n) \in S /\ RankIn(NthOf(S, n), S) = n
BY RankTaken DEF NthOf

(* The rank of a slot in a set counts from one to the size of the set.     *)
LEMMA RankRange ==
  ASSUME NEW S \in SUBSET Slot, NEW s \in S
  PROVE  RankIn(s, S) \in 1 .. Cardinality(S)
<1> DEFINE R == {r \in S : r <= s}
<1>1. R \in SUBSET S /\ s \in R
  BY SlotsFinite
<1>2. IsFiniteSet(R) /\ Cardinality(R) \in Nat /\ Cardinality(R) <= Cardinality(S)
  BY <1>1, SlotsFinite, FS_Subset
<1>3. Cardinality(R) # 0
  BY <1>1, <1>2, FS_EmptySet
<1> QED BY <1>2, <1>3, SlotsFinite DEF RankIn

-----------------------------------------------------------------------------
(* Entries and positions. *)

(* Positions are pairs of a process and a slot, and none is the absent     *)
(* one.                                                                    *)
LEMMA PosFacts ==
  /\ NoPos \notin Pos
  /\ \A q \in Pos : q[1] \in Proc /\ q[2] \in Slot /\ q = <<q[1], q[2]>>
  /\ \A t \in Proc, s \in Slot : <<t, s>> \in Pos
  /\ \A t \in Proc, h \in Handle : <<t, h.slot>> \in Pos
BY CapabilityAssumption DEF Pos, NoPos, Proc, Handle

(* An entry that was cleared names nothing.                                *)
LEMMA BlankType ==
  ASSUME NEW g \in 0 .. MaxGen
  PROVE  /\ Blank(g) \in Entry
         /\ ~Blank(g).active /\ Blank(g).gen = g /\ Blank(g).object = NoObject
BY CapabilityAssumption DEF Blank, Entry, ParentRef, NoParent

(* Retiring an entry moves its generation on, or to zero once it wraps.    *)
LEMMA RetireType ==
  ASSUME NEW e \in Entry
  PROVE  /\ Retire(e) \in Entry
         /\ ~Retire(e).active /\ Retire(e).object = NoObject
         /\ Retire(e).gen = 0 \/ Retire(e).gen > e.gen
<1>1. e.gen \in 0 .. MaxGen
  BY DEF Entry
<1>2. NextGen(e.gen) \in 0 .. MaxGen /\ (NextGen(e.gen) = 0 \/ NextGen(e.gen) > e.gen)
  BY <1>1, CapabilityAssumption DEF NextGen
<1> QED
  BY <1>1, <1>2, BlankType DEF Retire

(* A minted entry is an entry.                                             *)
LEMMA MintedType ==
  ASSUME NEW e \in Entry, NEW object \in Object, NEW rights \in SUBSET Right,
         NEW depth \in 0 .. MaxDepth, NEW parent \in ParentRef
  PROVE  Minted(e, object, rights, depth, parent) \in Entry
BY DEF Minted, Entry

(* What a minted entry says: the generation stays, the rest is given.      *)
LEMMA MintedFields ==
  ASSUME NEW e, NEW object, NEW rights, NEW depth, NEW parent
  PROVE  /\ Minted(e, object, rights, depth, parent).active
         /\ Minted(e, object, rights, depth, parent).gen = e.gen
         /\ Minted(e, object, rights, depth, parent).object = object
         /\ Minted(e, object, rights, depth, parent).rights = rights
         /\ Minted(e, object, rights, depth, parent).parent = parent
BY DEF Minted

(* A root has no parent and depth zero.                                    *)
LEMMA RootType == NoParent \in ParentRef /\ 0 \in 0 .. MaxDepth
BY CapabilityAssumption DEF ParentRef, NoParent

(* The rights words that callers pass are sets of rights.                  *)
LEMMA RightsType ==
  /\ {SEND, RECV, TRANSFER, REVOKE} \in SUBSET Right
  /\ \A r \in RightsArg : r \in SUBSET Right
BY KernelAssumption

-----------------------------------------------------------------------------
(* The capability tables of the processes. *)

(* An active entry names an object under a valid generation, an inactive   *)
(* one names nothing, and the table of a reaped process is zeroed.         *)
EntryInv ==
  \A q \in Pos :
    /\ ent[q].active => ent[q].gen # 0 /\ ent[q].object # NoObject
    /\ ~ent[q].active => ent[q].object = NoObject
    /\ state[q[1]] = "UNUSED" => ~ent[q].active /\ ent[q].gen = 0

(* What a step may do to an entry: nothing, retire it, zero it with its    *)
(* whole table when the owner is reaped, or fill it.                       *)
Retired(q) == ent[q].active /\ ent'[q] = Retire(ent[q])

Reaped(q) ==
  state[q[1]] = "ZOMBIE" /\ state'[q[1]] = "UNUSED" /\ ent'[q] = Blank(0)

(* Where an entry that is filled comes from: it is a child of another one  *)
(* or a root, for a new endpoint or what its owner saved.                  *)
Derived(q) ==
  \E r \in Pos :
    /\ ent[r].active /\ ent'[q].object = ent[r].object /\ ent'[q].rights \subseteq ent[r].rights
    /\ r[1] = q[1] \/ TRANSFER \in ent[r].rights
    /\ ent'[q].parent.pos = r /\ ent'[q].parent.gen = ent[r].gen

Restored(q) ==
  \E i \in DOMAIN saved[q[1]] :
    /\ ent'[q].object = saved[q[1]][i].object
    /\ ent'[q].rights = saved[q[1]][i].rights

Filled(q) ==
  /\ ~ent[q].active /\ ent[q].gen # 0
  /\ ent'[q].active /\ ent'[q].gen = ent[q].gen /\ ent'[q].object \in Object
  /\ Derived(q) \/ (IsRoot(ent'[q]) /\ (ent'[q].object \in Endpoint \/ Restored(q)))

EntryStep(q) == ent'[q] = ent[q] \/ Retired(q) \/ Reaped(q) \/ Filled(q)

TablesStep ==
  /\ ent' \in [Pos -> Entry]
  /\ \A q \in Pos : EntryStep(q)
  /\ \A q \in Pos : state'[q[1]] = "UNUSED" => state[q[1]] = "UNUSED" \/ Reaped(q)

-----------------------------------------------------------------------------
(* What the scheduler does to the states it is given. *)

(* schedule_into_next leaves every process as it was, but for the one that *)
(* is dispatched and the one that had the CPU.                             *)
LEMMA ScheduleFacts ==
  ASSUME NEW st \in [Proc -> State], NEW from \in Proc \cup {NoProc},
         NEW an \in [Proc -> Answer], Schedule(st, from, an)
  PROVE  /\ state' \in [Proc -> State] /\ current' \in Proc \cup {NoProc}
         /\ answer' \in [Proc -> Answer]
         /\ \A q \in Proc :
              \/ state'[q] = st[q] /\ answer'[q] = an[q]
              \/ /\ st[q] = "READY" /\ state'[q] = "RUNNING"
                 /\ current' = q /\ answer'[q] = "none"
              \/ /\ q = from /\ st[q] = "RUNNING" /\ state'[q] = "READY"
                 /\ answer'[q] = an[q]
<1>1. CASE \E q \in Proc : st[q] = "READY"
  <2> DEFINE n == NextReady(st, from)
  <2>1. n \in Proc /\ st[n] = "READY"
    BY <1>1, NextReadyFound
  <2>2. /\ state' = [r \in Proc |-> IF r = n THEN "RUNNING"
                                    ELSE IF r = from /\ st[r] = "RUNNING" THEN "READY"
                                    ELSE st[r]]
        /\ current' = n
        /\ answer' = [an EXCEPT ![n] = "none"]
    BY <1>1 DEF Schedule
  <2> HIDE DEF n
  <2> QED BY <2>1, <2>2 DEF State, Answer
<1>2. CASE ~\E q \in Proc : st[q] = "READY"
  BY <1>2 DEF Schedule
<1> QED BY <1>1, <1>2

(* Giving up the CPU: the running process p enters state s.                *)
GivesUp(p, s) ==
  /\ Running(p)
  /\ Schedule([state EXCEPT ![p] = s], IF s = "ZOMBIE" THEN NoProc ELSE p, answer)

(* When p gives up the CPU every other process stays or is dispatched, and *)
(* p is in the state it entered or was dispatched again.                   *)
LEMMA GivesUpFacts ==
  ASSUME TypeOK, NEW p \in Proc, NEW s \in State, GivesUp(p, s)
  PROVE  /\ state' \in [Proc -> State] /\ current' \in Proc \cup {NoProc}
         /\ answer' \in [Proc -> Answer]
         /\ \A q \in Proc \ {p} : \/ state'[q] = state[q] /\ answer'[q] = answer[q]
                                  \/ /\ state[q] = "READY" /\ state'[q] = "RUNNING"
                                     /\ answer'[q] = "none"
         /\ \/ state'[p] = s /\ answer'[p] = answer[p]
            \/ s \in {"READY", "RUNNING"} /\ state'[p] \in {"READY", "RUNNING"}
               /\ answer'[p] \in {answer[p], "none"}
<1> DEFINE st == [state EXCEPT ![p] = s]
           from == IF s = "ZOMBIE" THEN NoProc ELSE p
<1>1. st \in [Proc -> State] /\ answer \in [Proc -> Answer]
  BY DEF TypeOK
<1>2. from \in {p, NoProc} /\ Schedule(st, from, answer)
  BY DEF GivesUp
<1>3. st[p] = s /\ \A q \in Proc : q # p => st[q] = state[q]
  BY DEF TypeOK
<1>4. from \in Proc \cup {NoProc} /\ NoProc \notin Proc
  BY ProcFacts
<1> HIDE DEF st, from
<1>5. /\ state' \in [Proc -> State] /\ current' \in Proc \cup {NoProc}
      /\ answer' \in [Proc -> Answer]
      /\ \A q \in Proc :
              \/ state'[q] = st[q] /\ answer'[q] = answer[q]
              \/ /\ st[q] = "READY" /\ state'[q] = "RUNNING"
                 /\ current' = q /\ answer'[q] = "none"
              \/ /\ q = from /\ st[q] = "RUNNING" /\ state'[q] = "READY"
                 /\ answer'[q] = answer[q]
  BY <1>1, <1>2, <1>4, ScheduleFacts
<1> QED BY <1>2, <1>3, <1>4, <1>5

-----------------------------------------------------------------------------
(* Every variable keeps its type. *)

(* What is saved of an exiting process are capabilities it holds. *)
LEMMA SnapshotFacts ==
  ASSUME TypeOK, EntryInv, NEW p \in Proc
  PROVE  /\ Snapshot(p) \in Seq(Descriptor)
         /\ \A i \in DOMAIN Snapshot(p) :
              \E s \in Slot : /\ ent[<<p, s>>].active
                              /\ Snapshot(p)[i].object = ent[<<p, s>>].object
                              /\ Snapshot(p)[i].rights = ent[<<p, s>>].rights
<1> DEFINE held == {s \in Slot : ent[<<p, s>>].active}
           n == IF Cardinality(held) < RestartCaps THEN Cardinality(held) ELSE RestartCaps
           item(i) == [object |-> ent[<<p, NthOf(held, i)>>].object,
                       rights |-> ent[<<p, NthOf(held, i)>>].rights]
<1>1. Snapshot(p) = [i \in 1 .. n |-> item(i)]
  BY DEF Snapshot
<1>2. held \in SUBSET Slot
  OBVIOUS
<1>3. n \in Nat /\ n <= Cardinality(held)
  <2>1. Cardinality(held) \in Nat /\ RestartCaps \in Nat
    BY <1>2, SlotsFinite, KernelAssumption
  <2> HIDE DEF held
  <2> QED BY <2>1
<1>4. ASSUME NEW i \in 1 .. n
      PROVE  /\ item(i) \in Descriptor
             /\ \E s \in Slot : /\ ent[<<p, s>>].active
                                /\ item(i).object = ent[<<p, s>>].object
                                /\ item(i).rights = ent[<<p, s>>].rights
  <2> DEFINE s == NthOf(held, i)
  <2>1. i \in 1 .. Cardinality(held)
    <3>1. Cardinality(held) \in Nat
      BY <1>2, SlotsFinite
    <3> HIDE DEF held, n
    <3> QED BY <1>3, <3>1
  <2>2. s \in held
    BY <1>2, <2>1, NthFound
  <2> HIDE DEF s
  <2>3. <<p, s>> \in Pos /\ ent[<<p, s>>].active
    BY <2>2, PosFacts
  <2>4. ent[<<p, s>>] \in Entry /\ ent[<<p, s>>].object # NoObject
    BY <2>3 DEF TypeOK, EntryInv
  <2>5. ent[<<p, s>>].object \in Object /\ ent[<<p, s>>].rights \in SUBSET Right
    BY <2>4 DEF Entry
  <2>6. item(i) = [object |-> ent[<<p, s>>].object, rights |-> ent[<<p, s>>].rights]
    BY DEF s
  <2> HIDE DEF item
  <2> QED BY <2>2, <2>3, <2>5, <2>6 DEF Descriptor
<1> HIDE DEF item, n
<1>5. Snapshot(p) \in [1 .. n -> Descriptor]
  BY <1>1, <1>4
<1>6. Snapshot(p) \in Seq(Descriptor)
  BY <1>3, <1>5
<1> QED BY ZenonT(30), <1>1, <1>4, <1>6

(* Ending receives leaves blocked receives.                                *)
LEMMA WaitWithoutType ==
  ASSUME TypeOK, NEW Gone
  PROVE  WaitWithout(Gone) \in [Proc -> Waiting \cup {NotWaiting}]
<1>1. ASSUME NEW w \in Waiting \cup {NotWaiting}, NEW Q
      PROVE  [w EXCEPT !.ahead = @ \ Q] \in Waiting \cup {NotWaiting}
  <2>1. CASE w \in Waiting
    BY <2>1 DEF Waiting
  <2>2. CASE w = NotWaiting
    <3>1. w.ahead \ Q = {}
      BY <2>2 DEF NotWaiting
    <3>2. [w EXCEPT !.ahead = @ \ Q] = w
      BY <2>2, <3>1 DEF NotWaiting
    <3> QED BY <3>2
  <2> QED BY <2>1, <2>2
<1> QED BY <1>1 DEF WaitWithout, TypeOK

(* The variables other than the tables. *)
ProcessesTyped ==
  /\ state \in [Proc -> State]
  /\ current \in Proc \cup {NoProc}
  /\ pausedFlag \in [Proc -> BOOLEAN]
  /\ wait \in [Proc -> Waiting \cup {NotWaiting}]
  /\ answer \in [Proc -> Answer]
  /\ saved \in [Proc -> Seq(Descriptor)]
  /\ paused \in BOOLEAN
  /\ mode \in [Endpoint -> {"free", "open", "closed"}]
  /\ queued \in [Endpoint -> 0 .. QueueCap]

(* Only a reap makes an entry of the process table unused. *)
UnusedOnlyByReap ==
  \A q \in Proc : state'[q] = "UNUSED" =>
    state[q] = "UNUSED" \/ (state[q] = "ZOMBIE" /\ ent' = Wiped(ent, q))

(* A handle that names an endpoint names one in use.                       *)
LEMMA NamesFacts ==
  ASSUME TypeOK, NEW p, NEW h, NEW right, Names(p, h, right)
  PROVE  ObjectOf(p, h) \in Endpoint /\ mode[ObjectOf(p, h)] \in {"open", "closed"}
BY DEF Names, TypeOK

(* Every step keeps the types of the process table, and frees an entry of  *)
(* it only by reaping a zombie.                                            *)
LEMMA ProcessesStep ==
  ASSUME TypeOK, EntryInv, Next
  PROVE  ProcessesTyped' /\ UnusedOnlyByReap
<1> DEFINE Goal == ProcessesTyped' /\ UnusedOnlyByReap
<1> SUFFICES Goal
  OBVIOUS
<1> HIDE DEF Goal
<1>types. ProcessesTyped
  BY DEF TypeOK, ProcessesTyped
<1>a. ASSUME NEW p \in Proc, NEW s \in State \ {"UNUSED"}, GivesUp(p, s),
             UNCHANGED <<pausedFlag, ipcVars, paused>>,
             wait' \in [Proc -> Waiting \cup {NotWaiting}], saved' \in [Proc -> Seq(Descriptor)]
      PROVE  Goal
  <2>1. state[p] # "UNUSED"
    BY <1>a DEF GivesUp, Running
  <2> QED BY <1>a, <1>types, <2>1, GivesUpFacts DEF Goal, ProcessesTyped, UnusedOnlyByReap, ipcVars
<1>b. ASSUME UNCHANGED procVars, UNCHANGED paused,
             mode' \in [Endpoint -> {"free", "open", "closed"}],
             queued' \in [Endpoint -> 0 .. QueueCap]
      PROVE  Goal
  BY <1>b, <1>types DEF Goal, procVars, ProcessesTyped, UnusedOnlyByReap
<1>c. ASSUME NEW reply, \A q \in DOMAIN reply : reply[q] \in Answer, Wake(reply),
             UNCHANGED <<current, pausedFlag, saved, paused>>,
             mode' \in [Endpoint -> {"free", "open", "closed"}],
             queued' \in [Endpoint -> 0 .. QueueCap]
      PROVE  Goal
  <2>1. state' \in [Proc -> State] /\ answer' \in [Proc -> Answer]
    BY <1>c, <1>types DEF Wake, ProcessesTyped, State
  <2>2. wait' \in [Proc -> Waiting \cup {NotWaiting}]
    BY <1>c, WaitWithoutType DEF Wake
  <2>3. \A q \in Proc : state'[q] = "UNUSED" => state[q] = "UNUSED"
    BY <1>c DEF Wake
  <2> QED BY <1>c, <1>types, <2>1, <2>2, <2>3 DEF Goal, ProcessesTyped, UnusedOnlyByReap
<1>d. ASSUME NEW S, Terminated(S), UNCHANGED <<current, pausedFlag, saved, ipcVars, paused>>
      PROVE  Goal
  <2>1. state' \in [Proc -> State] /\ answer' \in [Proc -> Answer]
    BY <1>d, <1>types DEF Terminated, ProcessesTyped, State, Answer
  <2>2. wait' \in [Proc -> Waiting \cup {NotWaiting}]
    BY <1>d, WaitWithoutType DEF Terminated
  <2>3. \A q \in Proc : state'[q] = "UNUSED" => state[q] = "UNUSED"
    BY <1>d DEF Terminated
  <2> QED BY <1>d, <1>types, <2>1, <2>2, <2>3 DEF Goal, ProcessesTyped, UnusedOnlyByReap, ipcVars
<1>e. ASSUME NEW S, NEW r \in Answer, Wake(Each(S, r)),
             UNCHANGED <<current, pausedFlag, saved, paused>>,
             mode' \in [Endpoint -> {"free", "open", "closed"}],
             queued' \in [Endpoint -> 0 .. QueueCap]
      PROVE  Goal
  <2>1. \A q \in DOMAIN Each(S, r) : Each(S, r)[q] \in Answer
    BY DEF Each
  <2> QED BY <1>c, <1>e, <2>1
<1>ans. {"none", "message", "denied", "cancelled"} = Answer
  BY DEF Answer
<1>1. ASSUME NEW p \in Proc, Preempt(p) PROVE Goal
  <2>1. [state EXCEPT ![p] = "RUNNING"] = state
    BY <1>1, <1>types DEF Preempt, Running, ProcessesTyped
  <2>2. GivesUp(p, "RUNNING")
    BY <1>1, <2>1 DEF Preempt, GivesUp
  <2> QED BY <1>1, <1>a, <1>types, <2>2 DEF Preempt, ProcessesTyped, State
<1>2. ASSUME NEW p \in Proc, Yield(p) PROVE Goal
  <2>2. GivesUp(p, "READY")
    BY <1>2 DEF Yield, GivesUp
  <2> QED BY <1>2, <1>a, <1>types, <2>2 DEF Yield, ProcessesTyped, State
<1>3. ASSUME NEW p \in Proc, NEW h \in Handle, IpcCreate(p, h) PROVE Goal
  <2>1. 0 \in 0 .. QueueCap
    BY KernelAssumption
  <2> QED BY <1>3, <1>b, <1>types, <2>1 DEF IpcCreate, ProcessesTyped
<1>4. ASSUME NEW p \in Proc, NEW h \in Handle, IpcDestroy(p, h) PROVE Goal
  <2>1. 0 \in 0 .. QueueCap
    BY KernelAssumption
  <2> QED BY <1>4, <1>e, <1>types, <1>ans, <2>1 DEF IpcDestroy, ProcessesTyped
<1>5. ASSUME NEW p \in Proc, NEW h \in Handle, IpcClose(p, h) PROVE Goal
  BY <1>5, <1>e, <1>types, <1>ans DEF IpcClose, ProcessesTyped
<1>6. ASSUME NEW p \in Proc, NEW h \in Handle, IpcCall(p, h) PROVE Goal
  <2> DEFINE o == ObjectOf(p, h)
  <2>1. o \in Endpoint
    BY <1>6, NamesFacts DEF IpcCall
  <2>2. CASE /\ Able(o) = {}
             /\ Wake(Each(Receivers(o), "denied"))
             /\ queued' = IF HasRoom(o) THEN [queued EXCEPT ![o] = @ + 1] ELSE queued
    <3>1. HasRoom(o) => queued[o] + 1 \in 0 .. QueueCap
      BY <1>types, <2>1, KernelAssumption DEF HasRoom, ProcessesTyped
    <3>2. queued' \in [Endpoint -> 0 .. QueueCap]
      BY <1>types, <2>1, <2>2, <3>1 DEF ProcessesTyped
    <3> QED BY <1>6, <1>e, <1>types, <1>ans, <2>2, <3>2 DEF IpcCall, ProcessesTyped
  <2>3. CASE \E served \in Able(o) :
               /\ wait[served].ahead \cap Able(o) = {}
               /\ Wake([q \in {served} \cup (Receivers(o) \cap wait[served].ahead) |->
                          IF q = served THEN "message" ELSE "denied"])
               /\ UNCHANGED queued
    <3>1. PICK served \in Able(o) :
               /\ Wake([q \in {served} \cup (Receivers(o) \cap wait[served].ahead) |->
                          IF q = served THEN "message" ELSE "denied"])
               /\ UNCHANGED queued
      BY <2>3
    <3> DEFINE reply == [q \in {served} \cup (Receivers(o) \cap wait[served].ahead) |->
                          IF q = served THEN "message" ELSE "denied"]
    <3>2. \A q \in DOMAIN reply : reply[q] \in Answer
      BY <1>ans
    <3> HIDE DEF reply
    <3>3. Wake(reply)
      BY <3>1 DEF reply
    <3> QED BY <1>6, <1>c, <1>types, <3>1, <3>2, <3>3 DEF IpcCall, ProcessesTyped
  <2> QED BY <1>6, <2>2, <2>3 DEF IpcCall
<1>7. ASSUME NEW p \in Proc, NEW h \in Handle, IpcRecv(p, h) PROVE Goal
  <2> DEFINE o == ObjectOf(p, h)
  <2>1. o \in Endpoint
    BY <1>7, NamesFacts DEF IpcRecv
  <2>2. queued' \in [Endpoint -> 0 .. QueueCap]
    BY <1>7, <1>types, <2>1, KernelAssumption DEF IpcRecv, Take, ProcessesTyped
  <2> QED BY <1>7, <1>b, <1>types, <2>2 DEF IpcRecv, ProcessesTyped
<1>8. ASSUME NEW p \in Proc, NEW h \in Handle, IpcRecvWait(p, h) PROVE Goal
  <2> DEFINE o == ObjectOf(p, h)
  <2>1. o \in Endpoint
    BY <1>8, NamesFacts DEF IpcRecvWait
  <2>2. CASE Take(o) /\ UNCHANGED procVars
    <3>1. queued' \in [Endpoint -> 0 .. QueueCap]
      BY <1>types, <2>1, <2>2, KernelAssumption DEF Take, ProcessesTyped
    <3> QED BY <1>8, <1>b, <1>types, <2>2, <3>1 DEF IpcRecvWait, ProcessesTyped
  <2>3. CASE /\ wait' = [wait EXCEPT ![p] =
                          [object |-> o, handle |-> h,
                           ahead |-> {q \in Proc : state[q] = "BLOCKED"}]]
             /\ Schedule([state EXCEPT ![p] = "BLOCKED"], p, answer)
             /\ UNCHANGED <<pausedFlag, saved, queued>>
    <3>1. wait' \in [Proc -> Waiting \cup {NotWaiting}]
      BY <1>types, <2>1, <2>3 DEF ProcessesTyped, Waiting
    <3>2. GivesUp(p, "BLOCKED")
      BY <1>8, <2>3 DEF IpcRecvWait, GivesUp
    <3> QED BY <1>8, <1>a, <1>types, <2>3, <3>1, <3>2
            DEF IpcRecvWait, ProcessesTyped, State, ipcVars
  <2> QED BY <1>8, <2>2, <2>3 DEF IpcRecvWait
<1>9. ASSUME NEW p \in Proc, NEW q \in Proc, IpcCancel(p, q) PROVE Goal
  BY <1>9, <1>e, <1>types, <1>ans DEF IpcCancel, ProcessesTyped, ipcVars
<1>10. ASSUME NEW p \in Proc, NEW h \in Handle, NEW rights \in RightsArg, CapRestrict(p, h, rights)
       PROVE Goal
  BY <1>10, <1>b, <1>types DEF CapRestrict, ProcessesTyped, ipcVars
<1>11. ASSUME NEW p \in Proc, NEW h \in Handle, NEW q \in Proc, NEW rights \in RightsArg,
              CapTransfer(p, h, q, rights)
       PROVE Goal
  BY <1>11, <1>b, <1>types DEF CapTransfer, ProcessesTyped, ipcVars
<1>12. ASSUME NEW p \in Proc, NEW h \in Handle, CapRevoke(p, h) PROVE Goal
  BY <1>12, <1>b, <1>types DEF CapRevoke, ProcessesTyped, ipcVars
<1>13. ASSUME NEW p \in Proc, Exit(p) PROVE Goal
  <2>1. GivesUp(p, "ZOMBIE")
    BY <1>13 DEF Exit, GivesUp
  <2>2. saved' \in [Proc -> Seq(Descriptor)]
    BY <1>13, <1>types, SnapshotFacts DEF Exit, ProcessesTyped
  <2> QED BY <1>13, <1>a, <1>types, <2>1, <2>2 DEF Exit, ProcessesTyped, State
<1>14. ASSUME NEW p \in Proc, Fault(p) PROVE Goal
  <2>1. GivesUp(p, "ZOMBIE")
    BY <1>14 DEF Fault, GivesUp
  <2> QED BY <1>14, <1>a, <1>types, <2>1 DEF Fault, ProcessesTyped, State
<1>15. ASSUME NEW p \in Proc, NEW q \in Proc, Kill(p, q) PROVE Goal
  BY <1>15, <1>d DEF Kill
<1>16. ASSUME NEW p \in Proc, NEW g, GroupTerminate(p, g) PROVE Goal
  BY <1>16, <1>d DEF GroupTerminate
<1>17. ASSUME NEW p \in Proc, NEW g, GroupTerminateTree(p, g) PROVE Goal
  BY <1>17, <1>d DEF GroupTerminateTree
<1>18. ASSUME NEW p \in Proc, NEW g, NEW from \in State,
              NEW to \in State \ {"UNUSED"}, Transition(p, g, from, to)
       PROVE Goal
  BY <1>18, <1>types DEF Goal, Transition, ProcessesTyped, UnusedOnlyByReap, ipcVars
<1>19. ASSUME NEW p \in Proc, NEW q \in Proc, Restart(p, q) PROVE Goal
  <2>1. \/ saved' = [saved EXCEPT ![q] = <<>>] /\ state' = [state EXCEPT ![q] = "READY"]
        \/ UNCHANGED <<saved, state>>
    BY <1>19 DEF Restart
  <2>2. UNCHANGED <<current, pausedFlag, wait, answer, ipcVars, paused>>
    BY <1>19 DEF Restart
  <2>3. <<>> \in Seq(Descriptor) /\ "READY" \in State
    BY DEF State
  <2>4. state' \in [Proc -> State] /\ saved' \in [Proc -> Seq(Descriptor)]
    BY <1>types, <2>1, <2>3 DEF ProcessesTyped
  <2> QED BY <1>types, <2>1, <2>2, <2>4 DEF Goal, ProcessesTyped, UnusedOnlyByReap, ipcVars
<1>20. ASSUME NEW p \in Proc, NEW q \in Proc, Reap(p, q) PROVE Goal
  BY <1>20, <1>types DEF Goal, Reap, ProcessesTyped, UnusedOnlyByReap, ipcVars, State
<1>21. ASSUME NEW p \in Proc, NEW h \in Handle, EmergencyPause(p, h) PROVE Goal
  <2>1. wait' \in [Proc -> Waiting \cup {NotWaiting}]
    BY <1>21, WaitWithoutType DEF EmergencyPause
  <2> QED BY <1>21, <1>types, <2>1
          DEF Goal, EmergencyPause, ProcessesTyped, UnusedOnlyByReap, ipcVars, State, Answer
<1>22. ASSUME NEW p \in Proc, NEW h \in Handle, EmergencyResume(p, h) PROVE Goal
  BY <1>22, <1>types DEF Goal, EmergencyResume, ProcessesTyped, UnusedOnlyByReap, ipcVars, State
<1>scheduler. CASE SchedulerStep
  BY <1>scheduler, <1>1, <1>2 DEF SchedulerStep
<1>ipc. CASE IpcStep
  BY <1>ipc, <1>3, <1>4, <1>5, <1>6, <1>7, <1>8, <1>9 DEF IpcStep
<1>cap. CASE CapStep
  BY <1>cap, <1>10, <1>11, <1>12 DEF CapStep
<1>life. CASE LifeStep
  BY <1>life, <1>13, <1>14, <1>15, <1>16, <1>17, <1>18, <1>19, <1>20
     DEF LifeStep, GroupFreeze, GroupResume, State
<1>policy. CASE PolicyStep
  BY <1>policy, <1>21, <1>22 DEF PolicyStep
<1> QED BY <1>scheduler, <1>ipc, <1>cap, <1>life, <1>policy DEF Next

(* How a step changes the tables.                                          *)
LEMMA RetireEntries ==
  ASSUME TypeOK, NEW D \in SUBSET {q \in Pos : ent[q].active}, ent' = RetireWhere(ent, D)
  PROVE  /\ ent' \in [Pos -> Entry]
         /\ \A q \in Pos : ent'[q] = ent[q] \/ Retired(q)
<1>1. ent' = [q \in Pos |-> IF q \in D THEN Retire(ent[q]) ELSE ent[q]]
  BY DEF RetireWhere
<1>2. \A q \in Pos : ent[q] \in Entry
  BY DEF TypeOK
<1> QED BY <1>1, <1>2, RetireType DEF Retired

(* Minting fills a free slot with the given words and leaves the others.   *)
LEMMA MintEntry ==
  ASSUME TypeOK, NEW q \in Pos, ~ent[q].active, ent[q].gen # 0,
         NEW object \in Object, NEW rights \in SUBSET Right,
         NEW depth \in 0 .. MaxDepth, NEW parent \in ParentRef,
         ent' = [ent EXCEPT ![q] = Minted(ent[q], object, rights, depth, parent)]
  PROVE  /\ ent' \in [Pos -> Entry]
         /\ \A r \in Pos : r # q => ent'[r] = ent[r]
         /\ ent'[q] = Minted(ent[q], object, rights, depth, parent)
<1> DEFINE m == Minted(ent[q], object, rights, depth, parent)
<1>1. ent[q] \in Entry
  BY DEF TypeOK
<1>2. m \in Entry
  BY <1>1, MintedType
<1> HIDE DEF m
<1>3. ent' = [ent EXCEPT ![q] = m]
  BY DEF m
<1>4. /\ ent' \in [Pos -> Entry]
      /\ \A r \in Pos : r # q => ent'[r] = ent[r]
      /\ ent'[q] = m
  BY <1>2, <1>3 DEF TypeOK
<1> QED BY <1>4 DEF m

(* A derivation fills a slot from an entry that has the rights.            *)
LEMMA DeriveEntry ==
  ASSUME TypeOK, EntryInv, NEW p \in Proc, NEW h \in Handle, NEW t \in Proc, NEW s \in Slot,
         NEW rights \in RightsArg, MayDerive(incn, ent, p, h, rights),
         p = t \/ TRANSFER \in ent[<<p, h.slot>>].rights,
         IsFirstFree(ent, t, s),
         ent' = MintChild(incn, ent, p, h, t, s, rights)
  PROVE  /\ ent' \in [Pos -> Entry]
         /\ \A q \in Pos : ent'[q] = ent[q] \/ Filled(q)
<1> DEFINE src == <<p, h.slot>>
           q == <<t, s>>
           e == ent[src]
           ref == RefTo(incn, p, h)
           o == e.object
           d == e.depth + 1
<1>1. src \in Pos /\ q \in Pos /\ src[1] = p /\ q[1] = t /\ h.gen \in 0 .. MaxGen
  BY PosFacts DEF Handle
<1>2. e \in Entry /\ ~ent[q].active /\ ent[q].gen # 0
  BY <1>1 DEF TypeOK, IsFirstFree, Free
<1>3. e.active /\ rights \subseteq e.rights /\ e.depth + 1 <= MaxDepth /\ e.gen = h.gen
  BY DEF MayDerive, Valid
<1>4. o \in Object /\ d \in 0 .. MaxDepth
  BY <1>1, <1>2, <1>3, CapabilityAssumption DEF Entry, EntryInv
<1>5. ref \in ParentRef
  <2>1. incn[p] \in Nat
    BY ProcFacts DEF incn, Incarnation
  <2> QED BY <1>1, <2>1 DEF RefTo, ParentRef
<1>6. rights \in SUBSET Right
  BY RightsType
<1>7. ent' = [ent EXCEPT ![q] = Minted(ent[q], o, rights, d, ref)]
  BY DEF MintChild
<1>8. /\ q \in Pos /\ ~ent[q].active /\ ent[q].gen # 0
      /\ o \in Object /\ d \in 0 .. MaxDepth /\ ref \in ParentRef
      /\ rights \in SUBSET Right
      /\ ent' = [ent EXCEPT ![q] = Minted(ent[q], o, rights, d, ref)]
  BY <1>1, <1>2, <1>4, <1>5, <1>6, <1>7
<1> HIDE DEF src, q, e, o, d, ref
<1>10. /\ ent' \in [Pos -> Entry]
       /\ \A r \in Pos : r # q => ent'[r] = ent[r]
       /\ ent'[q].active /\ ent'[q].gen = ent[q].gen
       /\ ent'[q].object = o /\ ent'[q].rights = rights /\ ent'[q].parent = ref
  <2>1. /\ ent' \in [Pos -> Entry]
        /\ \A r \in Pos : r # q => ent'[r] = ent[r]
        /\ ent'[q] = Minted(ent[q], o, rights, d, ref)
    BY <1>8, MintEntry
  <2> QED BY <2>1, MintedFields
<1>9. Derived(q)
  <2>1. ref.pos = src /\ ref.gen = h.gen
    BY DEF ref, src, RefTo
  <2> QED BY <1>1, <1>3, <1>10, <2>1 DEF Derived, o, e, src, q
<1> QED BY <1>8, <1>9, <1>10 DEF Filled

(* A restart fills free slots with what was saved.                         *)
LEMMA RestartEntries ==
  ASSUME TypeOK, NEW p, NEW t \in Proc, Restart(p, t)
  PROVE  /\ ent' \in [Pos -> Entry]
         /\ \A q \in Pos : ent'[q] = ent[q] \/ Filled(q)
<1> DEFINE free == Free(ent, t)
           wanted == Len(saved[t])
           hit(q) == q[1] = t /\ q[2] \in free /\ RankIn(q[2], free) <= wanted
           item(q) == saved[t][RankIn(q[2], free)]
           m(q) == Minted(ent[q], item(q).object, item(q).rights, 0, NoParent)
<1>1. ent' = [q \in Pos |-> IF hit(q) THEN m(q) ELSE ent[q]]
  BY DEF Restart
<1>2. free \in SUBSET Slot
  BY DEF Free
<1>3. saved[t] \in Seq(Descriptor) /\ wanted \in Nat
  BY DEF TypeOK
<1>4. ASSUME NEW q \in Pos, hit(q)
      PROVE  /\ m(q) \in Entry /\ m(q).active /\ m(q).gen = ent[q].gen
             /\ RankIn(q[2], free) \in DOMAIN saved[t]
             /\ item(q).object \in Object
             /\ m(q).object = item(q).object /\ m(q).rights = item(q).rights
             /\ IsRoot(m(q))
             /\ ~ent[q].active /\ ent[q].gen # 0
  <2> DEFINE i == RankIn(q[2], free)
  <2>1. i \in 1 .. Cardinality(free) /\ Cardinality(free) \in Nat
    BY <1>2, <1>4, RankRange, SlotsFinite
  <2>2. i <= wanted
    BY <1>4
  <2>3. i \in 1 .. wanted
    <3> HIDE DEF i, wanted, free
    <3> QED BY <1>3, <2>1, <2>2
  <2>4. i \in DOMAIN saved[t] /\ item(q) \in Descriptor
    BY <1>3, <2>3
  <2>5. item(q).object \in Object /\ item(q).rights \in SUBSET Right
    BY <2>4 DEF Descriptor
  <2>6. ent[q] \in Entry
    BY DEF TypeOK
  <2>7. ~ent[q].active /\ ent[q].gen # 0
    BY <1>4, PosFacts DEF Free
  <2>8. m(q).parent = NoParent
    BY MintedFields
  <2>9. IsRoot(m(q))
    <3> HIDE DEF m
    <3> QED BY <2>8 DEF IsRoot, NoParent
  <2> QED BY <2>4, <2>5, <2>6, <2>7, <2>9, MintedType, MintedFields, RootType
<1> HIDE DEF m, item, hit
<1>5. ASSUME NEW q \in Pos PROVE ent'[q] = ent[q] \/ Filled(q)
  <2>1. CASE ~hit(q)
    BY <1>1, <2>1
  <2>2. CASE hit(q)
    <3>1. q[1] = t
      BY <2>2 DEF hit
    <3>2. Restored(q)
      BY <1>1, <1>4, <2>2, <3>1 DEF Restored, item
    <3> QED BY <1>1, <1>4, <2>2, <3>1, <3>2 DEF Filled
  <2> QED BY <2>1, <2>2
<1>6. \A q \in Pos : ent'[q] \in Entry
  BY <1>1, <1>4 DEF TypeOK
<1> QED BY <1>1, <1>5, <1>6

(* Every step changes each capability entry in one of the four ways above. *)
LEMMA TablesStepOfNext ==
  ASSUME TypeOK, EntryInv, Next
  PROVE  TablesStep
<1>1. UnusedOnlyByReap
  BY ProcessesStep
<1> DEFINE Goal == /\ ent' \in [Pos -> Entry]
                   /\ \A q \in Pos : EntryStep(q)
<1> SUFFICES Goal
  <2>1. \A q \in Pos : q[1] \in Proc
    BY PosFacts
  <2>2. \A q \in Pos : state'[q[1]] = "UNUSED" => state[q[1]] = "UNUSED" \/ Reaped(q)
    BY <1>1, <2>1 DEF UnusedOnlyByReap, Reaped, Wiped
  <2> QED BY <2>2 DEF TablesStep
<1> HIDE DEF Goal
<1>2. ASSUME ent' = ent PROVE Goal
  BY <1>2 DEF Goal, EntryStep, TypeOK
<1>3. ASSUME NEW D \in SUBSET {q \in Pos : ent[q].active}, ent' = RetireWhere(ent, D) PROVE Goal
  BY <1>3, RetireEntries DEF Goal, EntryStep
<1>4. \A t \in Proc : ActiveIn(ent, t) \in SUBSET {q \in Pos : ent[q].active}
  BY DEF ActiveIn
<1>5. ASSUME NEW p \in Proc, NEW h \in Handle, IpcCreate(p, h) PROVE Goal
  <2>1. PICK o \in Endpoint, s \in Slot :
          IsFirstFree(ent, p, s) /\ ent' = MintRoot(ent, p, s, o, {SEND, RECV, TRANSFER, REVOKE})
    BY <1>5 DEF IpcCreate
  <2> DEFINE q == <<p, s>>
             rights == {SEND, RECV, TRANSFER, REVOKE}
  <2>2. q \in Pos /\ ~ent[q].active /\ ent[q].gen # 0
    BY <2>1, PosFacts DEF IsFirstFree, Free
  <2>3. rights \in SUBSET Right /\ o \in Object
    BY RightsType, ProcFacts
  <2>4. ent' = [ent EXCEPT ![q] = Minted(ent[q], o, rights, 0, NoParent)]
    BY <2>1 DEF MintRoot
  <2> HIDE DEF q, rights
  <2>5. /\ ent' \in [Pos -> Entry]
        /\ \A r \in Pos : r # q => ent'[r] = ent[r]
        /\ ent'[q] = Minted(ent[q], o, rights, 0, NoParent)
    BY <2>2, <2>3, <2>4, RootType, MintEntry
  <2>6. /\ ent'[q].active /\ ent'[q].gen = ent[q].gen
        /\ ent'[q].object = o /\ IsRoot(ent'[q])
    BY <2>5, MintedFields DEF IsRoot, NoParent
  <2>7. Filled(q)
    BY <2>2, <2>3, <2>6 DEF Filled
  <2> QED BY <2>5, <2>7 DEF Goal, EntryStep
<1>6. ASSUME NEW p \in Proc, NEW h \in Handle, IpcDestroy(p, h) PROVE Goal
  <2> DEFINE D == UNION {Naming(ent, q, ObjectOf(p, h)) : q \in TablesInUse}
  <2>1. D \in SUBSET {q \in Pos : ent[q].active}
    BY DEF Naming, ActiveIn
  <2>2. ent' = RetireWhere(ent, D)
    BY <1>6 DEF IpcDestroy
  <2> QED BY <1>3, <2>1, <2>2
<1>7. ASSUME NEW p \in Proc, NEW h \in Handle, NEW rights \in RightsArg, CapRestrict(p, h, rights)
      PROVE Goal
  BY <1>7, DeriveEntry DEF CapRestrict, Goal, EntryStep
<1>8. ASSUME NEW p \in Proc, NEW h \in Handle, NEW q \in Proc, NEW rights \in RightsArg,
              CapTransfer(p, h, q, rights)
       PROVE Goal
  BY <1>8, DeriveEntry DEF CapTransfer, MayTransfer, Goal, EntryStep
<1>9. ASSUME NEW p \in Proc, NEW h \in Handle, CapRevoke(p, h) PROVE Goal
  <2> DEFINE q == <<p, h.slot>>
  <2>1. q \in Pos /\ ent[q].active
    BY <1>9, PosFacts DEF CapRevoke, Permits, Valid
  <2>2. ent' = RetireWhere(ent, {q})
    BY <1>9, <2>1 DEF CapRevoke, RetireWhere, TypeOK
  <2> QED BY <1>3, <2>1, <2>2
<1>10. ASSUME NEW p \in Proc, Exit(p) PROVE Goal
  BY <1>3, <1>4, <1>10 DEF Exit
<1>11. ASSUME NEW p \in Proc, NEW q \in Proc, Kill(p, q) PROVE Goal
  BY <1>3, <1>4, <1>11 DEF Kill
<1>12. ASSUME NEW p \in Proc, NEW q \in Proc, Restart(p, q) PROVE Goal
  BY <1>12, RestartEntries DEF Goal, EntryStep
<1>13. ASSUME NEW p \in Proc, NEW t \in Proc, Reap(p, t) PROVE Goal
  <2>1. state[t] = "ZOMBIE" /\ state'[t] = "UNUSED" /\ ent' = Wiped(ent, t)
    BY <1>13 DEF Reap, TypeOK
  <2>2. 0 \in 0 .. MaxGen
    BY CapabilityAssumption
  <2>3. Blank(0) \in Entry
    BY <2>2, BlankType
  <2> QED BY <2>1, <2>3 DEF Goal, EntryStep, Reaped, Wiped, TypeOK
<1>scheduler. CASE SchedulerStep
  BY <1>scheduler, <1>2 DEF SchedulerStep, Preempt, Yield
<1>ipc. CASE IpcStep
  BY ZenonT(30), <1>ipc, <1>2, <1>5, <1>6 DEF IpcStep, IpcClose, IpcCall, IpcRecv, IpcRecvWait, IpcCancel
<1>cap. CASE CapStep
  BY <1>cap, <1>7, <1>8, <1>9 DEF CapStep
<1>life. CASE LifeStep
  BY <1>life, <1>2, <1>10, <1>11, <1>12, <1>13
     DEF LifeStep, Fault, GroupTerminate, GroupTerminateTree, GroupFreeze, GroupResume, Transition
<1>policy. CASE PolicyStep
  BY <1>policy, <1>2 DEF PolicyStep, EmergencyPause, EmergencyResume
<1> QED BY <1>scheduler, <1>ipc, <1>cap, <1>life, <1>policy DEF Next

(* What boot leaves in the tables: roots, and the policy authority with    *)
(* process 1 alone.                                                        *)
LEMMA EntryInit ==
  ASSUME Init
  PROVE  /\ ent \in [Pos -> Entry] /\ EntryInv
         /\ \A q \in Pos : /\ ent[q].gen = 1
                           /\ ~ent[q].active => ent[q].object = NoObject
                           /\ ent[q].active => IsRoot(ent[q])
                           /\ ent[q].active =>
                                \/ ent[q].object \in Endpoint
                                \/ /\ ent[q].object = Authority
                                   /\ q[1] = 1 /\ ent[q].rights = {ADMIN}
<1> DEFINE fresh(q) == LET g == Grants(q[1]) IN
                         IF q[2] < Len(g)
                           THEN Minted(Blank(1), g[q[2] + 1].object, g[q[2] + 1].rights,
                                       0, NoParent)
                           ELSE Blank(1)
<1>1. ent = [q \in Pos |-> fresh(q)]
  BY DEF Init
<1>2. 1 \in 0 .. MaxGen
  BY CapabilityAssumption
<1>3. Blank(1) \in Entry /\ ~Blank(1).active /\ Blank(1).gen = 1 /\ Blank(1).object = NoObject
  BY <1>2, BlankType
<1>4. ASSUME NEW q \in Pos, q[2] < Len(Grants(q[1]))
      PROVE  LET d == Grants(q[1])[q[2] + 1] IN
               /\ d.object \in Object /\ d.rights \in SUBSET Right
               /\ \/ d.object \in Endpoint
                  \/ d.object = Authority /\ q[1] = 1 /\ d.rights = {ADMIN}
  <2>1. q[2] \in Nat /\ q[1] \in {0, 1, 2}
    BY PosFacts, KernelAssumption, CapabilityAssumption DEF Proc, Slot
  <2>2. q[2] + 1 \in 1 .. Len(Grants(q[1]))
    BY <1>4, <2>1 DEF Grants
  <2> QED BY <2>1, <2>2, KernelAssumption, ProcFacts DEF Grants
<1>5. ASSUME NEW q \in Pos
      PROVE  /\ fresh(q) \in Entry /\ fresh(q).gen = 1
             /\ ~fresh(q).active => fresh(q).object = NoObject
             /\ fresh(q).active => IsRoot(fresh(q))
             /\ fresh(q).active =>
                  \/ fresh(q).object \in Endpoint
                  \/ /\ fresh(q).object = Authority
                     /\ q[1] = 1 /\ fresh(q).rights = {ADMIN}
  <2>1. CASE q[2] < Len(Grants(q[1]))
    <3> DEFINE d == Grants(q[1])[q[2] + 1]
               o == d.object
               r == d.rights
    <3>1. fresh(q) = Minted(Blank(1), o, r, 0, NoParent)
      BY <2>1
    <3>2. /\ o \in Object /\ r \in SUBSET Right
          /\ \/ o \in Endpoint
             \/ o = Authority /\ q[1] = 1 /\ r = {ADMIN}
      BY <1>4, <2>1
    <3> HIDE DEF d, o, r, fresh
    <3> QED BY <1>3, <3>1, <3>2, MintedType, MintedFields, RootType DEF IsRoot, NoParent
  <2>2. CASE ~(q[2] < Len(Grants(q[1])))
    BY <1>3, <2>2
  <2> QED BY <2>1, <2>2
<1> HIDE DEF fresh
<1>6. ent \in [Pos -> Entry]
  BY <1>1, <1>5
<1>7. \A q \in Pos : /\ ent[q].gen = 1
                     /\ ~ent[q].active => ent[q].object = NoObject
                     /\ ent[q].active => IsRoot(ent[q])
                     /\ ent[q].active =>
                                \/ ent[q].object \in Endpoint
                                \/ /\ ent[q].object = Authority
                                   /\ q[1] = 1 /\ ent[q].rights = {ADMIN}
  BY <1>1, <1>5
<1>8. \A q \in Pos : state[q[1]] # "UNUSED"
  BY PosFacts DEF Init
<1>9. EntryInv
  BY <1>7, <1>8, ProcFacts DEF EntryInv
<1> QED BY <1>6, <1>7, <1>9

(* A step on the tables keeps entries well formed.                         *)
LEMMA EntryStepKept ==
  ASSUME TypeOK, EntryInv, TablesStep
  PROVE  EntryInv'
<1> SUFFICES ASSUME NEW q \in Pos
             PROVE  /\ ent'[q].active => ent'[q].gen # 0 /\ ent'[q].object # NoObject
                    /\ ~ent'[q].active => ent'[q].object = NoObject
                    /\ state'[q[1]] = "UNUSED" => ~ent'[q].active /\ ent'[q].gen = 0
  BY DEF EntryInv
<1>1. ent[q] \in Entry /\ 0 \in 0 .. MaxGen
  BY CapabilityAssumption DEF TypeOK
<1>2. /\ ent[q].active => ent[q].gen # 0 /\ ent[q].object # NoObject
      /\ ~ent[q].active => ent[q].object = NoObject
      /\ state[q[1]] = "UNUSED" => ~ent[q].active /\ ent[q].gen = 0
  BY DEF EntryInv
<1>3. EntryStep(q) /\ (state'[q[1]] = "UNUSED" => state[q[1]] = "UNUSED" \/ Reaped(q))
  BY DEF TablesStep
<1>4. CASE Reaped(q)
  BY <1>1, <1>4, BlankType DEF Reaped
<1>5. CASE ent'[q] = ent[q] /\ ~Reaped(q)
  BY <1>2, <1>3, <1>5
<1>6. CASE Retired(q) /\ ~Reaped(q)
  <2>1. ~ent'[q].active /\ ent'[q].object = NoObject
    BY <1>1, <1>6, RetireType DEF Retired
  <2>2. state'[q[1]] # "UNUSED"
    BY <1>2, <1>3, <1>6 DEF Retired
  <2> QED BY <2>1, <2>2
<1>7. CASE Filled(q) /\ ~Reaped(q)
  <2>1. state'[q[1]] # "UNUSED"
    BY <1>2, <1>3, <1>7 DEF Filled
  <2>2. NoObject \notin Object
    BY CapabilityAssumption
  <2> QED BY <1>7, <2>1, <2>2 DEF Filled
<1> QED BY <1>3, <1>4, <1>5, <1>6, <1>7 DEF EntryStep

(* Boot leaves the kernel in a state of its types.                         *)
LEMMA TypeInit == Init => TypeOK
<1> SUFFICES ASSUME Init PROVE TypeOK
  OBVIOUS
<1>1. ent \in [Pos -> Entry]
  BY EntryInit
<1>2. <<>> \in Seq(Descriptor) /\ 0 \in 0 .. QueueCap /\ 0 \in Proc
  BY KernelAssumption, ProcFacts
<1> QED BY <1>1, <1>2 DEF Init, TypeOK, State, Answer

(* Every step stays within the types and keeps entries well formed.        *)
LEMMA TypeStep ==
  ASSUME TypeOK, EntryInv, [Next]_vars
  PROVE  TypeOK' /\ EntryInv'
<1>1. CASE Next
  <2>1. ProcessesTyped' /\ TablesStep
    BY <1>1, ProcessesStep, TablesStepOfNext
  <2>2. EntryInv'
    BY <2>1, EntryStepKept
  <2> QED BY <2>1, <2>2 DEF TypeOK, ProcessesTyped, TablesStep
<1>2. CASE UNCHANGED vars
  BY <1>2 DEF vars, procVars, ipcVars, TypeOK, EntryInv
<1> QED BY <1>1, <1>2

(* The process table, the endpoint pool and the capability tables of the   *)
(* running kernel stay in range through every sequence of system calls,    *)
(* faults and interrupts; an entry in use always names an object under a   *)
(* valid generation.                                                       *)
THEOREM KernelTypeCorrect == Spec => [](TypeOK /\ EntryInv)
<1>1. Init => TypeOK /\ EntryInv
  BY TypeInit, EntryInit
<1> QED
  BY <1>1, TypeStep, PTL DEF Spec

-----------------------------------------------------------------------------
(* No process is among its own descendants: a parent has the lower index   *)
(* or none, so that the ancestors of a process end after finitely many.    *)
(* The function in the definition is shown to exist first.                 *)
LEMMA NotOwnDescendant ==
  ASSUME NEW p \in Proc
  PROVE  ~DescendantOf(p, p)
<1> DEFINE up(r, b) == /\ state[r] # "UNUSED"
                       /\ Parent(r) # NoProc
                       /\ Parent(r) = p \/ b[Parent(r)]
           below == CHOOSE b : b = [r \in Proc |-> up(r, b)]
<1>1. \E b : b = [r \in Proc |-> up(r, b)]
  <2> DEFINE b1 == state[1] # "UNUSED" /\ 0 = p
             b2 == /\ state[2] # "UNUSED"
                   /\ Parent(2) = p \/ (Parent(2) = 1 /\ b1)
             b == [r \in Proc |-> IF r = 0 THEN FALSE ELSE IF r = 1 THEN b1 ELSE b2]
  <2>1. Proc \subseteq {0, 1, 2} /\ NoProc \notin Proc /\ 0 \in Proc /\ 1 \in Proc
    BY KernelAssumption DEF Proc
  <2>2. Parent(0) = NoProc /\ Parent(1) = 0 /\ Parent(2) \in {0, 1}
    BY DEF Parent
  <2>3. b[0] = FALSE /\ b[1] = b1
    BY <2>1
  <2>4. ASSUME NEW r \in Proc PROVE b[r] = up(r, b)
    <3>1. CASE r = 0
      BY <2>2, <2>3, <3>1
    <3>2. CASE r = 1
      BY <2>1, <2>2, <2>3, <3>2
    <3>3. CASE r = 2
      <4>1. b[2] = b2
        BY <3>3
      <4>2. Parent(2) # NoProc
        BY <2>1, <2>2
      <4> QED BY <2>2, <2>3, <3>3, <4>1, <4>2
    <3> QED BY <2>1, <3>1, <3>2, <3>3
  <2>5. b = [r \in Proc |-> b[r]]
    OBVIOUS
  <2> HIDE DEF b
  <2>6. b = [r \in Proc |-> up(r, b)]
    BY <2>4, <2>5
  <2> QED BY <2>6
<1>2. below = [r \in Proc |-> up(r, below)]
  BY <1>1
<1>3. DescendantOf(p, p) = below[p]
  BY DEF DescendantOf
<1> HIDE DEF below
<1>4. \A r \in Proc : below[r] = up(r, below)
  BY <1>2
<1>5. Proc \subseteq {0, 1, 2} /\ NoProc \notin Proc /\ 0 \in Proc /\ 1 \in Proc
  BY KernelAssumption DEF Proc
<1>6. Parent(0) = NoProc /\ Parent(1) = 0 /\ Parent(2) \in {0, 1}
  BY DEF Parent
<1>7. ~below[0]
  BY <1>4, <1>5, <1>6
<1>8. p # 0 => ~below[1]
  BY <1>4, <1>5, <1>6, <1>7
<1>9. ~below[p]
  <2>1. CASE p = 0
    BY <1>7, <2>1
  <2>2. CASE p = 1
    BY <1>8, <2>2
  <2>3. CASE p = 2
    BY <1>4, <1>6, <1>7, <1>8, <2>3
  <2> QED BY <1>5, <2>1, <2>2, <2>3
<1> QED BY <1>3, <1>9

-----------------------------------------------------------------------------
(* The three shapes a step has for the processes: the running process      *)
(* gives up the CPU, it falls asleep in a receive, or it stays and other   *)
(* processes change state, those of Gone leaving their receives.           *)
Resched(p) ==
  /\ \E s \in {"READY", "RUNNING", "ZOMBIE"} : GivesUp(p, s)
  /\ UNCHANGED <<wait, mode, queued>>

Sleeps(p) ==
  /\ GivesUp(p, "BLOCKED")
  /\ \E h \in Handle :
       LET o == ObjectOf(p, h) IN
         /\ Names(p, h, RECV)
         /\ queued[o] = 0 /\ mode[o] = "open"
         /\ wait' = [wait EXCEPT ![p] = [object |-> o, handle |-> h,
                                         ahead |-> {q \in Proc : state[q] = "BLOCKED"}]]
  /\ UNCHANGED <<mode, queued, ent>>

Stays(p, Gone) ==
  /\ Running(p) /\ current' = current /\ state'[p] = "RUNNING"
  /\ \A q \in Proc : state'[q] \in {"RUNNING", "BLOCKED"} =>
       state'[q] = state[q] /\ answer'[q] = answer[q]
  /\ \A q \in Proc : state[q] = "BLOCKED" => (state'[q] = "BLOCKED" <=> q \notin Gone)
  /\ \A q \in Gone : state'[q] # "BLOCKED"
  /\ wait' = WaitWithout(Gone)

(* What a process sleeps on does not change while it sleeps.               *)
Undisturbed ==
  \A q \in Proc : state[q] = "BLOCKED" /\ state'[q] = "BLOCKED" =>
    /\ mode'[wait[q].object] = mode[wait[q].object]
    /\ queued'[wait[q].object] = queued[wait[q].object]

Shape ==
  /\ \E p \in Proc : Resched(p) \/ Sleeps(p) \/ \E Gone \in SUBSET Proc : Stays(p, Gone)
  /\ Undisturbed

(* When no receive ends, the line stays.                                   *)
LEMMA WaitWithoutNone ==
  ASSUME TypeOK PROVE WaitWithout({}) = wait
<1>1. ASSUME NEW w \in Waiting \cup {NotWaiting}
      PROVE  [w EXCEPT !.ahead = @ \ {}] = w
  <2>1. w.ahead \ {} = w.ahead
    OBVIOUS
  <2>2. [w EXCEPT !.ahead = w.ahead] = w
    BY DEF Waiting, NotWaiting
  <2> QED BY <2>1, <2>2
<1> QED BY <1>1 DEF WaitWithout, TypeOK

(* Every step has one of the shapes above.                                 *)
LEMMA ShapeOfNext ==
  ASSUME TypeOK, WaitInv, NoLostWakeup, Next
  PROVE  Shape
<1> SUFFICES Shape
  OBVIOUS
<1>types. /\ state \in [Proc -> State] /\ answer \in [Proc -> Answer]
          /\ mode \in [Endpoint -> {"free", "open", "closed"}]
          /\ queued \in [Endpoint -> 0 .. QueueCap]
  BY DEF TypeOK
<1>wait. \A q \in Proc : state[q] = "BLOCKED" =>
            /\ wait[q].object \in Endpoint
            /\ mode[wait[q].object] = "open" /\ queued[wait[q].object] = 0
  <2>1. ASSUME NEW q \in Proc, state[q] = "BLOCKED" PROVE wait[q] \in Waiting
    BY <2>1 DEF WaitInv, TypeOK
  <2> QED BY <2>1 DEF NoLostWakeup, Waiting
<1>a. ASSUME NEW p \in Proc, NEW s \in {"READY", "RUNNING", "ZOMBIE"}, GivesUp(p, s),
             UNCHANGED <<wait, ipcVars>>
      PROVE  Shape
  BY <1>a DEF Shape, Resched, Undisturbed, ipcVars
<1>b. ASSUME NEW p \in Proc, Running(p), UNCHANGED procVars, Undisturbed
      PROVE  Shape
  <2>1. wait' = WaitWithout({})
    BY <1>b, WaitWithoutNone DEF procVars
  <2>2. Stays(p, {})
    BY <1>b, <2>1 DEF Stays, procVars, Running
  <2> QED BY <1>b, <2>2 DEF Shape
<1>c. ASSUME NEW p \in Proc, Running(p), current' = current,
             NEW reply, DOMAIN reply \subseteq {q \in Proc : state[q] = "BLOCKED"},
             Wake(reply), Undisturbed
      PROVE  Shape
  <2> DEFINE G == DOMAIN reply
  <2>1. /\ state' = [q \in Proc |-> IF q \in G THEN "READY" ELSE state[q]]
        /\ answer' = [q \in Proc |-> IF q \in G THEN reply[q] ELSE answer[q]]
        /\ wait' = WaitWithout(G)
    BY <1>c DEF Wake
  <2>2. G \in SUBSET Proc /\ p \notin G
    BY <1>c DEF Running
  <2>3. Stays(p, G)
    <3> HIDE DEF G
    <3> QED BY <1>c, <2>1, <2>2 DEF Stays, Running
  <2> QED BY <1>c, <2>2, <2>3 DEF Shape
<1>d. ASSUME NEW p \in Proc, Running(p), current' = current,
             NEW S \in SUBSET (Proc \ {p}), Terminated(S), UNCHANGED ipcVars
      PROVE  Shape
  <2>1. Stays(p, S)
    BY <1>d DEF Stays, Running, Terminated
  <2>2. Undisturbed
    BY <1>d DEF Undisturbed, ipcVars
  <2> QED BY <2>1, <2>2, <1>d DEF Shape
<1>e. ASSUME NEW p \in Proc, Running(p), UNCHANGED <<current, wait, answer, ipcVars>>,
             \A q \in Proc : /\ state[q] \in {"BLOCKED", "RUNNING"} => state'[q] = state[q]
                             /\ state'[q] \in {"BLOCKED", "RUNNING"} => state'[q] = state[q]
      PROVE  Shape
  <2>1. wait' = WaitWithout({})
    BY <1>e, WaitWithoutNone
  <2>2. Stays(p, {})
    BY <1>e, <2>1 DEF Stays, Running
  <2>3. Undisturbed
    BY <1>e DEF Undisturbed, ipcVars
  <2> QED BY <2>2, <2>3 DEF Shape
<1>each. \A S, r : DOMAIN Each(S, r) = S
  BY DEF Each
<1>1. ASSUME NEW p \in Proc, Preempt(p) PROVE Shape
  <2>1. [state EXCEPT ![p] = "RUNNING"] = state
    BY <1>1, <1>types DEF Preempt, Running
  <2>2. GivesUp(p, "RUNNING")
    BY <1>1, <2>1 DEF Preempt, GivesUp
  <2> QED BY <1>1, <1>a, <2>2 DEF Preempt
<1>2. ASSUME NEW p \in Proc, Yield(p) PROVE Shape
  <2>2. GivesUp(p, "READY")
    BY <1>2 DEF Yield, GivesUp
  <2> QED BY <1>2, <1>a, <2>2 DEF Yield
<1>3. ASSUME NEW p \in Proc, NEW h \in Handle, IpcCreate(p, h) PROVE Shape
  <2>1. PICK o \in Endpoint : /\ mode[o] = "free"
                              /\ mode' = [mode EXCEPT ![o] = "open"]
                              /\ queued' = [queued EXCEPT ![o] = 0]
    BY <1>3 DEF IpcCreate
  <2>2. Undisturbed
    BY <1>types, <1>wait, <2>1 DEF Undisturbed
  <2> QED BY <1>3, <1>b, <2>2 DEF IpcCreate
<1>4. ASSUME NEW p \in Proc, NEW h \in Handle, IpcDestroy(p, h) PROVE Shape
  <2> DEFINE o == ObjectOf(p, h)
  <2>1. /\ mode' = [mode EXCEPT ![o] = "free"]
        /\ queued' = [queued EXCEPT ![o] = 0]
        /\ Wake(Each(Receivers(o), "cancelled"))
        /\ Running(p) /\ current' = current /\ o \in Endpoint
    BY <1>4, NamesFacts DEF IpcDestroy
  <2>2. Receivers(o) \subseteq {q \in Proc : state[q] = "BLOCKED"}
    BY DEF Receivers
  <2>3. Undisturbed
    <3>1. \A q \in Proc : state[q] = "BLOCKED" /\ state'[q] = "BLOCKED" => wait[q].object # o
      BY <2>1, <1>each DEF Wake, Receivers
    <3> QED BY <1>types, <1>wait, <2>1, <3>1 DEF Undisturbed
  <2> QED BY <1>c, <1>each, <2>1, <2>2, <2>3
<1>5. ASSUME NEW p \in Proc, NEW h \in Handle, IpcClose(p, h) PROVE Shape
  <2> DEFINE o == ObjectOf(p, h)
  <2>1. /\ mode' = [mode EXCEPT ![o] = "closed"]
        /\ queued' = queued
        /\ Wake(Each(Receivers(o), "cancelled"))
        /\ Running(p) /\ current' = current /\ o \in Endpoint
    BY <1>5, NamesFacts DEF IpcClose
  <2>2. Receivers(o) \subseteq {q \in Proc : state[q] = "BLOCKED"}
    BY DEF Receivers
  <2>3. Undisturbed
    <3>1. \A q \in Proc : state[q] = "BLOCKED" /\ state'[q] = "BLOCKED" => wait[q].object # o
      BY <2>1, <1>each DEF Wake, Receivers
    <3> QED BY <1>types, <1>wait, <2>1, <3>1 DEF Undisturbed
  <2> QED BY <1>c, <1>each, <2>1, <2>2, <2>3
<1>6. ASSUME NEW p \in Proc, NEW h \in Handle, IpcCall(p, h) PROVE Shape
  <2> DEFINE o == ObjectOf(p, h)
  <2>1. Running(p) /\ current' = current /\ mode' = mode /\ o \in Endpoint
    BY <1>6, NamesFacts DEF IpcCall
  <2>2. Receivers(o) \subseteq {q \in Proc : state[q] = "BLOCKED"} /\ Able(o) \subseteq Receivers(o)
    BY DEF Receivers, Able
  <2>3. CASE \E served \in Able(o) :
               /\ wait[served].ahead \cap Able(o) = {}
               /\ Wake([q \in {served} \cup (Receivers(o) \cap wait[served].ahead) |->
                          IF q = served THEN "message" ELSE "denied"])
               /\ UNCHANGED queued
    <3>1. PICK served \in Able(o) :
               /\ Wake([q \in {served} \cup (Receivers(o) \cap wait[served].ahead) |->
                          IF q = served THEN "message" ELSE "denied"])
               /\ UNCHANGED queued
      BY <2>3
    <3> DEFINE reply == [q \in {served} \cup (Receivers(o) \cap wait[served].ahead) |->
                          IF q = served THEN "message" ELSE "denied"]
    <3>2. DOMAIN reply \subseteq {q \in Proc : state[q] = "BLOCKED"}
      BY <2>2
    <3>3. Undisturbed
      BY <2>1, <3>1 DEF Undisturbed
    <3> HIDE DEF reply
    <3>4. Wake(reply)
      BY <3>1 DEF reply
    <3> QED BY <1>c, <2>1, <3>2, <3>3, <3>4
  <2>4. CASE /\ Wake(Each(Receivers(o), "denied"))
             /\ queued' = IF HasRoom(o) THEN [queued EXCEPT ![o] = @ + 1] ELSE queued
    <3>1. \A q \in Proc : state[q] = "BLOCKED" /\ state'[q] = "BLOCKED" => wait[q].object # o
      BY <2>4, <1>each DEF Wake, Receivers
    <3>2. Undisturbed
      BY <1>types, <1>wait, <2>1, <2>4, <3>1 DEF Undisturbed
    <3> QED BY <1>c, <1>each, <2>1, <2>2, <2>4, <3>2
  <2> QED BY <1>6, <2>3, <2>4 DEF IpcCall
<1>taken. ASSUME NEW o \in Endpoint, Take(o), mode' = mode PROVE Undisturbed
  BY <1>taken, <1>types, <1>wait DEF Take, Undisturbed
<1>7. ASSUME NEW p \in Proc, NEW h \in Handle, IpcRecv(p, h) PROVE Shape
  BY <1>7, <1>b, <1>taken, NamesFacts DEF IpcRecv
<1>8. ASSUME NEW p \in Proc, NEW h \in Handle, IpcRecvWait(p, h) PROVE Shape
  <2> DEFINE o == ObjectOf(p, h)
  <2>1. CASE Take(o) /\ UNCHANGED procVars
    <3>1. Running(p) /\ Undisturbed
      BY <1>8, <2>1, <1>taken, NamesFacts DEF IpcRecvWait
    <3> QED BY <1>b, <2>1, <3>1
  <2>2. CASE /\ queued[o] = 0
             /\ mode[o] = "open"
             /\ wait' = [wait EXCEPT ![p] =
                          [object |-> o, handle |-> h,
                           ahead |-> {q \in Proc : state[q] = "BLOCKED"}]]
             /\ Schedule([state EXCEPT ![p] = "BLOCKED"], p, answer)
             /\ UNCHANGED <<pausedFlag, saved, queued>>
    <3>1. GivesUp(p, "BLOCKED")
      BY <1>8, <2>2 DEF IpcRecvWait, GivesUp
    <3>2. Sleeps(p)
      BY <1>8, <2>2, <3>1 DEF IpcRecvWait, Sleeps
    <3>3. Undisturbed
      BY <1>8, <2>2 DEF IpcRecvWait, Undisturbed
    <3> QED BY <3>2, <3>3 DEF Shape
  <2> QED BY <1>8, <2>1, <2>2 DEF IpcRecvWait
<1>9. ASSUME NEW p \in Proc, NEW q \in Proc, IpcCancel(p, q) PROVE Shape
  <2>1. Undisturbed
    BY <1>9 DEF IpcCancel, Undisturbed, ipcVars
  <2> QED BY <1>9, <1>c, <1>each, <2>1 DEF IpcCancel
<1>steady. UNCHANGED ipcVars => Undisturbed
  BY DEF ipcVars, Undisturbed
<1>10. ASSUME NEW p \in Proc, Exit(p) PROVE Shape
  <2>1. GivesUp(p, "ZOMBIE")
    BY <1>10 DEF Exit, GivesUp
  <2> QED BY <1>10, <1>a, <2>1 DEF Exit
<1>11. ASSUME NEW p \in Proc, Fault(p) PROVE Shape
  <2>1. GivesUp(p, "ZOMBIE")
    BY <1>11 DEF Fault, GivesUp
  <2> QED BY <1>11, <1>a, <2>1 DEF Fault
<1>12. ASSUME NEW p \in Proc, NEW q \in Proc, Kill(p, q) PROVE Shape
  <2>1. q # p
    BY <1>12, ProcFacts DEF Kill
  <2> QED BY <1>12, <1>d, <2>1 DEF Kill
<1>13. ASSUME NEW p \in Proc, NEW g, GroupTerminate(p, g) PROVE Shape
  <2> DEFINE S == {q \in Proc : Alive(q) /\ Parent(q) = p /\ Group(q) = g}
  <2>1. S \in SUBSET (Proc \ {p})
    BY ProcFacts
  <2> QED BY <1>13, <1>d, <2>1 DEF GroupTerminate
<1>14. ASSUME NEW p \in Proc, NEW g, GroupTerminateTree(p, g) PROVE Shape
  <2> DEFINE S == {q \in Proc : Alive(q) /\ Group(q) = g /\ DescendantOf(p, q)}
  <2>1. S \in SUBSET (Proc \ {p})
    BY NotOwnDescendant
  <2> QED BY <1>14, <1>d, <2>1 DEF GroupTerminateTree
<1>15. ASSUME NEW p \in Proc, NEW g, GroupFreeze(p, g) \/ GroupResume(p, g) PROVE Shape
  BY <1>15, <1>e DEF GroupFreeze, GroupResume, Transition
<1>16. ASSUME NEW p \in Proc, NEW q \in Proc, Restart(p, q) PROVE Shape
  <2>1. state[q] = "ZOMBIE" /\ (state' = state \/ state' = [state EXCEPT ![q] = "READY"])
    BY <1>16 DEF Restart
  <2>2. \A r \in Proc : /\ state[r] \in {"BLOCKED", "RUNNING"} => state'[r] = state[r]
                        /\ state'[r] \in {"BLOCKED", "RUNNING"} => state'[r] = state[r]
    BY <1>types, <2>1
  <2> QED BY <1>16, <1>e, <2>2 DEF Restart
<1>17. ASSUME NEW p \in Proc, NEW q \in Proc, Reap(p, q) PROVE Shape
  <2>2. \A r \in Proc : /\ state[r] \in {"BLOCKED", "RUNNING"} => state'[r] = state[r]
                        /\ state'[r] \in {"BLOCKED", "RUNNING"} => state'[r] = state[r]
    BY <1>types, <1>17 DEF Reap
  <2> QED BY <1>17, <1>e, <2>2 DEF Reap
<1>18. ASSUME NEW p \in Proc, NEW h \in Handle, EmergencyPause(p, h) PROVE Shape
  <2> DEFINE woken == {q \in Proc : state[q] = "BLOCKED"}
  <2>1. Stays(p, woken)
    BY <1>18, <1>types DEF EmergencyPause, Stays, Running
  <2> QED BY <1>18, <1>steady, <2>1 DEF EmergencyPause, Shape
<1>19. ASSUME NEW p \in Proc, NEW h \in Handle, EmergencyResume(p, h) PROVE Shape
  BY <1>19, <1>e DEF EmergencyResume
<1>scheduler. CASE SchedulerStep
  BY <1>scheduler, <1>1, <1>2 DEF SchedulerStep
<1>ipc. CASE IpcStep
  BY <1>ipc, <1>3, <1>4, <1>5, <1>6, <1>7, <1>8, <1>9 DEF IpcStep
<1>cap. CASE CapStep
  BY <1>cap, <1>b, <1>steady DEF CapStep, CapRestrict, CapTransfer, CapRevoke
<1>life. CASE LifeStep
  BY <1>life, <1>10, <1>11, <1>12, <1>13, <1>14, <1>15, <1>16, <1>17 DEF LifeStep
<1>policy. CASE PolicyStep
  BY <1>policy, <1>18, <1>19 DEF PolicyStep
<1> QED BY <1>scheduler, <1>ipc, <1>cap, <1>life, <1>policy DEF Next

-----------------------------------------------------------------------------
(* One process has the CPU. *)

(* Every shape of a step leaves at most one process with the CPU.          *)
LEMMA CpuStep ==
  ASSUME TypeOK, CpuInv, Shape
  PROVE  CpuInv'
<1>1. PICK p \in Proc : Resched(p) \/ Sleeps(p) \/ \E Gone \in SUBSET Proc : Stays(p, Gone)
  BY DEF Shape
<1>2. \A q \in Proc : state[q] = "RUNNING" => current = q
  BY DEF CpuInv
<1>3. ASSUME NEW s \in State \ {"UNUSED"}, GivesUp(p, s) PROVE CpuInv'
  <2> DEFINE st == [state EXCEPT ![p] = s]
             from == IF s = "ZOMBIE" THEN NoProc ELSE p
             n == NextReady(st, from)
  <2>1. Running(p) /\ Schedule(st, from, answer) /\ from \in Proc \cup {NoProc}
    BY <1>3 DEF GivesUp
  <2>2. /\ st[p] = s /\ st \in [Proc -> State]
        /\ \A q \in Proc : q # p => st[q] = state[q] /\ st[q] # "RUNNING"
    BY <1>2, <2>1 DEF TypeOK, Running
  <2>3. NoProc \notin Proc
    BY ProcFacts
  <2>4. CASE \E q \in Proc : st[q] = "READY"
    <3>1. n \in Proc /\ st[n] = "READY"
      BY <2>1, <2>4, NextReadyFound
    <3>2. /\ state' = [r \in Proc |-> IF r = n THEN "RUNNING"
                                      ELSE IF r = from /\ st[r] = "RUNNING" THEN "READY"
                                      ELSE st[r]]
          /\ current' = n
      BY <2>1, <2>4 DEF Schedule
    <3> HIDE DEF n, st
    <3>3. \A q \in Proc : state'[q] = "RUNNING" => q = n
      BY <2>2, <3>2
    <3> QED BY <3>1, <3>2, <3>3 DEF CpuInv, Running
  <2>5. CASE ~\E q \in Proc : st[q] = "READY"
    <3>1. state' = st /\ current' = from
      BY <2>1, <2>5 DEF Schedule
    <3> HIDE DEF st
    <3> QED BY <2>2, <2>5, <3>1 DEF CpuInv
  <2> QED BY <2>4, <2>5
<1>4. ASSUME Resched(p) \/ Sleeps(p) PROVE CpuInv'
  BY <1>3, <1>4 DEF Resched, Sleeps, State
<1>5. ASSUME NEW Gone \in SUBSET Proc, Stays(p, Gone) PROVE CpuInv'
  BY <1>2, <1>5 DEF CpuInv, Stays, Running
<1> QED BY <1>1, <1>4, <1>5

-----------------------------------------------------------------------------
(* The line of blocked receives. *)

(* No answer is stored for a process that runs or sleeps.                  *)
AnswerInv == \A p \in Proc : state[p] \in {"RUNNING", "BLOCKED"} => answer[p] = "none"

(* A process that runs or is blocked has no answer pending.                *)
LEMMA AnswerStep ==
  ASSUME TypeOK, AnswerInv, Shape
  PROVE  AnswerInv'
<1>1. PICK p \in Proc : Resched(p) \/ Sleeps(p) \/ \E Gone \in SUBSET Proc : Stays(p, Gone)
  BY DEF Shape
<1>2. ASSUME NEW s \in State \ {"UNUSED"}, GivesUp(p, s) PROVE AnswerInv'
  <2>1. state[p] = "RUNNING" /\ answer[p] = "none"
    BY <1>2 DEF GivesUp, Running, AnswerInv
  <2> QED BY <1>2, <2>1, GivesUpFacts DEF AnswerInv
<1>3. ASSUME Resched(p) \/ Sleeps(p) PROVE AnswerInv'
  BY <1>2, <1>3 DEF Resched, Sleeps, State
<1>4. ASSUME NEW Gone \in SUBSET Proc, Stays(p, Gone) PROVE AnswerInv'
  BY <1>4 DEF AnswerInv, Stays
<1> QED BY <1>1, <1>3, <1>4

(* Every shape of a step keeps the line of blocked receives.               *)
LEMMA WaitStep ==
  ASSUME TypeOK, WaitInv, Shape
  PROVE  WaitInv'
<1>1. PICK p \in Proc : Resched(p) \/ Sleeps(p) \/ \E Gone \in SUBSET Proc : Stays(p, Gone)
  BY DEF Shape
<1>2. CASE Resched(p)
  <2>1. PICK s \in {"READY", "RUNNING", "ZOMBIE"} : GivesUp(p, s)
    BY <1>2 DEF Resched
  <2>2. state[p] = "RUNNING" /\ s \in State
    BY <2>1 DEF GivesUp, Running, State
  <2>3. \A q \in Proc : state'[q] = "BLOCKED" <=> state[q] = "BLOCKED"
    BY <2>1, <2>2, GivesUpFacts
  <2>4. wait' = wait
    BY <1>2 DEF Resched
  <2> QED BY <2>3, <2>4 DEF WaitInv
<1>3. CASE Sleeps(p)
  <2>1. state[p] = "RUNNING" /\ "BLOCKED" \in State /\ GivesUp(p, "BLOCKED")
    BY <1>3 DEF Sleeps, GivesUp, Running, State
  <2>2. \A q \in Proc : state'[q] = "BLOCKED" <=> state[q] = "BLOCKED" \/ q = p
    BY <2>1, GivesUpFacts
  <2>3. PICK w : /\ wait' = [wait EXCEPT ![p] = w]
                 /\ w.ahead = {q \in Proc : state[q] = "BLOCKED"}
                 /\ w.object \in Endpoint
    <3>1. PICK h \in Handle :
            /\ Names(p, h, RECV)
            /\ wait' = [wait EXCEPT ![p] = [object |-> ObjectOf(p, h), handle |-> h,
                                            ahead |-> {q \in Proc : state[q] = "BLOCKED"}]]
      BY <1>3 DEF Sleeps
    <3> DEFINE x == [object |-> ObjectOf(p, h), handle |-> h,
                     ahead |-> {q \in Proc : state[q] = "BLOCKED"}]
    <3>2. x.ahead = {q \in Proc : state[q] = "BLOCKED"} /\ x.object \in Endpoint
      BY <3>1, NamesFacts
    <3>3. wait' = [wait EXCEPT ![p] = x]
      BY <3>1
    <3> HIDE DEF x
    <3> QED BY <3>2, <3>3
  <2>4. wait'[p] = w /\ \A q \in Proc : q # p => wait'[q] = wait[q]
    BY <2>3 DEF TypeOK
  <2>5. w # NotWaiting
    BY <2>3, ProcFacts DEF NotWaiting
  <2>6. ASSUME NEW q \in Proc
        PROVE  state'[q] # "BLOCKED" <=> wait'[q] = NotWaiting
    BY <2>1, <2>2, <2>4, <2>5 DEF WaitInv
  <2>7. ASSUME NEW q \in Proc, state'[q] = "BLOCKED"
        PROVE  wait'[q].ahead \subseteq {r \in Proc \ {q} : state'[r] = "BLOCKED"}
    BY <2>1, <2>2, <2>3, <2>4, <2>7 DEF WaitInv
  <2>8. ASSUME NEW q \in Proc, state'[q] = "BLOCKED",
               NEW r \in Proc \ {q}, state'[r] = "BLOCKED"
        PROVE  /\ r \in wait'[q].ahead <=> q \notin wait'[r].ahead
               /\ r \in wait'[q].ahead => wait'[r].ahead \subseteq wait'[q].ahead
    <3>1. CASE q # p /\ r # p
      BY <2>2, <2>4, <2>8, <3>1 DEF WaitInv
    <3>2. CASE q = p
      <4>1. state[r] = "BLOCKED" /\ r # p
        BY <2>2, <2>8, <3>2
      <4>2. p \notin wait[r].ahead /\ wait[r].ahead \subseteq {x \in Proc : state[x] = "BLOCKED"}
        BY <2>1, <4>1 DEF WaitInv
      <4> QED BY <2>3, <2>4, <3>2, <4>1, <4>2
    <3>3. CASE r = p
      <4>1. state[q] = "BLOCKED" /\ q # p
        BY <2>2, <2>8, <3>3
      <4>2. p \notin wait[q].ahead
        BY <2>1, <4>1 DEF WaitInv
      <4> QED BY <2>3, <2>4, <3>3, <4>1, <4>2
    <3> QED BY <3>1, <3>2, <3>3
  <2> QED BY <2>6, <2>7, <2>8 DEF WaitInv
<1>4. ASSUME NEW Gone \in SUBSET Proc, Stays(p, Gone) PROVE WaitInv'
  <2>1. \A q \in Proc : wait'[q] = IF q \in Gone THEN NotWaiting
                                   ELSE [wait[q] EXCEPT !.ahead = @ \ Gone]
    BY <1>4 DEF Stays, WaitWithout
  <2>2. \A q \in Proc : state'[q] = "BLOCKED" <=> state[q] = "BLOCKED" /\ q \notin Gone
    BY <1>4 DEF Stays
  <2>3. \A q \in Proc : wait[q] \in Waiting \cup {NotWaiting}
    BY DEF TypeOK
  <2>4. ASSUME NEW q \in Proc \ Gone
        PROVE  /\ wait'[q].ahead = wait[q].ahead \ Gone
               /\ wait'[q].object = wait[q].object
               /\ wait[q] = NotWaiting => wait'[q] = NotWaiting
    <3>1. CASE wait[q] \in Waiting
      <4>1. wait[q] # NotWaiting
        BY <3>1, ProcFacts DEF Waiting, NotWaiting
      <4> QED BY <2>1, <3>1, <4>1 DEF Waiting
    <3>2. CASE wait[q] = NotWaiting
      <4>1. wait[q].ahead \ Gone = {}
        BY <3>2 DEF NotWaiting
      <4> QED BY <2>1, <3>2, <4>1 DEF NotWaiting
    <3> QED BY <2>3, <3>1, <3>2
  <2>5. ASSUME NEW q \in Proc
        PROVE  state'[q] # "BLOCKED" <=> wait'[q] = NotWaiting
    <3>1. CASE q \in Gone
      BY <2>1, <2>2, <3>1
    <3>2. CASE q \notin Gone /\ state[q] # "BLOCKED"
      BY <2>2, <2>4, <3>2 DEF WaitInv
    <3>3. CASE q \notin Gone /\ state[q] = "BLOCKED"
      <4>1. wait[q] \in Waiting
        BY <2>3, <3>3 DEF WaitInv
      <4>2. wait'[q].object \in Endpoint
        BY <2>4, <3>3, <4>1 DEF Waiting
      <4> QED BY <2>2, <3>3, <4>2, ProcFacts DEF NotWaiting
    <3> QED BY <3>1, <3>2, <3>3
  <2>6. ASSUME NEW q \in Proc, state'[q] = "BLOCKED"
        PROVE  /\ wait'[q].ahead \subseteq {r \in Proc \ {q} : state'[r] = "BLOCKED"}
               /\ \A r \in Proc \ {q} : state'[r] = "BLOCKED" =>
                    /\ r \in wait'[q].ahead <=> q \notin wait'[r].ahead
                    /\ r \in wait'[q].ahead => wait'[r].ahead \subseteq wait'[q].ahead
    <3>1. state[q] = "BLOCKED" /\ q \notin Gone
      BY <2>2, <2>6
    <3>2. /\ wait[q].ahead \subseteq {r \in Proc \ {q} : state[r] = "BLOCKED"}
          /\ \A r \in Proc \ {q} : state[r] = "BLOCKED" =>
               /\ r \in wait[q].ahead <=> q \notin wait[r].ahead
               /\ r \in wait[q].ahead => wait[r].ahead \subseteq wait[q].ahead
      BY <3>1 DEF WaitInv
    <3> QED BY <2>2, <2>4, <3>1, <3>2
  <2> QED BY <2>5, <2>6 DEF WaitInv
<1> QED BY <1>1, <1>2, <1>3, <1>4

(* No shape of a step leaves a receiver asleep beside a message.           *)
LEMMA SleepStep ==
  ASSUME TypeOK, WaitInv, NoLostWakeup, Shape
  PROVE  NoLostWakeup'
<1>1. PICK p \in Proc : Resched(p) \/ Sleeps(p) \/ \E Gone \in SUBSET Proc : Stays(p, Gone)
  BY DEF Shape
<1>2. SUFFICES ASSUME NEW q \in Proc, state'[q] = "BLOCKED"
               PROVE  mode'[wait'[q].object] = "open" /\ queued'[wait'[q].object] = 0
  BY DEF NoLostWakeup
<1>3. ASSUME state[q] = "BLOCKED", wait'[q].object = wait[q].object
      PROVE  mode'[wait'[q].object] = "open" /\ queued'[wait'[q].object] = 0
  BY <1>2, <1>3 DEF NoLostWakeup, Shape, Undisturbed
<1>4. CASE Resched(p)
  <2>1. PICK s \in {"READY", "RUNNING", "ZOMBIE"} : GivesUp(p, s)
    BY <1>4 DEF Resched
  <2>2. s \in State /\ state[p] = "RUNNING"
    BY <2>1 DEF State, GivesUp, Running
  <2>3. state[q] = "BLOCKED"
    BY <1>2, <2>1, <2>2, GivesUpFacts
  <2> QED BY <1>3, <1>4, <2>3 DEF Resched
<1>5. CASE Sleeps(p)
  <2>1. "BLOCKED" \in State /\ GivesUp(p, "BLOCKED")
    BY <1>5 DEF Sleeps, State
  <2>2. PICK o, w : /\ wait' = [wait EXCEPT ![p] = w] /\ w.object = o
                    /\ queued[o] = 0 /\ mode[o] = "open"
    BY <1>5 DEF Sleeps
  <2>3. CASE q = p
    <3>1. wait'[q].object = o
      BY <2>2, <2>3 DEF TypeOK
    <3> QED BY <1>5, <2>2, <3>1 DEF Sleeps
  <2>4. CASE q # p
    <3>1. state[q] = "BLOCKED"
      BY <1>2, <2>1, <2>4, GivesUpFacts
    <3>2. wait'[q] = wait[q]
      BY <2>2, <2>4 DEF TypeOK
    <3> QED BY <1>3, <3>1, <3>2
  <2> QED BY <2>3, <2>4
<1>6. ASSUME NEW Gone \in SUBSET Proc, Stays(p, Gone)
      PROVE  mode'[wait'[q].object] = "open" /\ queued'[wait'[q].object] = 0
  <2>1. state[q] = "BLOCKED" /\ q \notin Gone
    BY <1>2, <1>6 DEF Stays
  <2>2. wait[q] \in Waiting
    BY <2>1 DEF WaitInv, TypeOK
  <2>3. wait'[q].object = wait[q].object
    BY <1>6, <2>1, <2>2 DEF Stays, WaitWithout, Waiting
  <2> QED BY <1>3, <2>1, <2>3
<1> QED BY <1>1, <1>4, <1>5, <1>6

-----------------------------------------------------------------------------
(* The invariant of the processes. *)

ProcessInv == TypeOK /\ EntryInv /\ CpuInv /\ AnswerInv /\ WaitInv /\ NoLostWakeup

(* Boot satisfies the invariant of the process table.                      *)
LEMMA ProcessInit == Init => ProcessInv
<1> SUFFICES ASSUME Init PROVE ProcessInv
  OBVIOUS
<1>1. TypeOK /\ EntryInv
  BY TypeInit, EntryInit
<1>2. /\ \A p \in Proc : /\ state[p] # "BLOCKED" /\ answer[p] = "none" /\ wait[p] = NotWaiting
                         /\ state[p] = "RUNNING" => p = 0
      /\ current = 0 /\ state[0] = "RUNNING" /\ 0 \in Proc
  BY ProcFacts DEF Init
<1>3. CpuInv
  BY <1>2 DEF CpuInv, Running
<1>4. AnswerInv /\ WaitInv /\ NoLostWakeup
  BY <1>2 DEF AnswerInv, WaitInv, NoLostWakeup
<1> QED BY <1>1, <1>3, <1>4 DEF ProcessInv

(* Every step keeps the invariant of the process table.                    *)
LEMMA ProcessStep == ProcessInv /\ [Next]_vars => ProcessInv'
<1> SUFFICES ASSUME ProcessInv, [Next]_vars PROVE ProcessInv'
  OBVIOUS
<1> USE DEF ProcessInv
<1>1. TypeOK' /\ EntryInv'
  BY TypeStep
<1>2. CASE Next
  <2>1. Shape
    BY <1>2, ShapeOfNext
  <2> QED BY <1>1, <2>1, CpuStep, AnswerStep, WaitStep, SleepStep
<1>3. CASE UNCHANGED vars
  BY <1>1, <1>3 DEF vars, procVars, ipcVars, CpuInv, Running, AnswerInv, WaitInv, NoLostWakeup
<1> QED BY <1>2, <1>3

(* Whatever system calls, faults and interrupts happen, at most one        *)
(* process runs, and the machine stops only with no process ready.         *)
THEOREM OneProcessRuns == Spec => []CpuInv
<1>1. ProcessInv => CpuInv
  BY DEF ProcessInv
<1> QED
  BY <1>1, ProcessInit, ProcessStep, PTL DEF Spec

(* The blocked receives stand in one line, and nothing of a receive that   *)
(* ended is left in it.                                                    *)
THEOREM ReceiversInLine == Spec => []WaitInv
<1>1. ProcessInv => WaitInv
  BY DEF ProcessInv
<1> QED
  BY <1>1, ProcessInit, ProcessStep, PTL DEF Spec

(* No process sleeps on an endpoint that is closed, destroyed or has a     *)
(* message for it.                                                         *)
THEOREM NoWakeupIsLost == Spec => []NoLostWakeup
<1>1. ProcessInv => NoLostWakeup
  BY DEF ProcessInv
<1> QED
  BY <1>1, ProcessInit, ProcessStep, PTL DEF Spec

-----------------------------------------------------------------------------
(* Lineage: the parent of a derived entry is still there, or its slot has  *)
(* moved past the generation the child remembers.                          *)
Parented ==
  \A q \in Pos : ent[q].active /\ ~IsRoot(ent[q]) =>
    LET p == ent[q].parent IN
      /\ p.pos \in Pos /\ p.gen # 0
      /\ \/ ent[p.pos].gen = 0
         \/ ent[p.pos].gen > p.gen
         \/ ent[p.pos].gen = p.gen /\ ent[p.pos].active

(* What boot mints has no parent.                                          *)
LEMMA ParentedInit == Init => Parented
  BY EntryInit DEF Parented

(* A slot past a generation, or in use under it, stays so.                 *)
LEMMA PastStaysPast ==
  ASSUME TypeOK, EntryInv, Next, NEW r \in Pos, NEW g \in 0 .. MaxGen,
         \/ ent[r].gen = 0
         \/ ent[r].gen > g
         \/ ent[r].gen = g /\ ent[r].active
  PROVE  \/ ent'[r].gen = 0
         \/ ent'[r].gen > g
         \/ ent'[r].gen = g /\ ent'[r].active
<1>1. EntryStep(r) /\ ent[r] \in Entry /\ ent'[r] \in Entry
  BY TablesStepOfNext DEF TablesStep, TypeOK
<1>2. ent[r].gen \in Nat /\ ent'[r].gen \in Nat /\ g \in Nat /\ 0 \in 0 .. MaxGen
  BY <1>1, CapabilityAssumption DEF Entry
<1>3. CASE Retired(r)
  <2>1. ent'[r].gen = 0 \/ ent'[r].gen > ent[r].gen
    BY <1>1, <1>3, RetireType DEF Retired
  <2>2. ent[r].gen # 0
    BY <1>3 DEF Retired, EntryInv
  <2> QED BY <1>2, <2>1, <2>2
<1>4. CASE Reaped(r)
  BY <1>2, <1>4, BlankType DEF Reaped
<1>5. CASE Filled(r)
  BY <1>2, <1>5 DEF Filled
<1> QED BY <1>1, <1>3, <1>4, <1>5 DEF EntryStep

(* Every step keeps the lineage of live entries.                           *)
LEMMA ParentedStep ==
  ASSUME TypeOK, EntryInv, Parented, Next
  PROVE  Parented'
<1> SUFFICES ASSUME NEW q \in Pos, ent'[q].active, ~IsRoot(ent'[q])
             PROVE  LET p == ent'[q].parent IN
                      /\ p.pos \in Pos /\ p.gen # 0
                      /\ \/ ent'[p.pos].gen = 0
                         \/ ent'[p.pos].gen > p.gen
                         \/ ent'[p.pos].gen = p.gen /\ ent'[p.pos].active
  BY DEF Parented
<1>1. TablesStep
  BY TablesStepOfNext
<1>2. EntryStep(q) /\ ent[q] \in Entry /\ 0 \in 0 .. MaxGen
  BY <1>1, CapabilityAssumption DEF TablesStep, TypeOK
<1>3. ~Retired(q) /\ ~Reaped(q)
  BY <1>2, RetireType, BlankType DEF Retired, Reaped
<1> DEFINE p == ent'[q].parent
<1>4. /\ p.pos \in Pos /\ p.gen # 0
      /\ \/ ent[p.pos].gen = 0
         \/ ent[p.pos].gen > p.gen
         \/ ent[p.pos].gen = p.gen /\ ent[p.pos].active
  <2>1. CASE ent'[q] = ent[q]
    BY <2>1 DEF Parented
  <2>2. CASE Filled(q)
    <3>1. Derived(q)
      BY <2>2 DEF Filled
    <3>2. PICK r \in Pos : ent[r].active /\ p.pos = r /\ p.gen = ent[r].gen
      BY <3>1 DEF Derived
    <3> QED BY <3>2 DEF EntryInv
  <2> QED BY <1>2, <1>3, <2>1, <2>2 DEF EntryStep
<1>5. p.gen \in 0 .. MaxGen
  <2>1. ent'[q] \in Entry
    BY <1>1 DEF TablesStep
  <2> QED BY <2>1 DEF Entry, ParentRef
<1> HIDE DEF p
<1>6. \/ ent'[p.pos].gen = 0
      \/ ent'[p.pos].gen > p.gen
      \/ ent'[p.pos].gen = p.gen /\ ent'[p.pos].active
  BY <1>4, <1>5, PastStaysPast
<1> QED BY <1>4, <1>6 DEF p

(* An entry that is live after a step and was there before it was live     *)
(* before it: no step of the kernel repairs a broken lineage.              *)
LEMMA NoRepair ==
  ASSUME TypeOK, EntryInv, Parented, Next, NEW q \in LivePos', ent'[q] = ent[q]
  PROVE  q \in LivePos
<1> DEFINE S == {r \in LivePos' : ent'[r] = ent[r]}
<1>0. TypeOK' /\ EntryInv' /\ TablesStep
  BY TypeStep, TablesStepOfNext
<1>1. \A r \in LivePos' :
        /\ r \in Pos /\ ent'[r].active
        /\ ~IsRoot(ent'[r]) => /\ LinkOk(incn', ent', ent'[r])
                               /\ ent'[r].parent.pos \in LivePos'
  <2>1. LivePos' = UNION {T \in SUBSET Intact(incn', ent') : HoldsParents(ent', T)}
    BY DEF LivePos, Live
  <2>2. ASSUME NEW r \in LivePos'
        PROVE  \E T \in SUBSET Intact(incn', ent') :
                 r \in T /\ HoldsParents(ent', T) /\ T \subseteq LivePos'
    BY <2>1
  <2>3. \A r \in LivePos' : r \in Intact(incn', ent')
    BY <2>2
  <2>4. \A r \in LivePos' : ~IsRoot(ent'[r]) => ent'[r].parent.pos \in LivePos'
    BY <2>2 DEF HoldsParents
  <2> QED BY <2>3, <2>4 DEF Intact
<1>2. ASSUME NEW r \in S, ~IsRoot(ent[r])
      PROVE  LinkOk(incn, ent, ent[r]) /\ ent[r].parent.pos \in S
  <2> DEFINE p == ent[r].parent
  <2>1. /\ r \in Pos /\ ent'[r] = ent[r] /\ ent[r].active
        /\ p.pos \in LivePos' /\ LinkOk(incn', ent', ent[r])
    BY <1>1, <1>2
  <2>2. /\ p.pos \in Pos /\ p.gen # 0
        /\ \/ ent[p.pos].gen = 0
           \/ ent[p.pos].gen > p.gen
           \/ ent[p.pos].gen = p.gen /\ ent[p.pos].active
    BY <1>2, <2>1 DEF Parented
  <2>3. ent'[p.pos].active /\ ent'[p.pos].gen = p.gen
    BY <2>1 DEF LinkOk
  <2>4. EntryStep(p.pos) /\ ent[p.pos] \in Entry /\ ent[r] \in Entry /\ 0 \in 0 .. MaxGen
    BY <1>0, <2>1, <2>2, CapabilityAssumption DEF TablesStep, TypeOK
  <2>5. ~Retired(p.pos) /\ ~Reaped(p.pos)
    BY <2>3, <2>4, RetireType, BlankType DEF Retired, Reaped
  <2>6. ~Filled(p.pos)
    <3>1. p.gen \in Nat
      BY <2>4, CapabilityAssumption DEF Entry, ParentRef
    <3> QED BY <2>2, <2>3, <3>1 DEF Filled
  <2>7. ent'[p.pos] = ent[p.pos]
    BY <2>4, <2>5, <2>6 DEF EntryStep
  <2>8. incn[p.pos[1]] = incn'[p.pos[1]]
    <3>1. p.pos[1] \in Proc /\ state[p.pos[1]] # "UNUSED" /\ state'[p.pos[1]] # "UNUSED"
      BY <1>0, <2>2, <2>3, <2>7, PosFacts DEF EntryInv
    <3> QED BY <3>1 DEF incn, Incarnation
  <2>9. LinkOk(incn, ent, ent[r])
    BY <2>1, <2>7, <2>8 DEF LinkOk
  <2> QED BY <2>1, <2>7, <2>9
<1>3. S \in SUBSET Intact(incn, ent) /\ HoldsParents(ent, S)
  BY <1>1, <1>2 DEF Intact, HoldsParents
<1> QED BY <1>3 DEF LivePos, Live

-----------------------------------------------------------------------------
(* The policy authority. *)

(* What a process saved of the authority has no more rights than boot gave. *)
AuthorityKept ==
  /\ AuthorityConfined
  /\ \A i \in DOMAIN saved[1] :
       saved[1][i].object = Authority => saved[1][i].rights \subseteq {ADMIN}

(* What is saved of a process is what it held when it ended, or nothing.   *)
LEMMA SavedStep ==
  ASSUME TypeOK, Next
  PROVE  \A q \in Proc : saved'[q] \in {saved[q], <<>>, Snapshot(q)}
<1> DEFINE Goal == \A q \in Proc : saved'[q] \in {saved[q], <<>>, Snapshot(q)}
<1> SUFFICES Goal
  OBVIOUS
<1> HIDE DEF Goal
<1>types. saved \in [Proc -> Seq(Descriptor)]
  BY DEF TypeOK
<1>1. ASSUME saved' = saved PROVE Goal
  BY <1>1 DEF Goal
<1>2. ASSUME NEW p \in Proc, Exit(p) PROVE Goal
  BY <1>2, <1>types DEF Exit, Goal
<1>3. ASSUME NEW p \in Proc, NEW q \in Proc, Restart(p, q) PROVE Goal
  <2>1. saved' = [saved EXCEPT ![q] = <<>>] \/ saved' = saved
    BY <1>3 DEF Restart
  <2> QED BY <1>types, <2>1 DEF Goal
<1>4. ASSUME NEW p \in Proc, NEW q \in Proc, Reap(p, q) PROVE Goal
  BY <1>4, <1>types DEF Reap, Goal
<1>scheduler. CASE SchedulerStep
  BY <1>scheduler, <1>1 DEF SchedulerStep, Preempt, Yield
<1>ipc. CASE IpcStep
  BY ZenonT(30), <1>ipc, <1>1 DEF IpcStep, IpcCreate, IpcDestroy, IpcClose, IpcCall, IpcRecv, IpcRecvWait,
                      IpcCancel, procVars
<1>cap. CASE CapStep
  BY <1>cap, <1>1 DEF CapStep, CapRestrict, CapTransfer, CapRevoke, procVars
<1>life. CASE LifeStep
  BY <1>life, <1>1, <1>2, <1>3, <1>4
     DEF LifeStep, Fault, Kill, GroupTerminate, GroupTerminateTree, GroupFreeze, GroupResume,
         Transition
<1>policy. CASE PolicyStep
  BY <1>policy, <1>1 DEF PolicyStep, EmergencyPause, EmergencyResume
<1> QED BY <1>scheduler, <1>ipc, <1>cap, <1>life, <1>policy DEF Next

(* No step takes the policy authority to another process.                  *)
LEMMA AuthorityStep ==
  ASSUME TypeOK, EntryInv, AuthorityKept, Next
  PROVE  AuthorityKept'
<1>1. TablesStep
  BY TablesStepOfNext
<1>2. 1 \in Proc /\ Authority \notin Endpoint /\ TRANSFER # ADMIN
  BY ProcFacts, KernelAssumption
<1>3. \A q \in Pos : ent[q].active /\ ent[q].object = Authority =>
        q[1] = 1 /\ ent[q].rights \subseteq {ADMIN}
  BY DEF AuthorityKept, AuthorityConfined
<1>4. \A p \in Proc : \A i \in DOMAIN saved[p] :
        saved[p][i].object = Authority => p = 1 /\ saved[p][i].rights \subseteq {ADMIN}
  BY DEF AuthorityKept, AuthorityConfined
<1>5. ASSUME NEW q \in Pos, ent'[q].active, ent'[q].object = Authority
      PROVE  q[1] = 1 /\ ent'[q].rights \subseteq {ADMIN}
  <2>1. EntryStep(q) /\ q[1] \in Proc /\ ent[q] \in Entry /\ 0 \in 0 .. MaxGen
    BY <1>1, PosFacts, CapabilityAssumption DEF TablesStep, TypeOK
  <2>2. ~Retired(q) /\ ~Reaped(q)
    BY <1>5, <2>1, RetireType, BlankType DEF Retired, Reaped
  <2>3. CASE ent'[q] = ent[q]
    BY <1>3, <1>5, <2>3
  <2>4. CASE Derived(q)
    <3>1. PICK r \in Pos :
            /\ ent[r].active /\ ent'[q].object = ent[r].object
            /\ ent'[q].rights \subseteq ent[r].rights
            /\ r[1] = q[1] \/ TRANSFER \in ent[r].rights
      BY <2>4 DEF Derived
    <3> QED BY <1>2, <1>3, <1>5, <3>1
  <2>5. CASE Restored(q)
    BY <1>4, <1>5, <2>1, <2>5 DEF Restored
  <2> QED BY <1>2, <1>5, <2>1, <2>2, <2>3, <2>4, <2>5 DEF EntryStep, Filled
<1>6. ASSUME NEW p \in Proc, NEW i \in DOMAIN saved'[p], saved'[p][i].object = Authority
      PROVE  p = 1 /\ saved'[p][i].rights \subseteq {ADMIN}
  <2>1. CASE saved'[p] = saved[p]
    BY <1>4, <1>6, <2>1
  <2>2. CASE saved'[p] = Snapshot(p)
    <3>1. PICK s \in Slot : /\ ent[<<p, s>>].active
                            /\ Snapshot(p)[i].object = ent[<<p, s>>].object
                            /\ Snapshot(p)[i].rights = ent[<<p, s>>].rights
      BY <1>6, <2>2, SnapshotFacts
    <3>2. <<p, s>> \in Pos /\ <<p, s>>[1] = p
      BY PosFacts
    <3> QED BY <1>3, <1>6, <2>2, <3>1, <3>2
  <2>3. CASE saved'[p] = <<>>
    BY <1>6, <2>3
  <2> QED BY <2>1, <2>2, <2>3, SavedStep
<1> QED BY <1>2, <1>5, <1>6 DEF AuthorityKept, AuthorityConfined

KernelInv == ProcessInv /\ AuthorityKept

(* Boot satisfies the invariant of the kernel.                             *)
LEMMA InvInit == Init => KernelInv
<1> SUFFICES ASSUME Init PROVE KernelInv
  OBVIOUS
<1>1. ProcessInv
  BY ProcessInit
<1>2. \A p \in Proc : saved[p] = <<>>
  BY DEF Init
<1>3. 1 \in Proc /\ Authority \notin Endpoint
  BY ProcFacts
<1>4. AuthorityKept
  BY <1>2, <1>3, EntryInit DEF AuthorityKept, AuthorityConfined
<1> QED BY <1>1, <1>4 DEF KernelInv

(* Every step keeps the invariant of the kernel.                           *)
LEMMA InvStep == KernelInv /\ [Next]_vars => KernelInv'
<1> SUFFICES ASSUME KernelInv, [Next]_vars PROVE KernelInv'
  OBVIOUS
<1>1. ProcessInv'
  BY ProcessStep DEF KernelInv
<1>2. AuthorityKept'
  <2>1. CASE Next
    BY <2>1, AuthorityStep DEF KernelInv, ProcessInv
  <2>2. CASE UNCHANGED vars
    BY <2>2 DEF vars, procVars, KernelInv, AuthorityKept, AuthorityConfined
  <2> QED BY <2>1, <2>2
<1> QED BY <1>1, <1>2 DEF KernelInv

(* The policy authority never leaves the process boot gave it to, however  *)
(* capabilities are transferred, restricted, saved and restored.           *)
THEOREM AuthorityStaysPut == Spec => []AuthorityConfined
<1>1. KernelInv => AuthorityConfined
  BY DEF KernelInv, AuthorityKept
<1> QED
  BY <1>1, InvInit, InvStep, PTL DEF Spec

-----------------------------------------------------------------------------
(* Destroying an endpoint. *)

(* Only SYS_IPC_DESTROY takes an endpoint out of use.                      *)
LEMMA FreedByDestroy ==
  ASSUME TypeOK, Next, NEW o \in Endpoint, mode[o] # "free", mode'[o] = "free"
  PROVE  \E p \in Proc, h \in Handle : IpcDestroy(p, h) /\ ObjectOf(p, h) = o
<1>1. mode' # mode
  OBVIOUS
<1>2. ASSUME NEW p \in Proc, NEW h \in Handle, IpcCreate(p, h) PROVE FALSE
  BY <1>2 DEF IpcCreate, TypeOK
<1>3. ASSUME NEW p \in Proc, NEW h \in Handle, IpcClose(p, h) PROVE FALSE
  BY <1>3 DEF IpcClose, TypeOK
<1>4. ASSUME NEW p \in Proc, NEW h \in Handle, IpcDestroy(p, h) PROVE ObjectOf(p, h) = o
  BY <1>4 DEF IpcDestroy, TypeOK
<1>5. IpcStep
  BY <1>1 DEF Next, SchedulerStep, Preempt, Yield, CapStep, CapRestrict, CapTransfer, CapRevoke,
              LifeStep, Exit, Fault, Kill, GroupTerminate, GroupTerminateTree, GroupFreeze,
              GroupResume, Transition, Restart, Reap, PolicyStep, EmergencyPause,
              EmergencyResume, ipcVars
<1> QED BY ZenonT(30), <1>1, <1>2, <1>3, <1>4, <1>5
        DEF IpcStep, IpcCall, IpcRecv, IpcRecvWait, IpcCancel, ipcVars

(* An endpoint that goes out of use leaves no message, no receiver and no  *)
(* capability behind.                                                      *)
LEMMA DestroyStep ==
  ASSUME ProcessInv, Next, NEW o \in Endpoint, mode[o] # "free", mode'[o] = "free"
  PROVE  /\ queued'[o] = 0
         /\ \A p \in Proc : state'[p] = "BLOCKED" => wait'[p].object # o
         /\ \A q \in Pos : ent'[q].object # o
<1> USE DEF ProcessInv
<1>1. PICK p \in Proc, h \in Handle : IpcDestroy(p, h) /\ ObjectOf(p, h) = o
  BY FreedByDestroy
<1>2. queued'[o] = 0
  BY <1>1 DEF IpcDestroy, TypeOK
<1>3. NoLostWakeup'
  BY ProcessStep
<1>4. \A q \in Proc : state'[q] = "BLOCKED" => wait'[q].object # o
  BY <1>3 DEF NoLostWakeup
<1>5. ASSUME NEW q \in Pos PROVE ent'[q].object # o
  <2> DEFINE D == UNION {Naming(ent, t, o) : t \in TablesInUse}
  <2>1. ent'[q] = IF q \in D THEN Retire(ent[q]) ELSE ent[q]
    BY <1>1 DEF IpcDestroy, RetireWhere
  <2>2. ent[q] \in Entry /\ q[1] \in Proc /\ o # NoObject
    BY PosFacts, ProcFacts DEF TypeOK
  <2>3. CASE q \in D
    BY <2>1, <2>2, <2>3, RetireType
  <2>4. CASE q \notin D
    <3>1. ~(ent[q].active /\ ent[q].object = o)
      BY <2>2, <2>4 DEF Naming, ActiveIn, TablesInUse, EntryInv
    <3>2. ent[q].object # o
      BY <2>2, <3>1 DEF EntryInv
    <3> QED BY <2>1, <2>4, <3>2
  <2> QED BY <2>3, <2>4
<1> QED BY <1>2, <1>4, <1>5

(* Destroying an endpoint leaves nothing that names its pool slot: no      *)
(* message, no blocked receive and no capability in any table.             *)
THEOREM DestroyedIsForgotten == Spec => DestroyForgets
<1>1. ASSUME ProcessInv, [Next]_vars
      PROVE  [\A o \in Endpoint : mode[o] # "free" /\ mode'[o] = "free" =>
                /\ queued'[o] = 0
                /\ \A p \in Proc : state'[p] = "BLOCKED" => wait'[p].object # o
                /\ \A q \in Pos : ent'[q].object # o]_vars
  BY <1>1, DestroyStep
<1> QED
  BY <1>1, ProcessInit, ProcessStep, PTL DEF Spec, DestroyForgets

-----------------------------------------------------------------------------
(* Handing a message to a blocked receiver. *)

(* The handle a receive was made with named its endpoint, and that slot of *)
(* the capability table has since been left alone or retired: it never     *)
(* names another object under the same generation.                         *)
HandleInv ==
  \A p \in Proc : state[p] = "BLOCKED" =>
    LET h == wait[p].handle
        e == ent[<<p, h.slot>>]
    IN  /\ h \in Handle
        /\ \/ e.gen = 0
           \/ e.gen > h.gen
           \/ e.gen = h.gen /\ e.active /\ e.object = wait[p].object

(* Every step keeps the handle of a blocked receive behind the table.      *)
LEMMA HandleStep ==
  ASSUME ProcessInv, HandleInv, Next
  PROVE  HandleInv'
<1> USE DEF ProcessInv
<1>1. Shape /\ TablesStep
  BY ShapeOfNext, TablesStepOfNext
<1>2. PICK p \in Proc : Resched(p) \/ Sleeps(p) \/ \E Gone \in SUBSET Proc : Stays(p, Gone)
  BY <1>1 DEF Shape
<1> SUFFICES ASSUME NEW q \in Proc, state'[q] = "BLOCKED"
             PROVE  LET h == wait'[q].handle
                        e == ent'[<<q, h.slot>>]
                    IN  /\ h \in Handle
                        /\ \/ e.gen = 0
                           \/ e.gen > h.gen
                           \/ e.gen = h.gen /\ e.active /\ e.object = wait'[q].object
  BY DEF HandleInv
<1> DEFINE Goal == LET h == wait'[q].handle
                       e == ent'[<<q, h.slot>>]
                   IN  /\ h \in Handle
                       /\ \/ e.gen = 0
                          \/ e.gen > h.gen
                          \/ e.gen = h.gen /\ e.active /\ e.object = wait'[q].object
<1>3. ASSUME state[q] = "BLOCKED", wait'[q].handle = wait[q].handle,
             wait'[q].object = wait[q].object
      PROVE  Goal
  <2> DEFINE h == wait[q].handle
             r == <<q, h.slot>>
             e == ent[r]
             f == ent'[r]
  <2>1. /\ h \in Handle
        /\ \/ e.gen = 0
           \/ e.gen > h.gen
           \/ e.gen = h.gen /\ e.active /\ e.object = wait[q].object
    BY <1>3 DEF HandleInv
  <2>2. r \in Pos /\ r[1] = q /\ h.gen \in 0 .. MaxGen
    BY <2>1, PosFacts DEF Handle
  <2>3. /\ EntryStep(r)
        /\ e \in Entry /\ f \in Entry
    BY <1>1, <2>2 DEF TablesStep, TypeOK
  <2>4. e.gen \in Nat /\ f.gen \in Nat /\ h.gen \in Nat
    BY <2>2, <2>3, CapabilityAssumption DEF Entry
  <2>5. ~Reaped(r)
    BY <1>3, <2>2 DEF Reaped
  <2>6. \/ f.gen = 0
        \/ f.gen > h.gen
        \/ f.gen = h.gen /\ f.active /\ f.object = wait[q].object
    <3>1. CASE f = e
      BY <2>1, <3>1
    <3>2. CASE Retired(r)
      <4>1. f.gen = 0 \/ f.gen > e.gen
        BY <2>3, <3>2, RetireType DEF Retired
      <4>2. e.gen # 0
        BY <2>2, <3>2 DEF Retired, EntryInv
      <4> HIDE DEF e, f, h
      <4> QED BY <2>1, <2>4, <4>1, <4>2
    <3>3. CASE Filled(r)
      <4>1. ~e.active /\ e.gen # 0 /\ f.gen = e.gen
        BY <3>3 DEF Filled
      <4> HIDE DEF e, f, h
      <4> QED BY <2>1, <2>4, <4>1
    <3> QED BY <2>3, <2>5, <3>1, <3>2, <3>3 DEF EntryStep
  <2> QED BY <1>3, <2>1, <2>6
<1>4. CASE Resched(p)
  <2>1. PICK s \in {"READY", "RUNNING", "ZOMBIE"} : GivesUp(p, s)
    BY <1>4 DEF Resched
  <2>2. s \in State /\ state[p] = "RUNNING"
    BY <2>1 DEF State, GivesUp, Running
  <2>3. state[q] = "BLOCKED"
    BY <2>1, <2>2, GivesUpFacts
  <2> QED BY <1>3, <1>4, <2>3 DEF Resched
<1>5. CASE Sleeps(p)
  <2>1. "BLOCKED" \in State /\ GivesUp(p, "BLOCKED")
    BY <1>5 DEF Sleeps, State
  <2>2. PICK h \in Handle :
          /\ Names(p, h, RECV)
          /\ wait' = [wait EXCEPT ![p] = [object |-> ObjectOf(p, h), handle |-> h,
                                          ahead |-> {r \in Proc : state[r] = "BLOCKED"}]]
    BY <1>5 DEF Sleeps
  <2>3. CASE q = p
    <3>1. wait'[q].object = ObjectOf(p, h) /\ wait'[q].handle = h
      BY <2>2, <2>3 DEF TypeOK
    <3>2. /\ ent[<<p, h.slot>>].active
          /\ ent[<<p, h.slot>>].gen = h.gen
          /\ ent[<<p, h.slot>>].object = ObjectOf(p, h)
      BY <2>2 DEF Names, Permits, Valid, ObjectOf
    <3>3. ent' = ent
      BY <1>5 DEF Sleeps
    <3> QED BY <2>3, <3>1, <3>2, <3>3
  <2>4. CASE q # p
    <3>1. state[q] = "BLOCKED"
      BY <2>1, <2>4, GivesUpFacts
    <3>2. wait'[q] = wait[q]
      BY <2>2, <2>4 DEF TypeOK
    <3> QED BY <1>3, <3>1, <3>2
  <2> QED BY <2>3, <2>4
<1>6. ASSUME NEW Gone \in SUBSET Proc, Stays(p, Gone) PROVE Goal
  <2>1. state[q] = "BLOCKED" /\ q \notin Gone
    BY <1>6 DEF Stays
  <2>2. wait[q] \in Waiting
    BY <2>1 DEF WaitInv, TypeOK
  <2>3. wait'[q].object = wait[q].object /\ wait'[q].handle = wait[q].handle
    BY <1>6, <2>1, <2>2 DEF Stays, WaitWithout, Waiting
  <2> QED BY <1>3, <2>1, <2>3
<1> QED BY <1>2, <1>4, <1>5, <1>6

(* The same, for a step that may stutter.                                  *)
LEMMA HandleInvStep == ProcessInv /\ HandleInv /\ [Next]_vars => HandleInv'
<1> SUFFICES ASSUME ProcessInv, HandleInv, [Next]_vars PROVE HandleInv'
  OBVIOUS
<1>1. CASE Next
  BY <1>1, HandleStep
<1>2. CASE UNCHANGED vars
  BY <1>2 DEF vars, procVars, HandleInv
<1> QED BY <1>1, <1>2

(* A process that sleeps is only answered with a message by IPC_CALL.      *)
LEMMA MessageByCall ==
  ASSUME ProcessInv, Next, NEW q \in Proc, state[q] = "BLOCKED", answer'[q] = "message"
  PROVE  \E p \in Proc, h \in Handle : IpcCall(p, h)
<1> USE DEF ProcessInv
<1>1. answer[q] = "none"
  BY DEF AnswerInv
<1>types. state \in [Proc -> State] /\ answer \in [Proc -> Answer]
  BY DEF TypeOK
<1> SUFFICES ASSUME ~\E p \in Proc, h \in Handle : IpcCall(p, h) PROVE FALSE
  OBVIOUS
<1>a. ASSUME answer'[q] = answer[q] PROVE FALSE
  BY <1>1, <1>a
<1>b. ASSUME NEW p \in Proc, NEW s \in State, GivesUp(p, s) PROVE FALSE
  <2>1. state[p] = "RUNNING" /\ q # p
    BY <1>b DEF GivesUp, Running
  <2> QED BY <1>b, <1>1, <2>1, GivesUpFacts
<1>c. ASSUME NEW S, NEW r, r # "message", Wake(Each(S, r)) PROVE FALSE
  BY <1>1, <1>c DEF Wake, Each
<1>d. ASSUME NEW S, Terminated(S) PROVE FALSE
  BY <1>1, <1>d DEF Terminated
<1>1a. ASSUME NEW p \in Proc, Preempt(p) PROVE FALSE
  <2>1. [state EXCEPT ![p] = "RUNNING"] = state
    BY <1>1a, <1>types DEF Preempt, Running
  <2>2. GivesUp(p, "RUNNING")
    BY <1>1a, <2>1 DEF Preempt, GivesUp
  <2> QED BY <1>b, <2>2 DEF State
<1>1b. ASSUME NEW p \in Proc, Yield(p) PROVE FALSE
  <2>1. GivesUp(p, "READY")
    BY <1>1b DEF Yield, GivesUp
  <2> QED BY <1>b, <2>1 DEF State
<1>2. ASSUME NEW p \in Proc, NEW h \in Handle, IpcRecvWait(p, h) PROVE FALSE
  <2>1. CASE UNCHANGED procVars
    BY <1>a, <2>1 DEF procVars
  <2>2. CASE Schedule([state EXCEPT ![p] = "BLOCKED"], p, answer)
    <3>1. GivesUp(p, "BLOCKED")
      BY <1>2, <2>2 DEF IpcRecvWait, GivesUp
    <3> QED BY <1>b, <3>1 DEF State
  <2> QED BY <1>2, <2>1, <2>2 DEF IpcRecvWait
<1>3. ASSUME NEW p \in Proc, Exit(p) \/ Fault(p) PROVE FALSE
  <2>1. GivesUp(p, "ZOMBIE")
    BY <1>3 DEF Exit, Fault, GivesUp
  <2> QED BY <1>b, <2>1 DEF State
<1>4. ASSUME NEW p \in Proc, NEW h \in Handle, EmergencyPause(p, h) PROVE FALSE
  BY <1>1, <1>4 DEF EmergencyPause
<1>scheduler. CASE SchedulerStep
  BY <1>scheduler, <1>1a, <1>1b DEF SchedulerStep
<1>ipc. CASE IpcStep
  BY <1>ipc, <1>a, <1>c, <1>2
     DEF IpcStep, IpcCreate, IpcDestroy, IpcClose, IpcRecv, IpcCancel, procVars
<1>cap. CASE CapStep
  BY <1>cap, <1>a DEF CapStep, CapRestrict, CapTransfer, CapRevoke, procVars
<1>life. CASE LifeStep
  BY <1>life, <1>a, <1>d, <1>3
     DEF LifeStep, Kill, GroupTerminate, GroupTerminateTree, GroupFreeze, GroupResume,
         Transition, Restart, Reap
<1>policy. CASE PolicyStep
  BY <1>policy, <1>a, <1>4 DEF PolicyStep, EmergencyResume
<1> QED BY <1>scheduler, <1>ipc, <1>cap, <1>life, <1>policy DEF Next

(* A blocked receive that is answered with a message is the oldest one     *)
(* still authorised.                                                       *)
LEMMA DeliverStep ==
  ASSUME ProcessInv, HandleInv, Next, NEW q \in Proc, state[q] = "BLOCKED", answer'[q] = "message"
  PROVE  /\ Permits(incn, ent, q, wait[q].handle, {RECV})
         /\ \A r \in wait[q].ahead :
              wait[r].object = wait[q].object =>
                ~Permits(incn, ent, r, wait[r].handle, {RECV})
<1> USE DEF ProcessInv
<1>1. PICK p \in Proc, h \in Handle : IpcCall(p, h)
  BY MessageByCall
<1> DEFINE o == ObjectOf(p, h)
<1>2. answer[q] = "none"
  BY DEF AnswerInv
<1>3. ~Wake(Each(Receivers(o), "denied"))
  BY <1>2 DEF Wake, Each
<1>4. PICK served \in Able(o) :
        /\ wait[served].ahead \cap Able(o) = {}
        /\ Wake([x \in {served} \cup (Receivers(o) \cap wait[served].ahead) |->
                   IF x = served THEN "message" ELSE "denied"])
  BY <1>1, <1>3 DEF IpcCall
<1>5. answer'[q] = IF q \in {served} \cup (Receivers(o) \cap wait[served].ahead)
                     THEN IF q = served THEN "message" ELSE "denied"
                     ELSE answer[q]
  BY <1>4 DEF Wake
<1>6. q = served
  BY <1>2, <1>5
<1>7. Permits(incn, ent, q, wait[q].handle, {RECV}) /\ wait[q].object = o
  BY <1>4, <1>6 DEF Able, StillAuthorised, Receivers
<1>8. ASSUME NEW r \in wait[q].ahead, wait[r].object = wait[q].object,
             Permits(incn, ent, r, wait[r].handle, {RECV})
      PROVE  FALSE
  <2>1. r \in Proc /\ state[r] = "BLOCKED"
    BY DEF WaitInv
  <2>2. r \in Receivers(o)
    BY <1>7, <1>8, <2>1 DEF Receivers
  <2> DEFINE k == wait[r].handle
             e == ent[<<r, k.slot>>]
  <2>3. /\ k \in Handle
        /\ \/ e.gen = 0
           \/ e.gen > k.gen
           \/ e.gen = k.gen /\ e.active /\ e.object = wait[r].object
    BY <2>1 DEF HandleInv
  <2>4. e.gen = k.gen /\ k.gen # 0 /\ k.gen \in Int
    BY <1>8, <2>3, CapabilityAssumption DEF Permits, Valid, Handle
  <2>5. e.object = o
    BY <1>7, <1>8, <2>3, <2>4
  <2>6. r \in Able(o)
    BY <1>8, <2>2, <2>5 DEF Able, StillAuthorised, ObjectOf
  <2> QED BY <1>4, <1>6, <2>6
<1> QED BY <1>7, <1>8

(* A blocked receiver is handed a message only while its own handle is     *)
(* still good, and never past an older receiver whose handle is.           *)
THEOREM MessagesGoWhereTheyMay == Spec => DeliveredRightly
<1>1. Init => HandleInv
  BY DEF Init, HandleInv
<1>2. ASSUME ProcessInv, HandleInv, [Next]_vars
      PROVE  [\A p \in Proc :
                state[p] = "BLOCKED" /\ answer'[p] = "message" =>
                  /\ Permits(incn, ent, p, wait[p].handle, {RECV})
                  /\ \A q \in wait[p].ahead :
                       wait[q].object = wait[p].object =>
                         ~Permits(incn, ent, q, wait[q].handle, {RECV})]_vars
  BY <1>2, DeliverStep
<1> QED
  BY <1>1, <1>2, ProcessInit, ProcessStep, HandleInvStep, PTL DEF Spec, DeliveredRightly

-----------------------------------------------------------------------------
(* Restarting a process. *)

(* Only a restart makes a zombie READY.                                    *)
LEMMA ReadyByRestart ==
  ASSUME TypeOK, Next, NEW q \in Proc, state[q] = "ZOMBIE", state'[q] = "READY"
  PROVE  \E p \in Proc : Restart(p, q)
<1>types. state \in [Proc -> State] /\ answer \in [Proc -> Answer]
  BY DEF TypeOK
<1>a. ASSUME state'[q] = state[q] PROVE FALSE
  BY <1>a
<1>b. ASSUME NEW p \in Proc, NEW s \in State, GivesUp(p, s) PROVE FALSE
  <2>1. state[p] = "RUNNING" /\ q # p
    BY <1>b DEF GivesUp, Running
  <2> QED BY <1>b, <2>1, GivesUpFacts
<1>c. ASSUME NEW reply, DOMAIN reply \subseteq {r \in Proc : state[r] = "BLOCKED"}, Wake(reply)
      PROVE  FALSE
  <2>1. q \notin DOMAIN reply
    BY <1>c
  <2> QED BY <1>c, <2>1 DEF Wake
<1>e. ASSUME NEW o, NEW r, Wake(Each(Receivers(o), r)) PROVE FALSE
  <2>1. DOMAIN Each(Receivers(o), r) = Receivers(o)
    BY DEF Each
  <2> QED BY <1>c, <1>e, <2>1 DEF Receivers
<1>d. ASSUME NEW S, Terminated(S) PROVE FALSE
  BY <1>d DEF Terminated
<1>1a. ASSUME NEW p \in Proc, Preempt(p) PROVE FALSE
  <2>1. [state EXCEPT ![p] = "RUNNING"] = state
    BY <1>1a, <1>types DEF Preempt, Running
  <2>2. GivesUp(p, "RUNNING")
    BY <1>1a, <2>1 DEF Preempt, GivesUp
  <2> QED BY <1>b, <2>2 DEF State
<1>1b. ASSUME NEW p \in Proc, Yield(p) PROVE FALSE
  <2>1. GivesUp(p, "READY")
    BY <1>1b DEF Yield, GivesUp
  <2> QED BY <1>b, <2>1 DEF State
<1>2. ASSUME NEW p \in Proc, NEW h \in Handle, IpcRecvWait(p, h) PROVE FALSE
  <2>1. CASE UNCHANGED procVars
    BY <1>a, <2>1 DEF procVars
  <2>2. CASE Schedule([state EXCEPT ![p] = "BLOCKED"], p, answer)
    <3>1. GivesUp(p, "BLOCKED")
      BY <1>2, <2>2 DEF IpcRecvWait, GivesUp
    <3> QED BY <1>b, <3>1 DEF State
  <2> QED BY <1>2, <2>1, <2>2 DEF IpcRecvWait
<1>3. ASSUME NEW p \in Proc, Exit(p) \/ Fault(p) PROVE FALSE
  <2>1. GivesUp(p, "ZOMBIE")
    BY <1>3 DEF Exit, Fault, GivesUp
  <2> QED BY <1>b, <2>1 DEF State
<1>4. ASSUME NEW p \in Proc, NEW h \in Handle, IpcCall(p, h) PROVE FALSE
  <2> DEFINE o == ObjectOf(p, h)
  <2>1. CASE Wake(Each(Receivers(o), "denied"))
    BY <1>e, <2>1
  <2>2. ASSUME NEW served \in Able(o),
               Wake([x \in {served} \cup (Receivers(o) \cap wait[served].ahead) |->
                       IF x = served THEN "message" ELSE "denied"])
        PROVE  FALSE
    <3> DEFINE reply == [x \in {served} \cup (Receivers(o) \cap wait[served].ahead) |->
                           IF x = served THEN "message" ELSE "denied"]
    <3>1. DOMAIN reply \subseteq {r \in Proc : state[r] = "BLOCKED"}
      BY DEF Able, Receivers
    <3> HIDE DEF reply
    <3>2. Wake(reply)
      BY <2>2 DEF reply
    <3> QED BY <1>c, <3>1, <3>2
  <2> QED BY <1>4, <2>1, <2>2 DEF IpcCall
<1>5. ASSUME NEW p \in Proc, NEW t \in Proc, IpcCancel(p, t) PROVE FALSE
  <2>1. DOMAIN Each({t}, "cancelled") \subseteq {r \in Proc : state[r] = "BLOCKED"}
    BY <1>5 DEF IpcCancel, Each
  <2> QED BY <1>c, <1>5, <2>1 DEF IpcCancel
<1>6. ASSUME NEW p \in Proc, NEW t \in Proc, Restart(p, t) PROVE t = q
  <2>1. state' = state \/ state' = [state EXCEPT ![t] = "READY"]
    BY <1>6 DEF Restart
  <2> QED BY <1>types, <2>1
<1>7. ASSUME NEW p \in Proc, NEW t \in Proc, Reap(p, t) PROVE FALSE
  BY <1>7, <1>types DEF Reap
<1>scheduler. CASE SchedulerStep
  BY <1>scheduler, <1>1a, <1>1b DEF SchedulerStep
<1>ipc. CASE IpcStep
  BY <1>ipc, <1>a, <1>e, <1>2, <1>4, <1>5
     DEF IpcStep, IpcCreate, IpcDestroy, IpcClose, IpcRecv, procVars
<1>cap. CASE CapStep
  BY <1>cap, <1>a DEF CapStep, CapRestrict, CapTransfer, CapRevoke, procVars
<1>life. CASE LifeStep
  BY <1>life, <1>a, <1>d, <1>3, <1>6, <1>7
     DEF LifeStep, Kill, GroupTerminate, GroupTerminateTree, GroupFreeze, GroupResume,
         Transition
<1>policy. CASE PolicyStep
  BY <1>policy DEF PolicyStep, EmergencyPause, EmergencyResume
<1> QED BY <1>scheduler, <1>ipc, <1>cap, <1>life, <1>policy DEF Next

(* A restart mints a root for every capability that was saved.             *)
LEMMA RestartStep ==
  ASSUME TypeOK, Next, NEW p \in Proc, state[p] = "ZOMBIE", state'[p] = "READY",
         NEW i \in DOMAIN saved[p]
  PROVE  \E q \in LivePos' \ LivePos :
           /\ q[1] = p /\ IsRoot(ent'[q])
           /\ ent'[q].object = saved[p][i].object
           /\ ent'[q].rights = saved[p][i].rights
<1>1. PICK owner \in Proc : Restart(owner, p)
  BY ReadyByRestart
<1> DEFINE free == Free(ent, p)
           s == NthOf(free, i)
           q == <<p, s>>
<1>2. Len(saved[p]) <= Cardinality(free)
  <2>1. Fits(p)
    BY <1>1 DEF Restart
  <2> QED BY <2>1 DEF Fits
<1>3. free \in SUBSET Slot /\ Cardinality(free) \in Nat
  BY SlotsFinite DEF Free
<1>4. i \in 1 .. Len(saved[p]) /\ Len(saved[p]) \in Nat
  BY DEF TypeOK
<1>5. i \in 1 .. Cardinality(free)
  <2> HIDE DEF free
  <2> QED BY <1>2, <1>3, <1>4
<1>6. s \in free /\ RankIn(s, free) = i
  BY <1>3, <1>5, NthFound
<1> HIDE DEF s
<1>7. q \in Pos /\ q[1] = p /\ q[2] = s /\ ~ent[q].active
  BY <1>6, PosFacts DEF Free
<1>8. ent'[q] = Minted(ent[q], saved[p][i].object, saved[p][i].rights, 0, NoParent)
  <2>1. ent' = [r \in Pos |->
                    IF r[1] = p /\ r[2] \in free /\ RankIn(r[2], free) <= Len(saved[p])
                      THEN LET d == saved[p][RankIn(r[2], free)] IN
                             Minted(ent[r], d.object, d.rights, 0, NoParent)
                      ELSE ent[r]]
    BY <1>1 DEF Restart
  <2> HIDE DEF free, q
  <2> QED BY <1>4, <1>6, <1>7, <2>1
<1>9. /\ ent'[q].active /\ IsRoot(ent'[q])
      /\ ent'[q].object = saved[p][i].object /\ ent'[q].rights = saved[p][i].rights
  BY <1>8, MintedFields DEF IsRoot, NoParent
<1> HIDE DEF q
<1>10. q \in LivePos'
  <2>1. q \in Intact(incn, ent)'
    BY <1>7, <1>9 DEF Intact
  <2>2. HoldsParents(ent', {q})
    BY <1>9 DEF HoldsParents
  <2> QED BY <2>1, <2>2 DEF LivePos, Live, Intact
<1>11. q \notin LivePos
  BY <1>7 DEF LivePos, Live, Intact
<1> QED BY <1>7, <1>9, <1>10, <1>11

(* A restarted process gets back, as live root capabilities in slots that  *)
(* were free, each of the capabilities saved when it exited.               *)
THEOREM RestartGivesBack == Spec => RestartRestores
<1>1. ASSUME ProcessInv, [Next]_vars
      PROVE  [\A p \in Proc : state[p] = "ZOMBIE" /\ state'[p] = "READY" =>
                \A i \in DOMAIN saved[p] :
                  \E q \in LivePos' \ LivePos :
                    /\ q[1] = p /\ IsRoot(ent'[q])
                    /\ ent'[q].object = saved[p][i].object
                    /\ ent'[q].rights = saved[p][i].rights]_vars
  BY <1>1, RestartStep DEF ProcessInv
<1> QED
  BY <1>1, ProcessInit, ProcessStep, PTL DEF Spec, RestartRestores
=============================================================================
