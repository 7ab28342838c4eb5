------------------------ MODULE VirtualMemoryProofs -------------------------
(***************************************************************************)
(* Theorems about VirtualMemory for every layout of the kernel, every      *)
(* memory map and user image, and page tables of any depth and size.       *)
(***************************************************************************)
EXTENDS VirtualMemory, FiniteSetTheorems, FunctionTheorems, TLAPS

(* A set of naturals has a least element.                                  *)
LEMMA LeastOf ==
  ASSUME NEW B \in SUBSET Nat, B # {}
  PROVE  \E x \in B : \A y \in B : x <= y
<1> DEFINE L == OpToRel(<, Nat)
<1>1. IsWellFoundedOn(L, Nat)
  BY NatLessThanWellFounded
<1>2. \A a, b \in Nat : a < b => <<a, b>> \in L
  BY DEF OpToRel
<1> HIDE DEF L
<1>3. PICK x \in B : \A y \in B : ~(<<y, x>> \in L)
  BY <1>1, WFMin
<1>4. \A y \in B : ~(y < x)
  BY <1>2, <1>3
<1> QED BY <1>4

(* Induction over the naturals up to n, for a set in place of a predicate. *)
LEMMA UpTo ==
  ASSUME NEW n \in Nat, NEW S, 0 \in S, \A i \in 0 .. n - 1 : i \in S => i + 1 \in S
  PROVE  0 .. n \subseteq S
<1> DEFINE B == {i \in 0 .. n : i \notin S}
<1> SUFFICES ASSUME B # {} PROVE FALSE
  OBVIOUS
<1>1. B \subseteq Nat
  OBVIOUS
<1>2. PICK x \in B : \A y \in B : x <= y
  BY <1>1, LeastOf
<1>3. x \in 1 .. n /\ x - 1 \in 0 .. n - 1 /\ x - 1 \notin B /\ x - 1 + 1 = x
  BY <1>2
<1>4. x - 1 \in S
  BY <1>3
<1> QED BY <1>3, <1>4

-----------------------------------------------------------------------------
(* The frames of the memory map. *)

(* Division rounds down.                                                   *)
LEMMA DivFacts ==
  ASSUME NEW b \in Nat \ {0}, NEW x \in Nat
  PROVE  /\ x \div b \in Nat
         /\ \A f \in Nat : f <= x \div b <=> f * b <= x
<1>1. x \div b \in Nat
  OBVIOUS
<1>2. x = b * (x \div b) + (x % b) /\ x % b \in 0 .. b - 1
  OBVIOUS
<1>3. ASSUME NEW f \in Nat PROVE f <= x \div b <=> f * b <= x
  BY <1>1, <1>2
<1> QED BY <1>1, <1>3

(* FrameOf rounds down, FirstFrameAfter up.                                *)
LEMMA FrameFacts ==
  ASSUME NEW x \in Nat
  PROVE  /\ FrameOf(x) \in Nat /\ FirstFrameAfter(x) \in Nat
         /\ \A f \in Nat : f <= FrameOf(x) <=> f * PageBytes <= x
         /\ \A f \in Nat : FirstFrameAfter(x) <= f <=> x <= f * PageBytes
<1>1. PICK b \in Nat \ {0} : b = PageBytes
  BY PhysMemAssumption
<1>2. FrameOf(x) \in Nat /\ \A f \in Nat : f <= FrameOf(x) <=> f * PageBytes <= x
  BY <1>1, DivFacts DEF FrameOf
<1>3. PICK u : u = FirstFrameAfter(x)
  OBVIOUS
<1>4. x + b - 1 \in Nat /\ u = (x + b - 1) \div b
  BY <1>1, <1>3 DEF FirstFrameAfter
<1>5. u \in Nat /\ \A f \in Nat : f <= u <=> f * b <= x + b - 1
  BY <1>4, DivFacts
<1>6. ASSUME NEW f \in Nat PROVE u <= f <=> x <= f * b
  <2>1. f + 1 <= u <=> (f + 1) * b <= x + b - 1
    BY <1>5
  <2>2. (f + 1) * b = f * b + b /\ f * b \in Nat
    OBVIOUS
  <2>3. (f + 1) * b <= x + b - 1 <=> ~(x <= f * b)
    BY <2>2
  <2> QED BY <1>5, <2>1, <2>3
<1> QED BY <1>1, <1>2, <1>3, <1>5, <1>6

(* Bytes decide the order of frames.                                       *)
LEMMA FrameOrder ==
  ASSUME NEW f \in Nat, NEW g \in Nat
  PROVE  /\ f * PageBytes \in Nat
         /\ f <= g <=> f * PageBytes <= g * PageBytes
<1>1. PICK b \in Nat \ {0} : b = PageBytes
  BY PhysMemAssumption
<1>2. f * b \in Nat /\ (f <= g <=> f * b <= g * b)
  OBVIOUS
<1> QED BY <1>1, <1>2

(* Ranges of frames, what lies in them, and ranges that share no frame.    *)
FrameRange == [next : Nat, end : Nat]
FramesOf(g) == g.next .. g.end - 1
RangeFrames(rs) == UNION {FramesOf(rs[i]) : i \in DOMAIN rs}
RangesApart(rs) ==
  \A i, j \in DOMAIN rs : i # j => FramesOf(rs[i]) \cap FramesOf(rs[j]) = {}

(* No frame of the range is touched by what is reserved.                   *)
Unreserved(reserved, g) ==
  \A k \in DOMAIN reserved :
    g.end <= ReservedFirst(reserved[k]) \/ ReservedEnd(reserved[k]) <= g.next

IsReserved(reserved) ==
  /\ reserved \in Seq([start : Nat, end : Nat])
  /\ \A k \in DOMAIN reserved : reserved[k].start <= reserved[k].end

LEMMA ReservedFacts ==
  ASSUME NEW reserved, IsReserved(reserved), NEW k \in DOMAIN reserved
  PROVE  /\ ReservedFirst(reserved[k]) \in Nat /\ ReservedEnd(reserved[k]) \in Nat
         /\ ReservedFirst(reserved[k]) <= ReservedEnd(reserved[k])
<1>1. PICK x, y : x = reserved[k].start /\ y = reserved[k].end
  OBVIOUS
<1>7. x \in Nat /\ y \in Nat /\ x <= y
  <2>1. PICK g : g = reserved[k]
    OBVIOUS
  <2> DEFINE R == [start : Nat, end : Nat]
  <2>3. reserved \in Seq(R) /\ g.start <= g.end
    BY <2>1 DEF IsReserved
  <2> HIDE DEF R
  <2>4. g \in R
    BY <2>1, <2>3
  <2>2. g \in [start : Nat, end : Nat] /\ g.start <= g.end
    BY <2>3, <2>4 DEF R
  <2> QED BY <1>1, <2>1, <2>2
<1>2. PICK f, u : f = FrameOf(x) /\ u = FirstFrameAfter(y)
  OBVIOUS
<1>3. f \in Nat /\ u \in Nat /\ f * PageBytes <= x /\ y <= u * PageBytes
  <2>1. f \in Nat /\ u \in Nat
    BY <1>2, <1>7, FrameFacts
  <2> QED BY <1>2, <1>7, <2>1, FrameFacts
<1>4. f * PageBytes \in Nat /\ u * PageBytes \in Nat
  BY <1>3, FrameOrder
<1>5. f * PageBytes <= u * PageBytes
  BY <1>3, <1>4, <1>7
<1>6. f <= u
  BY <1>3, <1>5, FrameOrder
<1> QED BY <1>1, <1>2, <1>3, <1>6 DEF ReservedFirst, ReservedEnd

(* The nearest reserved range starts lowest.                               *)
LEMMA NearestFacts ==
  ASSUME NEW reserved, IsReserved(reserved), NEW S \in SUBSET DOMAIN reserved, S # {}
  PROVE  /\ Nearest(reserved, S) \in S
         /\ \A j \in S : ReservedFirst(reserved[Nearest(reserved, S)]) <= ReservedFirst(reserved[j])
<1> DEFINE F(i) == ReservedFirst(reserved[i])
           T == {F(i) : i \in S}
<1>1. \A i \in S : F(i) \in Nat
  BY ReservedFacts
<1>2. PICK t \in T : \A y \in T : t <= y
  <2>1. T \in SUBSET Nat /\ T # {}
    BY <1>1
  <2> QED BY <2>1, LeastOf
<1> DEFINE U == {i \in S : F(i) = t}
<1>3. PICK u \in U : \A y \in U : u <= y
  <2>1. DOMAIN reserved \subseteq Nat
    BY DEF IsReserved
  <2>2. U \in SUBSET Nat /\ U # {}
    BY <1>2, <2>1
  <2> HIDE DEF U
  <2> QED BY <2>2, LeastOf
<1>4. \A j \in S : F(u) < F(j) \/ (F(u) = F(j) /\ u <= j)
  <2> SUFFICES ASSUME NEW j \in S PROVE F(u) < F(j) \/ (F(u) = F(j) /\ u <= j)
    OBVIOUS
  <2>1. F(u) = t /\ t <= F(j) /\ F(j) \in Nat /\ F(u) \in Nat
    BY <1>1, <1>2, <1>3
  <2>2. F(j) = t => u <= j
    BY <1>3
  <2> HIDE DEF F
  <2> QED BY <2>1, <2>2
<1> HIDE DEF F, U, T
<1>5. /\ Nearest(reserved, S) \in S
      /\ \A j \in S : F(Nearest(reserved, S)) < F(j) \/ F(Nearest(reserved, S)) = F(j)
  <2>1. u \in S
    BY DEF U
  <2> QED BY <1>4, <2>1 DEF Nearest, F
<1>6. \A j \in S : F(Nearest(reserved, S)) <= F(j)
  BY <1>1, <1>5
<1> QED BY <1>5, <1>6 DEF F

-----------------------------------------------------------------------------
(* Carving. *)

(* One round of the loop of phys_allocator_init from cursor c.             *)
CarveRound(f, reserved, end, c) ==
  IF c >= end THEN <<>>
  ELSE LET S == Ahead(reserved, c, end) IN
       IF S = {} THEN <<[next |-> c, end |-> end]>>
       ELSE LET r == reserved[Nearest(reserved, S)] IN
            (IF ReservedFirst(r) > c THEN <<[next |-> c, end |-> ReservedFirst(r)]>>
                                     ELSE <<>>)
            \o f[ReservedEnd(r)]

(* f is what the loop does from the last d cursors before the end on.      *)
CarvesFrom(f, reserved, end, d) ==
  /\ f = [c \in Nat |-> f[c]]
  /\ \A c \in Nat : c + d >= end => f[c] = CarveRound(f, reserved, end, c)

(* What a round finds ahead is further up.                                 *)
LEMMA AheadFacts ==
  ASSUME NEW reserved, IsReserved(reserved), NEW end \in Nat, NEW c \in Nat,
         NEW S, S = Ahead(reserved, c, end), S # {},
         NEW r, r = reserved[Nearest(reserved, S)]
  PROVE  /\ ReservedFirst(r) \in Nat /\ ReservedEnd(r) \in Nat
         /\ ReservedFirst(r) <= ReservedEnd(r)
         /\ c < ReservedEnd(r) /\ ReservedFirst(r) < end
         /\ \A k \in DOMAIN reserved :
              \/ ReservedEnd(reserved[k]) <= c
              \/ ReservedFirst(r) <= ReservedFirst(reserved[k])
<1>1. S \in SUBSET DOMAIN reserved
  BY DEF Ahead
<1>2. PICK n : n = Nearest(reserved, S)
  OBVIOUS
<1>3. n \in S /\ r = reserved[n] /\ \A j \in S : ReservedFirst(r) <= ReservedFirst(reserved[j])
  BY <1>1, <1>2, NearestFacts
<1>4. n \in DOMAIN reserved /\ ReservedEnd(r) > c /\ ReservedFirst(r) < end
  BY <1>3 DEF Ahead
<1>5. /\ ReservedFirst(r) \in Nat /\ ReservedEnd(r) \in Nat
      /\ ReservedFirst(r) <= ReservedEnd(r)
  BY <1>3, <1>4, ReservedFacts
<1>6. ASSUME NEW k \in DOMAIN reserved, ~(ReservedEnd(reserved[k]) <= c)
      PROVE  ReservedFirst(r) <= ReservedFirst(reserved[k])
  <2>1. ReservedFirst(reserved[k]) \in Nat /\ ReservedEnd(reserved[k]) \in Nat
    BY ReservedFacts
  <2>2. CASE k \in S
    BY <1>3, <2>2
  <2>3. CASE k \notin S
    <3>1. ReservedFirst(reserved[k]) >= end
      BY <1>6, <2>1, <2>3 DEF Ahead
    <3> QED BY <1>4, <1>5, <2>1, <3>1
  <2> QED BY <2>2, <2>3
<1> QED BY <1>4, <1>5, <1>6

(* A round looks only at later cursors.                                    *)
LEMMA RoundLooksAhead ==
  ASSUME NEW reserved, IsReserved(reserved), NEW end \in Nat, NEW c \in Nat,
         NEW f, NEW g, \A x \in Nat : x > c => f[x] = g[x]
  PROVE  CarveRound(f, reserved, end, c) = CarveRound(g, reserved, end, c)
<1>1. PICK S : S = Ahead(reserved, c, end)
  OBVIOUS
<1>2. CASE S = {}
  BY <1>1, <1>2 DEF CarveRound
<1>3. CASE S # {}
  <2>1. PICK r : r = reserved[Nearest(reserved, S)]
    OBVIOUS
  <2>2. ReservedEnd(r) \in Nat /\ ReservedEnd(r) > c
    BY <1>1, <1>3, <2>1, AheadFacts
  <2>3. f[ReservedEnd(r)] = g[ReservedEnd(r)]
    BY <2>2
  <2> QED BY <1>1, <1>3, <2>1, <2>3 DEF CarveRound
<1> QED BY <1>2, <1>3

(* The loop over one entry of the memory map is defined.                   *)
LEMMA CarveExists ==
  ASSUME NEW reserved, IsReserved(reserved), NEW end \in Nat
  PROVE  CarvesFrom(Carve(reserved, end), reserved, end, end)
<1> DEFINE S == {d \in Nat : \E f : CarvesFrom(f, reserved, end, d)}
<1>1. 0 \in S
  <2> DEFINE f == [c \in Nat |-> <<>>]
  <2>1. CarvesFrom(f, reserved, end, 0)
    BY DEF CarvesFrom, CarveRound
  <2> QED BY <2>1
<1>2. ASSUME NEW d \in 0 .. end - 1, d \in S PROVE d + 1 \in S
  <2>1. PICK f : CarvesFrom(f, reserved, end, d)
    BY <1>2
  <2> DEFINE g == [c \in Nat |-> IF c + d + 1 = end THEN CarveRound(f, reserved, end, c) ELSE f[c]]
  <2>2. g = [c \in Nat |-> g[c]]
    OBVIOUS
  <2>3. \A c \in Nat : g[c] = IF c + d + 1 = end THEN CarveRound(f, reserved, end, c) ELSE f[c]
    OBVIOUS
  <2> HIDE DEF g
  <2>4. ASSUME NEW c \in Nat, c + (d + 1) >= end
        PROVE  g[c] = CarveRound(g, reserved, end, c)
    <3>1. ASSUME NEW x \in Nat, x > c PROVE f[x] = g[x]
      BY <2>3, <2>4, <3>1
    <3>2. CarveRound(f, reserved, end, c) = CarveRound(g, reserved, end, c)
      BY <3>1, RoundLooksAhead
    <3>3. c + d + 1 = end \/ c + d >= end
      BY <2>4
    <3> QED BY <2>1, <2>3, <3>2, <3>3 DEF CarvesFrom
  <2>5. CarvesFrom(g, reserved, end, d + 1) /\ d + 1 \in Nat
    BY <2>2, <2>4 DEF CarvesFrom
  <2> QED BY <2>5
<1> HIDE DEF S
<1>3. end \in S
  <2>1. 0 .. end \subseteq S
    BY <1>1, <1>2, UpTo
  <2> QED BY <2>1
<1>4. PICK f : CarvesFrom(f, reserved, end, end)
  BY <1>3 DEF S
<1> DEFINE Solves(h) == h = [c \in Nat |-> CarveRound(h, reserved, end, c)]
<1>5. Solves(f)
  BY <1>4 DEF CarvesFrom
<1>6. Carve(reserved, end) = CHOOSE h : Solves(h)
  BY DEF Carve, CarveRound
<1>7. Solves(Carve(reserved, end))
  BY <1>5, <1>6
<1> QED BY <1>7 DEF CarvesFrom

(* What may come of the cursors from c on: ranges up to the end, one after *)
(* the other, that touch nothing reserved.                                 *)
Carved(q, reserved, c, end) ==
  /\ q \in Seq(FrameRange) /\ RangesApart(q)
  /\ \A i \in DOMAIN q : /\ c <= q[i].next /\ q[i].end <= end
                         /\ Unreserved(reserved, q[i])

LEMMA CarvedOne ==
  ASSUME NEW reserved, NEW c \in Nat, NEW mid \in Nat, NEW next \in Nat, NEW end \in Nat,
         c <= mid, mid <= next, mid <= end,
         Unreserved(reserved, [next |-> c, end |-> mid]),
         NEW q, Carved(q, reserved, next, end)
  PROVE  Carved(<<[next |-> c, end |-> mid]>> \o q, reserved, c, end)
<1>1. PICK g : g = [next |-> c, end |-> mid]
  OBVIOUS
<1>2. PICK s : s = <<g>> \o q
  OBVIOUS
<1>3. q \in Seq(FrameRange) /\ g \in FrameRange /\ Len(q) \in Nat
  BY <1>1 DEF Carved, FrameRange
<1>4. /\ s \in Seq(FrameRange) /\ DOMAIN s = 1 .. Len(q) + 1 /\ DOMAIN q = 1 .. Len(q)
      /\ s[1] = g /\ \A i \in 2 .. Len(q) + 1 : s[i] = q[i - 1] /\ i - 1 \in DOMAIN q
  BY <1>2, <1>3
<1>5. \A i \in DOMAIN q : /\ q[i].next \in Nat /\ q[i].end \in Nat
                          /\ next <= q[i].next /\ q[i].end <= end /\ Unreserved(reserved, q[i])
  <2>1. \A i \in DOMAIN q : q[i] \in FrameRange
    BY <1>3
  <2>2. \A i \in DOMAIN q : q[i].next \in Nat /\ q[i].end \in Nat
    BY <2>1 DEF FrameRange
  <2>3. \A i \in DOMAIN q : next <= q[i].next /\ q[i].end <= end /\ Unreserved(reserved, q[i])
    BY DEF Carved
  <2> QED BY <2>2, <2>3
<1>6. ASSUME NEW i \in DOMAIN s
      PROVE  c <= s[i].next /\ s[i].end <= end /\ Unreserved(reserved, s[i])
  <2>1. CASE i = 1
    BY <1>1, <1>4, <2>1
  <2>2. CASE i # 1
    <3>1. i \in 2 .. Len(q) + 1
      BY <1>3, <1>4, <2>2
    <3>2. s[i] = q[i - 1] /\ i - 1 \in DOMAIN q
      BY <1>4, <3>1
    <3> QED BY <1>5, <3>2
  <2> QED BY <2>1, <2>2
<1>7. ASSUME NEW i \in DOMAIN s, NEW j \in DOMAIN s, i # j
      PROVE  FramesOf(s[i]) \cap FramesOf(s[j]) = {}
  <2>1. ASSUME NEW k \in DOMAIN q PROVE FramesOf(g) \cap FramesOf(q[k]) = {}
    <3>1. g.end = mid /\ q[k].next \in Nat /\ mid <= q[k].next
      BY <1>1, <1>5
    <3> QED BY <3>1 DEF FramesOf
  <2>2. \A k \in DOMAIN s : k = 1 \/ (k \in 2 .. Len(q) + 1)
    BY <1>3, <1>4
  <2>3. CASE i = 1 /\ j \in 2 .. Len(q) + 1
    BY <1>4, <2>1, <2>3
  <2>4. CASE j = 1 /\ i \in 2 .. Len(q) + 1
    BY <1>4, <2>1, <2>4
  <2>5. CASE i \in 2 .. Len(q) + 1 /\ j \in 2 .. Len(q) + 1
    <3>1. /\ s[i] = q[i - 1] /\ i - 1 \in DOMAIN q /\ s[j] = q[j - 1] /\ j - 1 \in DOMAIN q
          /\ i - 1 # j - 1
      BY <1>4, <1>7, <2>5
    <3> QED BY <3>1 DEF Carved, RangesApart
  <2> QED BY <1>7, <2>2, <2>3, <2>4, <2>5
<1> QED BY <1>1, <1>2, <1>4, <1>6, <1>7 DEF Carved, RangesApart

(* What the loop yields.                                                   *)
LEMMA CarveFacts ==
  ASSUME NEW reserved, IsReserved(reserved), NEW end \in Nat, NEW c \in Nat
  PROVE  Carved(Carve(reserved, end)[c], reserved, c, end)
<1>1. PICK f : f = Carve(reserved, end)
  OBVIOUS
<1>2. \A x \in Nat : f[x] = CarveRound(f, reserved, end, x)
  BY <1>1, CarveExists DEF CarvesFrom
<1>9. \A x \in Nat : Carved(<<>>, reserved, x, end)
  BY DEF Carved, RangesApart
<1> DEFINE S == {d \in 0 .. end : \A x \in Nat : x + d >= end => Carved(f[x], reserved, x, end)}
<1>3. 0 \in S
  <2>1. ASSUME NEW x \in Nat, x + 0 >= end PROVE Carved(f[x], reserved, x, end)
    <3>1. x >= end
      BY <2>1
    <3>2. f[x] = <<>>
      BY <1>2, <3>1, Zenon DEF CarveRound
    <3> QED BY <1>9, <3>2
  <2> QED BY <2>1
<1>4. ASSUME NEW d \in 0 .. end - 1, d \in S PROVE d + 1 \in S
  <2>1. ASSUME NEW x \in Nat, x + (d + 1) >= end PROVE Carved(f[x], reserved, x, end)
    <3>1. PICK A : A = Ahead(reserved, x, end)
      OBVIOUS
    <3>2. CASE x >= end
      <4>1. f[x] = <<>>
        BY <1>2, <3>2, Zenon DEF CarveRound
      <4> QED BY <1>9, <4>1
    <3>3. CASE x < end /\ A = {}
      <4>1. f[x] = <<[next |-> x, end |-> end]>>
        <5>1. ~(x >= end) /\ A = {}
          BY <3>3
        <5> QED BY <1>2, <3>1, <5>1, Zenon DEF CarveRound
      <4>2. Unreserved(reserved, [next |-> x, end |-> end])
        <5> SUFFICES ASSUME NEW k \in DOMAIN reserved
                     PROVE  end <= ReservedFirst(reserved[k]) \/ ReservedEnd(reserved[k]) <= x
          BY DEF Unreserved
        <5>1. ReservedFirst(reserved[k]) \in Nat /\ ReservedEnd(reserved[k]) \in Nat
          BY ReservedFacts
        <5> QED BY <3>1, <3>3, <5>1 DEF Ahead
      <4>3. Carved(<<[next |-> x, end |-> end]>> \o <<>>, reserved, x, end)
        <5>1. Carved(<<>>, reserved, end, end)
          BY <1>9
        <5>2. x <= end /\ end <= end
          BY <3>3
        <5> QED BY <4>2, <5>1, <5>2, CarvedOne
      <4>4. <<[next |-> x, end |-> end]>> \o <<>> = <<[next |-> x, end |-> end]>>
        OBVIOUS
      <4> QED BY <4>1, <4>3, <4>4
    <3>4. CASE x < end /\ A # {}
      <4>1. PICK r : r = reserved[Nearest(reserved, A)]
        OBVIOUS
      <4>2. PICK first, last : first = ReservedFirst(r) /\ last = ReservedEnd(r)
        OBVIOUS
      <4>3. /\ first \in Nat /\ last \in Nat /\ first <= last /\ x < last /\ first < end
            /\ \A k \in DOMAIN reserved :
                 ReservedEnd(reserved[k]) <= x \/ first <= ReservedFirst(reserved[k])
        BY <3>1, <3>4, <4>1, <4>2, AheadFacts
      <4>4. f[x] = (IF first > x THEN <<[next |-> x, end |-> first]>> ELSE <<>>) \o f[last]
        <5>1. ~(x >= end) /\ A # {}
          BY <3>4
        <5> QED BY <1>2, <3>1, <4>1, <4>2, <5>1, Zenon DEF CarveRound
      <4>5. Carved(f[last], reserved, last, end)
        <5>1. last + d >= end
          BY <2>1, <4>3
        <5> QED BY <1>4, <4>3, <5>1
      <4>6. CASE first > x
        <5>1. Unreserved(reserved, [next |-> x, end |-> first])
          BY <4>3 DEF Unreserved
        <5>2. Carved(<<[next |-> x, end |-> first]>> \o f[last], reserved, x, end)
          BY <4>3, <4>5, <4>6, <5>1, CarvedOne
        <5> QED BY <4>4, <4>6, <5>2
      <4>7. CASE ~(first > x)
        <5>1. f[x] = f[last]
          <6>1. f[last] \in Seq(FrameRange)
            BY <4>5 DEF Carved
          <6> QED BY <4>4, <4>7, <6>1
        <5>2. \A i \in DOMAIN f[last] : x <= f[last][i].next
          <6>1. \A i \in DOMAIN f[last] : f[last][i] \in FrameRange /\ last <= f[last][i].next
            BY <4>5 DEF Carved
          <6> QED BY <4>3, <6>1 DEF FrameRange
        <5> QED BY <4>5, <5>1, <5>2 DEF Carved
      <4> QED BY <4>6, <4>7
    <3> QED BY <3>2, <3>3, <3>4
  <2> QED BY <2>1
<1> HIDE DEF S
<1>5. end \in S
  <2>1. 0 .. end \subseteq S
    BY <1>3, <1>4, UpTo
  <2> QED BY <2>1
<1> QED BY <1>1, <1>5 DEF S

-----------------------------------------------------------------------------
(* All entries of the memory map. *)

Entry == [usable : BOOLEAN, base : Nat, length : Nat]

IsMap(map) ==
  /\ map \in Seq(Entry)
  /\ \A i, j \in DOMAIN map :
       i # j /\ map[i].usable /\ map[j].usable =>
         \/ map[i].base + map[i].length <= map[j].base
         \/ map[j].base + map[j].length <= map[i].base

(* The frames of an entry lie in it and above the scratch area.            *)
LEMMA EntryFrames ==
  ASSUME NEW e \in Entry
  PROVE  /\ FirstOf(e) \in Nat /\ EndOf(e) \in Nat
         /\ \A f \in Nat : FirstOf(e) <= f /\ f < EndOf(e) =>
              /\ e.base <= f * PageBytes /\ Minimum <= f * PageBytes
              /\ (f + 1) * PageBytes <= e.base + e.length
              /\ FrameOf(e.base) <= f
<1>1. PICK b, t : b = e.base /\ t = e.base + e.length
  OBVIOUS
<1>2. b \in Nat /\ t \in Nat
  BY <1>1 DEF Entry
<1>3. PICK x : x = IF b < Minimum THEN Minimum ELSE b
  OBVIOUS
<1>4. x \in Nat /\ b <= x /\ Minimum <= x
  BY <1>2, <1>3, PhysMemAssumption
<1>5. FirstOf(e) = FirstFrameAfter(x) /\ EndOf(e) = FrameOf(t)
  BY <1>1, <1>3 DEF FirstOf, EndOf
<1>6. FirstOf(e) \in Nat /\ EndOf(e) \in Nat /\ FrameOf(b) \in Nat
  BY <1>2, <1>4, <1>5, FrameFacts
<1>7. ASSUME NEW f \in Nat, FirstOf(e) <= f, f < EndOf(e)
      PROVE  /\ b <= f * PageBytes /\ Minimum <= f * PageBytes
             /\ (f + 1) * PageBytes <= t
             /\ FrameOf(b) <= f
  <2>1. x <= f * PageBytes
    BY <1>4, <1>5, <1>7, FrameFacts
  <2>2. f * PageBytes \in Nat
    BY FrameOrder
  <2>3. b <= f * PageBytes /\ Minimum <= f * PageBytes
    BY <1>2, <1>4, <2>1, <2>2, PhysMemAssumption
  <2>4. f + 1 <= FrameOf(t) /\ f + 1 \in Nat
    BY <1>5, <1>6, <1>7
  <2>5. (f + 1) * PageBytes <= t
    BY <1>2, <2>4, FrameFacts
  <2>6. FrameOf(b) * PageBytes <= b /\ FrameOf(b) * PageBytes \in Nat
    <3>1. FrameOf(b) <= FrameOf(b)
      BY <1>6
    <3> QED BY <1>2, <1>6, <3>1, FrameFacts, FrameOrder
  <2>7. FrameOf(b) * PageBytes <= f * PageBytes
    BY <1>2, <2>2, <2>3, <2>6
  <2>8. FrameOf(b) <= f
    BY <1>6, <2>7, FrameOrder
  <2> QED BY <2>3, <2>5, <2>8
<1> QED BY <1>1, <1>6, <1>7

(* A range in the first n entries, in one of them.                         *)
LiesIn(g, map, n) ==
  \E k \in 1 .. n : map[k].usable /\ FirstOf(map[k]) <= g.next /\ g.end <= EndOf(map[k])

(* What may come of the first n entries.                                   *)
Laid(q, map, reserved, n) ==
  /\ q \in Seq(FrameRange) /\ RangesApart(q)
  /\ \A i \in DOMAIN q : LiesIn(q[i], map, n) /\ Unreserved(reserved, q[i])

(* Ranges of one entry and of earlier ones are apart.                      *)
LEMMA EntriesApart ==
  ASSUME NEW map, IsMap(map), NEW n \in DOMAIN map, map[n].usable,
         NEW g \in FrameRange, LiesIn(g, map, n - 1),
         NEW h \in FrameRange, FirstOf(map[n]) <= h.next, h.end <= EndOf(map[n])
  PROVE  FramesOf(g) \cap FramesOf(h) = {}
<1> SUFFICES ASSUME NEW f \in FramesOf(g), f \in FramesOf(h) PROVE FALSE
  OBVIOUS
<1>1. n \in Nat /\ 1 .. n - 1 \subseteq DOMAIN map /\ DOMAIN map \subseteq Nat
  BY DEF IsMap
<1>2. PICK k \in 1 .. n - 1 : map[k].usable /\ FirstOf(map[k]) <= g.next /\ g.end <= EndOf(map[k])
  BY DEF LiesIn
<1>3. PICK d, e : d = map[k] /\ e = map[n]
  OBVIOUS
<1>4. d \in Entry /\ e \in Entry /\ k # n /\ k \in DOMAIN map
  <2>1. \A i \in DOMAIN map : map[i] \in Entry
    BY DEF IsMap
  <2> QED BY <1>1, <1>2, <1>3, <2>1
<1>5. f \in Nat /\ g.next <= f /\ f < g.end /\ h.next <= f /\ f < h.end
      /\ g.next \in Nat /\ g.end \in Nat /\ h.next \in Nat /\ h.end \in Nat
  BY DEF FramesOf, FrameRange
<1>6. FirstOf(d) \in Nat /\ EndOf(d) \in Nat /\ FirstOf(e) \in Nat /\ EndOf(e) \in Nat
  BY <1>4, EntryFrames
<1>7. FirstOf(d) <= f /\ f < EndOf(d) /\ FirstOf(e) <= f /\ f < EndOf(e)
  BY <1>2, <1>3, <1>5, <1>6
<1>8. /\ d.base <= f * PageBytes /\ (f + 1) * PageBytes <= d.base + d.length
      /\ e.base <= f * PageBytes /\ (f + 1) * PageBytes <= e.base + e.length
  BY <1>4, <1>5, <1>7, EntryFrames
<1>9. d.base + d.length <= e.base \/ e.base + e.length <= d.base
  BY <1>2, <1>3, <1>4 DEF IsMap
<1>10. d.base \in Nat /\ d.length \in Nat /\ e.base \in Nat /\ e.length \in Nat
  BY <1>4 DEF Entry
<1>11. f * PageBytes \in Nat /\ (f + 1) * PageBytes \in Nat /\ ~((f + 1) * PageBytes <= f * PageBytes)
  <2>1. f + 1 \in Nat /\ ~(f + 1 <= f)
    BY <1>5
  <2> QED BY <1>5, <2>1, FrameOrder
<1> QED BY <1>8, <1>9, <1>10, <1>11

(* Ranges of one more entry.                                               *)
LEMMA LaidMore ==
  ASSUME NEW map, IsMap(map), NEW reserved, NEW n \in DOMAIN map,
         NEW p, Laid(p, map, reserved, n - 1),
         NEW q, q = <<>> \/ (map[n].usable /\ Carved(q, reserved, FirstOf(map[n]), EndOf(map[n])))
  PROVE  Laid(p \o q, map, reserved, n)
<1>1. n \in Nat /\ 1 .. n - 1 \subseteq 1 .. n /\ n \in 1 .. n
  BY DEF IsMap
<1>2. p \in Seq(FrameRange) /\ q \in Seq(FrameRange) /\ RangesApart(q)
  <2>1. p \in Seq(FrameRange)
    BY DEF Laid
  <2>2. CASE q = <<>>
    BY <2>1, <2>2 DEF RangesApart
  <2>3. CASE Carved(q, reserved, FirstOf(map[n]), EndOf(map[n]))
    BY <2>1, <2>3, Zenon DEF Carved
  <2> QED BY <2>2, <2>3
<1>3. PICK s : s = p \o q
  OBVIOUS
<1>4. PICK a, b : a = Len(p) /\ b = Len(q)
  OBVIOUS
<1>5. /\ a \in Nat /\ b \in Nat /\ DOMAIN p = 1 .. a /\ DOMAIN q = 1 .. b
      /\ s \in Seq(FrameRange) /\ DOMAIN s = 1 .. a + b
      /\ \A i \in 1 .. a : s[i] = p[i]
      /\ \A i \in a + 1 .. a + b : s[i] = q[i - a] /\ i - a \in 1 .. b
  BY <1>2, <1>3, <1>4
<1>6. ASSUME NEW i \in 1 .. b
      PROVE  /\ map[n].usable /\ q[i] \in FrameRange /\ Unreserved(reserved, q[i])
             /\ FirstOf(map[n]) <= q[i].next /\ q[i].end <= EndOf(map[n])
  <2>1. q # <<>>
    BY <1>5
  <2>2. map[n].usable /\ Carved(q, reserved, FirstOf(map[n]), EndOf(map[n]))
    BY <2>1
  <2>3. q[i] \in FrameRange /\ i \in DOMAIN q
    BY <1>2, <1>5
  <2> QED BY <2>2, <2>3, Zenon DEF Carved
<1>7. \A i \in 1 .. a : p[i] \in FrameRange /\ LiesIn(p[i], map, n - 1) /\ Unreserved(reserved, p[i])
  BY <1>2, <1>5 DEF Laid
<1>8. ASSUME NEW i \in DOMAIN s PROVE LiesIn(s[i], map, n) /\ Unreserved(reserved, s[i])
  <2>1. CASE i \in 1 .. a
    BY <1>1, <1>5, <1>7, <2>1 DEF LiesIn
  <2>2. CASE i \in a + 1 .. a + b
    BY <1>1, <1>5, <1>6, <2>2 DEF LiesIn
  <2> QED BY <1>5, <2>1, <2>2
<1>9. ASSUME NEW i \in 1 .. a, NEW j \in 1 .. b PROVE FramesOf(p[i]) \cap FramesOf(q[j]) = {}
  <2>1. PICK g, h : g = p[i] /\ h = q[j]
    OBVIOUS
  <2>2. g \in FrameRange /\ h \in FrameRange /\ LiesIn(g, map, n - 1) /\ map[n].usable
        /\ FirstOf(map[n]) <= h.next /\ h.end <= EndOf(map[n])
    BY <1>6, <1>7, <2>1
  <2> QED BY <2>1, <2>2, EntriesApart
<1>11. ASSUME NEW i \in DOMAIN s, NEW j \in DOMAIN s, i # j
       PROVE  FramesOf(s[i]) \cap FramesOf(s[j]) = {}
  <2>1. CASE i \in 1 .. a /\ j \in 1 .. a
    BY <1>5, <1>11, <2>1 DEF Laid, RangesApart
  <2>2. CASE i \in 1 .. a /\ j \in a + 1 .. a + b
    BY <1>5, <1>9, <2>2
  <2>3. CASE i \in a + 1 .. a + b /\ j \in 1 .. a
    BY <1>5, <1>9, <2>3
  <2>4. CASE i \in a + 1 .. a + b /\ j \in a + 1 .. a + b
    <3>1. /\ s[i] = q[i - a] /\ i - a \in DOMAIN q /\ s[j] = q[j - a] /\ j - a \in DOMAIN q
          /\ i - a # j - a
      BY <1>5, <1>11, <2>4
    <3> QED BY <1>2, <3>1 DEF RangesApart
  <2> QED BY <1>5, <2>1, <2>2, <2>3, <2>4
<1> QED BY <1>3, <1>5, <1>8, <1>11 DEF Laid, RangesApart

(* The ranges of all entries up to the i-th.                               *)
Flat(f, seqs, n) ==
  f = [i \in 1 .. n |-> IF i = 1 THEN seqs[i] ELSE f[i - 1] \o seqs[i]]

(* Joining sequences is defined.                                           *)
LEMMA FlatExists ==
  ASSUME NEW seqs, NEW N \in Nat
  PROVE  \E f : Flat(f, seqs, N)
<1> DEFINE S == {n \in Nat : \E f : Flat(f, seqs, n)}
<1>1. 0 \in S
  <2> DEFINE f == [i \in 1 .. 0 |-> <<>>]
  <2>1. Flat(f, seqs, 0)
    BY DEF Flat
  <2> QED BY <2>1
<1>2. ASSUME NEW n \in 0 .. N - 1, n \in S PROVE n + 1 \in S
  <2>1. PICK f : Flat(f, seqs, n)
    BY <1>2
  <2> DEFINE Item(h, i) == IF i = 1 THEN seqs[i] ELSE h[i - 1] \o seqs[i]
             g == [i \in 1 .. n + 1 |-> IF i = n + 1 THEN Item(f, i) ELSE f[i]]
  <2>2. n \in Nat /\ n + 1 \in Nat
    OBVIOUS
  <2>3. \A i \in 1 .. n : f[i] = Item(f, i)
    BY <2>1 DEF Flat
  <2> HIDE DEF Item
  <2>4. \A i \in 1 .. n : g[i] = f[i]
    BY <2>2
  <2>5. g[n + 1] = Item(f, n + 1)
    BY <2>2
  <2>6. g = [i \in 1 .. n + 1 |-> g[i]]
    OBVIOUS
  <2> HIDE DEF g
  <2>7. ASSUME NEW i \in 1 .. n + 1 PROVE Item(f, i) = Item(g, i)
    <3>1. CASE i = 1
      BY <3>1 DEF Item
    <3>2. CASE i # 1
      <4>1. i - 1 \in 1 .. n
        BY <2>2, <3>2
      <4> QED BY <2>4, <4>1 DEF Item
    <3> QED BY <3>1, <3>2
  <2>8. ASSUME NEW i \in 1 .. n + 1 PROVE g[i] = Item(g, i)
    <3>1. CASE i = n + 1
      BY <2>5, <2>7, <3>1
    <3>2. CASE i # n + 1
      <4>1. i \in 1 .. n
        BY <2>2, <3>2
      <4> QED BY <2>3, <2>4, <2>7, <4>1
    <3> QED BY <3>1, <3>2
  <2>9. Flat(g, seqs, n + 1)
    BY <2>6, <2>8 DEF Flat, Item
  <2> QED BY <2>2, <2>9
<1> HIDE DEF S
<1>3. 0 .. N \subseteq S
  BY <1>1, <1>2, UpTo
<1>4. N \in S
  BY <1>3
<1> QED BY <1>4 DEF S

(* What is handed out: ranges that are apart, of frames that are free.     *)
FreeRanges(rs, map, reserved) ==
  /\ rs \in Seq(FrameRange) /\ RangesApart(rs)
  /\ RangeFrames(rs) \subseteq FreeFrames(map, reserved)

(* What is laid in the entries is free.                                    *)
LEMMA LaidIsFree ==
  ASSUME NEW map, IsMap(map), NEW reserved, IsReserved(reserved),
         NEW q, Laid(q, map, reserved, Len(map))
  PROVE  FreeRanges(q, map, reserved)
<1> SUFFICES ASSUME NEW i \in DOMAIN q, NEW f \in FramesOf(q[i])
             PROVE  f \in FreeFrames(map, reserved)
  BY DEF Laid, FreeRanges, RangeFrames
<1>1. PICK g : g = q[i]
  OBVIOUS
<1>2. g \in FrameRange /\ LiesIn(g, map, Len(map)) /\ Unreserved(reserved, g)
  BY <1>1 DEF Laid
<1>3. PICK k \in DOMAIN map : map[k].usable /\ FirstOf(map[k]) <= g.next /\ g.end <= EndOf(map[k])
  <2>1. DOMAIN map = 1 .. Len(map)
    BY DEF IsMap
  <2> QED BY <1>2, <2>1 DEF LiesIn
<1>4. map[k] \in Entry
  BY DEF IsMap
<1>5. PICK e : e = map[k]
  OBVIOUS
<1>6. /\ f \in Nat /\ g.next <= f /\ f < g.end /\ g.next \in Nat /\ g.end \in Nat
      /\ FirstOf(e) \in Nat /\ EndOf(e) \in Nat
  <2>1. FirstOf(e) \in Nat /\ EndOf(e) \in Nat
    BY <1>4, <1>5, EntryFrames
  <2> QED BY <1>1, <1>2, <2>1 DEF FramesOf, FrameRange
<1>7. FirstOf(e) <= f /\ f < EndOf(e)
  BY <1>3, <1>5, <1>6
<1>8. /\ e.base <= f * PageBytes /\ Minimum <= f * PageBytes
      /\ (f + 1) * PageBytes <= e.base + e.length /\ FrameOf(e.base) <= f
  BY <1>4, <1>5, <1>6, <1>7, EntryFrames
<1>9. f \in FrameOf(e.base) .. EndOf(e)
  <2>1. e.base \in Nat
    BY <1>4, <1>5 DEF Entry
  <2>2. FrameOf(e.base) \in Nat
    BY <2>1, FrameFacts
  <2> QED BY <1>6, <1>7, <1>8, <2>2
<1>10. ASSUME NEW n \in DOMAIN reserved
       PROVE  \/ reserved[n].end <= f * PageBytes
              \/ (f + 1) * PageBytes <= reserved[n].start
  <2>1. PICK x, y : x = reserved[n].start /\ y = reserved[n].end
    OBVIOUS
  <2>2. x \in Nat /\ y \in Nat
    <3> DEFINE R == [start : Nat, end : Nat]
    <3>1. reserved \in Seq(R)
      BY DEF IsReserved
    <3>2. reserved[n] \in R
      <4> HIDE DEF R
      <4> QED BY <3>1
    <3> QED BY <2>1, <3>2
  <2>3. g.end <= FrameOf(x) \/ FirstFrameAfter(y) <= g.next
    BY <1>2, <2>1 DEF Unreserved, ReservedFirst, ReservedEnd
  <2>4. FrameOf(x) \in Nat /\ FirstFrameAfter(y) \in Nat
    BY <2>2, FrameFacts
  <2>5. CASE g.end <= FrameOf(x)
    <3>1. f + 1 <= FrameOf(x) /\ f + 1 \in Nat
      BY <1>6, <2>4, <2>5
    <3>2. (f + 1) * PageBytes <= x
      BY <2>2, <3>1, FrameFacts
    <3> QED BY <2>1, <3>2
  <2>6. CASE FirstFrameAfter(y) <= g.next
    <3>1. FirstFrameAfter(y) <= f
      BY <1>6, <2>4, <2>6
    <3>2. y <= f * PageBytes
      BY <1>6, <2>2, <3>1, FrameFacts
    <3> QED BY <2>1, <3>2
  <2> QED BY <2>3, <2>5, <2>6
<1>11. f * PageBytes >= Minimum
  BY <1>6, <1>8, FrameOrder, PhysMemAssumption
<1> QED BY <1>3, <1>5, <1>8, <1>9, <1>10, <1>11, Zenon DEF FreeFrames

(* phys_allocator_init sets out with free frames, each once.               *)
LEMMA RangesAreFree ==
  ASSUME NEW map, IsMap(map), NEW reserved, IsReserved(reserved)
  PROVE  FreeRanges(Ranges(map, reserved), map, reserved)
<1> DEFINE Of(i) == IF map[i].usable /\ FirstOf(map[i]) < EndOf(map[i])
                      THEN Carve(reserved, EndOf(map[i]))[FirstOf(map[i])]
                      ELSE <<>>
           seqs == [i \in DOMAIN map |-> Of(i)]
           N == Len(map)
           all == FlattenSeq(seqs)
           flat == CHOOSE f : Flat(f, seqs, Len(seqs))
<1>1. N \in Nat /\ DOMAIN map = 1 .. N
  BY DEF IsMap
<1>2. \A i \in 1 .. N : seqs[i] = Of(i)
  BY <1>1
<1>3. ASSUME NEW i \in 1 .. N
      PROVE  \/ Of(i) = <<>>
             \/ map[i].usable /\ Carved(Of(i), reserved, FirstOf(map[i]), EndOf(map[i]))
  <2>1. map[i] \in Entry
    BY <1>1 DEF IsMap
  <2>2. FirstOf(map[i]) \in Nat /\ EndOf(map[i]) \in Nat
    BY <2>1, EntryFrames
  <2>3. Carved(Carve(reserved, EndOf(map[i]))[FirstOf(map[i])], reserved,
               FirstOf(map[i]), EndOf(map[i]))
    BY <2>2, CarveFacts
  <2> QED BY <2>3
<1> HIDE DEF Of
<1>4. Len(seqs) = N
  BY <1>1
<1> HIDE DEF seqs
<1>5. all = IF N = 0 THEN seqs ELSE flat[N]
  <2>1. all = IF Len(seqs) = 0 THEN seqs ELSE flat[Len(seqs)]
    BY DEF FlattenSeq, Flat
  <2> QED BY <1>4, <2>1, Zenon
<1>6. Flat(flat, seqs, N)
  <2>1. \E f : Flat(f, seqs, Len(seqs))
    BY <1>1, <1>4, FlatExists
  <2> QED BY <1>4, <2>1
<1> HIDE DEF flat, all
<1>7. \A i \in 1 .. N : flat[i] = IF i = 1 THEN seqs[i] ELSE flat[i - 1] \o seqs[i]
  BY <1>6 DEF Flat
<1>8. Laid(<<>>, map, reserved, 0)
  BY DEF Laid, RangesApart
<1> DEFINE S == {n \in 0 .. N : n = 0 \/ Laid(flat[n], map, reserved, n)}
<1>9. 0 \in S
  BY <1>1
<1>10. ASSUME NEW n \in 0 .. N - 1, n \in S PROVE n + 1 \in S
  <2>1. PICK k : k = n + 1
    OBVIOUS
  <2>2. k \in 1 .. N /\ k - 1 = n /\ k \in DOMAIN map /\ k \in 0 .. N
    BY <1>1, <2>1
  <2>3. PICK q : q = seqs[k]
    OBVIOUS
  <2>4. q = <<>> \/ (map[k].usable /\ Carved(q, reserved, FirstOf(map[k]), EndOf(map[k])))
    BY <1>2, <1>3, <2>2, <2>3
  <2>5. ASSUME NEW p, Laid(p, map, reserved, n) PROVE Laid(p \o q, map, reserved, k)
    <3>1. Laid(p, map, reserved, k - 1)
      BY <2>2, <2>5
    <3> QED BY <2>2, <2>4, <3>1, LaidMore
  <2>6. CASE n = 0
    <3>1. flat[k] = q
      BY <1>7, <2>1, <2>2, <2>3, <2>6
    <3>2. Laid(<<>> \o q, map, reserved, k)
      BY <1>8, <2>5, <2>6
    <3>3. q \in Seq(FrameRange)
      <4>1. CASE q = <<>>
        BY <4>1
      <4>2. CASE Carved(q, reserved, FirstOf(map[k]), EndOf(map[k]))
        BY <4>2, Zenon DEF Carved
      <4> QED BY <2>4, <4>1, <4>2
    <3>4. <<>> \o q = q
      BY <3>3
    <3> QED BY <2>1, <2>2, <3>1, <3>2, <3>4
  <2>7. CASE n # 0
    <3>1. flat[k] = flat[n] \o q
      <4>1. k # 1
        BY <2>1, <2>7
      <4> QED BY <1>7, <2>2, <2>3, <4>1
    <3>2. Laid(flat[n], map, reserved, n)
      BY <1>10, <2>7
    <3>3. Laid(flat[n] \o q, map, reserved, k)
      BY <2>5, <3>2
    <3> QED BY <2>1, <2>2, <3>1, <3>3
  <2> QED BY <2>6, <2>7
<1> HIDE DEF S
<1>11. N \in S
  <2>1. 0 .. N \subseteq S
    BY <1>1, <1>9, <1>10, UpTo
  <2> QED BY <1>1, <2>1
<1>12. Laid(all, map, reserved, N)
  <2>1. CASE N = 0
    <3>1. all = <<>>
      BY <1>1, <1>5, <2>1 DEF seqs
    <3> QED BY <1>8, <2>1, <3>1
  <2>2. CASE N # 0
    BY <1>5, <1>11, <2>2 DEF S
  <2> QED BY <2>1, <2>2
<1>13. FreeRanges(all, map, reserved)
  BY <1>12, LaidIsFree
<1> DEFINE n == IF Len(all) < MaxRanges THEN Len(all) ELSE MaxRanges
           rs == SubSeq(all, 1, n)
<1>14. Ranges(map, reserved) = rs
  BY DEF Ranges, all, seqs, Of
<1>15. all \in Seq(FrameRange) /\ n \in 0 .. Len(all)
  BY <1>13, PhysMemAssumption DEF FreeRanges
<1> HIDE DEF n
<1>16. rs \in Seq(FrameRange) /\ DOMAIN rs \subseteq DOMAIN all /\ \A i \in DOMAIN rs : rs[i] = all[i]
  BY <1>15
<1> QED BY <1>13, <1>14, <1>16 DEF FreeRanges, RangesApart, RangeFrames

(* phys_alloc_page takes one frame out of the ranges.                      *)
LEMMA AllocFacts ==
  ASSUME NEW rs \in Seq(FrameRange), RangesApart(rs), ~Exhausted(rs),
         NEW f, f = NextFrame(rs), NEW left, left = AfterAlloc(rs)
  PROVE  /\ f \in RangeFrames(rs) /\ f \in Nat
         /\ left \in Seq(FrameRange) /\ RangesApart(left)
         /\ RangeFrames(left) \subseteq RangeFrames(rs) \ {f}
<1>1. DOMAIN rs \subseteq Nat /\ \A i \in DOMAIN rs : rs[i] \in FrameRange
  OBVIOUS
<1>2. \A i \in DOMAIN rs : rs[i].next \in Nat /\ rs[i].end \in Nat
  BY <1>1 DEF FrameRange
<1> DEFINE B == {i \in DOMAIN rs : rs[i].next < rs[i].end}
<1>3. PICK x \in B : \A y \in B : x <= y
  <2>1. B \in SUBSET Nat /\ B # {}
    BY <1>1, <1>2 DEF Exhausted
  <2> HIDE DEF B
  <2> QED BY <2>1, LeastOf
<1>4. PICK c : c = CurrentRange(rs)
  OBVIOUS
<1>5. c \in DOMAIN rs /\ rs[c].next < rs[c].end
  <2>1. DOMAIN rs = 1 .. Len(rs)
    OBVIOUS
  <2>2. ASSUME NEW j \in 1 .. x - 1 PROVE rs[j].next >= rs[j].end
    <3>1. j \in DOMAIN rs /\ ~(x <= j)
      BY <1>3, <2>1
    <3> QED BY <1>2, <1>3, <3>1
  <2>3. x \in DOMAIN rs /\ rs[x].next < rs[x].end
    BY <1>3
  <2> QED BY <1>4, <2>2, <2>3 DEF CurrentRange
<1>6. PICK g : g = rs[c]
  OBVIOUS
<1>7. g \in FrameRange /\ g.next \in Nat /\ g.end \in Nat /\ g.next < g.end /\ f = g.next
  BY <1>1, <1>2, <1>4, <1>5, <1>6 DEF NextFrame
<1>8. PICK h : h = [next |-> f + 1, end |-> g.end]
  OBVIOUS
<1>9. /\ DOMAIN left = DOMAIN rs /\ left[c] = h
      /\ \A i \in DOMAIN rs : i # c => left[i] = rs[i]
      /\ left \in Seq(FrameRange) /\ h \in FrameRange
  <2>1. left = [rs EXCEPT ![c].next = @ + 1]
    BY <1>4 DEF AfterAlloc
  <2>2. g = [next |-> g.next, end |-> g.end]
    BY <1>7 DEF FrameRange
  <2>3. [g EXCEPT !.next = @ + 1] = h
    BY <1>7, <1>8, <2>2
  <2>4. left = [rs EXCEPT ![c] = h]
    BY <1>6, <2>1, <2>3
  <2>5. h \in FrameRange
    BY <1>7, <1>8 DEF FrameRange
  <2> QED BY <1>5, <2>4, <2>5
<1>10. f \in FramesOf(g) /\ FramesOf(h) \subseteq FramesOf(g) \ {f}
  BY <1>7, <1>8 DEF FramesOf
<1>11. ASSUME NEW i \in DOMAIN rs PROVE FramesOf(left[i]) \subseteq FramesOf(rs[i]) \ {f}
  <2>1. CASE i = c
    BY <1>6, <1>9, <1>10, <2>1
  <2>2. CASE i # c
    <3>1. f \notin FramesOf(rs[i])
      BY <1>5, <1>6, <1>10, <2>2 DEF RangesApart
    <3> QED BY <1>9, <2>2, <3>1
  <2> QED BY <2>1, <2>2
<1>12. RangesApart(left)
  <2> SUFFICES ASSUME NEW i \in DOMAIN left, NEW j \in DOMAIN left, i # j
               PROVE  FramesOf(left[i]) \cap FramesOf(left[j]) = {}
    BY DEF RangesApart
  <2>1. FramesOf(rs[i]) \cap FramesOf(rs[j]) = {}
    BY <1>9 DEF RangesApart
  <2> QED BY <1>9, <1>11, <2>1
<1>13. f \in RangeFrames(rs)
  BY <1>5, <1>6, <1>10 DEF RangeFrames
<1>14. RangeFrames(left) \subseteq RangeFrames(rs) \ {f}
  <2>1. \A y \in RangeFrames(left) : \E i \in DOMAIN rs : y \in FramesOf(left[i])
    BY <1>9 DEF RangeFrames
  <2> QED BY <1>11, <2>1 DEF RangeFrames
<1> QED BY <1>7, <1>9, <1>12, <1>13, <1>14

-----------------------------------------------------------------------------
(* Spaces. *)

(* What no operation undoes: b has the tables and entries of a, unchanged. *)
Grown(a, b) ==
  /\ DOMAIN a.tables \subseteq DOMAIN b.tables
  /\ \A id \in DOMAIN a.tables : b.tables[id] = a.tables[id]
  /\ DOMAIN a.leaves \subseteq DOMAIN b.leaves
  /\ \A v \in DOMAIN a.leaves : b.leaves[v] = a.leaves[v]

(* The shapes of a space, of the sources of table frames and of what an    *)
(* operation leaves of both.                                               *)
IsSpace(sp) ==
  sp = [root |-> sp.root, tables |-> sp.tables, leaves |-> sp.leaves, regions |-> sp.regions]

IsMem(m) ==
  m = [ranges |-> m.ranges, pool |-> m.pool, pmm |-> m.pmm] /\ m.pmm \in Seq(Nat)

Good(r) ==
  r = [sp |-> r.sp, m |-> r.m, status |-> r.status] /\ IsSpace(r.sp) /\ IsMem(r.m)

(* To grow is transitive and reflexive.                                    *)
LEMMA GrownTwice ==
  ASSUME NEW a, NEW b, NEW c, Grown(a, b), Grown(b, c)
  PROVE  Grown(a, c)
BY DEF Grown

LEMMA GrownNot == \A a : Grown(a, a)
BY DEF Grown

(* What can be walked to stays so, and so does what user code may reach.   *)
LEMMA GrownWalks ==
  ASSUME NEW a, NEW b, Grown(a, b), NEW v
  PROVE  /\ \A user \in BOOLEAN : AS!Walks(a, v, user) => AS!Walks(b, v, user)
         /\ \A write, execute \in BOOLEAN :
              AS!UserPageOk(a, v, write, execute) => AS!UserPageOk(b, v, write, execute)
         /\ \A frame, flags :
              AS!MappedTo(a, v, frame, flags) => AS!MappedTo(b, v, frame, flags)
<1>1. \A user \in BOOLEAN : AS!Walks(a, v, user) => AS!Walks(b, v, user)
  BY DEF Grown, AS!Walks
<1>2. \A write, execute \in BOOLEAN :
        AS!UserPageOk(a, v, write, execute) => AS!UserPageOk(b, v, write, execute)
  BY <1>1 DEF Grown, AS!UserPageOk
<1>3. \A frame, flags :
        AS!MappedTo(a, v, frame, flags) => AS!MappedTo(b, v, frame, flags)
  BY <1>1 DEF Grown, AS!MappedTo
<1> QED BY <1>1, <1>2, <1>3

-----------------------------------------------------------------------------
(* One page. *)

(* A frame for a table: from the allocator, which notes it, or the pool.   *)
LEMMA TakeFacts ==
  ASSUME NEW m, IsMem(m), NEW reach \in SUBSET Nat
  PROVE  IsMem(TakeFrame(m, reach).pool) /\ TakeFrame(m, reach).status # "BUSY"
<1>8. TakeFrame(m, reach).status # "BUSY"
  BY DEF TakeFrame, FromPool
<1> SUFFICES IsMem(TakeFrame(m, reach).pool)
  BY <1>8
<1>1. ASSUME NEW n, IsMem(n) PROVE IsMem(FromPool(n).pool)
  <2>1. [n EXCEPT !.pool = @ + 1] = [ranges |-> n.ranges, pool |-> n.pool + 1, pmm |-> n.pmm]
    BY <1>1 DEF IsMem
  <2> QED BY <1>1, <2>1 DEF IsMem, FromPool
<1> DEFINE rest == [m EXCEPT !.ranges = AfterAlloc(m.ranges)]
           f == NextFrame(m.ranges)
<1>2. rest = [ranges |-> AfterAlloc(m.ranges), pool |-> m.pool, pmm |-> m.pmm]
  BY DEF IsMem
<1>3. IsMem(rest) /\ rest.pmm = m.pmm
  BY <1>2 DEF IsMem
<1>4. CASE Exhausted(m.ranges)
  BY <1>1, <1>4 DEF TakeFrame
<1>5. CASE ~Exhausted(m.ranges) /\ (f = 0 \/ f >= IdentityEnd)
  BY <1>1, <1>3, <1>5 DEF TakeFrame
<1>6. CASE ~Exhausted(m.ranges) /\ ~(f = 0 \/ f >= IdentityEnd) /\ f \notin reach
  BY <1>3, <1>6 DEF TakeFrame
<1>7. CASE ~Exhausted(m.ranges) /\ ~(f = 0 \/ f >= IdentityEnd) /\ f \in reach
  <2> HIDE DEF f, rest
  <2>1. PICK p : p = Append(m.pmm, f)
    OBVIOUS
  <2>2. p \in Seq(Nat)
    BY <1>7, <2>1 DEF IsMem
  <2>3. \A x, y, z : [[ranges |-> x, pool |-> y, pmm |-> z] EXCEPT !.pmm = p]
                       = [ranges |-> x, pool |-> y, pmm |-> p]
    OBVIOUS
  <2>4. [rest EXCEPT !.pmm = p] = [ranges |-> AfterAlloc(m.ranges), pool |-> m.pool, pmm |-> p]
    BY <1>2, <2>3
  <2>5. TakeFrame(m, reach).pool = IF Len(m.pmm) < MaxPmm
                                     THEN [rest EXCEPT !.pmm = Append(@, f)] ELSE rest
    BY <1>7 DEF TakeFrame, f, rest
  <2>6. TakeFrame(m, reach).pool \in {rest, [rest EXCEPT !.pmm = p]}
    BY <1>3, <2>1, <2>5
  <2> QED BY <1>3, <2>2, <2>4, <2>6 DEF IsMem
<1> QED BY <1>4, <1>5, <1>6, <1>7

(* The table at one level on the way.                                      *)
LEMMA ChildFacts ==
  ASSUME NEW r, Good(r), NEW k, NEW v, NEW user \in BOOLEAN, NEW reach \in SUBSET Nat,
         NEW c, c = AS!ChildTable(r, k, v, user, reach),
         NEW id, id = AS!TableAt(k, v)
  PROVE  /\ Good(c)
         /\ Grown(r.sp, c.sp)
         /\ c.sp.leaves = r.sp.leaves /\ c.sp.regions = r.sp.regions
         /\ c.status = "OK" => /\ r.status = "OK"
                               /\ id \in DOMAIN c.sp.tables
                               /\ user => c.sp.tables[id].user
         /\ c.status = "BUSY" => r.status = "BUSY"
<1> DEFINE a == TakeFrame(r.m, reach)
<1>1. CASE r.status # "OK"
  BY <1>1, GrownNot DEF AS!ChildTable
<1>2. CASE r.status = "OK" /\ id \in DOMAIN r.sp.tables
  <2>1. \A x : /\ [r EXCEPT !.status = x] = [sp |-> r.sp, m |-> r.m, status |-> x]
               /\ Good([sp |-> r.sp, m |-> r.m, status |-> x])
    BY DEF Good
  <2>2. CASE user /\ ~r.sp.tables[id].user
    BY <1>2, <2>1, <2>2, GrownNot DEF AS!ChildTable
  <2>3. CASE ~(user /\ ~r.sp.tables[id].user)
    BY <1>2, <2>1, <2>3, GrownNot DEF AS!ChildTable
  <2> QED BY <2>2, <2>3
<1>3. CASE r.status = "OK" /\ id \notin DOMAIN r.sp.tables
  <2>1. IsMem(a.pool) /\ a.status # "BUSY"
    BY TakeFacts DEF Good
  <2>2. CASE a.status # "OK"
    <3>1. c = [sp |-> r.sp, m |-> a.pool, status |-> a.status]
      BY <1>3, <2>2 DEF AS!ChildTable, AS!Outcome
    <3> HIDE DEF a
    <3> QED BY <2>1, <2>2, <3>1, GrownNot DEF Good
  <2>3. CASE a.status = "OK"
    <3> DEFINE t == AS!With(r.sp.tables, id, [frame |-> a.frame, user |-> user])
               s == [root |-> r.sp.root, tables |-> t,
                     leaves |-> r.sp.leaves, regions |-> r.sp.regions]
    <3>1. c = [sp |-> [r.sp EXCEPT !.tables = t], m |-> a.pool, status |-> "OK"]
      BY <1>3, <2>3 DEF AS!ChildTable, AS!Outcome
    <3>2. /\ DOMAIN t = DOMAIN r.sp.tables \cup {id}
          /\ t[id].user = user
          /\ \A x \in DOMAIN r.sp.tables : t[x] = r.sp.tables[x]
      BY <1>3 DEF AS!With
    <3> HIDE DEF t, a
    <3>3. [r.sp EXCEPT !.tables = t] = s
      BY DEF Good, IsSpace
    <3>4. Grown(r.sp, s) /\ IsSpace(s)
      BY <3>2 DEF Grown, IsSpace
    <3>5. c = [sp |-> s, m |-> a.pool, status |-> "OK"]
      BY <3>1, <3>3
    <3>6. Good(c) /\ c.sp = s
      BY <2>1, <3>4, <3>5 DEF Good
    <3> QED BY <1>3, <3>2, <3>4, <3>5, <3>6
  <2> QED BY <2>2, <2>3
<1> QED BY <1>1, <1>2, <1>3

(***************************************************************************)
(* The recursive functions in the definitions of the mapping operators     *)
(* exist, so that each does what it says.                                  *)
(***************************************************************************)
(* The tables on the way to a page, level by level.                        *)
Way(f, r, v, user, reach, n) ==
  f = [i \in 0 .. n |-> IF i = 0 THEN r ELSE AS!ChildTable(f[i - 1], i, v, user, reach)]

(* The walk down the levels is defined.                                    *)
LEMMA WayExists ==
  ASSUME NEW r, NEW v, NEW user, NEW reach, NEW N \in Nat
  PROVE  \E f : Way(f, r, v, user, reach, N)
<1> DEFINE S == {n \in Nat : \E f : Way(f, r, v, user, reach, n)}
<1>1. 0 \in S
  <2> DEFINE f == [i \in 0 .. 0 |-> r]
  <2>1. Way(f, r, v, user, reach, 0)
    BY DEF Way
  <2> QED BY <2>1
<1>2. ASSUME NEW n \in 0 .. N - 1, n \in S PROVE n + 1 \in S
  <2>1. PICK f : Way(f, r, v, user, reach, n)
    BY <1>2
  <2> DEFINE g == [i \in 0 .. n + 1 |-> IF i = n + 1 THEN AS!ChildTable(f[n], i, v, user, reach) ELSE f[i]]
  <2>2. n \in Nat /\ n + 1 \in Nat
    OBVIOUS
  <2>3. \A i \in 0 .. n : f[i] = IF i = 0 THEN r ELSE AS!ChildTable(f[i - 1], i, v, user, reach)
    BY <2>1 DEF Way
  <2>4. \A i \in 0 .. n : g[i] = f[i]
    BY <2>2
  <2>5. g[n + 1] = AS!ChildTable(f[n], n + 1, v, user, reach)
    BY <2>2
  <2>6. g = [i \in 0 .. n + 1 |-> g[i]]
    OBVIOUS
  <2> HIDE DEF g
  <2>7. ASSUME NEW i \in 0 .. n + 1
        PROVE  g[i] = IF i = 0 THEN r ELSE AS!ChildTable(g[i - 1], i, v, user, reach)
    <3>1. CASE i = n + 1
      <4>1. g[i - 1] = f[n] /\ i # 0
        BY <2>2, <2>4, <3>1
      <4> QED BY <2>5, <3>1, <4>1
    <3>2. CASE i # n + 1
      <4>1. i \in 0 .. n
        BY <2>2, <3>2
      <4>2. i # 0 => g[i - 1] = f[i - 1]
        BY <2>2, <2>4, <4>1
      <4> QED BY <2>3, <2>4, <4>1, <4>2
    <3> QED BY <3>1, <3>2
  <2>8. Way(g, r, v, user, reach, n + 1)
    BY <2>6, <2>7 DEF Way
  <2> QED BY <2>2, <2>8
<1> HIDE DEF S
<1>3. 0 .. N \subseteq S
  BY <1>1, <1>2, UpTo
<1>4. N \in S
  BY <1>3
<1> QED BY <1>4 DEF S

(* The same over the levels there are.                                     *)
WayOf(f, r, v, user, reach) ==
  f = [k \in {0} \cup AS!Level |-> IF k = 0 THEN r ELSE AS!ChildTable(f[k - 1], k, v, user, reach)]

(* One round: the tables on the way are there, and the entry was vacant.   *)
LEMMA PageFacts ==
  ASSUME NEW r, Good(r), NEW v, NEW frame, NEW flags, NEW reach \in SUBSET Nat,
         NEW p, p = AS!MapPage(r, v, frame, flags, reach)
  PROVE  /\ Good(p)
         /\ Grown(r.sp, p.sp)
         /\ p.sp.regions = r.sp.regions
         /\ p.status # "OK" => p.sp.leaves = r.sp.leaves
         /\ p.status = "OK" =>
              /\ r.status = "OK"
              /\ v \notin DOMAIN r.sp.leaves
              /\ DOMAIN p.sp.leaves = DOMAIN r.sp.leaves \cup {v}
              /\ p.sp.leaves[v] = [frame |-> frame, flags |-> AS!LeafFlags(flags)]
              /\ AS!Walks(p.sp, v, "U" \in flags)
         /\ v \in DOMAIN r.sp.leaves => p.status # "OK"
         /\ p.status = "BUSY" => r.status = "BUSY" \/ v \in DOMAIN r.sp.leaves
<1> DEFINE N == Len(Span)
           user == "U" \in flags
           way == CHOOSE f : WayOf(f, r, v, user, reach)
           w == way[N]
           e == [frame |-> frame, flags |-> AS!LeafFlags(flags)]
<1>1. N \in Nat /\ AS!Level = 1 .. N /\ {0} \cup AS!Level = 0 .. N
  BY VirtualMemoryAssumption DEF AS!Level
<1>2. p = IF w.status # "OK" THEN w
          ELSE IF ~AS!Vacant(w.sp, v) THEN [w EXCEPT !.status = "BUSY"]
          ELSE [w EXCEPT !.sp.leaves = AS!With(@, v, e)]
  BY DEF AS!MapPage, WayOf
<1>3. WayOf(way, r, v, user, reach)
  <2> HIDE DEF user
  <2>1. PICK f : Way(f, r, v, user, reach, N)
    BY <1>1, WayExists
  <2>2. WayOf(f, r, v, user, reach)
    BY <1>1, <2>1 DEF Way, WayOf
  <2> QED BY <2>2
<1>12. user \in BOOLEAN
  OBVIOUS
<1> HIDE DEF way, user
<1>4. way[0] = r /\ \A k \in 1 .. N : way[k] = AS!ChildTable(way[k - 1], k, v, user, reach)
  BY <1>1, <1>3 DEF WayOf
<1> DEFINE S == {n \in 0 .. N :
                   /\ Good(way[n]) /\ Grown(r.sp, way[n].sp)
                   /\ way[n].sp.leaves = r.sp.leaves /\ way[n].sp.regions = r.sp.regions
                   /\ way[n].status = "BUSY" => r.status = "BUSY"
                   /\ way[n].status = "OK" =>
                        /\ r.status = "OK"
                        /\ \A k \in 1 .. n : /\ AS!TableAt(k, v) \in DOMAIN way[n].sp.tables
                                             /\ user => way[n].sp.tables[AS!TableAt(k, v)].user}
<1>5. 0 \in S
  BY <1>1, <1>4, GrownNot
<1>6. ASSUME NEW n \in 0 .. N - 1, n \in S PROVE n + 1 \in S
  <2>1. PICK a, c, id : /\ a = way[n] /\ c = way[n + 1]
                        /\ id = AS!TableAt(n + 1, v)
    OBVIOUS
  <2>2. n + 1 \in 1 .. N /\ n + 1 - 1 = n
    BY <1>1
  <2>3. c = AS!ChildTable(a, n + 1, v, user, reach)
    BY <1>4, <2>1, <2>2
  <2>4. /\ Good(a) /\ Grown(r.sp, a.sp)
        /\ a.sp.leaves = r.sp.leaves /\ a.sp.regions = r.sp.regions
        /\ a.status = "BUSY" => r.status = "BUSY"
        /\ a.status = "OK" =>
             /\ r.status = "OK"
             /\ \A k \in 1 .. n : /\ AS!TableAt(k, v) \in DOMAIN a.sp.tables
                                  /\ user => a.sp.tables[AS!TableAt(k, v)].user
    BY <1>6, <2>1
  <2>5. /\ Good(c) /\ Grown(a.sp, c.sp)
        /\ c.sp.leaves = a.sp.leaves /\ c.sp.regions = a.sp.regions
        /\ c.status = "OK" => /\ a.status = "OK"
                              /\ id \in DOMAIN c.sp.tables
                              /\ user => c.sp.tables[id].user
        /\ c.status = "BUSY" => a.status = "BUSY"
    BY <1>12, <2>1, <2>3, <2>4, ChildFacts
  <2>6. Grown(r.sp, c.sp)
    BY <2>4, <2>5, GrownTwice
  <2>7. ASSUME c.status = "OK", NEW k \in 1 .. n + 1
        PROVE  /\ AS!TableAt(k, v) \in DOMAIN c.sp.tables
               /\ user => c.sp.tables[AS!TableAt(k, v)].user
    <3>1. CASE k = n + 1
      BY <2>1, <2>5, <2>7, <3>1
    <3>2. CASE k # n + 1
      <4>1. k \in 1 .. n
        BY <2>2, <3>2
      <4> QED BY <2>4, <2>5, <2>7, <4>1 DEF Grown
    <3> QED BY <3>1, <3>2
  <2> QED BY <1>1, <2>1, <2>2, <2>4, <2>5, <2>6, <2>7
<1> HIDE DEF S
<1>7. N \in S
  <2>1. 0 .. N \subseteq S
    BY <1>1, <1>5, <1>6, UpTo
  <2> QED BY <1>1, <2>1
<1>8. /\ Good(w) /\ Grown(r.sp, w.sp)
      /\ w.sp.leaves = r.sp.leaves /\ w.sp.regions = r.sp.regions
      /\ w.status = "BUSY" => r.status = "BUSY"
      /\ w.status = "OK" => r.status = "OK" /\ AS!Walks(w.sp, v, user)
  BY <1>1, <1>7 DEF S, AS!Walks
<1> HIDE DEF w, e
<1>9. CASE w.status # "OK"
  BY <1>2, <1>8, <1>9
<1>10. CASE w.status = "OK" /\ ~AS!Vacant(w.sp, v)
  <2>1. p = [sp |-> w.sp, m |-> w.m, status |-> "BUSY"]
    BY <1>2, <1>8, <1>10 DEF Good
  <2> QED BY <1>8, <1>10, <2>1 DEF Good, AS!Vacant
<1>11. CASE w.status = "OK" /\ AS!Vacant(w.sp, v)
  <2> DEFINE t == AS!With(w.sp.leaves, v, e)
             s == [root |-> w.sp.root, tables |-> w.sp.tables,
                   leaves |-> t, regions |-> w.sp.regions]
  <2>1. p = [sp |-> [w.sp EXCEPT !.leaves = t], m |-> w.m, status |-> "OK"]
    <3>1. p = [w EXCEPT !.sp.leaves = AS!With(@, v, e)]
      BY <1>2, <1>11
    <3>2. w = [sp |-> w.sp, m |-> w.m, status |-> "OK"]
      BY <1>8, <1>11 DEF Good
    <3> QED BY <3>1, <3>2
  <2>2. v \notin DOMAIN w.sp.leaves
    BY <1>11 DEF AS!Vacant
  <2>3. /\ DOMAIN t = DOMAIN w.sp.leaves \cup {v} /\ t[v] = e
        /\ \A x \in DOMAIN w.sp.leaves : t[x] = w.sp.leaves[x]
    BY <2>2 DEF AS!With
  <2> HIDE DEF t
  <2>4. [w.sp EXCEPT !.leaves = t] = s
    BY <1>8 DEF Good, IsSpace
  <2>5. IsSpace(s) /\ Grown(w.sp, s)
    BY <2>3 DEF IsSpace, Grown
  <2>6. p = [sp |-> s, m |-> w.m, status |-> "OK"]
    BY <2>1, <2>4
  <2>7. Good(p) /\ p.sp = s /\ p.status = "OK"
    BY <1>8, <2>5, <2>6 DEF Good
  <2>8. AS!Walks(s, v, user)
    BY <1>8, <1>11, <1>12, <2>5, GrownWalks
  <2>9. Grown(r.sp, s)
    BY <1>8, <2>5, GrownTwice
  <2>10. s.leaves = t /\ s.regions = r.sp.regions
    BY <1>8
  <2> HIDE DEF s
  <2> QED BY <1>8, <1>11, <2>2, <2>3, <2>7, <2>8, <2>9, <2>10 DEF e, user
<1> QED BY <1>9, <1>10, <1>11

(* A round, unless an earlier one failed.                                  *)
Turn(p, v, frame, i, flags, reach) ==
  IF p.status = "OK" THEN AS!MapPage(p, v + i - 1, frame + i - 1, flags, reach) ELSE p

(* The rounds of the loop of map.                                          *)
Rounds(f, r, v, frame, flags, reach, n) ==
  f = [i \in 0 .. n |-> IF i = 0 THEN r ELSE Turn(f[i - 1], v, frame, i, flags, reach)]

(* So are the rounds over the pages of a mapping.                          *)
LEMMA RoundsExist ==
  ASSUME NEW r, NEW v, NEW frame, NEW flags, NEW reach, NEW N \in Nat
  PROVE  \E f : Rounds(f, r, v, frame, flags, reach, N)
<1> DEFINE S == {n \in Nat : \E f : Rounds(f, r, v, frame, flags, reach, n)}
<1>1. 0 \in S
  <2> DEFINE f == [i \in 0 .. 0 |-> r]
  <2>1. Rounds(f, r, v, frame, flags, reach, 0)
    BY DEF Rounds
  <2> QED BY <2>1
<1>2. ASSUME NEW n \in 0 .. N - 1, n \in S PROVE n + 1 \in S
  <2>1. PICK f : Rounds(f, r, v, frame, flags, reach, n)
    BY <1>2
  <2> DEFINE g == [i \in 0 .. n + 1 |-> IF i = n + 1 THEN Turn(f[n], v, frame, i, flags, reach) ELSE f[i]]
  <2>2. n \in Nat /\ n + 1 \in Nat
    OBVIOUS
  <2>3. \A i \in 0 .. n : f[i] = IF i = 0 THEN r ELSE Turn(f[i - 1], v, frame, i, flags, reach)
    BY <2>1 DEF Rounds
  <2>4. \A i \in 0 .. n : g[i] = f[i]
    BY <2>2
  <2>5. g[n + 1] = Turn(f[n], v, frame, n + 1, flags, reach)
    BY <2>2
  <2>6. g = [i \in 0 .. n + 1 |-> g[i]]
    OBVIOUS
  <2> HIDE DEF g
  <2>7. ASSUME NEW i \in 0 .. n + 1
        PROVE  g[i] = IF i = 0 THEN r ELSE Turn(g[i - 1], v, frame, i, flags, reach)
    <3>1. CASE i = n + 1
      <4>1. g[i - 1] = f[n] /\ i # 0
        BY <2>2, <2>4, <3>1
      <4> QED BY <2>5, <3>1, <4>1
    <3>2. CASE i # n + 1
      <4>1. i \in 0 .. n
        BY <2>2, <3>2
      <4>2. i # 0 => g[i - 1] = f[i - 1]
        BY <2>2, <2>4, <4>1
      <4> QED BY <2>3, <2>4, <4>1, <4>2
    <3> QED BY <3>1, <3>2
  <2>8. Rounds(g, r, v, frame, flags, reach, n + 1)
    BY <2>6, <2>7 DEF Rounds
  <2> QED BY <2>2, <2>8
<1> HIDE DEF S
<1>3. 0 .. N \subseteq S
  BY <1>1, <1>2, UpTo
<1>4. N \in S
  BY <1>3
<1> QED BY <1>4 DEF S

(* What a mapping leaves: when it succeeds, a region more whose pages were *)
(* free and now lead to its frames; when it fails, no region, and no page  *)
(* if the first one was taken or was the only one.                         *)
Mapped(r, sp, v, frame, n, flags) ==
  /\ Good(r)
  /\ Grown(sp, r.sp)
  /\ r.status = "OK" =>
       /\ n # 0 /\ AS!MapArguments(v, n, flags) = "OK" /\ ~AS!RegionsFull(sp)
       /\ r.sp.regions = Append(sp.regions, [page |-> v, frame |-> frame,
                                             length |-> n, flags |-> flags])
       /\ DOMAIN r.sp.leaves = DOMAIN sp.leaves \cup (v .. v + n - 1)
       /\ \A i \in 0 .. n - 1 :
            /\ v + i \notin DOMAIN sp.leaves
            /\ r.sp.leaves[v + i] = [frame |-> frame + i, flags |-> AS!LeafFlags(flags)]
            /\ AS!Walks(r.sp, v + i, "U" \in flags)
  /\ r.status # "OK" => r.sp.regions = sp.regions
  /\ r.status # "OK" /\ (n = 1 \/ v \in DOMAIN sp.leaves) => r.sp.leaves = sp.leaves
  /\ r.status = "BUSY" => \E i \in 0 .. n - 1 : v + i \in DOMAIN sp.leaves

(* What a call of Map leaves behind, whether it succeeds or stops midway.   *)
LEMMA MapFacts ==
  ASSUME NEW sp, IsSpace(sp), NEW m, IsMem(m), NEW v \in Int, NEW frame \in Int,
         NEW n \in Nat, NEW flags, NEW reach \in SUBSET Nat,
         NEW r, r = AS!Map(sp, m, v, frame, n, flags, reach)
  PROVE  Mapped(r, sp, v, frame, n, flags)
<1> SUFFICES /\ Good(r)
             /\ Grown(sp, r.sp)
             /\ r.status = "OK" =>
                  /\ n # 0 /\ AS!MapArguments(v, n, flags) = "OK" /\ ~AS!RegionsFull(sp)
                  /\ r.sp.regions = Append(sp.regions, [page |-> v, frame |-> frame,
                                                        length |-> n, flags |-> flags])
                  /\ DOMAIN r.sp.leaves = DOMAIN sp.leaves \cup (v .. v + n - 1)
                  /\ \A i \in 0 .. n - 1 :
                       /\ v + i \notin DOMAIN sp.leaves
                       /\ r.sp.leaves[v + i] = [frame |-> frame + i, flags |-> AS!LeafFlags(flags)]
                       /\ AS!Walks(r.sp, v + i, "U" \in flags)
             /\ r.status # "OK" => r.sp.regions = sp.regions
             /\ r.status # "OK" /\ (n = 1 \/ v \in DOMAIN sp.leaves) => r.sp.leaves = sp.leaves
             /\ r.status = "BUSY" => \E i \in 0 .. n - 1 : v + i \in DOMAIN sp.leaves
  BY DEF Mapped
<1> DEFINE r0 == AS!Outcome(sp, m, IF sp.root \in reach THEN "OK" ELSE "FAULT")
           round == CHOOSE f : Rounds(f, r0, v, frame, flags, reach, n)
           e(i) == [frame |-> frame + i, flags |-> AS!LeafFlags(flags)]
           w == round[n]
           region == [page |-> v, frame |-> frame, length |-> n, flags |-> flags]
           args == AS!MapArguments(v, n, flags)
<1>13. ("U" \in flags) \in BOOLEAN
  OBVIOUS
<1>1. r = IF args # "OK" THEN AS!Outcome(sp, m, args)
          ELSE IF AS!RegionsFull(sp) THEN AS!Outcome(sp, m, "NO_MEMORY")
          ELSE IF w.status # "OK" THEN w
          ELSE [w EXCEPT !.sp.regions = Append(@, region)]
  BY DEF AS!Map, Rounds, Turn
<1>2. Rounds(round, r0, v, frame, flags, reach, n)
  <2> HIDE DEF r0
  <2> QED BY RoundsExist
<1> HIDE DEF round
<1>3. round[0] = r0 /\ \A i \in 1 .. n : round[i] = Turn(round[i - 1], v, frame, i, flags, reach)
  BY <1>2 DEF Rounds
<1>4. /\ Good(r0) /\ r0.sp = sp /\ r0.status # "BUSY"
      /\ \A x : Good(AS!Outcome(sp, m, x)) /\ AS!Outcome(sp, m, x).sp = sp
                                           /\ AS!Outcome(sp, m, x).status = x
  BY DEF Good, AS!Outcome
<1> HIDE DEF r0
<1> DEFINE S == {k \in 0 .. n :
                   /\ Good(round[k]) /\ Grown(sp, round[k].sp)
                   /\ round[k].sp.regions = sp.regions
                   /\ round[k].status = "OK" =>
                        /\ DOMAIN round[k].sp.leaves = DOMAIN sp.leaves \cup (v .. v + k - 1)
                        /\ \A i \in 0 .. k - 1 : /\ v + i \notin DOMAIN sp.leaves
                                                 /\ round[k].sp.leaves[v + i] = e(i)
                                                 /\ AS!Walks(round[k].sp, v + i, "U" \in flags)
                   /\ round[k].status = "BUSY" => \E i \in 0 .. k - 1 : v + i \in DOMAIN sp.leaves
                   /\ round[k].status # "OK" /\ (k <= 1 \/ v \in DOMAIN sp.leaves) =>
                        round[k].sp.leaves = sp.leaves
                   /\ k >= 1 /\ v \in DOMAIN sp.leaves => round[k].status # "OK"}
<1>5. 0 \in S
  BY <1>3, <1>4, GrownNot
<1>6. ASSUME NEW k \in 0 .. n - 1, k \in S PROVE k + 1 \in S
  <2> HIDE DEF e
  <2>1. PICK a, c : a = round[k] /\ c = round[k + 1]
    OBVIOUS
  <2>2. k + 1 \in 1 .. n /\ k + 1 - 1 = k /\ v + (k + 1) - 1 = v + k
        /\ frame + (k + 1) - 1 = frame + k
    OBVIOUS
  <2>3. c = Turn(a, v, frame, k + 1, flags, reach)
    BY <1>3, <2>1, <2>2
  <2>4. /\ Good(a) /\ Grown(sp, a.sp)
        /\ a.sp.regions = sp.regions
        /\ a.status = "OK" =>
             /\ DOMAIN a.sp.leaves = DOMAIN sp.leaves \cup (v .. v + k - 1)
             /\ \A i \in 0 .. k - 1 : /\ v + i \notin DOMAIN sp.leaves
                                      /\ a.sp.leaves[v + i] = e(i)
                                      /\ AS!Walks(a.sp, v + i, "U" \in flags)
        /\ a.status = "BUSY" => \E i \in 0 .. k - 1 : v + i \in DOMAIN sp.leaves
        /\ a.status # "OK" /\ (k <= 1 \/ v \in DOMAIN sp.leaves) => a.sp.leaves = sp.leaves
        /\ k >= 1 /\ v \in DOMAIN sp.leaves => a.status # "OK"
    BY <1>6, <2>1
  <2>5. CASE a.status # "OK"
    <3>1. c = a
      BY <2>3, <2>5 DEF Turn
    <3>2. k + 1 <= 1 => k <= 1
      BY <2>2
    <3>3. a.status = "BUSY" => \E i \in 0 .. k + 1 - 1 : v + i \in DOMAIN sp.leaves
      BY <2>4
    <3>4. k + 1 \in 0 .. n
      OBVIOUS
    <3>5. k + 1 >= 1 /\ v \in DOMAIN sp.leaves => c.status # "OK"
      BY <2>5, <3>1
    <3>6. /\ Good(c) /\ Grown(sp, c.sp) /\ c.sp.regions = sp.regions /\ c.status # "OK"
          /\ k + 1 <= 1 \/ v \in DOMAIN sp.leaves => c.sp.leaves = sp.leaves
          /\ c.status = "BUSY" => \E i \in 0 .. k + 1 - 1 : v + i \in DOMAIN sp.leaves
      BY <2>4, <2>5, <3>1, <3>2, <3>3
    <3> QED BY <2>1, <3>4, <3>6
  <2>6. CASE a.status = "OK"
    <3>1. c = AS!MapPage(a, v + k, frame + k, flags, reach)
      BY <2>2, <2>3, <2>6 DEF Turn
    <3>2. /\ Good(c) /\ Grown(a.sp, c.sp) /\ c.sp.regions = a.sp.regions
          /\ c.status # "OK" => c.sp.leaves = a.sp.leaves
          /\ c.status = "OK" =>
               /\ v + k \notin DOMAIN a.sp.leaves
               /\ DOMAIN c.sp.leaves = DOMAIN a.sp.leaves \cup {v + k}
               /\ c.sp.leaves[v + k] = e(k)
               /\ AS!Walks(c.sp, v + k, "U" \in flags)
          /\ v + k \in DOMAIN a.sp.leaves => c.status # "OK"
          /\ c.status = "BUSY" => v + k \in DOMAIN a.sp.leaves
      <4>1. PICK x : x = frame + k
        OBVIOUS
      <4>2. PICK y : y = v + k
        OBVIOUS
      <4>3. e(k) = [frame |-> x, flags |-> AS!LeafFlags(flags)]
        BY <4>1 DEF e
      <4>4. c = AS!MapPage(a, y, x, flags, reach)
        BY <3>1, <4>1, <4>2
      <4>5. Good(a)
        BY <2>4
      <4>6. /\ Good(c) /\ Grown(a.sp, c.sp) /\ c.sp.regions = a.sp.regions
            /\ c.status # "OK" => c.sp.leaves = a.sp.leaves
            /\ c.status = "OK" =>
                 /\ y \notin DOMAIN a.sp.leaves
                 /\ DOMAIN c.sp.leaves = DOMAIN a.sp.leaves \cup {y}
                 /\ c.sp.leaves[y] = [frame |-> x, flags |-> AS!LeafFlags(flags)]
                 /\ AS!Walks(c.sp, y, "U" \in flags)
            /\ y \in DOMAIN a.sp.leaves => c.status # "OK"
            /\ c.status = "BUSY" => a.status = "BUSY" \/ y \in DOMAIN a.sp.leaves
        BY <4>4, <4>5, PageFacts
      <4> QED BY <2>6, <4>2, <4>3, <4>6
    <3>3. Grown(sp, c.sp)
      BY <2>4, <3>2, GrownTwice
    <3>4. ASSUME c.status = "OK"
          PROVE  /\ DOMAIN c.sp.leaves = DOMAIN sp.leaves \cup (v .. v + (k + 1) - 1)
                 /\ \A i \in 0 .. (k + 1) - 1 : /\ v + i \notin DOMAIN sp.leaves
                                                /\ c.sp.leaves[v + i] = e(i)
                                                /\ AS!Walks(c.sp, v + i, "U" \in flags)
      <4>1. v .. v + (k + 1) - 1 = (v .. v + k - 1) \cup {v + k}
        OBVIOUS
      <4>2. ASSUME NEW i \in 0 .. (k + 1) - 1
            PROVE  /\ v + i \notin DOMAIN sp.leaves
                   /\ c.sp.leaves[v + i] = e(i)
                   /\ AS!Walks(c.sp, v + i, "U" \in flags)
        <5>1. CASE i = k
          BY <2>4, <2>6, <3>2, <3>4, <5>1
        <5>2. CASE i # k
          <6>1. i \in 0 .. k - 1 /\ v + i \in v .. v + k - 1
            BY <5>2
          <6>2. /\ v + i \notin DOMAIN sp.leaves /\ a.sp.leaves[v + i] = e(i)
                /\ AS!Walks(a.sp, v + i, "U" \in flags) /\ v + i \in DOMAIN a.sp.leaves
            BY <2>4, <2>6, <6>1
          <6>3. AS!Walks(c.sp, v + i, "U" \in flags)
            <7>1. PICK x : x = v + i
              OBVIOUS
            <7>2. PICK u : u = ("U" \in flags)
              OBVIOUS
            <7>3. AS!Walks(a.sp, x, u) /\ Grown(a.sp, c.sp)
              BY <3>2, <6>2, <7>1, <7>2
            <7>4. u \in BOOLEAN
              BY <1>13, <7>2
            <7>5. AS!Walks(c.sp, x, u)
              BY <7>3, <7>4, GrownWalks
            <7> QED BY <7>1, <7>2, <7>5
          <6>4. c.sp.leaves[v + i] = a.sp.leaves[v + i]
            BY <3>2, <6>2 DEF Grown
          <6> QED BY <6>2, <6>3, <6>4
        <5> QED BY <5>1, <5>2
      <4>3. DOMAIN c.sp.leaves = DOMAIN sp.leaves \cup (v .. v + (k + 1) - 1)
        BY <2>4, <2>6, <3>2, <3>4, <4>1
      <4> QED BY <4>2, <4>3
    <3>5. v + k \in DOMAIN a.sp.leaves => v + k \in DOMAIN sp.leaves
      BY <2>4, <2>6
    <3>6. c.status = "BUSY" => \E i \in 0 .. (k + 1) - 1 : v + i \in DOMAIN sp.leaves
      <4>1. k \in 0 .. (k + 1) - 1
        OBVIOUS
      <4> QED BY <3>2, <3>5, <4>1
    <3>7. v \in DOMAIN sp.leaves => v \in DOMAIN a.sp.leaves /\ k = 0
      BY <2>4, <2>6 DEF Grown
    <3>8. k = 0 => a.sp.leaves = sp.leaves
      BY <1>3, <1>4, <2>1
    <3>9. ASSUME c.status # "OK", k + 1 <= 1 \/ v \in DOMAIN sp.leaves
          PROVE  c.sp.leaves = sp.leaves
      <4>1. k = 0
        BY <3>7, <3>9
      <4> QED BY <3>2, <3>8, <3>9, <4>1
    <3>10. v \in DOMAIN sp.leaves => c.status # "OK"
      <4>1. k = 0 => v + k = v
        OBVIOUS
      <4> QED BY <3>2, <3>7, <4>1
    <3> QED BY <2>1, <2>2, <2>4, <3>2, <3>3, <3>4, <3>6, <3>9, <3>10
  <2> QED BY <2>5, <2>6
<1> HIDE DEF S
<1>7. n \in S
  <2>1. 0 .. n \subseteq S
    BY <1>5, <1>6, UpTo
  <2> QED BY <2>1
<1>8. /\ Good(w) /\ Grown(sp, w.sp)
      /\ w.sp.regions = sp.regions
      /\ w.status = "OK" =>
           /\ DOMAIN w.sp.leaves = DOMAIN sp.leaves \cup (v .. v + n - 1)
           /\ \A i \in 0 .. n - 1 : /\ v + i \notin DOMAIN sp.leaves
                                    /\ w.sp.leaves[v + i] = e(i)
                                    /\ AS!Walks(w.sp, v + i, "U" \in flags)
      /\ w.status = "BUSY" => \E i \in 0 .. n - 1 : v + i \in DOMAIN sp.leaves
      /\ w.status # "OK" /\ (n = 1 \/ v \in DOMAIN sp.leaves) => w.sp.leaves = sp.leaves
  BY <1>7 DEF S
<1> HIDE DEF w, e
<1>9. args \in {"INVAL", "DENIED", "OK"} /\ (args = "OK" => n # 0)
  BY DEF AS!MapArguments
<1>10. CASE args # "OK" \/ AS!RegionsFull(sp)
  <2> HIDE DEF args
  <2> QED BY <1>1, <1>4, <1>9, <1>10, GrownNot
<1>11. CASE args = "OK" /\ ~AS!RegionsFull(sp) /\ w.status # "OK"
  BY <1>1, <1>8, <1>11
<1>12. CASE args = "OK" /\ ~AS!RegionsFull(sp) /\ w.status = "OK"
  <2> DEFINE q == Append(w.sp.regions, region)
             s == [root |-> w.sp.root, tables |-> w.sp.tables,
                   leaves |-> w.sp.leaves, regions |-> q]
  <2> HIDE DEF region
  <2>1. r = [sp |-> [w.sp EXCEPT !.regions = q], m |-> w.m, status |-> "OK"]
    <3>1. r = [w EXCEPT !.sp.regions = Append(@, region)]
      BY <1>1, <1>12
    <3>2. w = [sp |-> w.sp, m |-> w.m, status |-> "OK"]
      BY <1>8, <1>12 DEF Good
    <3> QED BY <3>1, <3>2
  <2> HIDE DEF q
  <2>2. [w.sp EXCEPT !.regions = q] = s
    BY <1>8 DEF Good, IsSpace
  <2>3. IsSpace(s) /\ Grown(w.sp, s) /\ s.leaves = w.sp.leaves /\ s.regions = q
    BY DEF IsSpace, Grown
  <2>4. r = [sp |-> s, m |-> w.m, status |-> "OK"]
    BY <2>1, <2>2
  <2>5. Good(r) /\ r.sp = s /\ r.status = "OK"
    BY <1>8, <2>3, <2>4 DEF Good
  <2> HIDE DEF s
  <2>6. Grown(sp, s)
    BY <1>8, <2>3, GrownTwice
  <2>7. \A i \in 0 .. n - 1 : AS!Walks(s, v + i, "U" \in flags)
    <3> SUFFICES ASSUME NEW i \in 0 .. n - 1 PROVE AS!Walks(s, v + i, "U" \in flags)
      OBVIOUS
    <3>1. AS!Walks(w.sp, v + i, "U" \in flags)
      BY <1>8, <1>12
    <3> QED BY <1>13, <2>3, <3>1, GrownWalks
  <2> QED BY <1>8, <1>9, <1>12, <2>3, <2>5, <2>6, <2>7 DEF q, e, region
<1> QED BY <1>9, <1>10, <1>11, <1>12

-----------------------------------------------------------------------------
(* Regions and tables. *)

Region == [page : Int, frame : Int, length : Nat, flags : SUBSET AS!Flag]

RegionOk(sp, g) ==
  \A n \in 0 .. g.length - 1 :
    /\ AS!MappedTo(sp, g.page + n, g.frame + n, g.flags)
    /\ "U" \in g.flags <=> AS!UserPageOk(sp, g.page + n, FALSE, FALSE)

(* What RegionsHold says of one space.                                     *)
SpaceOk(sp) ==
  /\ sp.regions \in Seq(Region) /\ Len(sp.regions) <= MaxRegions
  /\ \A i \in DOMAIN sp.regions : RegionOk(sp, sp.regions[i])
  /\ DOMAIN sp.leaves = UNION {RegionPages(sp.regions[i]) : i \in DOMAIN sp.regions}

(* A page with the entry of a region is a user page iff the region is one. *)
LEMMA UserPages ==
  ASSUME NEW sp, NEW v \in Int, NEW frame, NEW flags,
         v \in DOMAIN sp.leaves, sp.leaves[v] = [frame |-> frame, flags |-> AS!LeafFlags(flags)],
         "U" \in flags => v < UserLimit /\ AS!Walks(sp, v, TRUE)
  PROVE  "U" \in flags <=> AS!UserPageOk(sp, v, FALSE, FALSE)
<1>1. sp.leaves[v].flags = flags \cup {"R"}
  BY DEF AS!LeafFlags
<1>2. "U" \in flags <=> "U" \in sp.leaves[v].flags
  BY <1>1
<1> QED BY <1>2 DEF AS!UserPageOk

(* A region stays right while its space grows.                             *)
LEMMA RegionGrown ==
  ASSUME NEW a, NEW b, Grown(a, b), NEW g \in Region, RegionOk(a, g)
  PROVE  RegionOk(b, g)
<1> SUFFICES ASSUME NEW n \in 0 .. g.length - 1
             PROVE  /\ AS!MappedTo(b, g.page + n, g.frame + n, g.flags)
                    /\ "U" \in g.flags <=> AS!UserPageOk(b, g.page + n, FALSE, FALSE)
  BY DEF RegionOk
<1>1. PICK v \in Int : v = g.page + n
  BY DEF Region
<1>2. PICK frame : frame = g.frame + n
  OBVIOUS
<1>3. AS!MappedTo(a, v, frame, g.flags) /\ ("U" \in g.flags <=> AS!UserPageOk(a, v, FALSE, FALSE))
  BY <1>1, <1>2 DEF RegionOk
<1>4. AS!MappedTo(b, v, frame, g.flags)
  BY <1>3, GrownWalks
<1>5. AS!UserPageOk(a, v, FALSE, FALSE) => AS!UserPageOk(b, v, FALSE, FALSE)
  BY GrownWalks
<1>6. v \in DOMAIN b.leaves /\ b.leaves[v] = [frame |-> frame, flags |-> AS!LeafFlags(g.flags)]
  BY <1>4 DEF AS!MappedTo
<1>7. "U" \in g.flags => v < UserLimit /\ AS!Walks(b, v, TRUE)
  BY <1>3, <1>5 DEF AS!UserPageOk
<1>8. "U" \in g.flags <=> AS!UserPageOk(b, v, FALSE, FALSE)
  BY <1>6, <1>7, UserPages
<1> QED BY <1>1, <1>2, <1>4, <1>8

(* Tables more or less do not matter.                                      *)
LEMMA TablesOnly ==
  ASSUME NEW a, NEW b, Grown(a, b), SpaceOk(a), b.leaves = a.leaves, b.regions = a.regions
  PROVE  SpaceOk(b)
<1>1. \A i \in DOMAIN a.regions : a.regions[i] \in Region
  BY DEF SpaceOk
<1>2. \A i \in DOMAIN a.regions : RegionOk(b, a.regions[i])
  BY <1>1, RegionGrown DEF SpaceOk
<1> QED BY <1>2 DEF SpaceOk

(* What vm.c and kernel.c ask to be mapped.                                *)
Asked(bound) ==
  {q \in [v : Int, frame : Int, n : Nat, flags : SUBSET AS!Flag] : bound <= q.v}

(* A mapping that succeeds adds a right region.                            *)
LEMMA MapRight ==
  ASSUME NEW sp, IsSpace(sp), SpaceOk(sp), NEW m, IsMem(m), NEW v \in Int, NEW frame \in Int,
         NEW n \in Nat, NEW flags \in SUBSET AS!Flag, NEW reach \in SUBSET Nat,
         NEW r, r = AS!Map(sp, m, v, frame, n, flags, reach)
  PROVE  /\ r.status = "OK" => SpaceOk(r.sp)
         /\ r.sp.leaves = sp.leaves /\ r.status # "OK" => SpaceOk(r.sp)
<1> DEFINE g == [page |-> v, frame |-> frame, length |-> n, flags |-> flags]
<1>1. /\ Grown(sp, r.sp)
      /\ r.status # "OK" => r.sp.regions = sp.regions
      /\ r.status = "OK" =>
              /\ n # 0 /\ AS!MapArguments(v, n, flags) = "OK" /\ ~AS!RegionsFull(sp)
              /\ r.sp.regions = Append(sp.regions, g)
              /\ DOMAIN r.sp.leaves = DOMAIN sp.leaves \cup (v .. v + n - 1)
              /\ \A i \in 0 .. n - 1 :
                   /\ v + i \notin DOMAIN sp.leaves
                   /\ r.sp.leaves[v + i] = [frame |-> frame + i, flags |-> AS!LeafFlags(flags)]
                   /\ AS!Walks(r.sp, v + i, "U" \in flags)
  <2>1. Mapped(r, sp, v, frame, n, flags)
    BY MapFacts
  <2> QED BY <2>1 DEF Mapped
<1>2. ASSUME r.sp.leaves = sp.leaves, r.status # "OK" PROVE SpaceOk(r.sp)
  BY <1>1, <1>2, TablesOnly
<1>3. ASSUME r.status = "OK" PROVE SpaceOk(r.sp)
  <2>1. PICK t : t = r.sp
    OBVIOUS
  <2>2. g \in Region /\ g.page = v /\ g.frame = frame /\ g.length = n /\ g.flags = flags
    BY DEF Region
  <2> HIDE DEF g
  <2>3. /\ Len(sp.regions) \in Nat /\ Len(sp.regions) < MaxRegions
        /\ sp.regions \in Seq(Region) /\ t.regions = Append(sp.regions, g)
    <3>1. sp.regions \in Seq(Region)
      BY DEF SpaceOk
    <3>2. Len(sp.regions) \in Nat /\ ~(Len(sp.regions) >= MaxRegions) /\ MaxRegions \in Nat
      BY <1>1, <1>3, <3>1, VirtualMemoryAssumption DEF AS!RegionsFull
    <3> QED BY <1>1, <1>3, <2>1, <3>1, <3>2
  <2>4. /\ t.regions \in Seq(Region) /\ Len(t.regions) = Len(sp.regions) + 1
        /\ DOMAIN t.regions = DOMAIN sp.regions \cup {Len(sp.regions) + 1}
        /\ t.regions[Len(sp.regions) + 1] = g
        /\ \A i \in DOMAIN sp.regions : t.regions[i] = sp.regions[i] /\ sp.regions[i] \in Region
    BY <2>2, <2>3
  <2>5. ASSUME NEW i \in 0 .. n - 1
        PROVE  /\ AS!MappedTo(t, v + i, frame + i, flags)
               /\ "U" \in flags <=> AS!UserPageOk(t, v + i, FALSE, FALSE)
    <3>1. PICK p \in Int : p = v + i
      OBVIOUS
    <3>2. /\ p \in DOMAIN t.leaves
          /\ t.leaves[p] = [frame |-> frame + i, flags |-> AS!LeafFlags(flags)]
          /\ AS!Walks(t, p, "U" \in flags)
      BY <1>1, <1>3, <2>1, <3>1
    <3>3. AS!Walks(t, p, FALSE)
      BY <3>2 DEF AS!Walks
    <3>4. AS!MappedTo(t, p, frame + i, flags)
      BY <3>2, <3>3 DEF AS!MappedTo
    <3>5. ASSUME "U" \in flags PROVE p < UserLimit /\ AS!Walks(t, p, TRUE)
      <4>1. v + n <= UserLimit
        <5>1. ~(v + n > UserLimit)
          BY <1>1, <1>3, <3>5 DEF AS!MapArguments
        <5> QED BY <5>1, VirtualMemoryAssumption
      <4>2. AS!Walks(t, p, TRUE)
        BY <3>2, <3>5 DEF AS!Walks
      <4>3. UserLimit \in Int
        BY VirtualMemoryAssumption
      <4>4. p < UserLimit
        BY <3>1, <4>1, <4>3
      <4> QED BY <4>2, <4>4
    <3>6. "U" \in flags <=> AS!UserPageOk(t, p, FALSE, FALSE)
      BY <3>2, <3>5, UserPages
    <3> QED BY <3>1, <3>4, <3>6
  <2>6. RegionOk(t, g)
    BY <2>2, <2>5 DEF RegionOk
  <2>7. \A i \in DOMAIN sp.regions : RegionOk(t, sp.regions[i])
    BY <1>1, <2>1, <2>4, RegionGrown DEF SpaceOk
  <2>8. \A i \in DOMAIN t.regions : RegionOk(t, t.regions[i])
    BY <2>4, <2>6, <2>7
  <2>9. DOMAIN t.leaves = UNION {RegionPages(t.regions[i]) : i \in DOMAIN t.regions}
    <3>1. RegionPages(g) = v .. v + n - 1
      BY <2>2 DEF RegionPages
    <3>2. UNION {RegionPages(t.regions[i]) : i \in DOMAIN t.regions}
            = (UNION {RegionPages(sp.regions[i]) : i \in DOMAIN sp.regions}) \cup RegionPages(g)
      BY <2>4
    <3>3. DOMAIN t.leaves = DOMAIN sp.leaves \cup RegionPages(g)
      BY <1>1, <1>3, <2>1, <3>1
    <3>4. PICK old : old = UNION {RegionPages(sp.regions[i]) : i \in DOMAIN sp.regions}
      OBVIOUS
    <3>5. DOMAIN sp.leaves = old
      BY <3>4 DEF SpaceOk
    <3>6. DOMAIN t.leaves = old \cup RegionPages(g)
      BY <3>3, <3>5
    <3> QED BY <3>2, <3>4, <3>6
  <2>10. Len(t.regions) <= MaxRegions
    BY <2>3, <2>4, VirtualMemoryAssumption
  <2>11. SpaceOk(t)
    BY <2>4, <2>8, <2>9, <2>10 DEF SpaceOk
  <2> QED BY <2>1, <2>11
<1> QED BY <1>2, <1>3

-----------------------------------------------------------------------------
(* Several mappings. *)

(* The next request, unless an earlier one failed.                         *)
Mapping(p, q, reach) ==
  IF p.status # "OK" THEN p ELSE AS!Map(p.sp, p.m, q.v, q.frame, q.n, q.flags, reach)

(* The mappings of a list of requests.                                     *)
Mappings(f, r, requests, reach, n) ==
  f = [i \in 0 .. n |-> IF i = 0 THEN r ELSE Mapping(f[i - 1], requests[i], reach)]

(* Mapping one region after the other is defined.                          *)
LEMMA MappingsExist ==
  ASSUME NEW r, NEW requests, NEW reach, NEW N \in Nat
  PROVE  \E f : Mappings(f, r, requests, reach, N)
<1> DEFINE S == {n \in Nat : \E f : Mappings(f, r, requests, reach, n)}
<1>1. 0 \in S
  <2> DEFINE f == [i \in 0 .. 0 |-> r]
  <2>1. Mappings(f, r, requests, reach, 0)
    BY DEF Mappings
  <2> QED BY <2>1
<1>2. ASSUME NEW n \in 0 .. N - 1, n \in S PROVE n + 1 \in S
  <2>1. PICK f : Mappings(f, r, requests, reach, n)
    BY <1>2
  <2> DEFINE g == [i \in 0 .. n + 1 |-> IF i = n + 1 THEN Mapping(f[n], requests[i], reach) ELSE f[i]]
  <2>2. n \in Nat /\ n + 1 \in Nat
    OBVIOUS
  <2>3. \A i \in 0 .. n : f[i] = IF i = 0 THEN r ELSE Mapping(f[i - 1], requests[i], reach)
    BY <2>1 DEF Mappings
  <2>4. \A i \in 0 .. n : g[i] = f[i]
    BY <2>2
  <2>5. g[n + 1] = Mapping(f[n], requests[n + 1], reach)
    BY <2>2
  <2>6. g = [i \in 0 .. n + 1 |-> g[i]]
    OBVIOUS
  <2> HIDE DEF g
  <2>7. ASSUME NEW i \in 0 .. n + 1
        PROVE  g[i] = IF i = 0 THEN r ELSE Mapping(g[i - 1], requests[i], reach)
    <3>1. CASE i = n + 1
      <4>1. g[i - 1] = f[n] /\ i # 0
        BY <2>2, <2>4, <3>1
      <4> QED BY <2>5, <3>1, <4>1
    <3>2. CASE i # n + 1
      <4>1. i \in 0 .. n
        BY <2>2, <3>2
      <4>2. i # 0 => g[i - 1] = f[i - 1]
        BY <2>2, <2>4, <4>1
      <4> QED BY <2>3, <2>4, <4>1, <4>2
    <3> QED BY <3>1, <3>2
  <2>8. Mappings(g, r, requests, reach, n + 1)
    BY <2>6, <2>7 DEF Mappings
  <2> QED BY <2>2, <2>8
<1> HIDE DEF S
<1>3. 0 .. N \subseteq S
  BY <1>1, <1>2, UpTo
<1>4. N \in S
  BY <1>3
<1> QED BY <1>4 DEF S

(* A list of requests that all succeed keeps regions and tables in step,   *)
(* and maps nothing below the lowest of them.                              *)
LEMMA AllFacts ==
  ASSUME NEW r, Good(r), NEW bound \in Int, NEW requests \in Seq(Asked(bound)),
         NEW reach \in SUBSET Nat, NEW x, x = MapAll(r, requests, reach)
  PROVE  /\ Good(x) /\ Grown(r.sp, x.sp)
         /\ x.status = "OK" =>
              /\ r.status = "OK"
              /\ SpaceOk(r.sp) => SpaceOk(x.sp)
              /\ \A w \in DOMAIN x.sp.leaves : w \in DOMAIN r.sp.leaves \/ (w \in Int /\ bound <= w)
<1> DEFINE N == Len(requests)
           after == CHOOSE f : Mappings(f, r, requests, reach, N)
<1>1. N \in Nat
  OBVIOUS
<1>2. x = after[N]
  BY DEF MapAll, Mappings, Mapping
<1>3. Mappings(after, r, requests, reach, N)
  BY <1>1, MappingsExist
<1> HIDE DEF after
<1>4. after[0] = r /\ \A i \in 1 .. N : after[i] = Mapping(after[i - 1], requests[i], reach)
  BY <1>1, <1>3 DEF Mappings
<1> DEFINE S == {k \in 0 .. N :
                   /\ Good(after[k]) /\ Grown(r.sp, after[k].sp)
                   /\ after[k].status = "OK" =>
                        /\ r.status = "OK"
                        /\ SpaceOk(r.sp) => SpaceOk(after[k].sp)
                        /\ \A w \in DOMAIN after[k].sp.leaves :
                             w \in DOMAIN r.sp.leaves \/ (w \in Int /\ bound <= w)}
<1>5. 0 \in S
  BY <1>1, <1>4, GrownNot
<1>6. ASSUME NEW k \in 0 .. N - 1, k \in S PROVE k + 1 \in S
  <2>1. k + 1 \in 1 .. N /\ k + 1 - 1 = k /\ k + 1 \in 0 .. N
    BY <1>1
  <2>2. PICK a, c, q : a = after[k] /\ c = after[k + 1] /\ q = requests[k + 1]
    OBVIOUS
  <2>3. c = Mapping(a, q, reach)
    BY <1>4, <2>1, <2>2
  <2>4. q \in Asked(bound)
    BY <2>1, <2>2
  <2>5. /\ Good(a) /\ Grown(r.sp, a.sp)
        /\ a.status = "OK" =>
             /\ r.status = "OK"
             /\ SpaceOk(r.sp) => SpaceOk(a.sp)
             /\ \A w \in DOMAIN a.sp.leaves :
                  w \in DOMAIN r.sp.leaves \/ (w \in Int /\ bound <= w)
    BY <1>6, <2>2
  <2>6. CASE a.status # "OK"
    BY <2>1, <2>2, <2>3, <2>5, <2>6 DEF Mapping
  <2>7. CASE a.status = "OK"
    <3>1. q.v \in Int /\ q.frame \in Int /\ q.n \in Nat /\ q.flags \in SUBSET AS!Flag
            /\ bound <= q.v
      BY <2>4 DEF Asked
    <3>2. c = AS!Map(a.sp, a.m, q.v, q.frame, q.n, q.flags, reach)
      BY <2>3, <2>7 DEF Mapping
    <3>3. IsSpace(a.sp) /\ IsMem(a.m)
      BY <2>5 DEF Good
    <3>4. Mapped(c, a.sp, q.v, q.frame, q.n, q.flags)
      BY <3>1, <3>2, <3>3, MapFacts
    <3>5. Good(c) /\ Grown(r.sp, c.sp)
      BY <2>5, <3>4, GrownTwice DEF Mapped
    <3>6. ASSUME c.status = "OK", SpaceOk(r.sp) PROVE SpaceOk(c.sp)
      BY <2>5, <2>7, <3>1, <3>2, <3>3, <3>6, MapRight
    <3>7. ASSUME c.status = "OK", NEW w \in DOMAIN c.sp.leaves
          PROVE  w \in DOMAIN r.sp.leaves \/ (w \in Int /\ bound <= w)
      <4>1. w \in DOMAIN a.sp.leaves \/ w \in q.v .. q.v + q.n - 1
        BY <3>4, <3>7 DEF Mapped
      <4> QED BY <2>5, <2>7, <3>1, <4>1
    <3> QED BY <2>1, <2>2, <2>5, <2>7, <3>5, <3>6, <3>7
  <2> QED BY <2>6, <2>7
<1> HIDE DEF S
<1>7. N \in S
  <2>1. 0 .. N \subseteq S
    BY <1>1, <1>5, <1>6, UpTo
  <2> QED BY <1>1, <2>1
<1> QED BY <1>2, <1>7 DEF S

(* To tolerate a mapping changes no more than the answer.                  *)
LEMMA ToleratedIs ==
  ASSUME NEW r, Good(r), NEW t, t = Tolerated(r)
  PROVE  /\ Good(t) /\ t.sp = r.sp /\ t.m = r.m
         /\ t.status = IF r.status = "BUSY" THEN "OK" ELSE r.status
<1>1. [r EXCEPT !.status = "OK"] = [sp |-> r.sp, m |-> r.m, status |-> "OK"]
  BY DEF Good
<1> QED BY <1>1 DEF Good, Tolerated

(* The window is mapped already, or none of its pages is.                  *)
WindowWhole(sp) ==
  WindowStart \in DOMAIN sp.leaves \/ \A w \in WindowStart .. LinkBase - 1 : w \notin DOMAIN sp.leaves

(* What a mapping that may be there already leaves.                        *)
Tolerable(t, sp, v, n) ==
  /\ Good(t) /\ Grown(sp, t.sp)
  /\ /\ t.status = "OK" /\ SpaceOk(sp)
     /\ v \in DOMAIN sp.leaves \/ \A i \in 0 .. n - 1 : v + i \notin DOMAIN sp.leaves
     => SpaceOk(t.sp) /\ v \in DOMAIN t.sp.leaves

(* It keeps regions and tables in step, if it is there from its first page *)
(* on or not at all.                                                       *)
LEMMA TolerableMap ==
  ASSUME NEW sp, IsSpace(sp), NEW m, IsMem(m), NEW v \in Int, NEW n \in Nat,
         NEW flags \in SUBSET AS!Flag, NEW reach \in SUBSET Nat,
         NEW t, t = Tolerated(AS!Map(sp, m, v, v, n, flags, reach))
  PROVE  Tolerable(t, sp, v, n)
<1>1. PICK x : x = AS!Map(sp, m, v, v, n, flags, reach)
  OBVIOUS
<1>2. Mapped(x, sp, v, v, n, flags)
  BY <1>1, MapFacts
<1>3. /\ Good(t) /\ t.sp = x.sp
      /\ t.status = IF x.status = "BUSY" THEN "OK" ELSE x.status
  BY <1>1, <1>2, ToleratedIs DEF Mapped
<1>4. Grown(sp, t.sp)
  BY <1>2, <1>3 DEF Mapped
<1> SUFFICES ASSUME t.status = "OK", SpaceOk(sp),
                    v \in DOMAIN sp.leaves \/ \A i \in 0 .. n - 1 : v + i \notin DOMAIN sp.leaves
             PROVE  SpaceOk(x.sp) /\ v \in DOMAIN x.sp.leaves
  BY <1>3, <1>4 DEF Tolerable
<1>5. CASE x.status = "OK"
  <2>1. SpaceOk(x.sp)
    BY <1>1, <1>5, MapRight
  <2>2. n # 0 /\ DOMAIN x.sp.leaves = DOMAIN sp.leaves \cup (v .. v + n - 1)
    BY <1>2, <1>5 DEF Mapped
  <2> QED BY <2>1, <2>2
<1>6. CASE x.status = "BUSY"
  <2>1. v \in DOMAIN sp.leaves
    BY <1>2, <1>6 DEF Mapped
  <2>2. x.sp.leaves = sp.leaves
    BY <1>2, <1>6, <2>1 DEF Mapped
  <2>3. SpaceOk(x.sp)
    BY <1>1, <1>6, <2>2, MapRight
  <2> QED BY <2>1, <2>2, <2>3
<1> QED BY <1>3, <1>5, <1>6

(* One table frame more, while there are any.                              *)
Alias(p, i, reach) ==
  IF p.status # "OK" \/ i > Len(p.m.pmm) THEN p
  ELSE Tolerated(AS!Map(p.sp, p.m, p.m.pmm[i], p.m.pmm[i], 1, {"R", "W"}, reach))

(* The aliases of the table frames.                                        *)
Aliases(f, r, reach, n) ==
  f = [i \in 0 .. n |-> IF i = 0 THEN r ELSE Alias(f[i - 1], i, reach)]

(* Mapping the aliases one after the other is defined.                     *)
LEMMA AliasesExist ==
  ASSUME NEW r, NEW reach, NEW N \in Nat
  PROVE  \E f : Aliases(f, r, reach, N)
<1> DEFINE S == {n \in Nat : \E f : Aliases(f, r, reach, n)}
<1>1. 0 \in S
  <2> DEFINE f == [i \in 0 .. 0 |-> r]
  <2>1. Aliases(f, r, reach, 0)
    BY DEF Aliases
  <2> QED BY <2>1
<1>2. ASSUME NEW n \in 0 .. N - 1, n \in S PROVE n + 1 \in S
  <2>1. PICK f : Aliases(f, r, reach, n)
    BY <1>2
  <2> DEFINE g == [i \in 0 .. n + 1 |-> IF i = n + 1 THEN Alias(f[n], i, reach) ELSE f[i]]
  <2>2. n \in Nat /\ n + 1 \in Nat
    OBVIOUS
  <2>3. \A i \in 0 .. n : f[i] = IF i = 0 THEN r ELSE Alias(f[i - 1], i, reach)
    BY <2>1 DEF Aliases
  <2>4. \A i \in 0 .. n : g[i] = f[i]
    BY <2>2
  <2>5. g[n + 1] = Alias(f[n], n + 1, reach)
    BY <2>2
  <2>6. g = [i \in 0 .. n + 1 |-> g[i]]
    OBVIOUS
  <2> HIDE DEF g
  <2>7. ASSUME NEW i \in 0 .. n + 1
        PROVE  g[i] = IF i = 0 THEN r ELSE Alias(g[i - 1], i, reach)
    <3>1. CASE i = n + 1
      <4>1. g[i - 1] = f[n] /\ i # 0
        BY <2>2, <2>4, <3>1
      <4> QED BY <2>5, <3>1, <4>1
    <3>2. CASE i # n + 1
      <4>1. i \in 0 .. n
        BY <2>2, <3>2
      <4>2. i # 0 => g[i - 1] = f[i - 1]
        BY <2>2, <2>4, <4>1
      <4> QED BY <2>3, <2>4, <4>1, <4>2
    <3> QED BY <3>1, <3>2
  <2>8. Aliases(g, r, reach, n + 1)
    BY <2>6, <2>7 DEF Aliases
  <2> QED BY <2>2, <2>8
<1> HIDE DEF S
<1>3. 0 .. N \subseteq S
  BY <1>1, <1>2, UpTo
<1>4. N \in S
  BY <1>3
<1> QED BY <1>4 DEF S

(* The same, numbered from one as in the definition.                       *)
AliasesOf(f, window, reach) ==
  f = [i \in 1 .. MaxPmm + 1 |->
         LET p == IF i = 1 THEN window ELSE f[i - 1] IN
           IF p.status # "OK" \/ i > Len(p.m.pmm) THEN p
           ELSE Tolerated(AS!Map(p.sp, p.m, p.m.pmm[i], p.m.pmm[i], 1, {"R", "W"}, reach))]

(* So it is as MapPmmPages numbers them.                                   *)
LEMMA AliasesOfExist ==
  ASSUME NEW window, NEW reach
  PROVE  \E f : AliasesOf(f, window, reach)
<1> DEFINE N == MaxPmm + 1
<1>1. N \in Nat /\ N >= 1
  BY VirtualMemoryAssumption
<1>2. PICK g : Aliases(g, window, reach, N)
  BY <1>1, AliasesExist
<1>3. g[0] = window /\ \A i \in 1 .. N : g[i] = Alias(g[i - 1], i, reach)
  BY <1>1, <1>2 DEF Aliases
<1> DEFINE f == [i \in 1 .. N |-> g[i]]
<1>4. \A i \in 1 .. N : f[i] = Alias(IF i = 1 THEN window ELSE f[i - 1], i, reach)
  <2> SUFFICES ASSUME NEW i \in 1 .. N
               PROVE  f[i] = Alias(IF i = 1 THEN window ELSE f[i - 1], i, reach)
    OBVIOUS
  <2>1. CASE i = 1
    BY <1>3, <2>1
  <2>2. CASE i # 1
    <3>1. i - 1 \in 1 .. N
      BY <1>1, <2>2
    <3>2. f[i - 1] = g[i - 1] /\ f[i] = g[i]
      BY <3>1
    <3> QED BY <1>3, <2>2, <3>2
  <2> QED BY <2>1, <2>2
<1>5. f = [i \in 1 .. N |-> f[i]]
  OBVIOUS
<1> HIDE DEF f
<1>6. AliasesOf(f, window, reach)
  BY <1>4, <1>5 DEF AliasesOf, Alias
<1> QED BY <1>6

(* The window and the table frames.                                        *)
LEMMA PmmFacts ==
  ASSUME NEW r, Good(r), NEW reach \in SUBSET Nat, NEW x, x = MapPmmPages(r, reach)
  PROVE  /\ Good(x) /\ Grown(r.sp, x.sp)
         /\ x.status = "OK" => r.status = "OK"
         /\ x.status = "OK" /\ SpaceOk(r.sp) /\ WindowWhole(r.sp) =>
              SpaceOk(x.sp) /\ WindowStart \in DOMAIN x.sp.leaves
<1> DEFINE window == Tolerated(AS!Map(r.sp, r.m, WindowStart, WindowStart,
                                      LinkBase - WindowStart, WindowFlags, reach))
           from == CHOOSE f : AliasesOf(f, window, reach)
           N == MaxPmm + 1
<1>1. N \in Nat /\ N >= 1 /\ 1 \in 1 .. N /\ N \in 1 .. N
  BY VirtualMemoryAssumption
<1>2. CASE r.status # "OK"
  <2>1. x = r
    BY <1>2 DEF MapPmmPages
  <2> QED BY <1>2, <2>1, GrownNot
<1>3. CASE r.status = "OK"
  <2>1. x = from[N]
    BY <1>3 DEF MapPmmPages, AliasesOf
  <2>2. AliasesOf(from, window, reach)
    <3> HIDE DEF window
    <3> QED BY AliasesOfExist
  <2>3. /\ IsSpace(r.sp) /\ IsMem(r.m)
        /\ WindowStart \in Int /\ LinkBase - WindowStart \in Nat
        /\ WindowFlags \in SUBSET AS!Flag
    BY VirtualMemoryAssumption DEF Good, WindowFlags, AS!Flag
  <2>4. WindowWhole(r.sp) => \/ WindowStart \in DOMAIN r.sp.leaves
                             \/ \A i \in 0 .. LinkBase - WindowStart - 1 :
                                  WindowStart + i \notin DOMAIN r.sp.leaves
    <3>1. ASSUME NEW i \in 0 .. LinkBase - WindowStart - 1
          PROVE  WindowStart + i \in WindowStart .. LinkBase - 1
      BY VirtualMemoryAssumption
    <3> QED BY <3>1 DEF WindowWhole
  <2>5. /\ Good(window) /\ Grown(r.sp, window.sp)
        /\ window.status = "OK" /\ SpaceOk(r.sp) /\ WindowWhole(r.sp) =>
             SpaceOk(window.sp) /\ WindowStart \in DOMAIN window.sp.leaves
    <3>1. PICK n \in Nat, flags \in SUBSET AS!Flag :
            n = LinkBase - WindowStart /\ flags = WindowFlags
      BY <2>3
    <3>4. PICK t : t = window
      OBVIOUS
    <3>2. t = Tolerated(AS!Map(r.sp, r.m, WindowStart, WindowStart, n, flags, reach))
      BY <3>1, <3>4
    <3> HIDE DEF window
    <3>3. Tolerable(t, r.sp, WindowStart, n)
      BY <2>3, <3>2, TolerableMap
    <3> QED BY <2>4, <3>1, <3>3, <3>4 DEF Tolerable
  <2> HIDE DEF window, from
  <2>6. \A i \in 1 .. N : from[i] = Alias(IF i = 1 THEN window ELSE from[i - 1], i, reach)
    BY <2>2 DEF AliasesOf, Alias
  <2>7. ASSUME NEW p, Good(p), NEW i \in 1 .. N, NEW c, c = Alias(p, i, reach)
        PROVE  /\ Good(c) /\ Grown(p.sp, c.sp)
               /\ c.status = "OK" => p.status = "OK"
               /\ c.status = "OK" /\ SpaceOk(p.sp) => SpaceOk(c.sp)
    <3>1. CASE p.status # "OK" \/ i > Len(p.m.pmm)
      BY <2>7, <3>1, GrownNot DEF Alias
    <3>2. CASE ~(p.status # "OK" \/ i > Len(p.m.pmm))
      <4>1. PICK v : v = p.m.pmm[i]
        OBVIOUS
      <4>2. p.m.pmm \in Seq(Nat) /\ IsSpace(p.sp) /\ IsMem(p.m)
        BY <2>7 DEF Good, IsMem
      <4>3. v \in Int
        BY <1>1, <3>2, <4>1, <4>2
      <4>4. c = Tolerated(AS!Map(p.sp, p.m, v, v, 1, {"R", "W"}, reach))
        BY <2>7, <3>2, <4>1 DEF Alias
      <4>5. {"R", "W"} \in SUBSET AS!Flag /\ 1 \in Nat
        BY DEF AS!Flag
      <4>6. v \in DOMAIN p.sp.leaves \/ \A k \in 0 .. 1 - 1 : v + k \notin DOMAIN p.sp.leaves
        BY <4>3
      <4>7. /\ Good(c) /\ Grown(p.sp, c.sp)
            /\ c.status = "OK" /\ SpaceOk(p.sp) => SpaceOk(c.sp)
        <5>1. PICK flags \in SUBSET AS!Flag, n \in Nat : flags = {"R", "W"} /\ n = 1
          BY <4>5
        <5>2. /\ c = Tolerated(AS!Map(p.sp, p.m, v, v, n, flags, reach))
              /\ v \in DOMAIN p.sp.leaves \/ \A k \in 0 .. n - 1 : v + k \notin DOMAIN p.sp.leaves
          BY <4>4, <4>6, <5>1
        <5>3. Tolerable(c, p.sp, v, n)
          BY <4>2, <4>3, <5>2, TolerableMap
        <5> QED BY <5>2, <5>3 DEF Tolerable
      <4> QED BY <3>2, <4>7
    <3> QED BY <3>1, <3>2
  <2> DEFINE S == {k \in 0 .. MaxPmm :
                     LET c == from[k + 1] IN
                       /\ Good(c) /\ Grown(window.sp, c.sp)
                       /\ c.status = "OK" => window.status = "OK"
                       /\ c.status = "OK" /\ SpaceOk(window.sp) => SpaceOk(c.sp)}
  <2>8. 0 \in S
    <3>1. from[1] = Alias(window, 1, reach)
      BY <1>1, <2>6
    <3>2. 0 \in 0 .. MaxPmm /\ 0 + 1 = 1
      BY VirtualMemoryAssumption
    <3> QED BY <1>1, <2>5, <2>7, <3>1, <3>2
  <2>9. ASSUME NEW k \in 0 .. MaxPmm - 1, k \in S PROVE k + 1 \in S
    <3>1. PICK a, c : a = from[k + 1] /\ c = from[k + 1 + 1]
      OBVIOUS
    <3>2. k + 1 \in 0 .. MaxPmm /\ k + 1 + 1 \in 1 .. N /\ k + 1 + 1 # 1 /\ k + 1 + 1 - 1 = k + 1
      BY VirtualMemoryAssumption
    <3>3. c = Alias(a, k + 1 + 1, reach)
      BY <2>6, <3>1, <3>2
    <3>4. /\ Good(a) /\ Grown(window.sp, a.sp)
          /\ a.status = "OK" => window.status = "OK"
          /\ a.status = "OK" /\ SpaceOk(window.sp) => SpaceOk(a.sp)
      BY <2>9, <3>1
    <3>5. /\ Good(c) /\ Grown(a.sp, c.sp)
          /\ c.status = "OK" => a.status = "OK"
          /\ c.status = "OK" /\ SpaceOk(a.sp) => SpaceOk(c.sp)
      BY <2>7, <3>2, <3>3, <3>4
    <3>6. Grown(window.sp, c.sp)
      BY <3>4, <3>5, GrownTwice
    <3> QED BY <3>1, <3>2, <3>4, <3>5, <3>6
  <2> HIDE DEF S
  <2>10. MaxPmm \in S
    <3>1. 0 .. MaxPmm \subseteq S
      BY <2>8, <2>9, UpTo, VirtualMemoryAssumption
    <3> QED BY <3>1, VirtualMemoryAssumption
  <2>11. /\ Good(x) /\ Grown(window.sp, x.sp)
         /\ x.status = "OK" => window.status = "OK"
         /\ x.status = "OK" /\ SpaceOk(window.sp) => SpaceOk(x.sp)
    BY <2>1, <2>10 DEF S
  <2>12. Grown(r.sp, x.sp)
    BY <2>5, <2>11, GrownTwice
  <2>13. WindowStart \in DOMAIN window.sp.leaves => WindowStart \in DOMAIN x.sp.leaves
    BY <2>11 DEF Grown
  <2> QED BY <1>3, <2>5, <2>11, <2>12, <2>13
<1> QED BY <1>2, <1>3

-----------------------------------------------------------------------------
(* A process root. *)

(* Sequences and their elements.                                           *)
LEMMA SeqFacts ==
  /\ \A S : \A q \in Seq(S) : /\ Len(q) \in Nat /\ DOMAIN q = 1 .. Len(q)
                            /\ \A i \in DOMAIN q : q[i] \in S
  /\ \A S, f : \A n \in Nat :
       f = [i \in 1 .. n |-> f[i]] /\ (\A i \in 1 .. n : f[i] \in S) => f \in Seq(S)
OBVIOUS

(* What the kernel maps of itself lies at its link base or above.          *)
LEMMA KernelIsAsked ==
  /\ UserRequests \in Seq(Asked(LinkBase)) /\ KernelRequests \in Seq(Asked(LinkBase))
  /\ HighRequests \in Seq(Asked(LinkBase))
  /\ LowRequests \o HighRequests \in Seq(Asked(LinkBase))
<1>1. ASSUME NEW v \in Int, NEW frame \in Int, NEW n \in Nat, NEW flags \in SUBSET AS!Flag,
             LinkBase <= v
      PROVE  Request(v, frame, n, flags) \in Asked(LinkBase)
  BY <1>1 DEF Request, Asked
<1>2. UserRequests \in Seq(Asked(LinkBase))
  <2>1. Request(UserText.start, UserText.start, UserText.end - UserText.start, {"R", "X", "U"})
          \in Asked(LinkBase)
    <3>1. /\ UserText.start \in Int /\ UserText.end - UserText.start \in Nat
          /\ LinkBase <= UserText.start
      BY LinkAssumption
    <3>2. {"R", "X", "U"} \in SUBSET AS!Flag
      BY DEF AS!Flag
    <3> QED BY <1>1, <3>1, <3>2
  <2>2. [i \in DOMAIN Stacks |-> Request(Stacks[i], Stacks[i], 1, {"R", "W", "U"})]
          \in Seq(Asked(LinkBase))
    <3>1. \A i \in DOMAIN Stacks : Stacks[i] \in Int /\ LinkBase <= Stacks[i]
      BY LinkAssumption
    <3>2. {"R", "W", "U"} \in SUBSET AS!Flag /\ 1 \in Nat
      BY DEF AS!Flag
    <3>3. \A i \in DOMAIN Stacks :
            Request(Stacks[i], Stacks[i], 1, {"R", "W", "U"}) \in Asked(LinkBase)
      BY <1>1, <3>1, <3>2
    <3>4. DOMAIN Stacks = 1 .. Len(Stacks) /\ Len(Stacks) \in Nat
      BY LinkAssumption
    <3> QED BY <3>3, <3>4
  <2> QED BY <2>1, <2>2 DEF UserRequests
<1>3. ASSUME NEW i \in DOMAIN KernelRegions
      PROVE  LET k == KernelRegions[i] IN
               /\ Request(k.start, k.start, k.end - k.start, k.flags) \in Asked(LinkBase)
               /\ Request(HighPage(k.start), k.start, k.end - k.start, k.flags) \in Asked(LinkBase)
  <2>1. PICK k : k = KernelRegions[i]
    OBVIOUS
  <2>2. k \in [start : Nat, end : Nat, flags : SUBSET {"R", "W", "X"}]
    BY <2>1, LinkAssumption, SeqFacts
  <2>3. /\ k.start \in Int /\ k.end - k.start \in Nat /\ LinkBase <= k.start
        /\ HighPage(k.start) \in Int /\ LinkBase <= HighPage(k.start)
    <3>1. k.start \in Nat /\ k.end \in Nat
      BY <2>2
    <3>2. LinkBase <= k.start /\ k.start < k.end
      BY <2>1, LinkAssumption
    <3>3. LinkBase \in Nat /\ HighBase \in Nat /\ LinkBase <= HighBase
      BY LinkAssumption, VirtualMemoryAssumption
    <3> QED BY <3>1, <3>2, <3>3 DEF HighPage
  <2>4. k.flags \in SUBSET AS!Flag
    BY <2>2 DEF AS!Flag
  <2> QED BY <1>1, <2>1, <2>3, <2>4
<1>4. DOMAIN KernelRegions = 1 .. Len(KernelRegions) /\ Len(KernelRegions) \in Nat
  BY LinkAssumption
<1>5. KernelRequests \in Seq(Asked(LinkBase)) /\ HighRequests \in Seq(Asked(LinkBase))
  BY <1>3, <1>4 DEF KernelRequests, HighRequests
<1> QED BY <1>2, <1>5 DEF LowRequests

(* The segments of an image.                                               *)
LEMMA ImageIsAsked ==
  ASSUME NEW b \in Boots
  PROVE  ElfRequests(b.image) \in Seq(Asked(0))
<1> DEFINE segments == b.image.segments
<1>1. segments \in Seq([page : Nat, size : Nat, file : Nat, flags : SUBSET {"R", "W", "X"}])
  BY ImageAssumption
<1>2. ASSUME NEW i \in DOMAIN segments
      PROVE  LET s == segments[i] IN
               Request(s.page, StoredAt(s.page), FirstFrameAfter(s.size), s.flags \cup {"U"})
                 \in Asked(0)
  <2>1. PICK s : s = segments[i]
    OBVIOUS
  <2>2. s \in [page : Nat, size : Nat, file : Nat, flags : SUBSET {"R", "W", "X"}]
    BY <1>1, <2>1, SeqFacts
  <2>3. s.page \in Int /\ 0 <= s.page /\ StoredAt(s.page) \in Int
    BY <2>2, VirtualMemoryAssumption DEF StoredAt
  <2>4. FirstFrameAfter(s.size) \in Nat
    <3>1. ASSUME NEW x \in Nat, NEW y \in Nat \ {0} PROVE x \div y \in Nat
      OBVIOUS
    <3>2. s.size + PageBytes - 1 \in Nat
      BY <2>2, PhysMemAssumption
    <3> QED BY <3>1, <3>2, PhysMemAssumption DEF FirstFrameAfter
  <2>5. s.flags \cup {"U"} \in SUBSET AS!Flag
    BY <2>2 DEF AS!Flag
  <2> QED BY <2>1, <2>3, <2>4, <2>5 DEF Request, Asked
<1>3. DOMAIN segments = 1 .. Len(segments) /\ Len(segments) \in Nat
  BY <1>1
<1>4. PICK f : f = ElfRequests(b.image)
  OBVIOUS
<1>5. \A i \in 1 .. Len(segments) : f[i] \in Asked(0)
  BY <1>2, <1>3, <1>4 DEF ElfRequests
<1>6. f = [i \in 1 .. Len(segments) |-> f[i]]
  BY <1>3, <1>4 DEF ElfRequests
<1> QED BY <1>3, <1>4, <1>5, <1>6, SeqFacts

(* A new root is right, if it can be built.                                *)
LEMMA InitFacts ==
  ASSUME NEW m, IsMem(m), NEW reach \in SUBSET Nat, NEW x, x = InitSpace(m, reach)
  PROVE  /\ Good(x)
         /\ x.status = "OK" => SpaceOk(x.sp) /\ WindowStart \in DOMAIN x.sp.leaves
<1> DEFINE root == TakeFrame(m, reach)
<1>1. IsMem(root.pool)
  BY TakeFacts
<1>2. ASSUME NEW f, NEW st
      PROVE  /\ Good(AS!Outcome(AS!EmptySpace(f), root.pool, st))
             /\ AS!Outcome(AS!EmptySpace(f), root.pool, st).sp = AS!EmptySpace(f)
             /\ AS!Outcome(AS!EmptySpace(f), root.pool, st).status = st
  <2>1. IsSpace(AS!EmptySpace(f))
    BY DEF AS!EmptySpace, IsSpace
  <2> HIDE DEF root
  <2> QED BY <1>1, <2>1 DEF AS!Outcome, Good
<1>3. CASE root.status # "OK"
  <2>1. x = AS!Outcome(AS!EmptySpace(0), root.pool, root.status)
    BY <1>3 DEF InitSpace
  <2> QED BY <1>2, <1>3, <2>1
<1>4. CASE root.status = "OK"
  <2> DEFINE e == AS!EmptySpace(root.frame)
             o == AS!Outcome(e, root.pool, "OK")
             a == MapAll(o, LowRequests \o HighRequests, reach)
  <2>1. x = MapPmmPages(a, reach)
    BY <1>4 DEF InitSpace
  <2>2. Good(o) /\ o.sp = e
    BY <1>2
  <2>3. DOMAIN e.leaves = {} /\ e.regions = <<>>
    BY DEF AS!EmptySpace
  <2>4. SpaceOk(e)
    <3>1. Len(e.regions) = 0 /\ DOMAIN e.regions = {} /\ e.regions \in Seq(Region)
      BY <2>3
    <3>2. UNION {RegionPages(e.regions[i]) : i \in DOMAIN e.regions} = {}
      BY <3>1
    <3> QED BY <2>3, <3>1, <3>2, VirtualMemoryAssumption DEF SpaceOk
  <2> HIDE DEF e, o, root
  <2>5. /\ Good(a)
        /\ a.status = "OK" =>
             SpaceOk(a.sp) /\ \A w \in DOMAIN a.sp.leaves : w \in Int /\ LinkBase <= w
    <3>1. LinkBase \in Int
      BY VirtualMemoryAssumption
    <3> QED BY <2>2, <2>3, <2>4, <3>1, AllFacts, KernelIsAsked
  <2> HIDE DEF a
  <2>6. a.status = "OK" => WindowWhole(a.sp)
    BY <2>5, VirtualMemoryAssumption DEF WindowWhole
  <2> QED BY <2>1, <2>5, <2>6, PmmFacts
<1> QED BY <1>3, <1>4

-----------------------------------------------------------------------------
(* The steps. *)

(* How many roots there are after n steps of the boot sequence.            *)
Built(n) ==
  IF n <= 1 THEN 0 ELSE IF n = 2 THEN 1 ELSE IF n <= 4 \/ NumSpaces = 2 THEN 2 ELSE 3

VMInv ==
  /\ boot \in Boots /\ IsMem(mem)
  /\ phase \in 0 .. Len(BootOrder)
  /\ DOMAIN space = 0 .. Built(phase) - 1
  /\ \A p \in DOMAIN space : IsSpace(space[p])
  /\ outcome = "up" => \A p \in DOMAIN space :
                         SpaceOk(space[p]) /\ WindowStart \in DOMAIN space[p].leaves

(* What every step does to the spaces there are.                           *)
SpacesGrow == \A p \in DOMAIN space : p \in DOMAIN space' /\ Grown(space[p], space'[p])

(* The boot sequence.                                                      *)
LEMMA OrderFacts ==
  ASSUME phase \in 0 .. Len(BootOrder)
  PROVE  /\ Booted => Built(phase) = NumSpaces
         /\ ~Booted => phase + 1 \in 0 .. Len(BootOrder)
         /\ Built(phase) \in Nat
         /\ Doing("load") => Built(phase + 1) = Built(phase)
         /\ Doing("space") => Built(phase + 1) = Built(phase) + 1
         /\ Doing("alias") \/ Doing("image") =>
              Built(phase + 1) = Built(phase) /\ Built(phase) >= 2
<1>1. CASE NumSpaces = 2
  <2>1. BootOrder = <<"load", "space", "space", "alias", "image">>
    BY <1>1 DEF BootOrder
  <2>2. phase \in 0 .. 5 /\ (Booted <=> phase = 5)
    BY <2>1 DEF Booted
  <2>3. \A step : Doing(step) => ~Booted /\ <<"load", "space", "space", "alias", "image">>[phase + 1] = step
    BY <2>1 DEF Doing
  <2>4. /\ Doing("load") => phase = 0
        /\ Doing("space") => phase \in {1, 2}
        /\ Doing("alias") => phase = 3
        /\ Doing("image") => phase = 4
    BY <2>2, <2>3
  <2>5. Len(BootOrder) = 5
    BY <2>1
  <2> QED BY <1>1, <2>2, <2>4, <2>5 DEF Built
<1>2. CASE NumSpaces = 3
  <2>1. BootOrder = <<"load", "space", "space", "alias", "space", "image">>
    BY <1>2 DEF BootOrder
  <2>2. phase \in 0 .. 6 /\ (Booted <=> phase = 6)
    BY <2>1 DEF Booted
  <2>3. \A step : Doing(step) =>
          ~Booted /\ <<"load", "space", "space", "alias", "space", "image">>[phase + 1] = step
    BY <2>1 DEF Doing
  <2>4. /\ Doing("load") => phase = 0
        /\ Doing("space") => phase \in {1, 2, 4}
        /\ Doing("alias") => phase = 3
        /\ Doing("image") => phase = 5
    BY <2>2, <2>3
  <2>5. Len(BootOrder) = 6
    BY <2>1
  <2> QED BY <1>2, <2>2, <2>4, <2>5 DEF Built
<1> QED BY <1>1, <1>2, VirtualMemoryAssumption

(* Only the status OK lets the boot go on.                                 *)
LEMMA HaltIs == \A st : Halt(st) = "up" => st = "OK"
BY DEF Halt

(* What can be reached are frames.                                         *)
LEMMA ReachIs == BootReach \in SUBSET Nat /\ \A sp : Reach(sp) \in SUBSET Nat
BY VirtualMemoryAssumption DEF BootReach, Reach

(* An operation on a space there is.                                       *)
LEMMA OutcomeIs ==
  ASSUME NEW sp, IsSpace(sp), NEW m, IsMem(m), NEW st, NEW r, r = AS!Outcome(sp, m, st)
  PROVE  Good(r) /\ r.sp = sp /\ r.m = m /\ r.status = st
BY DEF Good, AS!Outcome

(* The first process starts with nothing built.                            *)
LEMMA VMInit == Init => VMInv
<1> SUFFICES ASSUME Init PROVE VMInv
  OBVIOUS
<1>1. DOMAIN space = {} /\ phase = 0
  BY DEF Init
<1>2. Built(phase) = 0 /\ phase \in 0 .. Len(BootOrder)
  <2>1. Len(BootOrder) \in {5, 6}
    BY DEF BootOrder
  <2> QED BY <1>1, <2>1 DEF Built
<1>3. IsMem(mem)
  BY DEF Init, IsMem
<1> QED BY <1>1, <1>2, <1>3 DEF Init, VMInv

(* The steps of the boot.                                                  *)
LEMMA BootSpaceStep ==
  ASSUME VMInv, BootSpace
  PROVE  VMInv' /\ SpacesGrow
<1> DEFINE K == Built(phase)
<1>1. PICK p, r : p = Cardinality(DOMAIN space) /\ r = InitSpace(mem, BootReach)
  OBVIOUS
<1>2. /\ Doing("space") /\ phase' = phase + 1 /\ boot' = boot
      /\ space' = AS!With(space, p, r.sp) /\ mem' = r.m /\ outcome' = Halt(r.status)
  BY <1>1 DEF BootSpace
<1>3. /\ K \in Nat /\ Built(phase + 1) = K + 1 /\ phase + 1 \in 0 .. Len(BootOrder)
      /\ DOMAIN space = 0 .. K - 1
  BY <1>2, OrderFacts DEF VMInv, Doing
<1> HIDE DEF K
<1>4. p = K
  <2>1. 0 \in Int /\ K - 1 \in Int
    BY <1>3
  <2>2. Cardinality(0 .. K - 1) = IF 0 > K - 1 THEN 0 ELSE K - 1 - 0 + 1
    BY <2>1, FS_Interval
  <2> QED BY <1>1, <1>3, <2>2
<1>5. /\ DOMAIN space' = 0 .. K /\ space'[K] = r.sp
      /\ \A q \in DOMAIN space : q \in DOMAIN space' /\ space'[q] = space[q]
  BY <1>2, <1>3, <1>4 DEF AS!With
<1>6. /\ Good(r)
      /\ r.status = "OK" => SpaceOk(r.sp) /\ WindowStart \in DOMAIN r.sp.leaves
  BY <1>1, InitFacts, ReachIs DEF VMInv
<1>7. \A q \in DOMAIN space' : q = K \/ q \in DOMAIN space
  BY <1>3, <1>5
<1>8. IsMem(mem') /\ IsSpace(r.sp)
  BY <1>2, <1>6 DEF Good
<1>9. \A q \in DOMAIN space' : IsSpace(space'[q])
  BY <1>5, <1>7, <1>8 DEF VMInv
<1>10. ASSUME outcome' = "up", NEW q \in DOMAIN space'
       PROVE  SpaceOk(space'[q]) /\ WindowStart \in DOMAIN space'[q].leaves
  <2>1. r.status = "OK" /\ outcome = "up"
    BY <1>2, <1>10, HaltIs DEF Doing
  <2> QED BY <1>5, <1>6, <1>7, <2>1 DEF VMInv
<1>11. DOMAIN space' = 0 .. Built(phase') - 1 /\ phase' \in 0 .. Len(BootOrder)
  BY <1>2, <1>3, <1>5
<1>12. SpacesGrow
  BY <1>5, GrownNot DEF SpacesGrow
<1>13. boot' \in Boots
  BY <1>2 DEF VMInv
<1>14. VMInv'
  BY <1>8, <1>9, <1>10, <1>11, <1>13 DEF VMInv, BootOrder
<1> QED BY <1>12, <1>14

(* The steps that leave the number of the roots as it is.                  *)
LEMMA ChangedStep ==
  ASSUME VMInv, outcome = "up", boot' = boot, DOMAIN space' = DOMAIN space,
         phase' \in 0 .. Len(BootOrder), Built(phase') = Built(phase), IsMem(mem'),
         \A p \in DOMAIN space : IsSpace(space'[p]) /\ Grown(space[p], space'[p]),
         outcome' = "up" => \A p \in DOMAIN space : SpaceOk(space'[p])
  PROVE  VMInv' /\ SpacesGrow
<1>1. SpacesGrow
  BY DEF SpacesGrow
<1>2. ASSUME NEW p \in DOMAIN space PROVE WindowStart \in DOMAIN space'[p].leaves
  BY DEF VMInv, Grown
<1>3. VMInv'
  BY <1>2 DEF VMInv, BootOrder
<1> QED BY <1>1, <1>3

(* The boot maps the aliases of the table frames into the first two roots. *)
LEMMA BootAliasStep ==
  ASSUME VMInv, BootAlias
  PROVE  VMInv' /\ SpacesGrow
<1>1. PICK a : a = MapPmmPages(AS!Outcome(space[0], mem, "OK"), BootReach)
  OBVIOUS
<1>2. PICK b : b = IF a.status = "OK"
                     THEN MapPmmPages(AS!Outcome(space[1], a.m, "OK"), BootReach)
                     ELSE AS!Outcome(space[1], a.m, a.status)
  OBVIOUS
<1>3. /\ Doing("alias") /\ outcome = "up" /\ phase' = phase + 1 /\ boot' = boot
      /\ space' = [space EXCEPT ![0] = a.sp, ![1] = b.sp] /\ mem' = b.m
      /\ outcome' = Halt(b.status)
  BY <1>1, <1>2 DEF BootAlias, Doing
<1>4. /\ 0 \in DOMAIN space /\ 1 \in DOMAIN space
      /\ phase' \in 0 .. Len(BootOrder) /\ Built(phase') = Built(phase)
  BY <1>3, OrderFacts DEF VMInv, Doing
<1>5. /\ IsSpace(space[0]) /\ IsSpace(space[1]) /\ IsMem(mem)
      /\ \A p \in DOMAIN space : SpaceOk(space[p]) /\ WindowWhole(space[p])
  BY <1>3, <1>4 DEF VMInv, WindowWhole
<1>6. /\ Good(a) /\ Grown(space[0], a.sp)
      /\ a.status = "OK" => SpaceOk(a.sp)
  <2>1. PICK o : o = AS!Outcome(space[0], mem, "OK")
    OBVIOUS
  <2>2. Good(o) /\ o.sp = space[0]
    BY <1>5, <2>1, OutcomeIs
  <2>3. a = MapPmmPages(o, BootReach)
    BY <1>1, <2>1
  <2> QED BY <1>4, <1>5, <2>2, <2>3, PmmFacts, ReachIs
<1>7. /\ Good(b) /\ Grown(space[1], b.sp)
      /\ b.status = "OK" => a.status = "OK" /\ SpaceOk(b.sp)
  <2>1. IsMem(a.m)
    BY <1>6 DEF Good
  <2>2. CASE a.status = "OK"
    <3>1. PICK o : o = AS!Outcome(space[1], a.m, "OK")
      OBVIOUS
    <3>2. Good(o) /\ o.sp = space[1]
      BY <1>5, <2>1, <3>1, OutcomeIs
    <3>3. b = MapPmmPages(o, BootReach)
      BY <1>2, <2>2, <3>1
    <3> QED BY <1>4, <1>5, <2>2, <3>2, <3>3, PmmFacts, ReachIs
  <2>3. CASE a.status # "OK"
    <3>1. b = AS!Outcome(space[1], a.m, a.status)
      BY <1>2, <2>3
    <3>2. Good(b) /\ b.sp = space[1] /\ b.status = a.status
      BY <1>5, <2>1, <3>1, OutcomeIs
    <3> QED BY <2>3, <3>2, GrownNot
  <2> QED BY <2>2, <2>3
<1>8. DOMAIN space' = DOMAIN space
  BY <1>3
<1>9. \A p \in DOMAIN space : space'[p] = IF p = 1 THEN b.sp ELSE IF p = 0 THEN a.sp ELSE space[p]
  BY <1>3, <1>4
<1>10. IsMem(mem') /\ IsSpace(a.sp) /\ IsSpace(b.sp)
  BY <1>3, <1>6, <1>7 DEF Good
<1>11. \A p \in DOMAIN space : IsSpace(space'[p]) /\ Grown(space[p], space'[p])
  BY <1>6, <1>7, <1>9, <1>10, GrownNot DEF VMInv
<1>12. ASSUME outcome' = "up", NEW p \in DOMAIN space PROVE SpaceOk(space'[p])
  <2>1. b.status = "OK"
    BY <1>3, <1>12, HaltIs
  <2> QED BY <1>5, <1>6, <1>7, <1>9, <2>1
<1> QED BY <1>3, <1>4, <1>8, <1>10, <1>11, <1>12, ChangedStep

(* It maps the image of the user program.                                  *)
LEMMA BootImageStep ==
  ASSUME VMInv, BootImage
  PROVE  VMInv' /\ SpacesGrow
<1>1. PICK o : o = AS!Outcome(space[0], mem, "OK")
  OBVIOUS
<1>2. PICK r : r = MapAll(o, ElfRequests(boot.image), BootReach)
  OBVIOUS
<1>3. /\ Doing("image") /\ outcome = "up" /\ phase' = phase + 1 /\ boot' = boot
      /\ space' = [space EXCEPT ![0] = r.sp] /\ mem' = r.m
      /\ outcome' = Halt(r.status)
  BY <1>1, <1>2 DEF BootImage, Doing
<1>4. /\ 0 \in DOMAIN space
      /\ phase' \in 0 .. Len(BootOrder) /\ Built(phase') = Built(phase)
  BY <1>3, OrderFacts DEF VMInv, Doing
<1>5. /\ IsSpace(space[0]) /\ IsMem(mem)
      /\ \A p \in DOMAIN space : SpaceOk(space[p])
  BY <1>3, <1>4 DEF VMInv
<1>6. Good(o) /\ o.sp = space[0]
  BY <1>1, <1>5, OutcomeIs
<1>7. /\ Good(r) /\ Grown(space[0], r.sp)
      /\ r.status = "OK" => SpaceOk(r.sp)
  <2>1. ElfRequests(boot.image) \in Seq(Asked(0)) /\ 0 \in Int
    BY ImageIsAsked DEF VMInv
  <2> QED BY <1>2, <1>4, <1>5, <1>6, <2>1, AllFacts, ReachIs
<1>8. \A p \in DOMAIN space : space'[p] = IF p = 0 THEN r.sp ELSE space[p]
  BY <1>3, <1>4
<1>9. DOMAIN space' = DOMAIN space
  BY <1>3
<1>10. IsMem(mem') /\ IsSpace(r.sp)
  BY <1>3, <1>7 DEF Good
<1>11. \A p \in DOMAIN space : IsSpace(space'[p]) /\ Grown(space[p], space'[p])
  BY <1>7, <1>8, <1>10, GrownNot DEF VMInv
<1>12. ASSUME outcome' = "up", NEW p \in DOMAIN space PROVE SpaceOk(space'[p])
  <2>1. r.status = "OK"
    BY <1>3, <1>12, HaltIs
  <2> QED BY <1>5, <1>7, <1>8, <2>1
<1> QED BY <1>3, <1>4, <1>9, <1>10, <1>11, <1>12, ChangedStep

(* SYS_SHM_MAP asks for one page: a refusal leaves tables more at most.    *)
LEMMA ShmMapStep ==
  ASSUME VMInv, NEW p \in Space, NEW v \in ShmPages, ShmMap(p, v)
  PROVE  VMInv' /\ SpacesGrow
<1>1. outcome = "up" /\ Booted /\ phase' = phase /\ boot' = boot
  BY DEF ShmMap
<1>2. /\ p \in DOMAIN space /\ IsSpace(space[p]) /\ SpaceOk(space[p])
      /\ phase' \in 0 .. Len(BootOrder) /\ Built(phase') = Built(phase)
  BY <1>1, OrderFacts, VirtualMemoryAssumption DEF VMInv, Space
<1>13. PICK m \in Survivors :
         LET x == AS!Map(space[p], m, v, Shared, 1, {"R", "W", "U"}, Reach(space[p])) IN
           \/ /\ space' = [space EXCEPT ![p] = x.sp] /\ mem' = x.m
           \/ UNCHANGED <<space, mem>>
  BY DEF ShmMap
<1>14. PICK r : r = AS!Map(space[p], m, v, Shared, 1, {"R", "W", "U"}, Reach(space[p]))
  OBVIOUS
<1>3. \/ /\ space' = [space EXCEPT ![p] = r.sp] /\ mem' = r.m
      \/ UNCHANGED <<space, mem>>
  BY <1>13, <1>14
<1>4. IsMem(m)
  <2>1. [mem EXCEPT !.ranges = <<>>] = [ranges |-> <<>>, pool |-> mem.pool, pmm |-> mem.pmm]
    BY DEF VMInv, IsMem
  <2> QED BY <2>1 DEF VMInv, IsMem, Survivors
<1>5. PICK n \in Nat, flags \in SUBSET AS!Flag, reach \in SUBSET Nat :
        n = 1 /\ flags = {"R", "W", "U"} /\ reach = Reach(space[p])
  <2>1. {"R", "W", "U"} \in SUBSET AS!Flag
    BY DEF AS!Flag
  <2> QED BY <2>1, ReachIs
<1>6. v \in Int /\ Shared \in Int
  BY VirtualMemoryAssumption
<1>7. r = AS!Map(space[p], m, v, Shared, n, flags, reach)
  BY <1>5, <1>14
<1>8. Mapped(r, space[p], v, Shared, n, flags)
  BY <1>2, <1>4, <1>6, <1>7, MapFacts
<1>9. SpaceOk(r.sp)
  <2>1. CASE r.status = "OK"
    BY <1>2, <1>4, <1>6, <1>7, <2>1, MapRight
  <2>2. CASE r.status # "OK"
    <3>1. r.sp.leaves = space[p].leaves
      BY <1>5, <1>8, <2>2 DEF Mapped
    <3> QED BY <1>2, <1>4, <1>6, <1>7, <2>2, <3>1, MapRight
  <2> QED BY <2>1, <2>2
<1>10. Good(r) /\ Grown(space[p], r.sp) /\ IsSpace(r.sp) /\ IsMem(r.m)
  BY <1>8 DEF Mapped, Good
<1>11. CASE space' = [space EXCEPT ![p] = r.sp] /\ mem' = r.m
  <2>1. DOMAIN space' = DOMAIN space
    BY <1>11
  <2>2. \A q \in DOMAIN space : space'[q] = IF q = p THEN r.sp ELSE space[q]
    BY <1>2, <1>11
  <2>3. \A q \in DOMAIN space : IsSpace(space'[q]) /\ Grown(space[q], space'[q])
    BY <1>10, <2>2, GrownNot DEF VMInv
  <2>4. \A q \in DOMAIN space : SpaceOk(space'[q])
    BY <1>1, <1>9, <2>2 DEF VMInv
  <2> QED BY <1>1, <1>2, <1>10, <1>11, <2>1, <2>3, <2>4, ChangedStep
<1>12. CASE UNCHANGED <<space, mem>>
  <2>1. IsMem(mem') /\ DOMAIN space' = DOMAIN space
    BY <1>12 DEF VMInv
  <2>2. \A q \in DOMAIN space : /\ IsSpace(space'[q]) /\ Grown(space[q], space'[q])
                                /\ SpaceOk(space'[q])
    BY <1>1, <1>12, GrownNot DEF VMInv
  <2> QED BY <1>1, <1>2, <2>1, <2>2, ChangedStep
<1> QED BY <1>3, <1>11, <1>12

(* A step of the machine.                                                  *)
LEMMA VMStep == VMInv /\ [Next]_vars => VMInv' /\ SpacesGrow
<1> SUFFICES ASSUME VMInv, [Next]_vars PROVE VMInv' /\ SpacesGrow
  OBVIOUS
<1>1. CASE BootLoad
  <2>1. /\ outcome = "up" /\ Doing("load") /\ phase' = phase + 1
        /\ boot' = boot /\ mem' = mem /\ space' = space
    BY <1>1 DEF BootLoad, Doing
  <2>2. phase' \in 0 .. Len(BootOrder) /\ Built(phase') = Built(phase)
    BY <2>1, OrderFacts DEF VMInv, Doing
  <2>3. IsMem(mem') /\ DOMAIN space' = DOMAIN space
    BY <2>1 DEF VMInv
  <2>4. \A q \in DOMAIN space : /\ IsSpace(space'[q]) /\ Grown(space[q], space'[q])
                                /\ SpaceOk(space'[q])
    BY <2>1, GrownNot DEF VMInv
  <2> QED BY <2>1, <2>2, <2>3, <2>4, ChangedStep
<1>2. ASSUME NEW p \in Space, NEW q \in Space, NEW v \in ShmPages, CheckBuffer(p, q, v)
      PROVE  VMInv' /\ SpacesGrow
  <2>1. /\ outcome = "up" /\ phase' = phase
        /\ boot' = boot /\ mem' = mem /\ space' = space
    BY <1>2 DEF CheckBuffer
  <2>2. phase' \in 0 .. Len(BootOrder) /\ Built(phase') = Built(phase)
    BY <2>1 DEF VMInv
  <2>3. IsMem(mem') /\ DOMAIN space' = DOMAIN space
    BY <2>1 DEF VMInv
  <2>4. \A k \in DOMAIN space : /\ IsSpace(space'[k]) /\ Grown(space[k], space'[k])
                                /\ SpaceOk(space'[k])
    BY <2>1, GrownNot DEF VMInv
  <2> QED BY <2>1, <2>2, <2>3, <2>4, ChangedStep
<1>3. CASE UNCHANGED vars
  BY <1>3, GrownNot DEF vars, VMInv, SpacesGrow, BootOrder
<1> QED BY <1>1, <1>2, <1>3, BootSpaceStep, BootAliasStep, BootImageStep, ShmMapStep DEF Next

-----------------------------------------------------------------------------
(* Where frames come from and where they go. *)

(* The frames that have not been handed out.                               *)
PoolLeft(k) == {Pool[i] : i \in k + 1 .. Len(Pool)}
Avail(m) == RangeFrames(m.ranges) \cup PoolLeft(m.pool)

(* The sources offer no frame twice.                                       *)
MemOk(m) ==
  /\ m.ranges \in Seq(FrameRange) /\ RangesApart(m.ranges)
  /\ m.pool \in 0 .. Len(Pool)
  /\ RangeFrames(m.ranges) \cap PoolFrames = {}

(* Every table of a space has a frame of its own, none of them frame 0.    *)
Neat(sp) ==
  /\ 0 \notin AS!TableFrames(sp) /\ IsFiniteSet(DOMAIN sp.tables)
  /\ \A id \in DOMAIN sp.tables : sp.tables[id].frame # sp.root
  /\ \A id, jd \in DOMAIN sp.tables : sp.tables[id].frame = sp.tables[jd].frame => id = jd

(* The user leaves of a space are among A.                                 *)
UserLeavesIn(sp, A) ==
  \A v \in DOMAIN sp.leaves : "U" \in sp.leaves[v].flags => sp.leaves[v] \in A

(* The space took its frames out of F, and F still has what is available.  *)
Clean(sp, m, F, A) ==
  /\ MemOk(m) /\ Avail(m) \subseteq F
  /\ Neat(sp) /\ AS!TableFrames(sp) \subseteq F \ Avail(m)
  /\ UserLeavesIn(sp, A)

(* The frames a mapping leads to.                                          *)
Allows(A, frame, n, flags) ==
  "U" \in flags => \A i \in 0 .. n - 1 : [frame |-> frame + i, flags |-> AS!LeafFlags(flags)] \in A

(* What the pool yields.                                                   *)
LEMMA PoolFacts ==
  ASSUME NEW m, IsMem(m), MemOk(m), NEW a, a = FromPool(m)
  PROVE  /\ MemOk(a.pool) /\ Avail(a.pool) \subseteq Avail(m)
         /\ a.status = "OK" => a.frame \in Avail(m) \ Avail(a.pool) /\ a.frame # 0
<1>1. Len(Pool) \in Nat /\ DOMAIN Pool = 1 .. Len(Pool) /\ \A i \in 1 .. Len(Pool) : Pool[i] \in Nat \ {0}
  BY LayoutAssumption
<1>2. CASE ~(m.pool < Len(Pool))
  BY <1>2 DEF FromPool
<1>3. CASE m.pool < Len(Pool)
  <2>1. PICK k \in Nat : k = m.pool
    BY DEF MemOk
  <2>2. PICK n : n = [m EXCEPT !.pool = @ + 1]
    OBVIOUS
  <2>3. n.ranges = m.ranges /\ n.pool = k + 1
    BY <2>1, <2>2 DEF IsMem
  <2>4. a.status = "OK" /\ a.frame = Pool[k + 1] /\ a.pool = n
    BY <1>3, <2>1, <2>2 DEF FromPool
  <2>5. k + 1 \in 1 .. Len(Pool) /\ k + 1 \in 0 .. Len(Pool)
    BY <1>1, <1>3, <2>1
  <2>6. MemOk(n)
    BY <2>3, <2>5 DEF MemOk
  <2>7. PoolLeft(k + 1) \subseteq PoolLeft(k) /\ Pool[k + 1] \in PoolLeft(k)
    <3>1. k + 1 + 1 .. Len(Pool) \subseteq k + 1 .. Len(Pool) /\ k + 1 \in k + 1 .. Len(Pool)
      BY <1>1, <2>5
    <3> QED BY <3>1 DEF PoolLeft
  <2>8. Pool[k + 1] \notin PoolLeft(k + 1)
    <3> SUFFICES ASSUME NEW i \in k + 1 + 1 .. Len(Pool) PROVE Pool[k + 1] # Pool[i]
      BY DEF PoolLeft
    <3>1. i \in 1 .. Len(Pool) /\ i # k + 1
      BY <1>1, <2>5
    <3> QED BY <1>1, <2>5, <3>1, LayoutAssumption
  <2>9. Pool[k + 1] \notin RangeFrames(m.ranges)
    <3>1. Pool[k + 1] \in PoolFrames
      BY <1>1, <2>5 DEF PoolFrames
    <3> QED BY <3>1 DEF MemOk
  <2>10. Avail(n) \subseteq Avail(m) /\ Pool[k + 1] \in Avail(m) \ Avail(n)
    BY <2>1, <2>3, <2>7, <2>8, <2>9 DEF Avail
  <2>11. Pool[k + 1] # 0
    BY <1>1, <2>5
  <2> QED BY <2>4, <2>6, <2>10, <2>11
<1> QED BY <1>2, <1>3

(* A frame that is taken was available and is so no more.                  *)
LEMMA TakeClean ==
  ASSUME NEW m, IsMem(m), MemOk(m), NEW reach, NEW a, a = TakeFrame(m, reach)
  PROVE  /\ MemOk(a.pool) /\ Avail(a.pool) \subseteq Avail(m)
         /\ a.status = "OK" => a.frame \in Avail(m) \ Avail(a.pool) /\ a.frame # 0
<1>1. CASE Exhausted(m.ranges)
  <2>1. a = FromPool(m)
    BY <1>1 DEF TakeFrame
  <2> QED BY <2>1, PoolFacts
<1>2. CASE ~Exhausted(m.ranges)
  <2>1. PICK f, left, rest : /\ f = NextFrame(m.ranges) /\ left = AfterAlloc(m.ranges)
                             /\ rest = [m EXCEPT !.ranges = left]
    OBVIOUS
  <2>2. /\ f \in RangeFrames(m.ranges) /\ f \in Nat
        /\ left \in Seq(FrameRange) /\ RangesApart(left)
        /\ RangeFrames(left) \subseteq RangeFrames(m.ranges) \ {f}
    BY <1>2, <2>1, AllocFacts DEF MemOk
  <2>3. rest = [ranges |-> left, pool |-> m.pool, pmm |-> m.pmm]
    BY <2>1 DEF IsMem
  <2>4. IsMem(rest) /\ rest.ranges = left /\ rest.pool = m.pool
    BY <2>3 DEF IsMem
  <2>5. MemOk(rest) /\ Avail(rest) \subseteq Avail(m)
    BY <2>2, <2>4 DEF MemOk, Avail
  <2>6. CASE f = 0 \/ f >= IdentityEnd
    <3>1. a = FromPool(rest)
      BY <1>2, <2>1, <2>6 DEF TakeFrame
    <3> QED BY <2>4, <2>5, <3>1, PoolFacts
  <2>7. CASE ~(f = 0 \/ f >= IdentityEnd) /\ f \notin reach
    <3>1. a = [status |-> "FAULT", frame |-> 0, pool |-> rest]
      BY <1>2, <2>1, <2>7 DEF TakeFrame
    <3> QED BY <2>5, <3>1
  <2>8. CASE ~(f = 0 \/ f >= IdentityEnd) /\ f \in reach
    <3>1. a = [status |-> "OK", frame |-> f,
               pool |-> IF Len(m.pmm) < MaxPmm THEN [rest EXCEPT !.pmm = Append(@, f)]
                                               ELSE rest]
      BY <1>2, <2>1, <2>8 DEF TakeFrame
    <3>2. a.pool.ranges = left /\ a.pool.pool = m.pool /\ a.frame = f
      BY <2>3, <2>4, <3>1
    <3>3. MemOk(a.pool) /\ Avail(a.pool) \subseteq Avail(m)
      BY <2>4, <2>5, <3>2 DEF MemOk, Avail
    <3>4. f \in Avail(m)
      BY <2>2 DEF Avail
    <3>5. f \notin Avail(a.pool)
      <4>1. f \notin PoolLeft(m.pool)
        <5>1. PoolLeft(m.pool) \subseteq PoolFrames
          BY LayoutAssumption DEF PoolLeft, PoolFrames, MemOk
        <5> QED BY <2>2, <5>1 DEF MemOk
      <4> QED BY <2>2, <3>2, <4>1 DEF Avail
    <3> QED BY <2>8, <3>2, <3>3, <3>4, <3>5
  <2> QED BY <2>6, <2>7, <2>8
<1> QED BY <1>1, <1>2

(* Less available leaves what was taken as it is.                          *)
LEMMA CleanLess ==
  ASSUME NEW sp, NEW m, NEW F, NEW A, Clean(sp, m, F, A),
         NEW n, MemOk(n), Avail(n) \subseteq Avail(m)
  PROVE  Clean(sp, n, F, A)
BY DEF Clean

(* One table more has a frame of its own too.                              *)
LEMMA ChildClean ==
  ASSUME NEW r, Good(r), NEW F, NEW A, Clean(r.sp, r.m, F, A), NEW k, NEW v, NEW user, NEW reach,
         NEW c, c = AS!ChildTable(r, k, v, user, reach)
  PROVE  Clean(c.sp, c.m, F, A)
<1>1. PICK id : id = AS!TableAt(k, v)
  OBVIOUS
<1>2. CASE r.status # "OK"
  BY <1>2 DEF AS!ChildTable
<1>3. CASE r.status = "OK" /\ id \in DOMAIN r.sp.tables
  <2>1. c \in {r, [r EXCEPT !.status = "DENIED"], [r EXCEPT !.status = "FAULT"]}
    BY <1>1, <1>3 DEF AS!ChildTable
  <2>2. \A x : [r EXCEPT !.status = x] = [sp |-> r.sp, m |-> r.m, status |-> x]
    BY DEF Good
  <2>3. c.sp = r.sp /\ c.m = r.m
    BY <2>1, <2>2
  <2> QED BY <2>3
<1>4. CASE r.status = "OK" /\ id \notin DOMAIN r.sp.tables
  <2>1. PICK a : a = TakeFrame(r.m, reach)
    OBVIOUS
  <2>2. /\ MemOk(a.pool) /\ Avail(a.pool) \subseteq Avail(r.m)
        /\ a.status = "OK" => a.frame \in Avail(r.m) \ Avail(a.pool) /\ a.frame # 0
    BY <2>1, TakeClean DEF Clean, Good
  <2>3. CASE a.status # "OK"
    <3>1. c = AS!Outcome(r.sp, a.pool, a.status)
      BY <1>1, <1>4, <2>1, <2>3 DEF AS!ChildTable
    <3>2. c.sp = r.sp /\ c.m = a.pool
      BY <3>1 DEF AS!Outcome
    <3> QED BY <2>2, <3>2, CleanLess
  <2>4. CASE a.status = "OK"
    <3>1. PICK t : t = AS!With(r.sp.tables, id, [frame |-> a.frame, user |-> user])
      OBVIOUS
    <3>2. c = AS!Outcome([r.sp EXCEPT !.tables = t], a.pool, "OK")
      BY <1>1, <1>4, <2>1, <2>4, <3>1 DEF AS!ChildTable
    <3>3. PICK s : s = [root |-> r.sp.root, tables |-> t,
                        leaves |-> r.sp.leaves, regions |-> r.sp.regions]
      OBVIOUS
    <3>4. [r.sp EXCEPT !.tables = t] = s
      BY <3>3 DEF Good, IsSpace
    <3>5. c.sp = s /\ c.m = a.pool
      BY <3>2, <3>4 DEF AS!Outcome
    <3>6. s.root = r.sp.root /\ s.tables = t /\ s.leaves = r.sp.leaves
      BY <3>3
    <3>7. /\ DOMAIN t = DOMAIN r.sp.tables \cup {id} /\ t[id].frame = a.frame
          /\ \A x \in DOMAIN r.sp.tables : t[x] = r.sp.tables[x] /\ x # id
      BY <1>4, <3>1 DEF AS!With
    <3>8. a.frame \notin AS!TableFrames(r.sp)
      BY <2>2, <2>4 DEF Clean
    <3>9. AS!TableFrames(s) = AS!TableFrames(r.sp) \cup {a.frame}
      BY <3>6, <3>7 DEF AS!TableFrames
    <3>10. Neat(s)
      <4>1. IsFiniteSet(DOMAIN t)
        BY <3>7, FS_AddElement DEF Clean, Neat
      <4>2. \A x \in DOMAIN t : t[x].frame # s.root
        BY <3>6, <3>7, <3>8 DEF Clean, Neat, AS!TableFrames
      <4>3. ASSUME NEW x \in DOMAIN t, NEW y \in DOMAIN t, t[x].frame = t[y].frame PROVE x = y
        BY <3>7, <3>8, <4>3 DEF Clean, Neat, AS!TableFrames
      <4>4. 0 \notin AS!TableFrames(s)
        BY <2>2, <2>4, <3>9 DEF Clean, Neat
      <4> QED BY <3>6, <4>1, <4>2, <4>3, <4>4 DEF Neat
    <3>11. AS!TableFrames(s) \subseteq F \ Avail(a.pool)
      BY <2>2, <2>4, <3>9 DEF Clean
    <3>12. UserLeavesIn(s, A)
      BY <3>6 DEF Clean, UserLeavesIn
    <3>13. MemOk(a.pool) /\ Avail(a.pool) \subseteq F
      BY <2>2 DEF Clean
    <3> QED BY <3>5, <3>10, <3>11, <3>12, <3>13 DEF Clean
  <2> QED BY <2>3, <2>4
<1> QED BY <1>2, <1>3, <1>4

(* One page more is allowed.                                               *)
LEMMA PageClean ==
  ASSUME NEW r, Good(r), NEW F, NEW A, Clean(r.sp, r.m, F, A),
         NEW v, NEW frame, NEW flags, NEW reach \in SUBSET Nat,
         "U" \in flags => [frame |-> frame, flags |-> AS!LeafFlags(flags)] \in A,
         NEW p, p = AS!MapPage(r, v, frame, flags, reach)
  PROVE  Clean(p.sp, p.m, F, A)
<1> DEFINE N == Len(Span)
           user == "U" \in flags
           way == CHOOSE f : WayOf(f, r, v, user, reach)
           w == way[N]
           e == [frame |-> frame, flags |-> AS!LeafFlags(flags)]
<1>1. N \in Nat /\ AS!Level = 1 .. N /\ {0} \cup AS!Level = 0 .. N
  BY VirtualMemoryAssumption DEF AS!Level
<1>2. p = IF w.status # "OK" THEN w
          ELSE IF ~AS!Vacant(w.sp, v) THEN [w EXCEPT !.status = "BUSY"]
          ELSE [w EXCEPT !.sp.leaves = AS!With(@, v, e)]
  BY DEF AS!MapPage, WayOf
<1>3. WayOf(way, r, v, user, reach)
  <2> HIDE DEF user
  <2>1. PICK f : Way(f, r, v, user, reach, N)
    BY <1>1, WayExists
  <2>2. WayOf(f, r, v, user, reach)
    BY <1>1, <2>1 DEF Way, WayOf
  <2> QED BY <2>2
<1>4. user \in BOOLEAN
  OBVIOUS
<1> HIDE DEF way, user
<1> HIDE DEF N
<1>5. way[0] = r /\ \A k \in 1 .. N : way[k] = AS!ChildTable(way[k - 1], k, v, user, reach)
  <2>1. way = [k \in 0 .. N |->
                 IF k = 0 THEN r ELSE AS!ChildTable(way[k - 1], k, v, user, reach)]
    BY <1>1, <1>3 DEF WayOf
  <2>2. 0 \in 0 .. N /\ \A k \in 1 .. N : k \in 0 .. N /\ k # 0
    BY <1>1
  <2> QED BY <2>1, <2>2
<1> DEFINE S == {n \in 0 .. N : Good(way[n]) /\ Clean(way[n].sp, way[n].m, F, A)}
<1>6. 0 \in S
  BY <1>1, <1>5
<1>7. ASSUME NEW n \in 0 .. N - 1, n \in S PROVE n + 1 \in S
  <2>1. PICK a, c, k : a = way[n] /\ c = way[n + 1] /\ k = n + 1
    OBVIOUS
  <2>2. k \in 1 .. N /\ k - 1 = n /\ k \in 0 .. N
    BY <1>1, <2>1
  <2>3. c = AS!ChildTable(a, k, v, user, reach)
    BY <1>5, <2>1, <2>2
  <2>4. Good(a) /\ Clean(a.sp, a.m, F, A)
    BY <1>7, <2>1
  <2>5. Good(c)
    BY <1>4, <2>3, <2>4, ChildFacts
  <2>6. Clean(c.sp, c.m, F, A)
    BY <2>3, <2>4, ChildClean
  <2> QED BY <2>1, <2>2, <2>5, <2>6
<1> HIDE DEF S
<1>8. N \in S
  <2>1. 0 .. N \subseteq S
    BY <1>1, <1>6, <1>7, UpTo
  <2> QED BY <1>1, <2>1
<1>9. Good(w) /\ Clean(w.sp, w.m, F, A)
  BY <1>8 DEF S
<1>10. e \in A \/ "U" \notin e.flags
  BY DEF AS!LeafFlags
<1> HIDE DEF w, e
<1>11. CASE w.status # "OK"
  BY <1>2, <1>9, <1>11
<1>12. CASE w.status = "OK" /\ ~AS!Vacant(w.sp, v)
  <2>1. p = [w EXCEPT !.status = "BUSY"]
    BY <1>2, <1>12
  <2>2. p = [sp |-> w.sp, m |-> w.m, status |-> "BUSY"]
    BY <1>9, <2>1 DEF Good
  <2> QED BY <1>9, <2>2
<1>13. CASE w.status = "OK" /\ AS!Vacant(w.sp, v)
  <2>1. PICK t : t = AS!With(w.sp.leaves, v, e)
    OBVIOUS
  <2>2. PICK s : s = [root |-> w.sp.root, tables |-> w.sp.tables,
                      leaves |-> t, regions |-> w.sp.regions]
    OBVIOUS
  <2>3. p = [sp |-> [w.sp EXCEPT !.leaves = t], m |-> w.m, status |-> "OK"]
    <3>1. p = [w EXCEPT !.sp.leaves = AS!With(@, v, e)]
      BY <1>2, <1>13
    <3>2. w = [sp |-> w.sp, m |-> w.m, status |-> "OK"]
      BY <1>9, <1>13 DEF Good
    <3> QED BY <2>1, <3>1, <3>2
  <2>4. [w.sp EXCEPT !.leaves = t] = s
    BY <1>9, <2>2 DEF Good, IsSpace
  <2>5. p.sp = s /\ p.m = w.m
    BY <2>3, <2>4
  <2>6. s.root = w.sp.root /\ s.tables = w.sp.tables /\ s.leaves = t
    BY <2>2
  <2>7. /\ DOMAIN t = DOMAIN w.sp.leaves \cup {v}
        /\ \A x \in DOMAIN t : t[x] = IF x = v THEN e ELSE w.sp.leaves[x]
    BY <2>1 DEF AS!With
  <2>8. UserLeavesIn(s, A)
    BY <1>9, <1>10, <2>6, <2>7 DEF Clean, UserLeavesIn
  <2>9. Neat(s) /\ AS!TableFrames(s) = AS!TableFrames(w.sp)
    BY <1>9, <2>6 DEF Clean, Neat, AS!TableFrames
  <2> QED BY <1>9, <2>5, <2>8, <2>9 DEF Clean
<1> QED BY <1>11, <1>12, <1>13

(* A mapping.                                                              *)
LEMMA MapClean ==
  ASSUME NEW sp, IsSpace(sp), NEW m, IsMem(m), NEW F, NEW A, Clean(sp, m, F, A),
         NEW v \in Int, NEW frame \in Int, NEW n \in Nat, NEW flags,
         Allows(A, frame, n, flags), NEW reach \in SUBSET Nat,
         NEW r, r = AS!Map(sp, m, v, frame, n, flags, reach)
  PROVE  Clean(r.sp, r.m, F, A)
<1> DEFINE r0 == AS!Outcome(sp, m, IF sp.root \in reach THEN "OK" ELSE "FAULT")
           round == CHOOSE f : Rounds(f, r0, v, frame, flags, reach, n)
           w == round[n]
           region == [page |-> v, frame |-> frame, length |-> n, flags |-> flags]
           args == AS!MapArguments(v, n, flags)
<1>1. r = IF args # "OK" THEN AS!Outcome(sp, m, args)
          ELSE IF AS!RegionsFull(sp) THEN AS!Outcome(sp, m, "NO_MEMORY")
          ELSE IF w.status # "OK" THEN w
          ELSE [w EXCEPT !.sp.regions = Append(@, region)]
  BY DEF AS!Map, Rounds, Turn
<1>2. Rounds(round, r0, v, frame, flags, reach, n)
  <2> HIDE DEF r0
  <2> QED BY RoundsExist
<1> HIDE DEF round
<1>3. round[0] = r0 /\ \A i \in 1 .. n : round[i] = Turn(round[i - 1], v, frame, i, flags, reach)
  BY <1>2 DEF Rounds
<1>4. \A x : LET o == AS!Outcome(sp, m, x) IN Good(o) /\ o.sp = sp /\ o.m = m
  BY DEF Good, AS!Outcome
<1>5. Good(r0) /\ Clean(r0.sp, r0.m, F, A)
  BY <1>4
<1> HIDE DEF r0
<1> DEFINE S == {k \in 0 .. n : Good(round[k]) /\ Clean(round[k].sp, round[k].m, F, A)}
<1>6. 0 \in S
  BY <1>3, <1>5
<1>7. ASSUME NEW k \in 0 .. n - 1, k \in S PROVE k + 1 \in S
  <2>1. PICK a, c : a = round[k] /\ c = round[k + 1]
    OBVIOUS
  <2>2. PICK x, y : x = frame + k /\ y = v + k
    OBVIOUS
  <2>3. k + 1 \in 1 .. n /\ k + 1 - 1 = k /\ v + (k + 1) - 1 = y
        /\ frame + (k + 1) - 1 = x /\ k + 1 \in 0 .. n
    BY <2>2
  <2>4. c = Turn(a, v, frame, k + 1, flags, reach)
    BY <1>3, <2>1, <2>3
  <2>5. Good(a) /\ Clean(a.sp, a.m, F, A)
    BY <1>7, <2>1
  <2>6. CASE a.status # "OK"
    BY <2>1, <2>3, <2>4, <2>5, <2>6 DEF Turn
  <2>7. CASE a.status = "OK"
    <3>1. c = AS!MapPage(a, y, x, flags, reach)
      BY <2>3, <2>4, <2>7 DEF Turn
    <3>2. "U" \in flags => [frame |-> x, flags |-> AS!LeafFlags(flags)] \in A
      BY <2>2 DEF Allows
    <3>3. Good(c)
      BY <2>5, <3>1, PageFacts
    <3>4. Clean(c.sp, c.m, F, A)
      BY <2>5, <3>1, <3>2, PageClean
    <3> QED BY <2>1, <2>3, <3>3, <3>4
  <2> QED BY <2>6, <2>7
<1> HIDE DEF S
<1>8. n \in S
  <2>1. 0 .. n \subseteq S
    BY <1>6, <1>7, UpTo
  <2> QED BY <2>1
<1>9. Good(w) /\ Clean(w.sp, w.m, F, A)
  BY <1>8 DEF S
<1> HIDE DEF w, region, args
<1>10. CASE args # "OK" \/ AS!RegionsFull(sp)
  <2>1. r \in {AS!Outcome(sp, m, args), AS!Outcome(sp, m, "NO_MEMORY")}
    BY <1>1, <1>10
  <2>2. r.sp = sp /\ r.m = m
    BY <1>4, <2>1
  <2> QED BY <2>2
<1>11. CASE args = "OK" /\ ~AS!RegionsFull(sp) /\ w.status # "OK"
  BY <1>1, <1>9, <1>11
<1>12. CASE args = "OK" /\ ~AS!RegionsFull(sp) /\ w.status = "OK"
  <2> DEFINE q == Append(w.sp.regions, region)
  <2>3. r = [sp |-> [w.sp EXCEPT !.regions = q], m |-> w.m, status |-> "OK"]
    <3>1. r = [w EXCEPT !.sp.regions = Append(@, region)]
      BY <1>1, <1>12
    <3>2. w = [sp |-> w.sp, m |-> w.m, status |-> "OK"]
      BY <1>9, <1>12 DEF Good
    <3>3. ASSUME NEW a, NEW b, NEW y
          PROVE  [[sp |-> a, m |-> b, status |-> "OK"] EXCEPT !.sp.regions = Append(@, y)] =
                   [sp |-> [a EXCEPT !.regions = Append(a.regions, y)], m |-> b, status |-> "OK"]
      OBVIOUS
    <3>4. PICK a, b : a = w.sp /\ b = w.m
      BY Zenon
    <3>5. w = [sp |-> a, m |-> b, status |-> "OK"]
      BY <3>2, <3>4
    <3>6. r = [sp |-> [a EXCEPT !.regions = Append(a.regions, region)], m |-> b, status |-> "OK"]
      BY <3>1, <3>3, <3>5
    <3> QED BY <3>4, <3>6
  <2> HIDE DEF q
  <2>2. PICK s : s = [root |-> w.sp.root, tables |-> w.sp.tables,
                      leaves |-> w.sp.leaves, regions |-> q]
    OBVIOUS
  <2>4. [w.sp EXCEPT !.regions = q] = s
    BY <1>9, <2>2 DEF Good, IsSpace
  <2>5. r.sp = s /\ r.m = w.m
    BY <2>3, <2>4
  <2>6. s.root = w.sp.root /\ s.tables = w.sp.tables /\ s.leaves = w.sp.leaves
    BY <2>2
  <2>7. Neat(s) /\ AS!TableFrames(s) = AS!TableFrames(w.sp) /\ UserLeavesIn(s, A)
    BY <1>9, <2>6 DEF Clean, Neat, AS!TableFrames, UserLeavesIn
  <2> QED BY <1>9, <2>5, <2>7 DEF Clean
<1> QED BY <1>10, <1>11, <1>12

(* The requests of a list are allowed.                                     *)
AllAllowed(A, requests) ==
  \A i \in DOMAIN requests : Allows(A, requests[i].frame, requests[i].n, requests[i].flags)

(* A list of mappings.                                                     *)
LEMMA AllClean ==
  ASSUME NEW r, Good(r), NEW F, NEW A, Clean(r.sp, r.m, F, A),
         NEW bound \in Int, NEW requests \in Seq(Asked(bound)), AllAllowed(A, requests),
         NEW reach \in SUBSET Nat, NEW x, x = MapAll(r, requests, reach)
  PROVE  Clean(x.sp, x.m, F, A)
<1> DEFINE N == Len(requests)
           after == CHOOSE f : Mappings(f, r, requests, reach, N)
<1>1. N \in Nat
  OBVIOUS
<1>2. x = after[N]
  BY DEF MapAll, Mappings, Mapping
<1>3. Mappings(after, r, requests, reach, N)
  BY <1>1, MappingsExist
<1> HIDE DEF after
<1>4. after[0] = r /\ \A i \in 1 .. N : after[i] = Mapping(after[i - 1], requests[i], reach)
  BY <1>1, <1>3 DEF Mappings
<1> DEFINE S == {k \in 0 .. N : Good(after[k]) /\ Clean(after[k].sp, after[k].m, F, A)}
<1>5. 0 \in S
  BY <1>1, <1>4
<1>6. ASSUME NEW k \in 0 .. N - 1, k \in S PROVE k + 1 \in S
  <2>1. k + 1 \in 1 .. N /\ k + 1 - 1 = k /\ k + 1 \in 0 .. N
    BY <1>1
  <2>2. PICK a, c, q : a = after[k] /\ c = after[k + 1] /\ q = requests[k + 1]
    OBVIOUS
  <2>3. c = Mapping(a, q, reach)
    BY <1>4, <2>1, <2>2
  <2>4. q \in Asked(bound) /\ Allows(A, q.frame, q.n, q.flags)
    BY <2>1, <2>2 DEF AllAllowed
  <2>5. Good(a) /\ Clean(a.sp, a.m, F, A)
    BY <1>6, <2>2
  <2>6. CASE a.status # "OK"
    BY <2>1, <2>2, <2>3, <2>5, <2>6 DEF Mapping
  <2>7. CASE a.status = "OK"
    <3>1. q.v \in Int /\ q.frame \in Int /\ q.n \in Nat
      BY <2>4 DEF Asked
    <3>2. c = AS!Map(a.sp, a.m, q.v, q.frame, q.n, q.flags, reach)
      BY <2>3, <2>7 DEF Mapping
    <3>3. IsSpace(a.sp) /\ IsMem(a.m)
      BY <2>5 DEF Good
    <3>4. Good(c)
      <4>1. Mapped(c, a.sp, q.v, q.frame, q.n, q.flags)
        BY <3>1, <3>2, <3>3, MapFacts
      <4> QED BY <4>1 DEF Mapped
    <3>5. Clean(c.sp, c.m, F, A)
      BY <2>4, <2>5, <3>1, <3>2, <3>3, MapClean
    <3> QED BY <2>1, <2>2, <3>4, <3>5
  <2> QED BY <2>6, <2>7
<1> HIDE DEF S
<1>7. N \in S
  <2>1. 0 .. N \subseteq S
    BY <1>1, <1>5, <1>6, UpTo
  <2> QED BY <1>1, <2>1
<1> QED BY <1>2, <1>7 DEF S

(* A mapping that may be there already, for the kernel alone.              *)
LEMMA TolerableClean ==
  ASSUME NEW sp, IsSpace(sp), NEW m, IsMem(m), NEW F, NEW A, Clean(sp, m, F, A),
         NEW v \in Int, NEW n \in Nat, NEW flags \in SUBSET AS!Flag, "U" \notin flags,
         NEW reach \in SUBSET Nat,
         NEW t, t = Tolerated(AS!Map(sp, m, v, v, n, flags, reach))
  PROVE  Good(t) /\ Clean(t.sp, t.m, F, A)
<1>1. PICK x : x = AS!Map(sp, m, v, v, n, flags, reach)
  OBVIOUS
<1>2. Good(x)
  <2>1. Mapped(x, sp, v, v, n, flags)
    BY <1>1, MapFacts
  <2> QED BY <2>1 DEF Mapped
<1>3. Clean(x.sp, x.m, F, A)
  <2>1. Allows(A, v, n, flags)
    BY DEF Allows
  <2> QED BY <1>1, <2>1, MapClean
<1>4. Good(t) /\ t.sp = x.sp /\ t.m = x.m
  BY <1>1, <1>2, ToleratedIs
<1> QED BY <1>3, <1>4

(* The window and the aliases.                                             *)
LEMMA PmmClean ==
  ASSUME NEW r, Good(r), NEW F, NEW A, Clean(r.sp, r.m, F, A),
         NEW reach \in SUBSET Nat, NEW x, x = MapPmmPages(r, reach)
  PROVE  Clean(x.sp, x.m, F, A)
<1> DEFINE window == Tolerated(AS!Map(r.sp, r.m, WindowStart, WindowStart,
                                      LinkBase - WindowStart, WindowFlags, reach))
           from == CHOOSE f : AliasesOf(f, window, reach)
           N == MaxPmm + 1
<1>1. N \in Nat /\ N >= 1 /\ 1 \in 1 .. N /\ N \in 1 .. N
  BY VirtualMemoryAssumption
<1>2. CASE r.status # "OK"
  BY <1>2 DEF MapPmmPages
<1>3. CASE r.status = "OK"
  <2>1. x = from[N]
    BY <1>3 DEF MapPmmPages, AliasesOf
  <2>2. AliasesOf(from, window, reach)
    <3> HIDE DEF window
    <3> QED BY AliasesOfExist
  <2>3. Good(window) /\ Clean(window.sp, window.m, F, A)
    <3>1. PICK n, flags : n = LinkBase - WindowStart /\ flags = WindowFlags
      OBVIOUS
    <3>2. PICK t : t = window
      OBVIOUS
    <3>3. /\ WindowStart \in Int /\ n \in Nat /\ flags \in SUBSET AS!Flag /\ "U" \notin flags
          /\ IsSpace(r.sp) /\ IsMem(r.m)
      BY <3>1, VirtualMemoryAssumption DEF Good, WindowFlags, AS!Flag
    <3>4. t = Tolerated(AS!Map(r.sp, r.m, WindowStart, WindowStart, n, flags, reach))
      BY <3>1, <3>2
    <3> HIDE DEF window
    <3>5. Good(t) /\ Clean(t.sp, t.m, F, A)
      BY <3>3, <3>4, TolerableClean
    <3> QED BY <3>2, <3>5
  <2> HIDE DEF window, from
  <2>4. \A i \in 1 .. N : from[i] = Alias(IF i = 1 THEN window ELSE from[i - 1], i, reach)
    BY <2>2 DEF AliasesOf, Alias
  <2>5. ASSUME NEW p, Good(p), Clean(p.sp, p.m, F, A), NEW i \in 1 .. N,
               NEW c, c = Alias(p, i, reach)
        PROVE  Good(c) /\ Clean(c.sp, c.m, F, A)
    <3>1. CASE p.status # "OK" \/ i > Len(p.m.pmm)
      BY <2>5, <3>1 DEF Alias
    <3>2. CASE ~(p.status # "OK" \/ i > Len(p.m.pmm))
      <4>1. PICK v : v = p.m.pmm[i]
        OBVIOUS
      <4>2. p.m.pmm \in Seq(Nat) /\ IsSpace(p.sp) /\ IsMem(p.m)
        BY <2>5 DEF Good, IsMem
      <4>3. v \in Int
        BY <1>1, <3>2, <4>1, <4>2
      <4>4. c = Tolerated(AS!Map(p.sp, p.m, v, v, 1, {"R", "W"}, reach))
        BY <2>5, <3>2, <4>1 DEF Alias
      <4>5. PICK flags, n : flags = {"R", "W"} /\ n = 1
        OBVIOUS
      <4>6. flags \in SUBSET AS!Flag /\ "U" \notin flags /\ n \in Nat
        BY <4>5 DEF AS!Flag
      <4>7. c = Tolerated(AS!Map(p.sp, p.m, v, v, n, flags, reach))
        BY <4>4, <4>5
      <4> QED BY <2>5, <4>2, <4>3, <4>6, <4>7, TolerableClean
    <3> QED BY <3>1, <3>2
  <2> DEFINE S == {k \in 0 .. MaxPmm :
                     LET c == from[k + 1] IN Good(c) /\ Clean(c.sp, c.m, F, A)}
  <2>6. 0 \in S
    <3>1. from[1] = Alias(window, 1, reach)
      BY <1>1, <2>4
    <3>2. 0 \in 0 .. MaxPmm /\ 0 + 1 = 1
      BY VirtualMemoryAssumption
    <3> QED BY <1>1, <2>3, <2>5, <3>1, <3>2
  <2>7. ASSUME NEW k \in 0 .. MaxPmm - 1, k \in S PROVE k + 1 \in S
    <3>1. PICK a, c : a = from[k + 1] /\ c = from[k + 1 + 1]
      OBVIOUS
    <3>2. k + 1 \in 0 .. MaxPmm /\ k + 1 + 1 \in 1 .. N /\ k + 1 + 1 # 1 /\ k + 1 + 1 - 1 = k + 1
      BY VirtualMemoryAssumption
    <3>3. c = Alias(a, k + 1 + 1, reach)
      BY <2>4, <3>1, <3>2
    <3>4. Good(a) /\ Clean(a.sp, a.m, F, A)
      BY <2>7, <3>1
    <3>5. Good(c) /\ Clean(c.sp, c.m, F, A)
      BY <2>5, <3>2, <3>3, <3>4
    <3> QED BY <3>1, <3>2, <3>5
  <2> HIDE DEF S
  <2>8. MaxPmm \in S
    <3>1. 0 .. MaxPmm \subseteq S
      BY <2>6, <2>7, UpTo, VirtualMemoryAssumption
    <3> QED BY <3>1, VirtualMemoryAssumption
  <2> QED BY <2>1, <2>8 DEF S
<1> QED BY <1>2, <1>3

-----------------------------------------------------------------------------
(* What user code is meant to reach. *)

TextLeaf(f)  == [frame |-> f, flags |-> {"R", "X", "U"}]
DataLeaf(f)  == [frame |-> f, flags |-> {"R", "W", "U"}]
ImageLeaf(s, page) == [frame |-> StoredAt(page), flags |-> AS!LeafFlags(s.flags \cup {"U"})]

(* The pages of an image that was loaded.                                  *)
ImageLeaves(image) ==
  IF Loaded(image)
    THEN UNION {{ImageLeaf(image.segments[i], page) : page \in PagesOf(image.segments[i])} :
                  i \in DOMAIN image.segments}
    ELSE {}

Meant(image) ==
  {TextLeaf(f) : f \in TextFrames} \cup {DataLeaf(f) : f \in StackFrames \cup {Shared}}
    \cup ImageLeaves(image)

(* A new root has nothing but its own frame.                               *)
LEMMA EmptyClean ==
  ASSUME NEW f, NEW e, e = AS!EmptySpace(f)
  PROVE  /\ IsSpace(e) /\ AS!TableFrames(e) = {f}
         /\ \A A : UserLeavesIn(e, A)
         /\ f # 0 => Neat(e)
<1>1. e.root = f /\ e.tables = <<>> /\ e.leaves = <<>> /\ IsSpace(e)
  BY DEF AS!EmptySpace, IsSpace
<1>2. DOMAIN e.tables = {} /\ DOMAIN e.leaves = {}
  BY <1>1
<1>3. AS!TableFrames(e) = {f}
  BY <1>1, <1>2 DEF AS!TableFrames
<1>4. \A A : UserLeavesIn(e, A)
  BY <1>2 DEF UserLeavesIn
<1>5. f # 0 => Neat(e)
  BY <1>2, <1>3, FS_EmptySet DEF Neat
<1> QED BY <1>1, <1>3, <1>4, <1>5

(* A new space is made of what is available.                               *)
LEMMA InitClean ==
  ASSUME NEW m, IsMem(m), MemOk(m), NEW reach \in SUBSET Nat, NEW A,
         AllAllowed(A, LowRequests \o HighRequests), NEW x, x = InitSpace(m, reach)
  PROVE  \/ /\ MemOk(x.m) /\ Avail(x.m) \subseteq Avail(m)
            /\ x.sp = AS!EmptySpace(0) /\ x.status # "OK"
         \/ Clean(x.sp, x.m, Avail(m), A)
<1>1. PICK root : root = TakeFrame(m, reach)
  OBVIOUS
<1>2. /\ IsMem(root.pool) /\ MemOk(root.pool) /\ Avail(root.pool) \subseteq Avail(m)
      /\ root.status = "OK" => root.frame \in Avail(m) \ Avail(root.pool) /\ root.frame # 0
  BY <1>1, TakeClean, TakeFacts
<1>3. CASE root.status # "OK"
  <2>1. x = AS!Outcome(AS!EmptySpace(0), root.pool, root.status)
    BY <1>1, <1>3 DEF InitSpace
  <2>2. x.sp = AS!EmptySpace(0) /\ x.m = root.pool /\ x.status = root.status
    BY <2>1 DEF AS!Outcome
  <2> QED BY <1>2, <1>3, <2>2
<1>4. CASE root.status = "OK"
  <2>1. PICK e, o, a : /\ e = AS!EmptySpace(root.frame) /\ o = AS!Outcome(e, root.pool, "OK")
                       /\ a = MapAll(o, LowRequests \o HighRequests, reach)
    OBVIOUS
  <2>2. x = MapPmmPages(a, reach)
    BY <1>1, <1>4, <2>1 DEF InitSpace
  <2>3. IsSpace(e) /\ AS!TableFrames(e) = {root.frame} /\ UserLeavesIn(e, A) /\ Neat(e)
    BY <1>2, <1>4, <2>1, EmptyClean
  <2>4. Good(o) /\ o.sp = e /\ o.m = root.pool
    BY <1>2, <2>1, <2>3, OutcomeIs
  <2>5. Clean(o.sp, o.m, Avail(m), A)
    BY <1>2, <1>4, <2>3, <2>4 DEF Clean
  <2>6. Good(a)
    <3>1. LinkBase \in Int
      BY VirtualMemoryAssumption
    <3> QED BY <2>1, <2>4, <3>1, AllFacts, KernelIsAsked
  <2>7. Clean(a.sp, a.m, Avail(m), A)
    <3>1. PICK F, q, bound : F = Avail(m) /\ q = LowRequests \o HighRequests /\ bound = LinkBase
      OBVIOUS
    <3>2. bound \in Int /\ q \in Seq(Asked(bound)) /\ AllAllowed(A, q)
      BY <3>1, KernelIsAsked, VirtualMemoryAssumption
    <3>3. Clean(o.sp, o.m, F, A) /\ a = MapAll(o, q, reach)
      BY <2>1, <2>5, <3>1
    <3>4. Clean(a.sp, a.m, F, A)
      BY <2>4, <3>2, <3>3, AllClean
    <3> QED BY <3>1, <3>4
  <2> QED BY <2>2, <2>6, <2>7, PmmClean
<1> QED BY <1>3, <1>4

(* Two lists of requests in a row.                                         *)
LEMMA BothAllowed ==
  ASSUME NEW A, NEW S, NEW p \in Seq(S), NEW q \in Seq(S), AllAllowed(A, p), AllAllowed(A, q)
  PROVE  AllAllowed(A, p \o q)
<1> SUFFICES ASSUME NEW i \in DOMAIN (p \o q)
             PROVE  Allows(A, (p \o q)[i].frame, (p \o q)[i].n, (p \o q)[i].flags)
  BY DEF AllAllowed
<1>1. CASE i \in DOMAIN p
  <2>1. (p \o q)[i] = p[i]
    BY <1>1
  <2> QED BY <1>1, <2>1 DEF AllAllowed
<1>2. CASE i \notin DOMAIN p
  <2>1. PICK j \in DOMAIN q : (p \o q)[i] = q[j]
    <3>1. i - Len(p) \in DOMAIN q /\ (p \o q)[i] = q[i - Len(p)]
      BY <1>2
    <3> QED BY <3>1
  <2> QED BY <2>1 DEF AllAllowed
<1> QED BY <1>1, <1>2

(* What the kernel asks to be mapped of itself.                            *)
LEMMA KernelAllowed ==
  ASSUME NEW image
  PROVE  AllAllowed(Meant(image), LowRequests \o HighRequests)
<1> DEFINE A == Meant(image)
           Ok(q) == Allows(A, q.frame, q.n, q.flags)
<1>1. TextFrames \subseteq Int /\ UserText.start \in Nat /\ UserText.end \in Nat
  BY LinkAssumption DEF TextFrames
<1>2. AS!LeafFlags({"R", "X", "U"}) = {"R", "X", "U"} /\ AS!LeafFlags({"R", "W", "U"}) = {"R", "W", "U"}
  BY DEF AS!LeafFlags
<1>3. Allows(A, UserText.start, UserText.end - UserText.start, {"R", "X", "U"})
  <2> SUFFICES ASSUME NEW i \in 0 .. UserText.end - UserText.start - 1
               PROVE  [frame |-> UserText.start + i, flags |-> {"R", "X", "U"}] \in A
    BY <1>2 DEF Allows
  <2>1. UserText.start + i \in TextFrames
    BY <1>1 DEF TextFrames
  <2> QED BY <2>1 DEF Meant, TextLeaf
<1>4. ASSUME NEW j \in DOMAIN Stacks PROVE Allows(A, Stacks[j], 1, {"R", "W", "U"})
  <2>1. Stacks[j] \in Nat /\ Stacks[j] \in StackFrames
    BY LinkAssumption DEF StackFrames
  <2>2. \A i \in 0 .. 1 - 1 : Stacks[j] + i = Stacks[j]
    BY <2>1
  <2>3. [frame |-> Stacks[j], flags |-> {"R", "W", "U"}] \in A
    BY <2>1 DEF Meant, DataLeaf
  <2> QED BY <1>2, <2>2, <2>3 DEF Allows
<1>5. ASSUME NEW j \in DOMAIN KernelRegions, NEW f, NEW n PROVE Allows(A, f, n, KernelRegions[j].flags)
  <2>1. KernelRegions[j] \in [start : Nat, end : Nat, flags : SUBSET {"R", "W", "X"}]
    BY LinkAssumption, SeqFacts
  <2> QED BY <2>1 DEF Allows
<1> DEFINE text == Request(UserText.start, UserText.start, UserText.end - UserText.start,
                           {"R", "X", "U"})
           stacks == [i \in DOMAIN Stacks |-> Request(Stacks[i], Stacks[i], 1, {"R", "W", "U"})]
<1> HIDE DEF A
<1>6. Ok(text) /\ \A i \in DOMAIN stacks : Ok(stacks[i])
  BY <1>3, <1>4 DEF Request
<1>7. /\ \A i \in DOMAIN KernelRequests : Ok(KernelRequests[i])
      /\ \A i \in DOMAIN HighRequests : Ok(HighRequests[i])
  BY <1>5 DEF KernelRequests, HighRequests, Request
<1>8. AllAllowed(A, UserRequests)
  <2>1. DOMAIN Stacks = 1 .. Len(Stacks) /\ Len(Stacks) \in Nat
    BY LinkAssumption
  <2> DEFINE T == {text} \cup {stacks[i] : i \in DOMAIN Stacks}
  <2>2. \A i \in 1 .. Len(Stacks) : stacks[i] \in T
    BY <2>1
  <2>3. stacks = [i \in 1 .. Len(Stacks) |-> stacks[i]]
    BY <2>1
  <2> HIDE DEF stacks
  <2>4. stacks \in Seq(T)
    BY <2>1, <2>2, <2>3, SeqFacts
  <2>5. <<text>> \in Seq(T)
    <3> HIDE DEF text
    <3> QED OBVIOUS
  <2>6. AllAllowed(A, <<text>>)
    <3> HIDE DEF text
    <3>1. DOMAIN <<text>> = {1} /\ <<text>>[1] = text
      OBVIOUS
    <3> QED BY <1>6, <3>1 DEF AllAllowed
  <2>7. AllAllowed(A, stacks)
    BY <1>6 DEF AllAllowed
  <2>8. AllAllowed(A, <<text>> \o stacks)
    <3> HIDE DEF T, text
    <3> QED BY <2>4, <2>5, <2>6, <2>7, BothAllowed
  <2>9. UserRequests = <<text>> \o stacks
    BY DEF UserRequests, stacks
  <2> QED BY <2>8, <2>9
<1>9. AllAllowed(A, KernelRequests) /\ AllAllowed(A, HighRequests)
  BY <1>7 DEF AllAllowed
<1>10. PICK u, k, h : u = UserRequests /\ k = KernelRequests /\ h = HighRequests
  OBVIOUS
<1>11. PICK S : S = Asked(LinkBase)
  OBVIOUS
<1>12. u \in Seq(S) /\ k \in Seq(S) /\ h \in Seq(S)
  BY <1>10, <1>11, KernelIsAsked
<1>13. u \o k \in Seq(S)
  BY <1>12
<1>14. AllAllowed(A, u) /\ AllAllowed(A, k) /\ AllAllowed(A, h)
  BY <1>8, <1>9, <1>10
<1>15. AllAllowed(A, u \o k)
  BY <1>12, <1>14, BothAllowed
<1>16. AllAllowed(A, (u \o k) \o h)
  BY <1>12, <1>13, <1>14, <1>15, BothAllowed
<1> QED BY <1>10, <1>16 DEF LowRequests, A

(* What it asks of an image that was loaded.                               *)
LEMMA ImageAllowed ==
  ASSUME NEW b \in Boots, Loaded(b.image)
  PROVE  AllAllowed(Meant(b.image), ElfRequests(b.image))
<1> SUFFICES ASSUME NEW i \in DOMAIN b.image.segments
             PROVE  LET s == b.image.segments[i] IN
                      Allows(Meant(b.image), StoredAt(s.page), FirstFrameAfter(s.size),
                             s.flags \cup {"U"})
  BY DEF AllAllowed, ElfRequests, Request
<1>1. PICK s : s = b.image.segments[i]
  OBVIOUS
<1>2. s \in [page : Nat, size : Nat, file : Nat, flags : SUBSET {"R", "W", "X"}]
  BY <1>1, ImageAssumption, SeqFacts
<1>3. PICK n : n = FirstFrameAfter(s.size)
  OBVIOUS
<1>4. s.page \in Nat /\ n \in Nat
  BY <1>2, <1>3, FrameFacts
<1>5. ASSUME NEW k \in 0 .. n - 1
      PROVE  [frame |-> StoredAt(s.page) + k, flags |-> AS!LeafFlags(s.flags \cup {"U"})]
               \in Meant(b.image)
  <2>1. PICK page : page = s.page + k
    OBVIOUS
  <2>2. page \in PagesOf(s)
    BY <1>3, <1>4, <2>1 DEF PagesOf
  <2>3. StoredAt(page) = StoredAt(s.page) + k
    <3>1. Storage \in Int /\ ElfBase \in Int /\ k \in Int
      BY VirtualMemoryAssumption
    <3> QED BY <1>4, <2>1, <3>1 DEF StoredAt
  <2>4. ImageLeaf(s, page) \in ImageLeaves(b.image)
    BY <1>1, <2>2 DEF ImageLeaves
  <2> QED BY <2>3, <2>4 DEF Meant, ImageLeaf
<1> QED BY <1>1, <1>3, <1>5 DEF Allows

-----------------------------------------------------------------------------
(* All spaces together. *)

Given(b) == FreeFrames(b.map, b.reserved) \cup PoolFrames

(* A space built out of what was given.                                    *)
Own(sp, m, b) ==
  /\ Neat(sp) /\ AS!TableFrames(sp) \subseteq Given(b) \ Avail(m)
  /\ UserLeavesIn(sp, Meant(b.image))

(* No two of the spaces s share a frame, and none has one that m offers.   *)
Tidily(s, m, b) ==
  /\ MemOk(m) /\ Avail(m) \subseteq Given(b)
  /\ \A p \in DOMAIN s : Own(s[p], m, b) \/ s[p] = AS!EmptySpace(0)
  /\ \A p, q \in DOMAIN s : p # q => AS!TableFrames(s[p]) \cap AS!TableFrames(s[q]) = {}

TidyInv ==
  /\ Tidily(space, mem, boot)
  /\ outcome = "up" =>
       /\ \A p \in DOMAIN space : Neat(space[p])
       /\ phase # 0 => Loaded(boot.image)

(* With less on offer the spaces are as they were.                         *)
LEMMA TidyLess ==
  ASSUME NEW s, NEW m, NEW b, Tidily(s, m, b), NEW n, MemOk(n), Avail(n) \subseteq Avail(m)
  PROVE  Tidily(s, n, b)
BY DEF Tidily, Own

(* One space took more of what was on offer.                               *)
LEMMA TidyChanged ==
  ASSUME NEW s, NEW m, NEW b, Tidily(s, m, b), NEW p \in DOMAIN s, Neat(s[p]),
         NEW sp, NEW n, Clean(sp, n, AS!TableFrames(s[p]) \cup Avail(m), Meant(b.image)),
         NEW t, t = [s EXCEPT ![p] = sp]
  PROVE  Tidily(t, n, b) /\ Neat(sp)
<1>1. DOMAIN t = DOMAIN s /\ t[p] = sp /\ \A q \in DOMAIN s : q # p => t[q] = s[q]
  OBVIOUS
<1>2. Own(s[p], m, b)
  <2>1. 0 \in AS!TableFrames(AS!EmptySpace(0))
    BY EmptyClean
  <2> QED BY <2>1 DEF Tidily, Neat
<1>3. Avail(n) \subseteq Given(b) /\ MemOk(n)
  BY <1>2 DEF Clean, Tidily, Own
<1>4. Own(sp, n, b) /\ Neat(sp)
  BY <1>2 DEF Clean, Tidily, Own
<1>5. ASSUME NEW q \in DOMAIN s, q # p
      PROVE  /\ Own(s[q], n, b) \/ s[q] = AS!EmptySpace(0)
             /\ AS!TableFrames(s[q]) \cap AS!TableFrames(sp) = {}
  <2>1. AS!TableFrames(s[q]) \cap AS!TableFrames(s[p]) = {}
    BY <1>5 DEF Tidily
  <2>2. CASE Own(s[q], m, b)
    <3>1. AS!TableFrames(s[q]) \cap Avail(m) = {}
      BY <2>2 DEF Own
    <3>2. AS!TableFrames(s[q]) \cap (AS!TableFrames(s[p]) \cup Avail(m)) = {}
      BY <2>1, <3>1
    <3> QED BY <2>2, <3>2 DEF Own, Clean
  <2>3. CASE s[q] = AS!EmptySpace(0)
    <3>1. AS!TableFrames(s[q]) = {0}
      BY <2>3, EmptyClean
    <3>2. 0 \notin AS!TableFrames(sp)
      BY <1>4 DEF Neat
    <3> QED BY <2>3, <3>1, <3>2
  <2> QED BY <2>2, <2>3 DEF Tidily
<1>6. \A q \in DOMAIN t : Own(t[q], n, b) \/ t[q] = AS!EmptySpace(0)
  BY <1>1, <1>4, <1>5
<1>7. ASSUME NEW q \in DOMAIN t, NEW k \in DOMAIN t, q # k
      PROVE  AS!TableFrames(t[q]) \cap AS!TableFrames(t[k]) = {}
  <2>1. CASE q = p
    BY <1>1, <1>5, <1>7, <2>1
  <2>2. CASE k = p
    BY <1>1, <1>5, <1>7, <2>2
  <2>3. CASE q # p /\ k # p
    BY <1>1, <1>7, <2>3 DEF Tidily
  <2> QED BY <2>1, <2>2, <2>3
<1> QED BY <1>3, <1>4, <1>6, <1>7 DEF Tidily

(* One space more.                                                         *)
LEMMA TidyMore ==
  ASSUME NEW s, NEW m, NEW b, Tidily(s, m, b), \A q \in DOMAIN s : Neat(s[q]),
         NEW p, p \notin DOMAIN s, NEW sp, NEW n, NEW st,
         \/ /\ MemOk(n) /\ Avail(n) \subseteq Avail(m)
            /\ sp = AS!EmptySpace(0) /\ st # "OK"
         \/ Clean(sp, n, Avail(m), Meant(b.image)),
         NEW t, t = AS!With(s, p, sp)
  PROVE  Tidily(t, n, b) /\ (st = "OK" => Neat(sp))
<1>1. /\ DOMAIN t = DOMAIN s \cup {p} /\ t[p] = sp
      /\ \A q \in DOMAIN s : t[q] = s[q] /\ q # p
  BY DEF AS!With
<1>2. /\ MemOk(n) /\ Avail(n) \subseteq Avail(m)
      /\ sp = AS!EmptySpace(0) \/ AS!TableFrames(sp) \subseteq Avail(m) \ Avail(n)
      /\ sp = AS!EmptySpace(0) \/ Own(sp, n, b)
      /\ st = "OK" => Neat(sp)
  BY DEF Tidily, Own, Clean
<1>3. Tidily(s, n, b)
  BY <1>2, TidyLess
<1>4. ASSUME NEW q \in DOMAIN s PROVE AS!TableFrames(s[q]) \cap AS!TableFrames(sp) = {}
  <2>1. 0 \notin AS!TableFrames(s[q])
    BY DEF Neat
  <2>2. AS!TableFrames(AS!EmptySpace(0)) = {0}
    BY EmptyClean
  <2>3. AS!TableFrames(s[q]) \cap Avail(m) = {}
    <3>1. s[q] # AS!EmptySpace(0)
      BY <2>1, <2>2
    <3> QED BY <3>1 DEF Tidily, Own
  <2> QED BY <1>2, <2>1, <2>2, <2>3
<1>5. \A q \in DOMAIN t : Own(t[q], n, b) \/ t[q] = AS!EmptySpace(0)
  BY <1>1, <1>2, <1>3 DEF Tidily
<1>6. ASSUME NEW q \in DOMAIN t, NEW k \in DOMAIN t, q # k
      PROVE  AS!TableFrames(t[q]) \cap AS!TableFrames(t[k]) = {}
  <2>1. CASE q = p
    BY <1>1, <1>4, <1>6, <2>1
  <2>2. CASE k = p
    BY <1>1, <1>4, <1>6, <2>2
  <2>3. CASE q # p /\ k # p
    BY <1>1, <1>3, <1>6, <2>3 DEF Tidily
  <2> QED BY <2>1, <2>2, <2>3
<1> QED BY <1>2, <1>3, <1>5, <1>6 DEF Tidily

(* What is reserved is not free: neither the kernel nor the user text.     *)
LEMMA KernelIsNotFree ==
  ASSUME NEW b \in Boots
  PROVE  FreeFrames(b.map, b.reserved) \cap (KernelFrames \cup TextFrames) = {}
<1> SUFFICES ASSUME NEW f \in FreeFrames(b.map, b.reserved), f \in KernelFrames \cup TextFrames
             PROVE  FALSE
  OBVIOUS
<1>1. f \in Nat
  <2>1. TextFrames \subseteq Nat
    BY LinkAssumption DEF TextFrames
  <2>2. ASSUME NEW i \in DOMAIN KernelRegions
        PROVE  KernelRegions[i].start .. KernelRegions[i].end - 1 \subseteq Nat
    <3>1. KernelRegions[i] \in [start : Nat, end : Nat, flags : SUBSET {"R", "W", "X"}]
      BY LinkAssumption, SeqFacts
    <3>2. KernelRegions[i].start \in Nat /\ KernelRegions[i].end \in Nat
      BY <3>1
    <3> QED BY <3>2
  <2> QED BY <2>1, <2>2 DEF KernelFrames
<1>2. PICK i \in DOMAIN b.reserved : /\ b.reserved[i].start < (f + 1) * PageBytes
                                     /\ f * PageBytes < b.reserved[i].end
  BY LoaderAssumption
<1>3. PICK x, y, r : x = f * PageBytes /\ y = (f + 1) * PageBytes /\ r = b.reserved[i]
  OBVIOUS
<1>4. x \in Nat /\ y \in Nat
  BY <1>1, <1>3, FrameOrder
<1>5. r.start \in Nat /\ r.end \in Nat
  <2>1. b.reserved \in Seq([start : Nat, end : Nat])
    BY LoaderAssumption
  <2>2. r \in [start : Nat, end : Nat]
    BY <1>3, <2>1, SeqFacts
  <2> QED BY <2>2
<1>6. r.end <= x \/ y <= r.start
  BY <1>3 DEF FreeFrames
<1> QED BY <1>2, <1>3, <1>4, <1>5, <1>6

(* At first no frame has been handed out.                                 *)
LEMMA TidyInit == Init => TidyInv
<1> SUFFICES ASSUME Init PROVE TidyInv
  OBVIOUS
<1>1. boot \in Boots /\ DOMAIN space = {} /\ phase = 0
  BY DEF Init
<1>2. PICK rs : rs = Ranges(boot.map, boot.reserved)
  OBVIOUS
<1>3. mem = [ranges |-> rs, pool |-> 0, pmm |-> <<>>]
  BY <1>2 DEF Init
<1>4. mem.ranges = rs /\ mem.pool = 0
  BY <1>3
<1>5. FreeRanges(rs, boot.map, boot.reserved)
  <2>1. IsMap(boot.map) /\ IsReserved(boot.reserved)
    BY <1>1, LoaderAssumption DEF IsMap, IsReserved, Entry
  <2> QED BY <1>2, <2>1, RangesAreFree
<1>6. RangeFrames(rs) \cap PoolFrames = {}
  <2>1. PoolFrames \subseteq KernelFrames
    BY LayoutAssumption
  <2>2. RangeFrames(rs) \cap KernelFrames = {}
    BY <1>1, <1>5, KernelIsNotFree DEF FreeRanges
  <2> QED BY <2>1, <2>2
<1>7. MemOk(mem)
  <2>1. 0 \in 0 .. Len(Pool)
    BY LayoutAssumption
  <2> QED BY <1>4, <1>5, <1>6, <2>1 DEF MemOk, FreeRanges
<1>8. Avail(mem) \subseteq Given(boot)
  <2>1. PoolLeft(0) \subseteq PoolFrames
    BY LayoutAssumption DEF PoolLeft, PoolFrames
  <2> QED BY <1>4, <1>5, <2>1 DEF Avail, Given, FreeRanges
<1> QED BY <1>1, <1>7, <1>8 DEF TidyInv, Tidily

(* What is there is clean to begin with.                                   *)
LEMMA OwnIsClean ==
  ASSUME NEW s, NEW m, NEW b, Tidily(s, m, b), NEW p \in DOMAIN s, Neat(s[p])
  PROVE  Clean(s[p], m, AS!TableFrames(s[p]) \cup Avail(m), Meant(b.image))
<1>1. Own(s[p], m, b)
  <2>1. 0 \in AS!TableFrames(AS!EmptySpace(0))
    BY EmptyClean
  <2> QED BY <2>1 DEF Tidily, Neat
<1> QED BY <1>1 DEF Own, Tidily, Clean

(* The boot builds a space.                                                *)
LEMMA TidySpace ==
  ASSUME VMInv, TidyInv, BootSpace
  PROVE  TidyInv'
<1>1. PICK p, r : p = Cardinality(DOMAIN space) /\ r = InitSpace(mem, BootReach)
  OBVIOUS
<1>2. /\ Doing("space") /\ outcome = "up" /\ phase' = phase + 1 /\ boot' = boot
      /\ space' = AS!With(space, p, r.sp) /\ mem' = r.m /\ outcome' = Halt(r.status)
  BY <1>1 DEF BootSpace, Doing
<1>3. p \notin DOMAIN space
  <2>1. PICK k : k = Built(phase)
    OBVIOUS
  <2>2. k \in Nat /\ DOMAIN space = 0 .. k - 1
    BY <2>1, OrderFacts DEF VMInv
  <2>3. Cardinality(0 .. k - 1) = IF 0 > k - 1 THEN 0 ELSE k - 1 - 0 + 1
    <3>1. 0 \in Int /\ k - 1 \in Int
      BY <2>2
    <3> QED BY <3>1, FS_Interval
  <2> QED BY <1>1, <2>2, <2>3
<1>4. phase # 0
  <2>1. BootOrder[1] = "load"
    BY DEF BootOrder
  <2> QED BY <1>2, <2>1 DEF Doing
<1>5. PICK A : A = Meant(boot.image)
  OBVIOUS
<1>6. \/ /\ MemOk(r.m) /\ Avail(r.m) \subseteq Avail(mem)
         /\ r.sp = AS!EmptySpace(0) /\ r.status # "OK"
      \/ Clean(r.sp, r.m, Avail(mem), A)
  <2>1. IsMem(mem) /\ MemOk(mem)
    BY DEF VMInv, TidyInv, Tidily
  <2>2. AllAllowed(A, LowRequests \o HighRequests)
    BY <1>5, KernelAllowed
  <2> QED BY <1>1, <2>1, <2>2, InitClean, ReachIs
<1>7. Tidily(space', mem', boot') /\ (r.status = "OK" => Neat(r.sp))
  <2>1. PICK n, sp, st : n = r.m /\ sp = r.sp /\ st = r.status
    OBVIOUS
  <2>2. \A q \in DOMAIN space : Neat(space[q])
    BY <1>2 DEF TidyInv
  <2>3. Tidily(space, mem, boot)
    BY DEF TidyInv
  <2>4. \/ /\ MemOk(n) /\ Avail(n) \subseteq Avail(mem)
           /\ sp = AS!EmptySpace(0) /\ st # "OK"
        \/ Clean(sp, n, Avail(mem), Meant(boot.image))
    BY <1>5, <1>6, <2>1
  <2>5. PICK t : t = AS!With(space, p, sp)
    OBVIOUS
  <2>6. Tidily(t, n, boot) /\ (st = "OK" => Neat(sp))
    BY <1>3, <2>2, <2>3, <2>4, <2>5, TidyMore
  <2> QED BY <1>2, <2>1, <2>5, <2>6
<1>8. ASSUME outcome' = "up" PROVE (\A q \in DOMAIN space' : Neat(space'[q])) /\ Loaded(boot'.image)
  <2>1. r.status = "OK"
    BY <1>2, <1>8, HaltIs
  <2>2. \A q \in DOMAIN space' : \/ q = p /\ space'[q] = r.sp
                                 \/ q \in DOMAIN space /\ space'[q] = space[q]
    BY <1>2, <1>3 DEF AS!With
  <2> QED BY <1>2, <1>4, <1>7, <2>1, <2>2 DEF TidyInv
<1> QED BY <1>7, <1>8 DEF TidyInv

(* It maps the aliases.                                                    *)
LEMMA TidyAlias ==
  ASSUME VMInv, TidyInv, BootAlias
  PROVE  TidyInv'
<1>1. PICK o, a : o = AS!Outcome(space[0], mem, "OK") /\ a = MapPmmPages(o, BootReach)
  OBVIOUS
<1>2. PICK u, b : /\ u = AS!Outcome(space[1], a.m, a.status)
                  /\ b = IF a.status = "OK" THEN MapPmmPages(AS!Outcome(space[1], a.m, "OK"), BootReach)
                                            ELSE AS!Outcome(space[1], a.m, a.status)
  OBVIOUS
<1>3. /\ Doing("alias") /\ outcome = "up" /\ phase' = phase + 1 /\ boot' = boot
      /\ space' = [space EXCEPT ![0] = a.sp, ![1] = b.sp] /\ mem' = b.m
      /\ outcome' = Halt(b.status)
  BY <1>1, <1>2 DEF BootAlias, Doing
<1>4. 0 \in DOMAIN space /\ 1 \in DOMAIN space
  BY <1>3, OrderFacts DEF VMInv, Doing
<1>5. /\ IsSpace(space[0]) /\ IsSpace(space[1]) /\ IsMem(mem)
      /\ Neat(space[0]) /\ Neat(space[1]) /\ Tidily(space, mem, boot)
  BY <1>3, <1>4 DEF VMInv, TidyInv
<1>6. PICK A, F : A = Meant(boot.image) /\ F = AS!TableFrames(space[0]) \cup Avail(mem)
  OBVIOUS
<1>7. Good(a) /\ Clean(a.sp, a.m, F, A)
  <2>1. Good(o) /\ o.sp = space[0] /\ o.m = mem
    BY <1>1, <1>5, OutcomeIs
  <2>2. Clean(o.sp, o.m, F, A)
    BY <1>4, <1>5, <1>6, <2>1, OwnIsClean
  <2> QED BY <1>1, <2>1, <2>2, PmmClean, PmmFacts, ReachIs
<1>8. PICK s : s = [space EXCEPT ![0] = a.sp]
  OBVIOUS
<1>9. Tidily(s, a.m, boot) /\ Neat(a.sp)
  <2>1. PICK sp, n : sp = a.sp /\ n = a.m
    OBVIOUS
  <2>2. Clean(sp, n, AS!TableFrames(space[0]) \cup Avail(mem), Meant(boot.image))
    BY <1>6, <1>7, <2>1
  <2>3. s = [space EXCEPT ![0] = sp]
    BY <1>8, <2>1
  <2>4. Tidily(s, n, boot) /\ Neat(sp)
    BY <1>4, <1>5, <2>2, <2>3, TidyChanged
  <2> QED BY <2>1, <2>4
<1>10. s[1] = space[1] /\ DOMAIN s = DOMAIN space /\ s[0] = a.sp
  BY <1>4, <1>8
<1>11. PICK G : G = AS!TableFrames(s[1]) \cup Avail(a.m)
  OBVIOUS
<1>12. Clean(b.sp, b.m, G, A)
  <2>1. IsMem(a.m)
    BY <1>7 DEF Good
  <2>2. Good(u) /\ u.sp = s[1] /\ u.m = a.m /\ u.status = a.status
    BY <1>2, <1>5, <1>10, <2>1, OutcomeIs
  <2>3. Clean(u.sp, u.m, G, A)
    BY <1>4, <1>5, <1>6, <1>9, <1>10, <1>11, <2>2, OwnIsClean
  <2>4. CASE a.status = "OK"
    <3>1. b = MapPmmPages(u, BootReach)
      BY <1>2, <2>4
    <3> QED BY <2>2, <2>3, <3>1, PmmClean, ReachIs
  <2>5. CASE a.status # "OK"
    <3>1. b = u
      BY <1>2, <2>5
    <3> QED BY <2>3, <3>1
  <2> QED BY <2>4, <2>5
<1>13. space' = [s EXCEPT ![1] = b.sp]
  BY <1>3, <1>4, <1>8
<1>14. Tidily(space', mem', boot') /\ Neat(b.sp)
  <2>1. PICK sp, n, m, t : sp = b.sp /\ n = b.m /\ m = a.m /\ t = [s EXCEPT ![1] = sp]
    OBVIOUS
  <2>2. Clean(sp, n, AS!TableFrames(s[1]) \cup Avail(m), Meant(boot.image))
    BY <1>6, <1>11, <1>12, <2>1
  <2>3. Tidily(s, m, boot) /\ Neat(s[1]) /\ 1 \in DOMAIN s
    BY <1>4, <1>5, <1>9, <1>10, <2>1
  <2>4. Tidily(t, n, boot) /\ Neat(sp)
    BY <2>1, <2>2, <2>3, TidyChanged
  <2> QED BY <1>3, <1>13, <2>1, <2>4
<1>15. \A q \in DOMAIN space' : Neat(space'[q])
  <2>1. \A q \in DOMAIN space' : q \in DOMAIN space /\ space'[q] \in {a.sp, b.sp, space[q]}
    BY <1>3
  <2> QED BY <1>3, <1>9, <1>14, <2>1 DEF TidyInv
<1>16. Loaded(boot'.image)
  <2>1. BootOrder[1] = "load"
    BY DEF BootOrder
  <2> QED BY <1>3, <2>1 DEF Doing, TidyInv
<1> QED BY <1>14, <1>15, <1>16 DEF TidyInv

(* It maps the image.                                                      *)
LEMMA TidyImage ==
  ASSUME VMInv, TidyInv, BootImage
  PROVE  TidyInv'
<1>1. PICK o, q : o = AS!Outcome(space[0], mem, "OK") /\ q = ElfRequests(boot.image)
  OBVIOUS
<1>2. PICK r : r = MapAll(o, q, BootReach)
  OBVIOUS
<1>3. /\ Doing("image") /\ outcome = "up" /\ phase' = phase + 1 /\ boot' = boot
      /\ space' = [space EXCEPT ![0] = r.sp] /\ mem' = r.m
      /\ outcome' = Halt(r.status)
  BY <1>1, <1>2 DEF BootImage, Doing
<1>4. 0 \in DOMAIN space
  BY <1>3, OrderFacts DEF VMInv, Doing
<1>5. Loaded(boot.image)
  <2>1. BootOrder[1] = "load"
    BY DEF BootOrder
  <2> QED BY <1>3, <2>1 DEF Doing, TidyInv
<1>6. /\ IsSpace(space[0]) /\ IsMem(mem) /\ boot \in Boots
      /\ Neat(space[0]) /\ Tidily(space, mem, boot)
  BY <1>3, <1>4 DEF VMInv, TidyInv
<1>7. PICK A, F : A = Meant(boot.image) /\ F = AS!TableFrames(space[0]) \cup Avail(mem)
  OBVIOUS
<1>8. Clean(r.sp, r.m, F, A)
  <2>1. Good(o) /\ o.sp = space[0] /\ o.m = mem
    BY <1>1, <1>6, OutcomeIs
  <2>2. Clean(o.sp, o.m, F, A)
    BY <1>4, <1>6, <1>7, <2>1, OwnIsClean
  <2>3. q \in Seq(Asked(0)) /\ 0 \in Int
    BY <1>1, <1>6, ImageIsAsked
  <2>4. AllAllowed(A, q)
    BY <1>1, <1>5, <1>6, <1>7, ImageAllowed
  <2> QED BY <1>2, <2>1, <2>2, <2>3, <2>4, AllClean, ReachIs
<1>9. Tidily(space', mem', boot') /\ Neat(r.sp)
  <2>1. PICK sp, n, t : sp = r.sp /\ n = r.m /\ t = [space EXCEPT ![0] = sp]
    OBVIOUS
  <2>2. Clean(sp, n, AS!TableFrames(space[0]) \cup Avail(mem), Meant(boot.image))
    BY <1>7, <1>8, <2>1
  <2>3. Tidily(t, n, boot) /\ Neat(sp)
    BY <1>4, <1>6, <2>1, <2>2, TidyChanged
  <2> QED BY <1>3, <2>1, <2>3
<1>10. \A p \in DOMAIN space' : Neat(space'[p])
  <2>1. \A p \in DOMAIN space' : p \in DOMAIN space /\ space'[p] \in {r.sp, space[p]}
    BY <1>3
  <2> QED BY <1>3, <1>9, <2>1 DEF TidyInv
<1> QED BY <1>3, <1>5, <1>9, <1>10 DEF TidyInv

(* An allocation at run time offers no more than there was.                *)
LEMMA SurvivorsFacts ==
  ASSUME NEW k, IsMem(k), MemOk(k), NEW m, m \in {k, [k EXCEPT !.ranges = <<>>]}
  PROVE  IsMem(m) /\ MemOk(m) /\ Avail(m) \subseteq Avail(k)
<1>1. CASE m = k
  BY <1>1
<1>2. CASE m # k
  <2>1. m = [ranges |-> <<>>, pool |-> k.pool, pmm |-> k.pmm] /\ k.pmm \in Seq(Nat)
    BY <1>2 DEF IsMem
  <2>2. m.ranges = <<>> /\ m.pool = k.pool /\ IsMem(m)
    BY <2>1 DEF IsMem
  <2>3. RangeFrames(<<>>) = {} /\ RangesApart(<<>>) /\ <<>> \in Seq(FrameRange)
    BY DEF RangeFrames, RangesApart
  <2> QED BY <2>2, <2>3 DEF MemOk, Avail
<1> QED BY <1>1, <1>2

(* SYS_SHM_MAP maps the shared page.                                       *)
LEMMA TidyShm ==
  ASSUME VMInv, TidyInv, NEW p \in Space, NEW v \in ShmPages, ShmMap(p, v)
  PROVE  TidyInv'
<1>1. outcome = "up" /\ Booted /\ phase' = phase /\ boot' = boot
  BY DEF ShmMap
<1>2. p \in DOMAIN space /\ IsSpace(space[p]) /\ IsMem(mem)
  BY <1>1, OrderFacts, VirtualMemoryAssumption DEF VMInv, Space
<1>3. PICK m \in Survivors :
         LET x == AS!Map(space[p], m, v, Shared, 1, {"R", "W", "U"}, Reach(space[p])) IN
           \/ space' = [space EXCEPT ![p] = x.sp] /\ mem' = x.m
           \/ UNCHANGED <<space, mem>>
  BY DEF ShmMap
<1>4. PICK n, flags, reach, sp : /\ n = 1 /\ flags = {"R", "W", "U"} /\ reach = Reach(space[p])
                                 /\ sp = space[p]
  OBVIOUS
<1>5. PICK r : r = AS!Map(sp, m, v, Shared, n, flags, reach)
  OBVIOUS
<1>6. \/ space' = [space EXCEPT ![p] = r.sp] /\ mem' = r.m
      \/ UNCHANGED <<space, mem>>
  BY <1>3, <1>4, <1>5
<1>7. IsMem(m) /\ MemOk(m) /\ Avail(m) \subseteq Avail(mem)
  BY <1>2, SurvivorsFacts DEF Survivors, TidyInv, Tidily
<1>8. Tidily(space, m, boot) /\ Neat(sp)
  BY <1>1, <1>2, <1>4, <1>7, TidyLess DEF TidyInv
<1>9. PICK A, F : A = Meant(boot.image) /\ F = AS!TableFrames(sp) \cup Avail(m)
  OBVIOUS
<1>10. Clean(sp, m, F, A)
  BY <1>2, <1>4, <1>8, <1>9, OwnIsClean
<1>11. Allows(A, Shared, n, flags)
  <2>1. Shared \in Nat /\ AS!LeafFlags(flags) = {"R", "W", "U"}
    BY <1>4, VirtualMemoryAssumption DEF AS!LeafFlags
  <2>2. \A i \in 0 .. n - 1 : Shared + i = Shared
    BY <1>4, <2>1
  <2>3. [frame |-> Shared, flags |-> {"R", "W", "U"}] \in A
    BY <1>9 DEF Meant, DataLeaf
  <2> QED BY <2>1, <2>2, <2>3 DEF Allows
<1>12. Clean(r.sp, r.m, F, A)
  <2>1. v \in Int /\ Shared \in Int /\ n \in Nat /\ reach \in SUBSET Nat /\ IsSpace(sp)
    BY <1>2, <1>4, VirtualMemoryAssumption, ReachIs
  <2> QED BY <1>5, <1>7, <1>10, <1>11, <2>1, MapClean
<1>13. PICK x, k, t : x = r.sp /\ k = r.m /\ t = [space EXCEPT ![p] = x]
  OBVIOUS
<1>14. Tidily(t, k, boot) /\ Neat(x)
  <2>1. Clean(x, k, AS!TableFrames(space[p]) \cup Avail(m), Meant(boot.image))
    BY <1>4, <1>9, <1>12, <1>13
  <2>2. Neat(space[p])
    BY <1>4, <1>8
  <2> QED BY <1>2, <1>8, <1>13, <2>1, <2>2, TidyChanged
<1>15. CASE space' = [space EXCEPT ![p] = r.sp] /\ mem' = r.m
  <2>1. \A q \in DOMAIN space' : q \in DOMAIN space /\ space'[q] \in {x, space[q]}
    BY <1>13, <1>15
  <2>2. \A q \in DOMAIN space' : Neat(space'[q])
    BY <1>1, <1>14, <2>1 DEF TidyInv
  <2> QED BY <1>1, <1>13, <1>14, <1>15, <2>2 DEF TidyInv
<1>16. CASE UNCHANGED <<space, mem>>
  BY <1>1, <1>16 DEF TidyInv
<1> QED BY <1>6, <1>15, <1>16

(* A step of the machine.                                                  *)
LEMMA TidyStep == VMInv /\ TidyInv /\ [Next]_vars => TidyInv'
<1> SUFFICES ASSUME VMInv, TidyInv, [Next]_vars PROVE TidyInv'
  OBVIOUS
<1>1. CASE BootLoad
  <2>1. /\ outcome = "up" /\ boot' = boot /\ mem' = mem /\ space' = space
        /\ outcome' = IF Loaded(boot.image) THEN "up" ELSE "image refused"
    BY <1>1 DEF BootLoad, Doing
  <2>2. outcome' = "up" => Loaded(boot'.image)
    BY <2>1
  <2> QED BY <2>1, <2>2 DEF TidyInv
<1>2. ASSUME NEW p \in Space, NEW q \in Space, NEW v \in ShmPages, CheckBuffer(p, q, v)
      PROVE  TidyInv'
  BY <1>2 DEF CheckBuffer, TidyInv
<1>3. CASE UNCHANGED vars
  BY <1>3 DEF vars, TidyInv
<1> QED BY <1>1, <1>2, <1>3, TidySpace, TidyAlias, TidyImage, TidyShm DEF Next

(* A space has one frame more than tables below the root.                  *)
LEMMA FramesCounted ==
  ASSUME NEW sp, Neat(sp)
  PROVE  Cardinality(AS!TableFrames(sp)) = 1 + Cardinality(DOMAIN sp.tables)
<1> DEFINE S == DOMAIN sp.tables
           T == {sp.tables[t].frame : t \in S}
           f == [t \in S |-> sp.tables[t].frame]
<1>1. IsFiniteSet(S) /\ sp.root \notin T
  BY DEF Neat
<1>2. f \in Surjection(S, T) /\ f \in Injection(S, T)
  <2>1. \A t \in S : f[t] = sp.tables[t].frame
    OBVIOUS
  <2>2. f \in [S -> T]
    OBVIOUS
  <2>3. \A x \in T : \E t \in S : f[t] = x
    BY <2>1
  <2>4. \A t, u \in S : f[t] = f[u] => t = u
    BY <2>1 DEF Neat
  <2> HIDE DEF S, T, f
  <2> QED BY <2>2, <2>3, <2>4, Fun_IsInj, Fun_IsSurj
<1>3. AS!TableFrames(sp) = T \cup {sp.root}
  BY DEF AS!TableFrames
<1> HIDE DEF S, T, f
<1>4. IsFiniteSet(T) /\ Cardinality(T) = Cardinality(S)
  BY <1>1, <1>2, FS_Surjection
<1>5. Cardinality(T \cup {sp.root}) = Cardinality(T) + 1
  BY <1>1, <1>4, FS_AddElement
<1>6. Cardinality(T) \in Nat
  BY <1>4, FS_CardinalityType
<1> QED BY <1>3, <1>4, <1>5, <1>6 DEF S

(* Both invariants together.                                               *)
LEMMA TidyAlways == Spec => [](VMInv /\ TidyInv)
<1>1. Init => VMInv /\ TidyInv
  BY VMInit, TidyInit
<1>2. (VMInv /\ TidyInv) /\ [Next]_vars => (VMInv /\ TidyInv)'
  BY VMStep, TidyStep
<1> QED BY <1>1, <1>2, PTL DEF Spec

(* What user code may reach is apart: a frame of the image, of the text or *)
(* of a stack is not the frame of another of them with other rights.       *)
LEMMA MeantFacts ==
  ASSUME NEW b \in Boots, NEW a \in Meant(b.image)
  PROVE  /\ "W" \in a.flags => a.frame \in StackFrames \cup {Shared} \cup StorageFrames
         /\ a.frame \in TextFrames \cup StackFrames \cup {Shared} \cup StorageFrames
         /\ \A c \in Meant(b.image) :
              ~("W" \in a.flags /\ "X" \in c.flags /\ a.frame = c.frame)
<1>1. b.image.segments \in Seq([page : Nat, size : Nat, file : Nat, flags : SUBSET {"R", "W", "X"}])
  BY ImageAssumption
<1>2. ASSUME NEW x \in ImageLeaves(b.image)
      PROVE  \E i \in DOMAIN b.image.segments, page \in Nat :
               /\ Loaded(b.image)
               /\ page \in PagesOf(b.image.segments[i])
               /\ page \in ElfBase .. ElfBase + StorageLength - 1
               /\ x = ImageLeaf(b.image.segments[i], page)
  <2>1. Loaded(b.image)
    BY DEF ImageLeaves
  <2>2. PICK i \in DOMAIN b.image.segments :
          x \in {ImageLeaf(b.image.segments[i], q) : q \in PagesOf(b.image.segments[i])}
    BY <2>1 DEF ImageLeaves
  <2>3. PICK page \in PagesOf(b.image.segments[i]) : x = ImageLeaf(b.image.segments[i], page)
    BY <2>2
  <2>4. page \in ElfBase .. ElfBase + StorageLength - 1
    BY <2>1, <2>3 DEF Loaded
  <2>5. page \in Nat
    <3>1. ElfBase \in Nat /\ StorageLength \in Nat
      BY VirtualMemoryAssumption, LayoutAssumption
    <3> QED BY <2>4, <3>1
  <2> QED BY <2>1, <2>3, <2>4, <2>5
<1>3. ASSUME NEW x \in ImageLeaves(b.image) PROVE x.frame \in StorageFrames
  <2>1. PICK i \in DOMAIN b.image.segments, page \in Nat :
          /\ page \in ElfBase .. ElfBase + StorageLength - 1
          /\ x = ImageLeaf(b.image.segments[i], page)
    BY <1>2
  <2>2. x.frame = Storage + (page - ElfBase)
    BY <2>1 DEF ImageLeaf, StoredAt
  <2> QED BY <2>1, <2>2, VirtualMemoryAssumption, LayoutAssumption DEF StorageFrames
<1>4. ASSUME NEW x \in ImageLeaves(b.image), NEW y \in ImageLeaves(b.image),
             "W" \in x.flags, "X" \in y.flags, x.frame = y.frame
      PROVE  FALSE
  <2>1. PICK i \in DOMAIN b.image.segments, k \in Nat :
          /\ Loaded(b.image) /\ k \in PagesOf(b.image.segments[i])
          /\ x = ImageLeaf(b.image.segments[i], k)
    BY <1>2
  <2>2. PICK j \in DOMAIN b.image.segments, l \in Nat :
          /\ l \in PagesOf(b.image.segments[j])
          /\ y = ImageLeaf(b.image.segments[j], l)
    BY <1>2
  <2>3. k = l
    <3>1. x.frame = Storage + (k - ElfBase) /\ y.frame = Storage + (l - ElfBase)
      BY <2>1, <2>2 DEF ImageLeaf, StoredAt
    <3>2. Storage \in Nat /\ ElfBase \in Nat
      BY VirtualMemoryAssumption
    <3>3. k \in Nat /\ l \in Nat
      BY <2>1, <2>2
    <3>4. Storage + (k - ElfBase) = Storage + (l - ElfBase)
      BY <1>4, <3>1
    <3> QED BY <3>2, <3>3, <3>4
  <2>4. "W" \in b.image.segments[i].flags /\ "X" \in b.image.segments[j].flags
    BY <1>4, <2>1, <2>2 DEF ImageLeaf, AS!LeafFlags
  <2>5. i \in Nat /\ j \in Nat /\ i >= 1 /\ j >= 1
    <3>1. DOMAIN b.image.segments = 1 .. Len(b.image.segments) /\ Len(b.image.segments) \in Nat
      BY <1>1, SeqFacts
    <3> QED BY <3>1
  <2>6. CASE i = j
    BY <2>1, <2>4, <2>6 DEF Loaded, Planned
  <2>7. CASE i < j
    <3>1. i \in 1 .. j - 1
      BY <2>5, <2>7
    <3>2. SegmentsApart(b.image.segments[j], b.image.segments[i])
      BY <2>1, <3>1 DEF Loaded, Planned
    <3> QED BY <2>1, <2>2, <2>3, <3>2 DEF SegmentsApart
  <2>8. CASE j < i
    <3>1. j \in 1 .. i - 1
      BY <2>5, <2>8
    <3>2. SegmentsApart(b.image.segments[i], b.image.segments[j])
      BY <2>1, <3>1 DEF Loaded, Planned
    <3> QED BY <2>1, <2>2, <2>3, <3>2 DEF SegmentsApart
  <2> QED BY <2>5, <2>6, <2>7, <2>8
<1>5. ASSUME NEW x \in Meant(b.image)
      PROVE  \/ x.frame \in TextFrames /\ "W" \notin x.flags
             \/ x.frame \in StackFrames \cup {Shared} /\ "X" \notin x.flags
             \/ x \in ImageLeaves(b.image)
  BY DEF Meant, TextLeaf, DataLeaf
<1>6. TextFrames \cap (StackFrames \cup {Shared} \cup StorageFrames) = {}
  BY LayoutAssumption
<1>7. StorageFrames \cap (StackFrames \cup {Shared}) = {}
  BY LayoutAssumption
<1>8. ASSUME NEW c \in Meant(b.image), "W" \in a.flags, "X" \in c.flags, a.frame = c.frame
      PROVE  FALSE
  <2>1. \/ a.frame \in StackFrames \cup {Shared}
        \/ a \in ImageLeaves(b.image) /\ a.frame \in StorageFrames
    BY <1>3, <1>5, <1>8
  <2>2. \/ c.frame \in TextFrames
        \/ c \in ImageLeaves(b.image) /\ c.frame \in StorageFrames
    BY <1>3, <1>5, <1>8
  <2> QED BY <1>4, <1>6, <1>7, <1>8, <2>1, <2>2
<1> QED BY <1>3, <1>5, <1>8

-----------------------------------------------------------------------------
(* What the kernel can write while a process runs. *)

(* A set of table frames and what the sources still offer: J is closed if  *)
(* one frame more does not leave it.                                       *)
Closed(J, reach) ==
  \A T, m : <<T, m>> \in J =>
    LET a == TakeFrame(m, reach) IN
      /\ <<T, a.pool>> \in J
      /\ a.status = "OK" => <<T \cup {a.frame}, a.pool>> \in J

(* Every leaf of a space, with its page, is in A; the leaves of a mapping. *)
LeavesIn(sp, A) == \A v \in DOMAIN sp.leaves : <<v, sp.leaves[v]>> \in A
Admits(A, v, frame, n, flags) ==
  \A i \in 0 .. n - 1 : <<v + i, [frame |-> frame + i, flags |-> AS!LeafFlags(flags)]>> \in A

(* An outcome whose tables are in J and whose leaves are in A.             *)
Held(r, J, A) == Good(r) /\ <<AS!TableFrames(r.sp), r.m>> \in J /\ LeavesIn(r.sp, A)

(* One table.                                                              *)
LEMMA ChildClosed ==
  ASSUME NEW reach \in SUBSET Nat, NEW J, NEW A, Closed(J, reach),
         NEW r, Held(r, J, A), NEW k, NEW v, NEW user \in BOOLEAN,
         NEW c, c = AS!ChildTable(r, k, v, user, reach)
  PROVE  Held(c, J, A)
<1>1. PICK id : id = AS!TableAt(k, v)
  OBVIOUS
<1>2. Good(c)
  BY <1>1, ChildFacts DEF Held
<1>3. CASE r.status # "OK"
  BY <1>3 DEF AS!ChildTable
<1>4. CASE r.status = "OK" /\ id \in DOMAIN r.sp.tables
  <2>1. c \in {r, [r EXCEPT !.status = "DENIED"], [r EXCEPT !.status = "FAULT"]}
    BY <1>1, <1>4 DEF AS!ChildTable
  <2>2. \A x : [r EXCEPT !.status = x] = [sp |-> r.sp, m |-> r.m, status |-> x]
    BY DEF Held, Good
  <2>3. c.sp = r.sp /\ c.m = r.m
    BY <2>1, <2>2
  <2> QED BY <1>2, <2>3 DEF Held
<1>5. CASE r.status = "OK" /\ id \notin DOMAIN r.sp.tables
  <2>1. PICK a : a = TakeFrame(r.m, reach)
    OBVIOUS
  <2>2. /\ <<AS!TableFrames(r.sp), a.pool>> \in J
        /\ a.status = "OK" => <<AS!TableFrames(r.sp) \cup {a.frame}, a.pool>> \in J
    BY <2>1 DEF Closed, Held
  <2>3. CASE a.status # "OK"
    <3>1. c = AS!Outcome(r.sp, a.pool, a.status)
      BY <1>1, <1>5, <2>1, <2>3 DEF AS!ChildTable
    <3>2. c.sp = r.sp /\ c.m = a.pool
      BY <3>1 DEF AS!Outcome
    <3> QED BY <1>2, <2>2, <3>2 DEF Held
  <2>4. CASE a.status = "OK"
    <3>1. PICK t : t = AS!With(r.sp.tables, id, [frame |-> a.frame, user |-> user])
      OBVIOUS
    <3>2. c = AS!Outcome([r.sp EXCEPT !.tables = t], a.pool, "OK")
      BY <1>1, <1>5, <2>1, <2>4, <3>1 DEF AS!ChildTable
    <3>3. PICK s : s = [root |-> r.sp.root, tables |-> t,
                        leaves |-> r.sp.leaves, regions |-> r.sp.regions]
      OBVIOUS
    <3>4. [r.sp EXCEPT !.tables = t] = s
      BY <3>3 DEF Held, Good, IsSpace
    <3>5. c.sp = s /\ c.m = a.pool
      BY <3>2, <3>4 DEF AS!Outcome
    <3>6. s.root = r.sp.root /\ s.tables = t
      BY <3>3
    <3>7. /\ DOMAIN t = DOMAIN r.sp.tables \cup {id} /\ t[id].frame = a.frame
          /\ \A x \in DOMAIN r.sp.tables : t[x] = r.sp.tables[x] /\ x # id
      BY <1>5, <3>1 DEF AS!With
    <3>8. AS!TableFrames(s) = AS!TableFrames(r.sp) \cup {a.frame}
      BY <3>6, <3>7 DEF AS!TableFrames
    <3> QED BY <1>2, <2>2, <2>4, <3>3, <3>5, <3>8 DEF Held, LeavesIn
  <2> QED BY <2>3, <2>4
<1> QED BY <1>3, <1>4, <1>5

(* One page.                                                               *)
LEMMA PageClosed ==
  ASSUME NEW reach \in SUBSET Nat, NEW J, NEW A, Closed(J, reach),
         NEW r, Held(r, J, A), NEW v, NEW frame, NEW flags,
         <<v, [frame |-> frame, flags |-> AS!LeafFlags(flags)]>> \in A,
         NEW p, p = AS!MapPage(r, v, frame, flags, reach)
  PROVE  Held(p, J, A)
<1> DEFINE N == Len(Span)
           user == "U" \in flags
           way == CHOOSE f : WayOf(f, r, v, user, reach)
           w == way[N]
           e == [frame |-> frame, flags |-> AS!LeafFlags(flags)]
<1>1. N \in Nat /\ AS!Level = 1 .. N /\ {0} \cup AS!Level = 0 .. N
  BY VirtualMemoryAssumption DEF AS!Level
<1>2. p = IF w.status # "OK" THEN w
          ELSE IF ~AS!Vacant(w.sp, v) THEN [w EXCEPT !.status = "BUSY"]
          ELSE [w EXCEPT !.sp.leaves = AS!With(@, v, e)]
  BY DEF AS!MapPage, WayOf
<1>3. WayOf(way, r, v, user, reach)
  <2> HIDE DEF user
  <2>1. PICK f : Way(f, r, v, user, reach, N)
    BY <1>1, WayExists
  <2>2. WayOf(f, r, v, user, reach)
    BY <1>1, <2>1 DEF Way, WayOf
  <2> QED BY <2>2
<1>4. user \in BOOLEAN
  OBVIOUS
<1> HIDE DEF way, user
<1> HIDE DEF N
<1>5. way[0] = r /\ \A k \in 1 .. N : way[k] = AS!ChildTable(way[k - 1], k, v, user, reach)
  <2>1. way = [k \in 0 .. N |->
                 IF k = 0 THEN r ELSE AS!ChildTable(way[k - 1], k, v, user, reach)]
    BY <1>1, <1>3 DEF WayOf
  <2>2. 0 \in 0 .. N /\ \A k \in 1 .. N : k \in 0 .. N /\ k # 0
    BY <1>1
  <2> QED BY <2>1, <2>2
<1> DEFINE S == {n \in 0 .. N : Held(way[n], J, A)}
<1>6. 0 \in S
  BY <1>1, <1>5
<1>7. ASSUME NEW n \in 0 .. N - 1, n \in S PROVE n + 1 \in S
  <2>1. PICK a, c, k : a = way[n] /\ c = way[n + 1] /\ k = n + 1
    OBVIOUS
  <2>2. k \in 1 .. N /\ k - 1 = n /\ k \in 0 .. N
    BY <1>1, <2>1
  <2>3. c = AS!ChildTable(a, k, v, user, reach)
    BY <1>5, <2>1, <2>2
  <2>4. Held(a, J, A)
    BY <1>7, <2>1
  <2>5. Held(c, J, A)
    BY <1>4, <2>3, <2>4, ChildClosed
  <2> QED BY <2>1, <2>2, <2>5
<1> HIDE DEF S
<1>8. N \in S
  <2>1. 0 .. N \subseteq S
    BY <1>1, <1>6, <1>7, UpTo
  <2> QED BY <1>1, <2>1
<1>9. Held(w, J, A)
  BY <1>8 DEF S
<1>10. Good(p)
  BY PageFacts DEF Held
<1>14. <<v, e>> \in A
  OBVIOUS
<1> HIDE DEF w, e
<1>11. CASE w.status # "OK"
  BY <1>2, <1>9, <1>11
<1>12. CASE w.status = "OK" /\ ~AS!Vacant(w.sp, v)
  <2>1. p = [w EXCEPT !.status = "BUSY"]
    BY <1>2, <1>12
  <2>2. p = [sp |-> w.sp, m |-> w.m, status |-> "BUSY"]
    BY <1>9, <2>1 DEF Held, Good
  <2>3. p.sp = w.sp /\ p.m = w.m
    BY <2>2
  <2> QED BY <1>9, <1>10, <2>3 DEF Held
<1>13. CASE w.status = "OK" /\ AS!Vacant(w.sp, v)
  <2>1. PICK t : t = AS!With(w.sp.leaves, v, e)
    OBVIOUS
  <2>2. PICK s : s = [root |-> w.sp.root, tables |-> w.sp.tables,
                      leaves |-> t, regions |-> w.sp.regions]
    OBVIOUS
  <2>3. p = [sp |-> [w.sp EXCEPT !.leaves = t], m |-> w.m, status |-> "OK"]
    <3>1. p = [w EXCEPT !.sp.leaves = AS!With(@, v, e)]
      BY <1>2, <1>13
    <3>2. w = [sp |-> w.sp, m |-> w.m, status |-> "OK"]
      BY <1>9, <1>13 DEF Held, Good
    <3> QED BY <2>1, <3>1, <3>2
  <2>4. [w.sp EXCEPT !.leaves = t] = s
    BY <1>9, <2>2 DEF Held, Good, IsSpace
  <2>5. p.sp = s /\ p.m = w.m
    BY <2>3, <2>4
  <2>6. s.root = w.sp.root /\ s.tables = w.sp.tables
    BY <2>2
  <2>7. AS!TableFrames(s) = AS!TableFrames(w.sp)
    BY <2>6 DEF AS!TableFrames
  <2>8. s.leaves = t
    BY <2>2
  <2>9. LeavesIn(s, A)
    BY <1>9, <1>14, <2>1, <2>8 DEF Held, LeavesIn, AS!With
  <2> QED BY <1>9, <1>10, <2>5, <2>7, <2>9 DEF Held
<1> QED BY <1>11, <1>12, <1>13

(* To record a region changes nothing else.                                *)
Recorded(w, y) == [w EXCEPT !.sp.regions = Append(@, y)]

(* Its parts.                                                              *)
LEMMA RegionAdded ==
  ASSUME NEW w, Good(w), NEW y, NEW r, r = Recorded(w, y)
  PROVE  /\ r.m = w.m /\ r.sp.root = w.sp.root
         /\ r.sp.tables = w.sp.tables /\ r.sp.leaves = w.sp.leaves
<1>1. ASSUME NEW a, NEW b, NEW st
      PROVE  [[sp |-> a, m |-> b, status |-> st] EXCEPT !.sp.regions = Append(@, y)] =
               [sp |-> [a EXCEPT !.regions = Append(a.regions, y)], m |-> b, status |-> st]
  OBVIOUS
<1>2. PICK a, b, st, q : a = w.sp /\ b = w.m /\ st = w.status /\ q = Append(w.sp.regions, y)
  OBVIOUS
<1>3. w = [sp |-> a, m |-> b, status |-> st]
  BY <1>2 DEF Good
<1>4. r = [sp |-> [a EXCEPT !.regions = q], m |-> b, status |-> st]
  <2>1. r = [w EXCEPT !.sp.regions = Append(@, y)]
    BY DEF Recorded
  <2> QED BY <1>1, <1>2, <1>3, <2>1
<1>5. PICK s : s = [root |-> a.root, tables |-> a.tables, leaves |-> a.leaves, regions |-> q]
  OBVIOUS
<1>6. [a EXCEPT !.regions = q] = s
  <2>1. IsSpace(a)
    BY <1>2 DEF Good
  <2> QED BY <1>5, <2>1 DEF IsSpace
<1>7. r.m = b /\ r.sp = s
  BY <1>4, <1>6
<1> QED BY <1>2, <1>5, <1>7

(* A mapping.                                                              *)
LEMMA MapClosed ==
  ASSUME NEW reach \in SUBSET Nat, NEW J, NEW A, Closed(J, reach),
         NEW sp, IsSpace(sp), NEW m, IsMem(m), <<AS!TableFrames(sp), m>> \in J,
         LeavesIn(sp, A), NEW v \in Int, NEW frame \in Int, NEW n \in Nat, NEW flags,
         Admits(A, v, frame, n, flags),
         NEW r, r = AS!Map(sp, m, v, frame, n, flags, reach)
  PROVE  Held(r, J, A)
<1> DEFINE r0 == AS!Outcome(sp, m, IF sp.root \in reach THEN "OK" ELSE "FAULT")
           round == CHOOSE f : Rounds(f, r0, v, frame, flags, reach, n)
           w == round[n]
           region == [page |-> v, frame |-> frame, length |-> n, flags |-> flags]
           args == AS!MapArguments(v, n, flags)
<1>1. r = IF args # "OK" THEN AS!Outcome(sp, m, args)
          ELSE IF AS!RegionsFull(sp) THEN AS!Outcome(sp, m, "NO_MEMORY")
          ELSE IF w.status # "OK" THEN w
          ELSE [w EXCEPT !.sp.regions = Append(@, region)]
  BY DEF AS!Map, Rounds, Turn
<1>2. Rounds(round, r0, v, frame, flags, reach, n)
  <2> HIDE DEF r0
  <2> QED BY RoundsExist
<1> HIDE DEF round
<1>3. round[0] = r0 /\ \A i \in 1 .. n : round[i] = Turn(round[i - 1], v, frame, i, flags, reach)
  BY <1>2 DEF Rounds
<1>4. \A x : LET o == AS!Outcome(sp, m, x) IN Good(o) /\ o.sp = sp /\ o.m = m
  BY DEF Good, AS!Outcome
<1>5. Held(r0, J, A)
  BY <1>4 DEF Held
<1> HIDE DEF r0
<1> DEFINE S == {k \in 0 .. n : Held(round[k], J, A)}
<1>6. 0 \in S
  BY <1>3, <1>5
<1>7. ASSUME NEW k \in 0 .. n - 1, k \in S PROVE k + 1 \in S
  <2>1. PICK a, c : a = round[k] /\ c = round[k + 1]
    OBVIOUS
  <2>2. PICK x, y : x = frame + k /\ y = v + k
    OBVIOUS
  <2>3. k + 1 \in 1 .. n /\ k + 1 - 1 = k /\ v + (k + 1) - 1 = y
        /\ frame + (k + 1) - 1 = x /\ k + 1 \in 0 .. n
    BY <2>2
  <2>4. c = Turn(a, v, frame, k + 1, flags, reach)
    BY <1>3, <2>1, <2>3
  <2>5. Held(a, J, A)
    BY <1>7, <2>1
  <2>6. CASE a.status # "OK"
    BY <2>1, <2>3, <2>4, <2>5, <2>6 DEF Turn
  <2>7. CASE a.status = "OK"
    <3>1. c = AS!MapPage(a, y, x, flags, reach)
      BY <2>3, <2>4, <2>7 DEF Turn
    <3>2. <<y, [frame |-> x, flags |-> AS!LeafFlags(flags)]>> \in A
      BY <2>2 DEF Admits
    <3>3. Held(c, J, A)
      BY <2>5, <3>1, <3>2, PageClosed
    <3> QED BY <2>1, <2>3, <3>3
  <2> QED BY <2>6, <2>7
<1> HIDE DEF S
<1>8. n \in S
  <2>1. 0 .. n \subseteq S
    BY <1>6, <1>7, UpTo
  <2> QED BY <2>1
<1>9. Held(w, J, A)
  BY <1>8 DEF S
<1>10. Good(r)
  <2>1. Mapped(r, sp, v, frame, n, flags)
    BY MapFacts
  <2> QED BY <2>1 DEF Mapped
<1> HIDE DEF w, region, args
<1>11. CASE args # "OK" \/ AS!RegionsFull(sp)
  <2>1. r \in {AS!Outcome(sp, m, args), AS!Outcome(sp, m, "NO_MEMORY")}
    BY <1>1, <1>11
  <2>2. r.sp = sp /\ r.m = m
    BY <1>4, <2>1
  <2> QED BY <1>10, <2>2 DEF Held
<1>12. CASE args = "OK" /\ ~AS!RegionsFull(sp) /\ w.status # "OK"
  BY <1>1, <1>9, <1>12
<1>13. CASE args = "OK" /\ ~AS!RegionsFull(sp) /\ w.status = "OK"
  <2>1. r = Recorded(w, region)
    BY <1>1, <1>13 DEF Recorded
  <2>2. Good(w)
    BY <1>9 DEF Held
  <2>3. r.m = w.m /\ r.sp.root = w.sp.root /\ r.sp.tables = w.sp.tables /\ r.sp.leaves = w.sp.leaves
    BY <2>1, <2>2, RegionAdded
  <2>4. AS!TableFrames(r.sp) = AS!TableFrames(w.sp)
    BY <2>3 DEF AS!TableFrames
  <2> QED BY <1>9, <1>10, <2>3, <2>4 DEF Held, LeavesIn
<1> QED BY <1>11, <1>12, <1>13

(* The frames noted in vm_pmm_pages, and those of the window.              *)
PmmFrames(m) == {m.pmm[i] : i \in DOMAIN m.pmm}
WindowFrames == WindowStart .. LinkBase - 1

(* What is noted is off the ranges and can be written at first.            *)
Sound(m) ==
  /\ MemOk(m) /\ Len(m.pmm) <= MaxPmm
  /\ PmmFrames(m) \cap RangeFrames(m.ranges) = {}
  /\ PmmFrames(m) \subseteq BootReach
  /\ RangeFrames(m.ranges) \cap (KernelFrames \cup TextFrames) = {}

(* From m to n frames were taken, and those noted stay where they are.     *)
Later(m, n) ==
  /\ RangeFrames(n.ranges) \subseteq RangeFrames(m.ranges)
  /\ Len(m.pmm) <= Len(n.pmm)
  /\ \A i \in 1 .. Len(m.pmm) : n.pmm[i] = m.pmm[i]

(* While there is room for a note more, every table but those of the pool  *)
(* is noted.                                                               *)
Noted(T, m) == Len(m.pmm) < MaxPmm => T \subseteq PoolFrames \cup PmmFrames(m)

(* Later is transitive.                                                    *)
LEMMA LaterTwice ==
  ASSUME NEW l, NEW m, NEW n, IsMem(l), IsMem(m), IsMem(n), Later(l, m), Later(m, n)
  PROVE  Later(l, n)
<1>1. Len(l.pmm) \in Nat /\ Len(m.pmm) \in Nat /\ Len(n.pmm) \in Nat
  BY DEF IsMem
<1>2. Len(l.pmm) <= Len(n.pmm) /\ \A i \in 1 .. Len(l.pmm) : i \in 1 .. Len(m.pmm)
  BY <1>1 DEF Later
<1> QED BY <1>2 DEF Later

(* It is reflexive.                                                        *)
LEMMA LaterNot ==
  ASSUME NEW m, IsMem(m)
  PROVE  Later(m, m)
<1>1. Len(m.pmm) \in Nat
  BY DEF IsMem
<1> QED BY <1>1 DEF Later

(* It keeps what is noted so.                                              *)
LEMMA LaterNoted ==
  ASSUME NEW m, NEW n, IsMem(m), IsMem(n), Later(m, n)
  PROVE  /\ PmmFrames(m) \subseteq PmmFrames(n)
         /\ \A T : Noted(T, m) => Noted(T, n)
<1>1. /\ Len(m.pmm) \in Nat /\ DOMAIN m.pmm = 1 .. Len(m.pmm)
      /\ Len(n.pmm) \in Nat /\ DOMAIN n.pmm = 1 .. Len(n.pmm)
  BY DEF IsMem
<1>2. \A i \in DOMAIN m.pmm : i \in DOMAIN n.pmm /\ n.pmm[i] = m.pmm[i]
  BY <1>1 DEF Later
<1>3. PmmFrames(m) \subseteq PmmFrames(n)
  BY <1>2 DEF PmmFrames
<1>4. Len(n.pmm) < MaxPmm => Len(m.pmm) < MaxPmm
  BY <1>1, VirtualMemoryAssumption DEF Later
<1> QED BY <1>3, <1>4 DEF Noted

(* A frame for a table is of the pool, or it comes off the ranges, can be  *)
(* written, and is noted while there is room.                              *)
LEMMA TakeNoted ==
  ASSUME NEW m, IsMem(m), Sound(m), NEW reach \in SUBSET Nat, NEW a, a = TakeFrame(m, reach)
  PROVE  /\ IsMem(a.pool) /\ Sound(a.pool) /\ Later(m, a.pool)
         /\ a.status = "OK" =>
              /\ a.frame \in PoolFrames \cup (reach \cap RangeFrames(m.ranges))
              /\ Noted({a.frame}, a.pool)
<1>1. IsMem(a.pool)
  BY TakeFacts
<1>2. MemOk(a.pool)
  BY TakeClean DEF Sound
<1>3. ASSUME NEW n, IsMem(n), Sound(n), NEW b, b = FromPool(n)
      PROVE  /\ b.pool.ranges = n.ranges /\ b.pool.pmm = n.pmm
             /\ b.status = "OK" => b.frame \in PoolFrames
  <2>1. CASE n.pool < Len(Pool)
    <3>1. n.pool \in Nat /\ n.pool + 1 \in DOMAIN Pool
      BY <1>3, <2>1, LayoutAssumption DEF Sound, MemOk
    <3>2. b = [status |-> "OK", frame |-> Pool[n.pool + 1], pool |-> [n EXCEPT !.pool = @ + 1]]
      BY <1>3, <2>1 DEF FromPool
    <3>3. [n EXCEPT !.pool = @ + 1] = [ranges |-> n.ranges, pool |-> n.pool + 1, pmm |-> n.pmm]
      BY <1>3 DEF IsMem
    <3>4. b.frame = Pool[n.pool + 1]
      BY <3>2
    <3>5. b.frame \in PoolFrames
      BY <3>1, <3>4 DEF PoolFrames
    <3>6. b.pool = [ranges |-> n.ranges, pool |-> n.pool + 1, pmm |-> n.pmm]
      BY <3>2, <3>3
    <3> QED BY <3>5, <3>6
  <2>2. CASE ~(n.pool < Len(Pool))
    <3>1. b = [status |-> "NO_MEMORY", frame |-> 0, pool |-> n]
      BY <1>3, <2>2 DEF FromPool
    <3> QED BY <3>1
  <2> QED BY <2>1, <2>2
<1>4. ASSUME NEW n, IsMem(n), Sound(n), Later(m, n), a = FromPool(n)
      PROVE  /\ Sound(a.pool) /\ Later(m, a.pool)
             /\ a.status = "OK" => a.frame \in PoolFrames
  BY <1>2, <1>3, <1>4 DEF Sound, Later, PmmFrames
<1>5. \A f \in PoolFrames : Noted({f}, a.pool)
  BY DEF Noted
<1>6. CASE Exhausted(m.ranges)
  <2>1. a = FromPool(m)
    BY <1>6 DEF TakeFrame
  <2> QED BY <1>1, <1>4, <1>5, <2>1, LaterNot
<1>7. CASE ~Exhausted(m.ranges)
  <2>1. PICK f, left, rest : /\ f = NextFrame(m.ranges) /\ left = AfterAlloc(m.ranges)
                             /\ rest = [m EXCEPT !.ranges = left]
    OBVIOUS
  <2>2. /\ f \in RangeFrames(m.ranges) /\ f \in Nat
        /\ left \in Seq(FrameRange) /\ RangesApart(left)
        /\ RangeFrames(left) \subseteq RangeFrames(m.ranges) \ {f}
    BY <1>7, <2>1, AllocFacts DEF Sound, MemOk
  <2>3. rest = [ranges |-> left, pool |-> m.pool, pmm |-> m.pmm]
    BY <2>1 DEF IsMem
  <2>4. IsMem(rest) /\ rest.ranges = left /\ rest.pool = m.pool /\ rest.pmm = m.pmm
    BY <2>3 DEF IsMem
  <2>5. Sound(rest)
    BY <2>2, <2>4 DEF Sound, MemOk, PmmFrames
  <2>6. Later(m, rest)
    <3>1. Len(m.pmm) \in Nat
      BY DEF IsMem
    <3> QED BY <2>2, <2>4, <3>1 DEF Later
  <2>7. CASE f = 0 \/ f >= IdentityEnd
    <3>1. a = FromPool(rest)
      BY <1>7, <2>1, <2>7 DEF TakeFrame
    <3> QED BY <1>1, <1>4, <1>5, <2>4, <2>5, <2>6, <3>1
  <2>8. CASE ~(f = 0 \/ f >= IdentityEnd) /\ f \notin reach
    <3>1. a = [status |-> "FAULT", frame |-> 0, pool |-> rest]
      BY <1>7, <2>1, <2>8 DEF TakeFrame
    <3> QED BY <2>4, <2>5, <2>6, <3>1
  <2>9. CASE ~(f = 0 \/ f >= IdentityEnd) /\ f \in reach
    <3>1. a = [status |-> "OK", frame |-> f,
               pool |-> IF Len(m.pmm) < MaxPmm THEN [rest EXCEPT !.pmm = Append(@, f)]
                                               ELSE rest]
      BY <1>7, <2>1, <2>9 DEF TakeFrame
    <3>2. a.frame = f /\ a.frame \in reach \cap RangeFrames(m.ranges)
      BY <2>2, <2>9, <3>1
    <3>3. f \in BootReach
      <4>1. f \notin KernelFrames /\ f \notin TextFrames
        BY <2>2 DEF Sound
      <4>2. \A i \in DOMAIN KernelRegions : f \notin KernelRegions[i].start .. KernelRegions[i].end - 1
        BY <4>1 DEF KernelFrames
      <4>3. f \in 1 .. IdentityEnd - 1
        BY <2>2, <2>9, VirtualMemoryAssumption
      <4> QED BY <4>1, <4>2, <4>3 DEF BootReach, TextFrames
    <3>4. CASE Len(m.pmm) < MaxPmm
      <4>1. PICK q : q = Append(m.pmm, f)
        OBVIOUS
      <4>2. m.pmm \in Seq(Nat) /\ Len(m.pmm) \in Nat
        BY DEF IsMem
      <4>3. /\ q \in Seq(Nat) /\ Len(q) = Len(m.pmm) + 1 /\ DOMAIN q = 1 .. Len(q)
            /\ q[Len(m.pmm) + 1] = f
            /\ \A i \in 1 .. Len(m.pmm) : q[i] = m.pmm[i]
        BY <2>2, <4>1, <4>2
      <4>4. a.pool = [ranges |-> left, pool |-> m.pool, pmm |-> q]
        <5>3. \A x, y, z : [[ranges |-> x, pool |-> y, pmm |-> z] EXCEPT !.pmm = q]
                             = [ranges |-> x, pool |-> y, pmm |-> q]
          OBVIOUS
        <5>1. [rest EXCEPT !.pmm = q] = [ranges |-> left, pool |-> m.pool, pmm |-> q]
          BY <2>3, <5>3
        <5>2. a.pool = [rest EXCEPT !.pmm = Append(@, f)]
          BY <3>1, <3>4
        <5> QED BY <2>4, <4>1, <5>1, <5>2
      <4>5. a.pool.ranges = left /\ a.pool.pmm = q
        BY <4>4
      <4>6. PmmFrames(a.pool) = PmmFrames(m) \cup {f}
        <5>1. DOMAIN m.pmm = 1 .. Len(m.pmm)
          BY <4>2
        <5>2. DOMAIN q = DOMAIN m.pmm \cup {Len(m.pmm) + 1}
          BY <4>2, <4>3, <5>1
        <5>3. \A i \in DOMAIN m.pmm : q[i] = m.pmm[i]
          BY <4>3, <5>1
        <5>4. PmmFrames(a.pool) = {q[i] : i \in DOMAIN q}
          BY <4>5 DEF PmmFrames
        <5>5. PmmFrames(a.pool) \subseteq PmmFrames(m) \cup {f}
          <6>1. ASSUME NEW i \in DOMAIN q PROVE q[i] \in PmmFrames(m) \cup {f}
            BY <4>3, <5>2, <5>3 DEF PmmFrames
          <6> QED BY <5>4, <6>1
        <5>6. PmmFrames(m) \subseteq PmmFrames(a.pool)
          <6>1. ASSUME NEW i \in DOMAIN m.pmm PROVE m.pmm[i] \in PmmFrames(a.pool)
            BY <5>2, <5>3, <5>4
          <6> QED BY <6>1 DEF PmmFrames
        <5>7. f \in PmmFrames(a.pool)
          <6>1. Len(m.pmm) + 1 \in DOMAIN q
            BY <5>2
          <6> QED BY <4>3, <5>4, <6>1
        <5> QED BY <5>5, <5>6, <5>7
      <4>7. Sound(a.pool)
        <5>1. PmmFrames(a.pool) \cap RangeFrames(left) = {}
          BY <2>2, <4>6 DEF Sound
        <5>2. RangeFrames(left) \cap (KernelFrames \cup TextFrames) = {}
          BY <2>2 DEF Sound
        <5>3. PmmFrames(a.pool) \subseteq BootReach
          BY <3>3, <4>6 DEF Sound
        <5>4. Len(q) <= MaxPmm
          BY <3>4, <4>2, <4>3, VirtualMemoryAssumption
        <5> QED BY <1>2, <4>5, <5>1, <5>2, <5>3, <5>4 DEF Sound
      <4>8. Later(m, a.pool)
        <5>1. Len(m.pmm) <= Len(q)
          BY <4>2, <4>3
        <5> QED BY <2>2, <4>3, <4>5, <5>1 DEF Later
      <4>9. Noted({a.frame}, a.pool)
        BY <3>2, <4>6 DEF Noted
      <4> QED BY <1>1, <3>2, <4>7, <4>8, <4>9
    <3>5. CASE ~(Len(m.pmm) < MaxPmm)
      <4>1. a.pool = rest
        BY <3>1, <3>5
      <4>2. Noted({a.frame}, a.pool)
        BY <2>4, <3>5, <4>1 DEF Noted
      <4> QED BY <1>1, <2>5, <2>6, <3>2, <4>1, <4>2
    <3> QED BY <3>4, <3>5
  <2> QED BY <2>7, <2>8, <2>9
<1> QED BY <1>6, <1>7

(* What may become of the tables T and the sources m while frames are      *)
(* taken.                                                                  *)
Sources == [ranges : Seq(FrameRange), pool : Nat, pmm : Seq(Nat)]
Taken(T, m, reach) ==
  {w \in (SUBSET (T \cup PoolFrames \cup (reach \cap RangeFrames(m.ranges)))) \X Sources :
     Sound(w[2]) /\ Noted(w[1], w[2]) /\ Later(m, w[2])}

(* One frame more does not leave it.                                       *)
LEMMA TakenClosed ==
  ASSUME NEW T0, NEW m0, IsMem(m0), NEW reach \in SUBSET Nat
  PROVE  Closed(Taken(T0, m0, reach), reach)
<1> SUFFICES ASSUME NEW T, NEW m, <<T, m>> \in Taken(T0, m0, reach),
                    NEW a, a = TakeFrame(m, reach)
             PROVE  /\ <<T, a.pool>> \in Taken(T0, m0, reach)
                    /\ a.status = "OK" => <<T \cup {a.frame}, a.pool>> \in Taken(T0, m0, reach)
  BY DEF Closed
<1> DEFINE U == T0 \cup PoolFrames \cup (reach \cap RangeFrames(m0.ranges))
<1>1. T \in SUBSET U /\ m \in Sources /\ Sound(m) /\ Noted(T, m) /\ Later(m0, m)
  BY DEF Taken
<1>2. IsMem(m)
  BY <1>1 DEF IsMem, Sources
<1>3. /\ IsMem(a.pool) /\ Sound(a.pool) /\ Later(m, a.pool)
      /\ a.status = "OK" =>
           /\ a.frame \in PoolFrames \cup (reach \cap RangeFrames(m.ranges))
           /\ Noted({a.frame}, a.pool)
  BY <1>1, <1>2, TakeNoted
<1>4. Later(m0, a.pool) /\ Noted(T, a.pool)
  BY <1>1, <1>2, <1>3, LaterTwice, LaterNoted
<1>5. a.pool \in Sources
  <2>1. a.pool.ranges \in Seq(FrameRange) /\ a.pool.pool \in Nat
    BY <1>3, LayoutAssumption DEF Sound, MemOk
  <2> QED BY <1>3, <2>1 DEF IsMem, Sources
<1>6. a.status = "OK" => a.frame \in U
  BY <1>1, <1>3 DEF Later
<1>7. a.status = "OK" => Noted(T \cup {a.frame}, a.pool)
  BY <1>3, <1>4 DEF Noted
<1>8. a.status = "OK" => T \cup {a.frame} \in SUBSET U
  BY <1>1, <1>6
<1> HIDE DEF U
<1>9. \A x, y : x \in SUBSET U /\ y \in Sources /\ Sound(y) /\ Noted(x, y) /\ Later(m0, y)
                => <<x, y>> \in Taken(T0, m0, reach)
  BY DEF Taken, U
<1> QED BY <1>1, <1>3, <1>4, <1>5, <1>7, <1>8, <1>9

(* A space and the sources of its tables, with all leaves in A.            *)
Fits(sp, m, A) == Sound(m) /\ Noted(AS!TableFrames(sp), m) /\ LeavesIn(sp, A)

(* A mapping.                                                              *)
LEMMA MapFits ==
  ASSUME NEW sp, IsSpace(sp), NEW m, IsMem(m), NEW A, Fits(sp, m, A),
         NEW v \in Int, NEW frame \in Int, NEW n \in Nat, NEW flags, Admits(A, v, frame, n, flags),
         NEW reach \in SUBSET Nat, NEW r, r = AS!Map(sp, m, v, frame, n, flags, reach)
  PROVE  /\ Good(r) /\ Fits(r.sp, r.m, A) /\ Later(m, r.m)
         /\ AS!TableFrames(r.sp) \subseteq
              AS!TableFrames(sp) \cup PoolFrames \cup (reach \cap RangeFrames(m.ranges))
<1> DEFINE T == AS!TableFrames(sp)
           J == Taken(T, m, reach)
<1>1. <<T, m>> \in J
  <2>1. m \in Sources
    <3>1. m.ranges \in Seq(FrameRange) /\ m.pool \in Nat
      BY LayoutAssumption DEF Fits, Sound, MemOk
    <3> QED BY <3>1 DEF IsMem, Sources
  <2>2. Later(m, m)
    BY LaterNot
  <2> HIDE DEF T
  <2>3. Sound(m) /\ Noted(T, m)
    BY DEF Fits, T
  <2> QED BY <2>1, <2>2, <2>3 DEF Taken
<1>2. Closed(J, reach)
  <2> HIDE DEF T
  <2> QED BY TakenClosed
<1>3. LeavesIn(sp, A)
  BY DEF Fits
<1> HIDE DEF J
<1>4. Held(r, J, A)
  BY <1>1, <1>2, <1>3, MapClosed
<1> HIDE DEF T
<1>5. PICK x, y : x = AS!TableFrames(r.sp) /\ y = r.m
  OBVIOUS
<1>6. <<x, y>> \in Taken(T, m, reach)
  BY <1>4, <1>5 DEF Held, J
<1>7. /\ x \subseteq T \cup PoolFrames \cup (reach \cap RangeFrames(m.ranges))
      /\ Sound(y) /\ Noted(x, y) /\ Later(m, y)
  BY <1>6 DEF Taken
<1> QED BY <1>4, <1>5, <1>7 DEF Held, Fits, T

(* Requests whose leaves are in A.                                         *)
Fitting(bound, A) == {q \in Asked(bound) : Admits(A, q.v, q.frame, q.n, q.flags)}

(* A list of mappings: if it succeeds, every page asked for is mapped.     *)
LEMMA AllFits ==
  ASSUME NEW r, Good(r), NEW A, Fits(r.sp, r.m, A),
         NEW bound \in Int, NEW requests \in Seq(Fitting(bound, A)),
         NEW reach \in SUBSET Nat, NEW x, x = MapAll(r, requests, reach)
  PROVE  /\ Good(x) /\ Fits(x.sp, x.m, A) /\ Later(r.m, x.m)
         /\ x.status = "OK" =>
              \A i \in DOMAIN requests :
                requests[i].v .. requests[i].v + requests[i].n - 1 \subseteq DOMAIN x.sp.leaves
<1> DEFINE N == Len(requests)
           after == CHOOSE f : Mappings(f, r, requests, reach, N)
           pages(i) == requests[i].v .. requests[i].v + requests[i].n - 1
<1>1. N \in Nat /\ DOMAIN requests = 1 .. N
  OBVIOUS
<1>2. x = after[N]
  BY DEF MapAll, Mappings, Mapping
<1>3. Mappings(after, r, requests, reach, N)
  BY <1>1, MappingsExist
<1> HIDE DEF after, pages
<1>4. after[0] = r /\ \A i \in 1 .. N : after[i] = Mapping(after[i - 1], requests[i], reach)
  BY <1>1, <1>3 DEF Mappings
<1> DEFINE S == {k \in 0 .. N :
                   LET c == after[k] IN
                     /\ Good(c) /\ Fits(c.sp, c.m, A) /\ Later(r.m, c.m)
                     /\ c.status = "OK" => \A i \in 1 .. k : pages(i) \subseteq DOMAIN c.sp.leaves}
<1>5. 0 \in S
  <2>1. Later(r.m, r.m)
    BY LaterNot DEF Good
  <2>2. 1 .. 0 = {}
    OBVIOUS
  <2> QED BY <1>1, <1>4, <2>1, <2>2
<1>6. ASSUME NEW k \in 0 .. N - 1, k \in S PROVE k + 1 \in S
  <2>1. k + 1 \in 1 .. N /\ k + 1 - 1 = k /\ k + 1 \in 0 .. N
    BY <1>1
  <2>2. PICK a, c, q : a = after[k] /\ c = after[k + 1] /\ q = requests[k + 1]
    OBVIOUS
  <2>3. c = Mapping(a, q, reach)
    BY <1>4, <2>1, <2>2
  <2>4. q \in Asked(bound) /\ Admits(A, q.v, q.frame, q.n, q.flags)
    <3>1. q \in Fitting(bound, A)
      BY <1>1, <2>1, <2>2, SeqFacts
    <3> QED BY <3>1 DEF Fitting
  <2>5. /\ Good(a) /\ Fits(a.sp, a.m, A) /\ Later(r.m, a.m)
        /\ a.status = "OK" => \A i \in 1 .. k : pages(i) \subseteq DOMAIN a.sp.leaves
    BY <1>6, <2>2
  <2>6. CASE a.status # "OK"
    <3>1. c = a
      BY <2>3, <2>6 DEF Mapping
    <3> QED BY <2>1, <2>2, <2>5, <2>6, <3>1
  <2>7. CASE a.status = "OK"
    <3>1. q.v \in Int /\ q.frame \in Int /\ q.n \in Nat
      BY <2>4 DEF Asked
    <3>2. c = AS!Map(a.sp, a.m, q.v, q.frame, q.n, q.flags, reach)
      BY <2>3, <2>7 DEF Mapping
    <3>3. IsSpace(a.sp) /\ IsMem(a.m)
      BY <2>5 DEF Good
    <3>4. Mapped(c, a.sp, q.v, q.frame, q.n, q.flags)
      BY <3>1, <3>2, <3>3, MapFacts
    <3>5. Good(c) /\ Fits(c.sp, c.m, A) /\ Later(a.m, c.m)
      BY <2>4, <2>5, <3>1, <3>2, <3>3, MapFits
    <3>6. Later(r.m, c.m)
      BY <2>5, <3>5, LaterTwice DEF Good
    <3>7. ASSUME c.status = "OK", NEW i \in 1 .. k + 1 PROVE pages(i) \subseteq DOMAIN c.sp.leaves
      <4>1. CASE i = k + 1
        <5>1. DOMAIN c.sp.leaves = DOMAIN a.sp.leaves \cup (q.v .. q.v + q.n - 1)
          BY <3>4, <3>7 DEF Mapped
        <5> QED BY <2>2, <4>1, <5>1 DEF pages
      <4>2. CASE i # k + 1
        <5>1. i \in 1 .. k
          BY <4>2
        <5> QED BY <2>5, <2>7, <3>4, <5>1 DEF Mapped, Grown
      <4> QED BY <4>1, <4>2
    <3> QED BY <2>1, <2>2, <3>5, <3>6, <3>7
  <2> QED BY <2>6, <2>7
<1> HIDE DEF S
<1>7. N \in S
  <2>1. 0 .. N \subseteq S
    BY <1>1, <1>5, <1>6, UpTo
  <2> QED BY <1>1, <2>1
<1> QED BY <1>1, <1>2, <1>7 DEF S, pages

(* Leaves with their pages.  Views: a page that leads to a frame still on  *)
(* the ranges leads to the window or to a stack.  Straight: in the         *)
(* identity map a page leads to the frame of its number, and can be        *)
(* written where it could be at first.                                     *)
Leaf == Int \X [frame : Int, flags : SUBSET AS!Flag]
Views(m) ==
  {w \in Leaf : w[2].frame \in RangeFrames(m.ranges) => w[2].frame \in WindowFrames \cup StackFrames}
Straight ==
  {w \in Leaf : w[1] < IdentityEnd =>
                   w[2].frame = w[1] /\ (w[1] \in BootReach => "W" \in w[2].flags)}
Early(m) == Views(m) \cap Straight

(* More is viewed as less is on the ranges.                                *)
LEMMA ViewsLater ==
  ASSUME NEW m, NEW n, Later(m, n)
  PROVE  Views(m) \subseteq Views(n) /\ Early(m) \subseteq Early(n)
BY DEF Later, Views, Early

(* What fits goes on to fit.                                               *)
LEMMA FitsLater ==
  ASSUME NEW sp, NEW k, NEW m, NEW n, Later(m, n)
  PROVE  /\ Fits(sp, k, Views(m)) => Fits(sp, k, Views(n))
         /\ Fits(sp, k, Early(m)) => Fits(sp, k, Early(n))
         /\ Fits(sp, k, Early(m)) => Fits(sp, k, Views(m))
BY ViewsLater DEF Fits, LeavesIn, Early

(* One leaf.                                                               *)
LEMMA LeafIs ==
  ASSUME NEW v \in Int, NEW f \in Int, NEW flags \in SUBSET AS!Flag, NEW m
  PROVE  LET w == <<v, [frame |-> f, flags |-> AS!LeafFlags(flags)]>> IN
           /\ (f \in RangeFrames(m.ranges) => f \in WindowFrames \cup StackFrames) => w \in Views(m)
           /\ (v < IdentityEnd => f = v /\ (v \in BootReach => "W" \in flags)) => w \in Straight
<1>1. PICK e : e = [frame |-> f, flags |-> AS!LeafFlags(flags)]
  OBVIOUS
<1>2. PICK w : w = <<v, e>>
  OBVIOUS
<1>3. e.frame = f /\ e.flags = flags \cup {"R"} /\ e \in [frame : Int, flags : SUBSET AS!Flag]
  BY <1>1 DEF AS!LeafFlags, AS!Flag
<1>4. w \in Leaf /\ w[1] = v /\ w[2] = e
  BY <1>2, <1>3 DEF Leaf
<1>5. (f \in RangeFrames(m.ranges) => f \in WindowFrames \cup StackFrames) => w \in Views(m)
  BY <1>3, <1>4 DEF Views
<1>6. (v < IdentityEnd => f = v /\ (v \in BootReach => "W" \in flags)) => w \in Straight
  BY <1>3, <1>4 DEF Straight
<1> QED BY <1>1, <1>2, <1>5, <1>6

(* A page that is mapped straight can be written where it could be.        *)
LEMMA StraightReach ==
  ASSUME NEW sp, LeavesIn(sp, Straight), NEW f \in BootReach, f \in DOMAIN sp.leaves
  PROVE  f \in Reach(sp)
<1>1. PICK w : w = <<f, sp.leaves[f]>>
  OBVIOUS
<1>2. w \in Straight /\ w[1] = f /\ w[2] = sp.leaves[f]
  BY <1>1 DEF LeavesIn
<1>3. f \in 0 .. IdentityEnd - 1 /\ f < IdentityEnd
  BY VirtualMemoryAssumption DEF BootReach
<1> QED BY <1>2, <1>3 DEF Straight, Reach

(* A mapping of frames at their own addresses that may be there already.   *)
LEMMA TolerableFits ==
  ASSUME NEW sp, IsSpace(sp), NEW m, IsMem(m), Fits(sp, m, Early(m)),
         NEW v \in Int, NEW n \in Nat, NEW flags \in SUBSET AS!Flag, "W" \in flags,
         \A i \in 0 .. n - 1 :
           v + i \in RangeFrames(m.ranges) => v + i \in WindowFrames \cup StackFrames,
         NEW reach \in SUBSET Nat,
         NEW t, t = Tolerated(AS!Map(sp, m, v, v, n, flags, reach))
  PROVE  /\ Good(t) /\ Fits(t.sp, t.m, Early(t.m)) /\ Later(m, t.m) /\ Grown(sp, t.sp)
         /\ t.status = "OK" /\ (n = 1 \/ \A i \in 0 .. n - 1 : v + i \notin DOMAIN sp.leaves) =>
              v .. v + n - 1 \subseteq DOMAIN t.sp.leaves
<1>1. PICK x : x = AS!Map(sp, m, v, v, n, flags, reach)
  OBVIOUS
<1>2. Mapped(x, sp, v, v, n, flags)
  BY <1>1, MapFacts
<1>3. Good(x) /\ Grown(sp, x.sp)
  BY <1>2 DEF Mapped
<1>4. /\ Good(t) /\ t.sp = x.sp /\ t.m = x.m
      /\ t.status = IF x.status = "BUSY" THEN "OK" ELSE x.status
  BY <1>1, <1>3, ToleratedIs
<1>5. Admits(Early(m), v, v, n, flags)
  <2> SUFFICES ASSUME NEW i \in 0 .. n - 1
               PROVE  <<v + i, [frame |-> v + i, flags |-> AS!LeafFlags(flags)]>> \in Early(m)
    BY DEF Admits
  <2>1. PICK u : u = v + i
    OBVIOUS
  <2>2. u \in Int /\ (u \in RangeFrames(m.ranges) => u \in WindowFrames \cup StackFrames)
    BY <2>1
  <2>3. <<u, [frame |-> u, flags |-> AS!LeafFlags(flags)]>> \in Early(m)
    BY <2>2, LeafIs DEF Early
  <2> QED BY <2>1, <2>3
<1>6. Fits(x.sp, x.m, Early(m)) /\ Later(m, x.m)
  BY <1>1, <1>5, MapFits
<1>7. Fits(x.sp, x.m, Early(x.m))
  BY <1>6, FitsLater
<1>8. ASSUME t.status = "OK", n = 1 \/ \A i \in 0 .. n - 1 : v + i \notin DOMAIN sp.leaves
      PROVE  v .. v + n - 1 \subseteq DOMAIN x.sp.leaves
  <2>1. CASE x.status = "OK"
    BY <1>2, <2>1 DEF Mapped
  <2>2. CASE x.status = "BUSY"
    <3>1. PICK i \in 0 .. n - 1 : v + i \in DOMAIN sp.leaves
      BY <1>2, <2>2 DEF Mapped
    <3>2. n = 1 /\ v + i = v
      BY <1>8, <3>1
    <3>3. v .. v + n - 1 = {v}
      BY <3>2
    <3> QED BY <1>3, <3>1, <3>2, <3>3 DEF Grown
  <2> QED BY <1>4, <1>8, <2>1, <2>2
<1> QED BY <1>3, <1>4, <1>6, <1>7, <1>8

(* The window and the aliases: when they succeed, every frame noted by     *)
(* then is mapped, and the window if no page of it was.                    *)
LEMMA PmmFits ==
  ASSUME NEW r, Good(r), Fits(r.sp, r.m, Early(r.m)),
         NEW reach \in SUBSET Nat, NEW x, x = MapPmmPages(r, reach)
  PROVE  /\ Good(x) /\ Fits(x.sp, x.m, Early(x.m)) /\ Later(r.m, x.m)
         /\ x.status = "OK" =>
              /\ r.status = "OK" /\ PmmFrames(x.m) \subseteq DOMAIN x.sp.leaves
              /\ WindowFrames \cap DOMAIN r.sp.leaves = {} => WindowFrames \subseteq DOMAIN x.sp.leaves
<1> DEFINE window == Tolerated(AS!Map(r.sp, r.m, WindowStart, WindowStart,
                                      LinkBase - WindowStart, WindowFlags, reach))
           from == CHOOSE f : AliasesOf(f, window, reach)
           N == MaxPmm + 1
<1>1. N \in Nat /\ N >= 1 /\ 1 \in 1 .. N /\ N \in 1 .. N
  BY VirtualMemoryAssumption
<1>2. CASE r.status # "OK"
  <2>1. x = r
    BY <1>2 DEF MapPmmPages
  <2>2. Later(r.m, r.m)
    BY LaterNot DEF Good
  <2> QED BY <1>2, <2>1, <2>2
<1>3. CASE r.status = "OK"
  <2>1. x = from[N]
    BY <1>3 DEF MapPmmPages, AliasesOf
  <2>2. AliasesOf(from, window, reach)
    <3> HIDE DEF window
    <3> QED BY AliasesOfExist
  <2>3. /\ Good(window) /\ Fits(window.sp, window.m, Early(window.m)) /\ Later(r.m, window.m)
        /\ window.status = "OK" /\ WindowFrames \cap DOMAIN r.sp.leaves = {} =>
             WindowFrames \subseteq DOMAIN window.sp.leaves
    <3>1. PICK n, flags, v : n = LinkBase - WindowStart /\ flags = WindowFlags /\ v = WindowStart
      OBVIOUS
    <3>2. PICK t : t = window
      OBVIOUS
    <3>3. /\ v \in Int /\ n \in Nat /\ flags \in SUBSET AS!Flag /\ "W" \in flags
          /\ IsSpace(r.sp) /\ IsMem(r.m)
      BY <3>1, VirtualMemoryAssumption DEF Good, WindowFlags, AS!Flag
    <3>4. t = Tolerated(AS!Map(r.sp, r.m, v, v, n, flags, reach))
      BY <3>1, <3>2
    <3> HIDE DEF window
    <3>5. /\ \A i \in 0 .. n - 1 : v + i \in WindowFrames
          /\ v .. v + n - 1 = WindowFrames
      BY <3>1, VirtualMemoryAssumption DEF WindowFrames
    <3>6. /\ Good(t) /\ Fits(t.sp, t.m, Early(t.m)) /\ Later(r.m, t.m)
          /\ t.status = "OK" /\ (n = 1 \/ \A i \in 0 .. n - 1 : v + i \notin DOMAIN r.sp.leaves) =>
               v .. v + n - 1 \subseteq DOMAIN t.sp.leaves
      BY <3>3, <3>4, <3>5, TolerableFits
    <3>7. WindowFrames \cap DOMAIN r.sp.leaves = {} =>
            \A i \in 0 .. n - 1 : v + i \notin DOMAIN r.sp.leaves
      BY <3>5
    <3> QED BY <3>2, <3>5, <3>6, <3>7
  <2> HIDE DEF window, from
  <2>4. \A i \in 1 .. N : from[i] = Alias(IF i = 1 THEN window ELSE from[i - 1], i, reach)
    BY <2>2 DEF AliasesOf, Alias
  <2> DEFINE Aliased(p, i) == \A j \in 1 .. i : j <= Len(p.m.pmm) => p.m.pmm[j] \in DOMAIN p.sp.leaves
             Kept(p) == /\ Good(p) /\ Fits(p.sp, p.m, Early(p.m)) /\ Later(r.m, p.m)
                        /\ Grown(window.sp, p.sp)
                        /\ p.status = "OK" => window.status = "OK"
  <2>5. ASSUME NEW p, Kept(p), NEW i \in 1 .. N, Aliased(p, i - 1),
               NEW c, c = Alias(p, i, reach)
        PROVE  Kept(c) /\ (c.status = "OK" => p.status = "OK" /\ Aliased(c, i))
    <3>1. /\ p.m.pmm \in Seq(Nat) /\ IsSpace(p.sp) /\ IsMem(p.m) /\ IsMem(r.m)
          /\ Len(p.m.pmm) \in Nat /\ i \in Nat /\ i # 0
      BY <1>1, <2>5 DEF Good, IsMem
    <3>2. CASE p.status # "OK" \/ i > Len(p.m.pmm)
      <4>1. c = p
        BY <2>5, <3>2 DEF Alias
      <4>2. ASSUME c.status = "OK", NEW j \in 1 .. i, j <= Len(c.m.pmm)
            PROVE  j \in 1 .. i - 1
        BY <3>1, <3>2, <4>1, <4>2
      <4> QED BY <2>5, <4>1, <4>2
    <3>3. CASE ~(p.status # "OK" \/ i > Len(p.m.pmm))
      <4>1. PICK v : v = p.m.pmm[i]
        OBVIOUS
      <4>2. i \in DOMAIN p.m.pmm /\ i <= Len(p.m.pmm)
        BY <3>1, <3>3
      <4>3. v \in Int
        BY <3>1, <4>1, <4>2
      <4>4. c = Tolerated(AS!Map(p.sp, p.m, v, v, 1, {"R", "W"}, reach))
        BY <2>5, <3>3, <4>1 DEF Alias
      <4>5. PICK flags, n : flags = {"R", "W"} /\ n = 1
        OBVIOUS
      <4>6. flags \in SUBSET AS!Flag /\ "W" \in flags /\ n \in Nat
        BY <4>5 DEF AS!Flag
      <4>7. c = Tolerated(AS!Map(p.sp, p.m, v, v, n, flags, reach))
        BY <4>4, <4>5
      <4>8. \A k \in 0 .. n - 1 :
              v + k \in RangeFrames(p.m.ranges) => v + k \in WindowFrames \cup StackFrames
        <5>1. v \in PmmFrames(p.m)
          BY <4>1, <4>2 DEF PmmFrames
        <5>2. v \notin RangeFrames(p.m.ranges)
          BY <2>5, <5>1 DEF Fits, Sound
        <5>3. \A k \in 0 .. n - 1 : v + k = v
          BY <4>3, <4>5
        <5> QED BY <5>2, <5>3
      <4>9. /\ Good(c) /\ Fits(c.sp, c.m, Early(c.m)) /\ Later(p.m, c.m) /\ Grown(p.sp, c.sp)
            /\ c.status = "OK" => v .. v + n - 1 \subseteq DOMAIN c.sp.leaves
        BY <2>5, <3>1, <4>3, <4>5, <4>6, <4>7, <4>8, TolerableFits
      <4>10. Later(r.m, c.m) /\ Grown(window.sp, c.sp)
        <5>1. IsMem(c.m)
          BY <4>9 DEF Good
        <5> QED BY <2>5, <3>1, <4>9, <5>1, LaterTwice, GrownTwice
      <4>11. p.status = "OK"
        BY <3>3
      <4>12. ASSUME c.status = "OK", NEW j \in 1 .. i PROVE c.m.pmm[j] \in DOMAIN c.sp.leaves
        <5>1. j \in 1 .. Len(p.m.pmm)
          BY <3>1, <4>2
        <5>2. c.m.pmm[j] = p.m.pmm[j]
          BY <4>9, <5>1 DEF Later
        <5>3. CASE j = i
          <6>1. v \in v .. v + n - 1
            BY <4>3, <4>5
          <6> QED BY <4>1, <4>9, <4>12, <5>2, <5>3, <6>1
        <5>4. CASE j # i
          <6>1. j \in 1 .. i - 1 /\ j <= Len(p.m.pmm)
            BY <3>1, <5>1, <5>4
          <6>2. p.m.pmm[j] \in DOMAIN p.sp.leaves
            BY <2>5, <6>1
          <6> QED BY <4>9, <5>2, <6>2 DEF Grown
        <5> QED BY <5>3, <5>4
      <4>13. Kept(c)
        BY <2>5, <4>9, <4>10, <4>11
      <4> QED BY <4>11, <4>12, <4>13
    <3> QED BY <3>2, <3>3
  <2>6. Kept(window)
    BY <2>3, GrownNot
  <2> HIDE DEF Kept
  <2> DEFINE S == {k \in 0 .. MaxPmm :
                     Kept(from[k + 1]) /\ (from[k + 1].status = "OK" => Aliased(from[k + 1], k + 1))}
  <2>7. 0 \in S
    <3>1. from[1] = Alias(window, 1, reach)
      BY <1>1, <2>4
    <3>2. 0 \in 0 .. MaxPmm /\ 0 + 1 = 1 /\ 1 - 1 = 0
      BY VirtualMemoryAssumption
    <3>3. Aliased(window, 0)
      OBVIOUS
    <3> HIDE DEF Aliased
    <3>4. Aliased(window, 1 - 1)
      BY <3>2, <3>3
    <3>5. Kept(from[1]) /\ (from[1].status = "OK" => Aliased(from[1], 1))
      BY <1>1, <2>5, <2>6, <3>1, <3>4
    <3> QED BY <3>2, <3>5
  <2> HIDE DEF Aliased
  <2>8. ASSUME NEW k \in 0 .. MaxPmm - 1, k \in S PROVE k + 1 \in S
    <3>1. PICK a, c, i : a = from[k + 1] /\ c = from[k + 1 + 1] /\ i = k + 1 + 1
      OBVIOUS
    <3>2. k + 1 \in 0 .. MaxPmm /\ i \in 1 .. N /\ i # 1 /\ i - 1 = k + 1
      BY <3>1, VirtualMemoryAssumption
    <3>3. c = Alias(a, i, reach)
      BY <2>4, <3>1, <3>2
    <3>4. Kept(a) /\ (a.status = "OK" => Aliased(a, i - 1))
      BY <2>8, <3>1, <3>2
    <3>5. CASE a.status = "OK"
      <4>1. Kept(c) /\ (c.status = "OK" => Aliased(c, i))
        BY <2>5, <3>2, <3>3, <3>4, <3>5
      <4> QED BY <3>1, <3>2, <4>1
    <3>6. CASE a.status # "OK"
      <4>1. c = a
        BY <3>3, <3>6 DEF Alias
      <4>2. Kept(c) /\ c.status # "OK"
        BY <3>4, <3>6, <4>1
      <4> QED BY <3>1, <3>2, <4>2
    <3> QED BY <3>5, <3>6
  <2> HIDE DEF S
  <2>9. MaxPmm \in S
    <3>1. 0 .. MaxPmm \subseteq S
      BY <2>7, <2>8, UpTo, VirtualMemoryAssumption
    <3> QED BY <3>1, VirtualMemoryAssumption
  <2>10. Kept(x) /\ (x.status = "OK" => Aliased(x, N))
    BY <2>1, <2>9 DEF S
  <2>11. /\ Good(x) /\ Fits(x.sp, x.m, Early(x.m)) /\ Later(r.m, x.m)
         /\ Grown(window.sp, x.sp) /\ (x.status = "OK" => window.status = "OK")
    BY <2>10 DEF Kept
  <2>12. ASSUME x.status = "OK" PROVE PmmFrames(x.m) \subseteq DOMAIN x.sp.leaves
    <3>1. Len(x.m.pmm) <= MaxPmm /\ Len(x.m.pmm) \in Nat /\ DOMAIN x.m.pmm = 1 .. Len(x.m.pmm)
      BY <2>11 DEF Fits, Sound, Good, IsMem
    <3>2. \A j \in DOMAIN x.m.pmm : j \in 1 .. N /\ j <= Len(x.m.pmm)
      BY <3>1, VirtualMemoryAssumption
    <3>3. \A j \in DOMAIN x.m.pmm : x.m.pmm[j] \in DOMAIN x.sp.leaves
      BY <2>10, <2>12, <3>2 DEF Aliased
    <3> QED BY <3>3 DEF PmmFrames
  <2>13. WindowFrames \subseteq DOMAIN window.sp.leaves => WindowFrames \subseteq DOMAIN x.sp.leaves
    BY <2>11 DEF Grown
  <2> QED BY <1>3, <2>3, <2>11, <2>12, <2>13
<1> QED BY <1>2, <1>3

(* The frames that every process maps to write them.                       *)
Common == BootReach \cap (WindowFrames \cup StackFrames \cup KernelFrames)

(* Two lists in a row have the elements of both.                           *)
LEMMA BothLists ==
  ASSUME NEW S, NEW p \in Seq(S), NEW q \in Seq(S)
  PROVE  /\ p \o q \in Seq(S)
         /\ \A i \in DOMAIN p : \E j \in DOMAIN (p \o q) : (p \o q)[j] = p[i]
         /\ \A i \in DOMAIN q : \E j \in DOMAIN (p \o q) : (p \o q)[j] = q[i]
<1>1. p \o q \in Seq(S)
  OBVIOUS
<1>2. ASSUME NEW i \in DOMAIN p PROVE \E j \in DOMAIN (p \o q) : (p \o q)[j] = p[i]
  <2>1. i \in DOMAIN (p \o q) /\ (p \o q)[i] = p[i]
    OBVIOUS
  <2> QED BY <2>1
<1>3. ASSUME NEW i \in DOMAIN q PROVE \E j \in DOMAIN (p \o q) : (p \o q)[j] = q[i]
  <2>1. Len(p) + i \in DOMAIN (p \o q) /\ (p \o q)[Len(p) + i] = q[i]
    OBVIOUS
  <2> QED BY <2>1
<1> QED BY <1>1, <1>2, <1>3

(* What the kernel asks to be mapped of itself and of the stacks is        *)
(* straight in the identity map and beyond it in the high half.            *)
LEMMA KernelFits ==
  ASSUME NEW m, Sound(m)
  PROVE  /\ UserRequests \in Seq(Fitting(LinkBase, Early(m)))
         /\ KernelRequests \in Seq(Fitting(LinkBase, Early(m)))
         /\ HighRequests \in Seq(Fitting(LinkBase, Early(m)))
<1> DEFINE A == Early(m)
           F == Fitting(LinkBase, A)
<1>1. ASSUME NEW v \in Int, NEW f \in Int, NEW n \in Nat, NEW flags \in SUBSET AS!Flag,
             LinkBase <= v,
             \A i \in 0 .. n - 1 :
               /\ f + i \in RangeFrames(m.ranges) => f + i \in WindowFrames \cup StackFrames
               /\ v + i < IdentityEnd => f = v /\ (v + i \in BootReach => "W" \in flags)
      PROVE  Request(v, f, n, flags) \in F
  <2>1. ASSUME NEW i \in 0 .. n - 1
        PROVE  <<v + i, [frame |-> f + i, flags |-> AS!LeafFlags(flags)]>> \in A
    <3>1. PICK w, g : w = v + i /\ g = f + i
      OBVIOUS
    <3>2. /\ w \in Int /\ g \in Int
          /\ g \in RangeFrames(m.ranges) => g \in WindowFrames \cup StackFrames
          /\ w < IdentityEnd => g = w /\ (w \in BootReach => "W" \in flags)
      BY <1>1, <3>1
    <3>3. <<w, [frame |-> g, flags |-> AS!LeafFlags(flags)]>> \in A
      BY <3>2, LeafIs DEF Early
    <3> QED BY <3>1, <3>3
  <2>2. PICK q : q = [v |-> v, frame |-> f, n |-> n, flags |-> flags]
    OBVIOUS
  <2>3. q \in Asked(LinkBase) /\ q.v = v /\ q.frame = f /\ q.n = n /\ q.flags = flags
    BY <1>1, <2>2 DEF Asked
  <2> HIDE DEF A
  <2>4. Admits(A, q.v, q.frame, q.n, q.flags)
    BY <2>1, <2>3 DEF Admits
  <2> QED BY <2>2, <2>3, <2>4 DEF Fitting, Request
<1> HIDE DEF F, A
<1>2. Request(UserText.start, UserText.start, UserText.end - UserText.start, {"R", "X", "U"}) \in F
  <2>1. PICK v, n, flags : v = UserText.start /\ n = UserText.end - UserText.start /\ flags = {"R", "X", "U"}
    OBVIOUS
  <2>2. v \in Int /\ n \in Nat /\ LinkBase <= v /\ flags \in SUBSET AS!Flag
    BY <2>1, LinkAssumption DEF AS!Flag
  <2>3. \A i \in 0 .. n - 1 : v + i \in TextFrames
    BY <2>1, LinkAssumption DEF TextFrames
  <2>4. TextFrames \cap RangeFrames(m.ranges) = {} /\ TextFrames \cap BootReach = {}
    BY DEF Sound, BootReach, TextFrames
  <2>5. Request(v, v, n, flags) \in F
    BY <1>1, <2>2, <2>3, <2>4
  <2> QED BY <2>1, <2>5
<1>3. ASSUME NEW j \in DOMAIN Stacks PROVE Request(Stacks[j], Stacks[j], 1, {"R", "W", "U"}) \in F
  <2>1. PICK v, n, flags : v = Stacks[j] /\ n = 1 /\ flags = {"R", "W", "U"}
    OBVIOUS
  <2>2. v \in Int /\ n \in Nat /\ LinkBase <= v /\ flags \in SUBSET AS!Flag /\ "W" \in flags
    BY <2>1, LinkAssumption DEF AS!Flag
  <2>3. \A i \in 0 .. n - 1 : v + i = v
    BY <2>1, <2>2
  <2>4. v \in StackFrames
    BY <2>1 DEF StackFrames
  <2>5. Request(v, v, n, flags) \in F
    BY <1>1, <2>2, <2>3, <2>4
  <2> QED BY <2>1, <2>5
<1>4. ASSUME NEW j \in DOMAIN KernelRegions
      PROVE  LET k == KernelRegions[j] IN
               /\ Request(k.start, k.start, k.end - k.start, k.flags) \in F
               /\ Request(HighPage(k.start), k.start, k.end - k.start, k.flags) \in F
  <2>1. PICK k, v, n, h : /\ k = KernelRegions[j] /\ v = k.start /\ n = k.end - k.start
                          /\ h = HighPage(k.start)
    OBVIOUS
  <2>2. k \in [start : Nat, end : Nat, flags : SUBSET {"R", "W", "X"}]
    BY <2>1, LinkAssumption, SeqFacts
  <2>3. k.flags \in SUBSET AS!Flag
    BY <2>2 DEF AS!Flag
  <2>4. /\ v \in Int /\ n \in Nat /\ LinkBase <= v /\ k.start \in Nat /\ k.end \in Nat
        /\ v <= IdentityEnd
    <3>1. k.start \in Nat /\ k.end \in Nat
      BY <2>2
    <3>2. LinkBase <= k.start /\ k.start < k.end /\ k.end <= IdentityEnd
      BY <2>1, LinkAssumption
    <3> QED BY <2>1, <3>1, <3>2, VirtualMemoryAssumption
  <2>5. h \in Int /\ LinkBase <= h /\ \A i \in 0 .. n - 1 : ~(h + i < IdentityEnd)
    <3>1. h = HighBase + (v - LinkBase) /\ IdentityEnd <= HighBase /\ LinkBase < IdentityEnd
          /\ HighBase \in Nat /\ LinkBase \in Nat /\ IdentityEnd \in Nat
      BY <2>1, LinkAssumption, VirtualMemoryAssumption DEF HighPage
    <3>2. h \in Int /\ h >= IdentityEnd
      BY <2>4, <3>1
    <3> QED BY <2>4, <3>1, <3>2
  <2>6. \A i \in 0 .. n - 1 : v + i \in KernelRegions[j].start .. KernelRegions[j].end - 1
    BY <2>1, <2>4
  <2>7. KernelRegions[j].start .. KernelRegions[j].end - 1 \subseteq KernelFrames
    BY DEF KernelFrames
  <2>8. KernelFrames \cap RangeFrames(m.ranges) = {}
    BY DEF Sound
  <2>9. \A i \in 0 .. n - 1 : v + i \in BootReach => "W" \in k.flags
    BY <2>1, <2>6 DEF BootReach
  <2>10. \A i \in 0 .. n - 1 : v + i \notin RangeFrames(m.ranges)
    BY <2>6, <2>7, <2>8
  <2>11. Request(v, v, n, k.flags) \in F
    BY <1>1, <2>3, <2>4, <2>9, <2>10
  <2>12. Request(h, v, n, k.flags) \in F
    BY <1>1, <2>3, <2>4, <2>5, <2>10
  <2> QED BY <2>1, <2>11, <2>12
<1>5. DOMAIN KernelRegions = 1 .. Len(KernelRegions) /\ Len(KernelRegions) \in Nat
  BY LinkAssumption
<1>6. KernelRequests \in Seq(F) /\ HighRequests \in Seq(F)
  BY <1>4, <1>5 DEF KernelRequests, HighRequests
<1>7. UserRequests \in Seq(F)
  <2>1. DOMAIN Stacks = 1 .. Len(Stacks) /\ Len(Stacks) \in Nat
    BY LinkAssumption
  <2>2. [i \in DOMAIN Stacks |-> Request(Stacks[i], Stacks[i], 1, {"R", "W", "U"})] \in Seq(F)
    BY <1>3, <2>1
  <2> QED BY <1>2, <2>2 DEF UserRequests
<1> QED BY <1>6, <1>7 DEF F, A

(* The pages of the requests: the kernel and the stacks are among them.    *)
LEMMA KernelIsThere ==
  ASSUME NEW f \in KernelFrames \cup StackFrames
  PROVE  LET requests == LowRequests \o HighRequests IN
           \E i \in DOMAIN requests : f \in requests[i].v .. requests[i].v + requests[i].n - 1
<1> DEFINE S == Asked(LinkBase)
           In(q) == f \in q.v .. q.v + q.n - 1
<1>1. UserRequests \in Seq(S) /\ KernelRequests \in Seq(S) /\ HighRequests \in Seq(S)
  BY KernelIsAsked
<1> HIDE DEF S, In
<1>2. (\E i \in DOMAIN UserRequests : In(UserRequests[i])) \/
      (\E i \in DOMAIN KernelRequests : In(KernelRequests[i]))
  <2>1. CASE f \in KernelFrames
    <3>1. PICK i \in DOMAIN KernelRegions : f \in KernelRegions[i].start .. KernelRegions[i].end - 1
      BY <2>1 DEF KernelFrames
    <3>2. KernelRegions[i].start \in Nat /\ KernelRegions[i].end \in Nat
      <4>1. KernelRegions[i] \in [start : Nat, end : Nat, flags : SUBSET {"R", "W", "X"}]
        BY LinkAssumption, SeqFacts
      <4> QED BY <4>1
    <3>3. i \in DOMAIN KernelRequests
          /\ KernelRequests[i].v = KernelRegions[i].start
          /\ KernelRequests[i].n = KernelRegions[i].end - KernelRegions[i].start
      BY DEF KernelRequests, Request
    <3> QED BY <3>1, <3>2, <3>3 DEF In
  <2>2. CASE f \in StackFrames
    <3>1. PICK j \in DOMAIN Stacks : f = Stacks[j]
      BY <2>2 DEF StackFrames
    <3>2. DOMAIN Stacks = 1 .. Len(Stacks) /\ Len(Stacks) \in Nat /\ f \in Nat
      BY <3>1, LinkAssumption
    <3> DEFINE text == Request(UserText.start, UserText.start, UserText.end - UserText.start,
                               {"R", "X", "U"})
               stacks == [i \in DOMAIN Stacks |-> Request(Stacks[i], Stacks[i], 1, {"R", "W", "U"})]
    <3>3. stacks[j].v = f /\ stacks[j].n = 1
      BY <3>1 DEF Request
    <3>4. UserRequests = <<text>> \o stacks
      BY DEF UserRequests
    <3>5. Len(stacks) = Len(Stacks) /\ stacks = [i \in 1 .. Len(Stacks) |-> stacks[i]]
      BY <3>2
    <3> HIDE DEF text, stacks
    <3>6. 1 + j \in DOMAIN (<<text>> \o stacks) /\ (<<text>> \o stacks)[1 + j] = stacks[j]
      BY <3>2, <3>5
    <3>7. In(stacks[j])
      BY <3>2, <3>3 DEF In
    <3> QED BY <3>4, <3>6, <3>7
  <2> QED BY <2>1, <2>2
<1>3. PICK u, k, h : u = UserRequests /\ k = KernelRequests /\ h = HighRequests
  OBVIOUS
<1>4. u \in Seq(S) /\ k \in Seq(S) /\ h \in Seq(S) /\ u \o k \in Seq(S)
  BY <1>1, <1>3, BothLists
<1>5. \E i \in DOMAIN (u \o k) : In((u \o k)[i])
  <2>1. CASE \E i \in DOMAIN u : In(u[i])
    <3>1. PICK i \in DOMAIN u : In(u[i])
      BY <2>1
    <3>2. PICK j \in DOMAIN (u \o k) : (u \o k)[j] = u[i]
      BY <1>4, BothLists
    <3> QED BY <3>1, <3>2
  <2>2. CASE \E i \in DOMAIN k : In(k[i])
    <3>1. PICK i \in DOMAIN k : In(k[i])
      BY <2>2
    <3>2. PICK j \in DOMAIN (u \o k) : (u \o k)[j] = k[i]
      BY <1>4, BothLists
    <3> QED BY <3>1, <3>2
  <2> QED BY <1>2, <1>3, <2>1, <2>2
<1>6. \E i \in DOMAIN ((u \o k) \o h) : In(((u \o k) \o h)[i])
  <2>1. PICK l : l = u \o k
    OBVIOUS
  <2>2. PICK i \in DOMAIN l : In(l[i])
    BY <1>5, <2>1
  <2>4. l \in Seq(S) /\ h \in Seq(S)
    BY <1>4, <2>1
  <2>3. PICK j \in DOMAIN (l \o h) : (l \o h)[j] = l[i]
    BY <2>4, BothLists
  <2> QED BY <2>1, <2>2, <2>3
<1> QED BY <1>3, <1>6 DEF LowRequests, In

(* What can be reached stays so while a space grows.                       *)
LEMMA ReachGrows ==
  ASSUME NEW a, NEW b, Grown(a, b)
  PROVE  Reach(a) \subseteq Reach(b)
BY DEF Reach, Grown

(* A new space has nothing mapped.                                         *)
LEMMA EmptyFits ==
  ASSUME NEW f, NEW m, Sound(m), Noted({f}, m), NEW e, e = AS!EmptySpace(f), NEW A
  PROVE  Fits(e, m, A)
<1>1. e.tables = <<>> /\ e.leaves = <<>> /\ AS!TableFrames(e) = {f}
  BY EmptyClean DEF AS!EmptySpace
<1>2. DOMAIN e.leaves = {}
  BY <1>1
<1> QED BY <1>1, <1>2 DEF Fits, LeavesIn

(* A new root maps what is common to all, and every table frame noted by   *)
(* then, where the kernel can write it.                                    *)
LEMMA InitFits ==
  ASSUME NEW m, IsMem(m), Sound(m), NEW reach \in SUBSET Nat,
         NEW x, x = InitSpace(m, reach), x.status = "OK"
  PROVE  /\ Good(x) /\ Fits(x.sp, x.m, Early(x.m)) /\ Later(m, x.m)
         /\ Common \subseteq Reach(x.sp) /\ PmmFrames(x.m) \subseteq Reach(x.sp)
<1>1. PICK root : root = TakeFrame(m, reach)
  OBVIOUS
<1>2. /\ IsMem(root.pool) /\ Sound(root.pool) /\ Later(m, root.pool)
      /\ root.status = "OK" => Noted({root.frame}, root.pool)
  BY <1>1, TakeNoted
<1>3. root.status = "OK"
  <2> SUFFICES ASSUME root.status # "OK" PROVE FALSE
    OBVIOUS
  <2>1. x = AS!Outcome(AS!EmptySpace(0), root.pool, root.status)
    BY <1>1 DEF InitSpace
  <2> QED BY <2>1 DEF AS!Outcome
<1>4. PICK e, o, q : /\ e = AS!EmptySpace(root.frame) /\ o = AS!Outcome(e, root.pool, "OK")
                     /\ q = LowRequests \o HighRequests
  OBVIOUS
<1>5. PICK a : a = MapAll(o, q, reach)
  OBVIOUS
<1>6. x = MapPmmPages(a, reach)
  BY <1>1, <1>3, <1>4, <1>5 DEF InitSpace
<1>7. PICK A, bound : A = Early(root.pool) /\ bound = LinkBase
  OBVIOUS
<1>8. IsSpace(e) /\ DOMAIN e.leaves = {}
  <2>1. e.leaves = <<>>
    BY <1>4 DEF AS!EmptySpace
  <2> QED BY <1>4, <2>1, EmptyClean
<1>9. Good(o) /\ o.sp = e /\ o.m = root.pool
  BY <1>2, <1>4, <1>8, OutcomeIs
<1>10. Fits(o.sp, o.m, A)
  BY <1>2, <1>3, <1>4, <1>9, EmptyFits
<1>11. bound \in Int /\ q \in Seq(Fitting(bound, A)) /\ q \in Seq(Asked(bound))
  <2>1. PICK u, k, h, S : /\ u = UserRequests /\ k = KernelRequests /\ h = HighRequests
                          /\ S = Fitting(LinkBase, Early(root.pool))
    OBVIOUS
  <2>2. u \in Seq(S) /\ k \in Seq(S) /\ h \in Seq(S)
    BY <1>2, <2>1, KernelFits
  <2>3. PICK l : l = u \o k
    OBVIOUS
  <2>4. l \in Seq(S)
    BY <2>2, <2>3, BothLists
  <2>5. l \o h \in Seq(S)
    BY <2>2, <2>4, BothLists
  <2>6. q = l \o h
    BY <1>4, <2>1, <2>3 DEF LowRequests
  <2>7. q \in Seq(Asked(bound))
    BY <1>4, <1>7, KernelIsAsked
  <2> QED BY <1>7, <2>1, <2>5, <2>6, <2>7, VirtualMemoryAssumption
<1>12. /\ Good(a) /\ Fits(a.sp, a.m, A) /\ Later(root.pool, a.m)
       /\ a.status = "OK" => \A i \in DOMAIN q : q[i].v .. q[i].v + q[i].n - 1 \subseteq DOMAIN a.sp.leaves
  BY <1>5, <1>9, <1>10, <1>11, AllFits
<1>13. Fits(a.sp, a.m, Early(a.m))
  BY <1>7, <1>12, FitsLater
<1>14. /\ Good(x) /\ Fits(x.sp, x.m, Early(x.m)) /\ Later(a.m, x.m)
       /\ a.status = "OK" /\ PmmFrames(x.m) \subseteq DOMAIN x.sp.leaves
       /\ WindowFrames \cap DOMAIN a.sp.leaves = {} => WindowFrames \subseteq DOMAIN x.sp.leaves
  BY <1>6, <1>12, <1>13, PmmFits
<1>15. Later(m, x.m)
  <2>1. IsMem(a.m) /\ IsMem(x.m)
    BY <1>12, <1>14 DEF Good
  <2>2. Later(m, a.m)
    BY <1>2, <1>12, <2>1, LaterTwice
  <2> QED BY <1>14, <2>1, <2>2, LaterTwice
<1>16. Grown(a.sp, x.sp)
  BY <1>6, <1>12, PmmFacts
<1>17. WindowFrames \subseteq DOMAIN x.sp.leaves
  <2>1. \A w \in DOMAIN a.sp.leaves : w \in DOMAIN o.sp.leaves \/ (w \in Int /\ bound <= w)
    BY <1>5, <1>9, <1>11, <1>14, AllFacts
  <2>2. \A w \in WindowFrames : ~(LinkBase <= w)
    BY VirtualMemoryAssumption DEF WindowFrames
  <2>3. WindowFrames \cap DOMAIN a.sp.leaves = {}
    BY <1>7, <1>8, <1>9, <2>1, <2>2
  <2> QED BY <1>14, <2>3
<1>18. KernelFrames \cup StackFrames \subseteq DOMAIN x.sp.leaves
  <2> SUFFICES ASSUME NEW f \in KernelFrames \cup StackFrames PROVE f \in DOMAIN x.sp.leaves
    OBVIOUS
  <2>1. PICK i \in DOMAIN q : f \in q[i].v .. q[i].v + q[i].n - 1
    BY <1>4, KernelIsThere
  <2>2. f \in DOMAIN a.sp.leaves
    BY <1>12, <1>14, <2>1
  <2> QED BY <1>16, <2>2 DEF Grown
<1>19. LeavesIn(x.sp, Straight)
  BY <1>14 DEF Fits, LeavesIn, Early
<1>20. Common \subseteq Reach(x.sp)
  <2>1. \A f \in Common : f \in BootReach /\ f \in DOMAIN x.sp.leaves
    BY <1>17, <1>18 DEF Common
  <2> QED BY <1>19, <2>1, StraightReach
<1>21. PmmFrames(x.m) \subseteq Reach(x.sp)
  <2>1. \A f \in PmmFrames(x.m) : f \in BootReach /\ f \in DOMAIN x.sp.leaves
    BY <1>14 DEF Fits, Sound
  <2> QED BY <1>19, <2>1, StraightReach
<1> QED BY <1>14, <1>15, <1>20, <1>21

(* While the machine is up every process maps what is common to all, and   *)
(* no page but one of the window or of a stack leads to a frame that can   *)
(* still be taken; until the image is mapped the identity map is straight. *)
WalkInv ==
  outcome = "up" =>
    /\ Sound(mem)
    /\ \A p \in DOMAIN space :
         /\ Fits(space[p], mem, Views(mem)) /\ Common \subseteq Reach(space[p])
         /\ ~Booted => LeavesIn(space[p], Straight)

(* Where the boot sequence is when it does what.                           *)
LEMMA PhaseFacts ==
  ASSUME phase \in 0 .. Len(BootOrder)
  PROVE  /\ Doing("load") => phase = 0
         /\ Doing("space") => phase \in {1, 2, 4}
         /\ Doing("alias") => phase = 3
         /\ Doing("image") => phase >= 4 /\ phase + 1 = Len(BootOrder)
         /\ phase = 3 => Built(phase) = 2 /\ ~Booted
<1>1. CASE NumSpaces = 2
  <2>1. BootOrder = <<"load", "space", "space", "alias", "image">>
    BY <1>1 DEF BootOrder
  <2>2. phase \in 0 .. 5 /\ (Booted <=> phase = 5) /\ Len(BootOrder) = 5
    BY <2>1 DEF Booted
  <2>3. \A step : Doing(step) => ~Booted /\ <<"load", "space", "space", "alias", "image">>[phase + 1] = step
    BY <2>1 DEF Doing
  <2>4. /\ Doing("load") => phase = 0
        /\ Doing("space") => phase \in {1, 2}
        /\ Doing("alias") => phase = 3
        /\ Doing("image") => phase = 4
    BY <2>2, <2>3
  <2> QED BY <2>2, <2>4 DEF Built
<1>2. CASE NumSpaces = 3
  <2>1. BootOrder = <<"load", "space", "space", "alias", "space", "image">>
    BY <1>2 DEF BootOrder
  <2>2. phase \in 0 .. 6 /\ (Booted <=> phase = 6) /\ Len(BootOrder) = 6
    BY <2>1 DEF Booted
  <2>3. \A step : Doing(step) =>
          ~Booted /\ <<"load", "space", "space", "alias", "space", "image">>[phase + 1] = step
    BY <2>1 DEF Doing
  <2>4. /\ Doing("load") => phase = 0
        /\ Doing("space") => phase \in {1, 2, 4}
        /\ Doing("alias") => phase = 3
        /\ Doing("image") => phase = 5
    BY <2>2, <2>3
  <2> QED BY <2>2, <2>4 DEF Built
<1> QED BY <1>1, <1>2, VirtualMemoryAssumption

(* The spaces an operation leaves alone.                                   *)
LEMMA OthersFit ==
  ASSUME NEW sp, NEW m, IsMem(m), Fits(sp, m, Views(m)), NEW n, IsMem(n), Sound(n), Later(m, n)
  PROVE  Fits(sp, n, Views(n))
<1>1. Noted(AS!TableFrames(sp), n)
  BY LaterNoted DEF Fits
<1>2. LeavesIn(sp, Views(n))
  BY ViewsLater DEF Fits, LeavesIn
<1> QED BY <1>1, <1>2 DEF Fits

(* A space that is viewed and straight is so as early as can be.           *)
LEMMA EarlyIs ==
  ASSUME NEW sp, NEW m
  PROVE  Fits(sp, m, Early(m)) <=> Fits(sp, m, Views(m)) /\ LeavesIn(sp, Straight)
BY DEF Fits, LeavesIn, Early

(* At first nothing is mapped and nothing noted.                           *)
LEMMA WalkInit == Init => WalkInv
<1> SUFFICES ASSUME Init PROVE WalkInv
  OBVIOUS
<1>1. DOMAIN space = {} /\ mem.pmm = <<>> /\ boot \in Boots
  BY DEF Init
<1>2. MemOk(mem) /\ RangeFrames(mem.ranges) \cap (KernelFrames \cup TextFrames) = {}
  <2>1. PICK rs : rs = Ranges(boot.map, boot.reserved)
    OBVIOUS
  <2>2. mem.ranges = rs
    BY <2>1 DEF Init
  <2>3. IsMap(boot.map) /\ IsReserved(boot.reserved)
    BY <1>1, LoaderAssumption DEF IsMap, IsReserved, Entry
  <2>4. RangeFrames(rs) \subseteq FreeFrames(boot.map, boot.reserved)
    BY <2>1, <2>3, RangesAreFree DEF FreeRanges
  <2> QED BY <1>1, <2>2, <2>4, TidyInit, KernelIsNotFree DEF TidyInv, Tidily
<1>3. PmmFrames(mem) = {} /\ Len(mem.pmm) <= MaxPmm
  <2>1. Len(mem.pmm) = 0 /\ DOMAIN mem.pmm = {}
    BY <1>1
  <2> QED BY <2>1, VirtualMemoryAssumption DEF PmmFrames
<1> QED BY <1>1, <1>2, <1>3 DEF WalkInv, Sound

(* A new process.                                                          *)
LEMMA WalkSpace ==
  ASSUME VMInv, WalkInv, BootSpace, outcome' = "up"
  PROVE  /\ WalkInv' /\ Later(mem, mem')
         /\ \A p \in DOMAIN space : p \in DOMAIN space' /\ space'[p] = space[p]
         /\ \A p \in DOMAIN space' : p \notin DOMAIN space => PmmFrames(mem') \subseteq Reach(space'[p])
<1>1. PICK p, r : p = Cardinality(DOMAIN space) /\ r = InitSpace(mem, BootReach)
  OBVIOUS
<1>2. /\ Doing("space") /\ outcome = "up" /\ ~Booted /\ phase' = phase + 1
      /\ space' = AS!With(space, p, r.sp) /\ mem' = r.m /\ r.status = "OK"
  BY <1>1, HaltIs DEF BootSpace, Doing
<1>3. p \notin DOMAIN space
  <2>1. PICK K : K = Built(phase)
    OBVIOUS
  <2>2. K \in Nat /\ DOMAIN space = 0 .. K - 1
    BY <2>1, OrderFacts DEF VMInv
  <2>3. 0 \in Int /\ K - 1 \in Int
    BY <2>2
  <2>4. Cardinality(0 .. K - 1) = IF 0 > K - 1 THEN 0 ELSE K - 1 - 0 + 1
    BY <2>3, FS_Interval
  <2> QED BY <1>1, <2>2, <2>4
<1>4. /\ DOMAIN space' = DOMAIN space \cup {p} /\ space'[p] = r.sp
      /\ \A q \in DOMAIN space : q \in DOMAIN space' /\ space'[q] = space[q]
  BY <1>2, <1>3 DEF AS!With
<1>5. IsMem(mem) /\ Sound(mem)
  BY <1>2 DEF VMInv, WalkInv
<1>6. /\ Good(r) /\ Fits(r.sp, r.m, Early(r.m)) /\ Later(mem, r.m)
      /\ Common \subseteq Reach(r.sp) /\ PmmFrames(r.m) \subseteq Reach(r.sp)
  BY <1>1, <1>2, <1>5, InitFits, ReachIs
<1>7. Fits(r.sp, r.m, Views(r.m)) /\ LeavesIn(r.sp, Straight)
  BY <1>6, EarlyIs
<1>8. IsMem(r.m) /\ Sound(r.m)
  BY <1>6 DEF Good, Fits
<1>9. ASSUME NEW q \in DOMAIN space
      PROVE  /\ Fits(space[q], r.m, Views(r.m)) /\ Common \subseteq Reach(space[q])
             /\ LeavesIn(space[q], Straight)
  <2>1. /\ Fits(space[q], mem, Views(mem)) /\ Common \subseteq Reach(space[q])
        /\ LeavesIn(space[q], Straight)
    BY <1>2 DEF WalkInv
  <2> QED BY <1>5, <1>6, <1>8, <2>1, OthersFit
<1>10. ASSUME NEW q \in DOMAIN space'
       PROVE  /\ Fits(space'[q], mem', Views(mem')) /\ Common \subseteq Reach(space'[q])
              /\ LeavesIn(space'[q], Straight)
  <2>1. CASE q = p
    BY <1>2, <1>4, <1>6, <1>7, <2>1
  <2>2. CASE q # p
    <3>1. q \in DOMAIN space /\ space'[q] = space[q]
      BY <1>4, <2>2
    <3> QED BY <1>2, <1>9, <3>1
  <2> QED BY <2>1, <2>2
<1>11. WalkInv'
  BY <1>2, <1>8, <1>10 DEF WalkInv
<1> QED BY <1>2, <1>4, <1>6, <1>11

(* The aliases of one root.                                                *)
LEMMA AliasFits ==
  ASSUME NEW sp, IsSpace(sp), NEW m, IsMem(m), Fits(sp, m, Views(m)), LeavesIn(sp, Straight),
         Common \subseteq Reach(sp),
         NEW x, x = MapPmmPages(AS!Outcome(sp, m, "OK"), BootReach), x.status = "OK"
  PROVE  /\ Good(x) /\ Fits(x.sp, x.m, Views(x.m)) /\ LeavesIn(x.sp, Straight) /\ Later(m, x.m)
         /\ Common \subseteq Reach(x.sp) /\ PmmFrames(x.m) \subseteq Reach(x.sp)
<1>1. PICK o : o = AS!Outcome(sp, m, "OK")
  OBVIOUS
<1>2. Good(o) /\ o.sp = sp /\ o.m = m
  BY <1>1, OutcomeIs
<1>3. x = MapPmmPages(o, BootReach) /\ Fits(o.sp, o.m, Early(o.m))
  BY <1>1, <1>2, EarlyIs
<1>4. /\ Good(x) /\ Fits(x.sp, x.m, Early(x.m)) /\ Later(m, x.m)
      /\ PmmFrames(x.m) \subseteq DOMAIN x.sp.leaves
  BY <1>2, <1>3, PmmFits, ReachIs
<1>5. Fits(x.sp, x.m, Views(x.m)) /\ LeavesIn(x.sp, Straight)
  BY <1>4, EarlyIs
<1>6. Common \subseteq Reach(x.sp)
  <2>1. Grown(sp, x.sp)
    BY <1>2, <1>3, PmmFacts, ReachIs
  <2> QED BY <2>1, ReachGrows
<1>7. PmmFrames(x.m) \subseteq Reach(x.sp)
  <2>1. \A f \in PmmFrames(x.m) : f \in BootReach /\ f \in DOMAIN x.sp.leaves
    BY <1>4 DEF Fits, Sound
  <2> QED BY <1>5, <2>1, StraightReach
<1> QED BY <1>4, <1>5, <1>6, <1>7

(* The aliases of the first two roots.                                     *)
LEMMA WalkAlias ==
  ASSUME VMInv, WalkInv, BootAlias, outcome' = "up"
  PROVE  /\ WalkInv' /\ Later(mem, mem') /\ DOMAIN space' = DOMAIN space
         /\ \A p \in DOMAIN space' : PmmFrames(mem) \subseteq Reach(space'[p])
<1>1. PICK a : a = MapPmmPages(AS!Outcome(space[0], mem, "OK"), BootReach)
  OBVIOUS
<1>2. PICK b : b = IF a.status = "OK"
                     THEN MapPmmPages(AS!Outcome(space[1], a.m, "OK"), BootReach)
                     ELSE AS!Outcome(space[1], a.m, a.status)
  OBVIOUS
<1>3. /\ Doing("alias") /\ outcome = "up" /\ ~Booted /\ phase' = phase + 1
      /\ space' = [space EXCEPT ![0] = a.sp, ![1] = b.sp] /\ mem' = b.m
      /\ b.status = "OK"
  BY <1>1, <1>2, HaltIs DEF BootAlias, Doing
<1>4. DOMAIN space = {0, 1}
  <2>1. phase = 3 /\ Built(phase) = 2
    BY <1>3, PhaseFacts DEF VMInv
  <2>2. DOMAIN space = 0 .. 2 - 1
    BY <2>1 DEF VMInv
  <2> QED BY <2>2
<1>5. a.status = "OK" /\ b = MapPmmPages(AS!Outcome(space[1], a.m, "OK"), BootReach)
  <2> SUFFICES ASSUME a.status # "OK" PROVE FALSE
    BY <1>2
  <2>1. b = AS!Outcome(space[1], a.m, a.status)
    BY <1>2
  <2> QED BY <1>3, <2>1 DEF AS!Outcome
<1>6. \A p \in {0, 1} :
        /\ IsSpace(space[p]) /\ Fits(space[p], mem, Views(mem)) /\ LeavesIn(space[p], Straight)
        /\ Common \subseteq Reach(space[p])
  BY <1>3, <1>4 DEF VMInv, WalkInv
<1>7. IsMem(mem)
  BY DEF VMInv
<1>8. /\ Good(a) /\ Fits(a.sp, a.m, Views(a.m)) /\ LeavesIn(a.sp, Straight) /\ Later(mem, a.m)
      /\ Common \subseteq Reach(a.sp) /\ PmmFrames(a.m) \subseteq Reach(a.sp)
  BY <1>1, <1>5, <1>6, <1>7, AliasFits
<1>9. IsMem(a.m) /\ Sound(a.m)
  BY <1>8 DEF Good, Fits
<1>10. Fits(space[1], a.m, Views(a.m))
  BY <1>6, <1>7, <1>8, <1>9, OthersFit
<1>11. /\ Good(b) /\ Fits(b.sp, b.m, Views(b.m)) /\ LeavesIn(b.sp, Straight) /\ Later(a.m, b.m)
       /\ Common \subseteq Reach(b.sp) /\ PmmFrames(b.m) \subseteq Reach(b.sp)
  BY <1>3, <1>5, <1>6, <1>9, <1>10, AliasFits
<1>12. IsMem(b.m) /\ Sound(b.m)
  BY <1>11 DEF Good, Fits
<1>13. Fits(a.sp, b.m, Views(b.m))
  BY <1>8, <1>9, <1>11, <1>12, OthersFit
<1>14. Later(mem, b.m)
  BY <1>7, <1>8, <1>9, <1>11, <1>12, LaterTwice
<1>15. PmmFrames(mem) \subseteq PmmFrames(a.m) /\ PmmFrames(mem) \subseteq PmmFrames(b.m)
  BY <1>7, <1>8, <1>9, <1>12, <1>14, LaterNoted
<1>16. DOMAIN space' = DOMAIN space /\ space'[0] = a.sp /\ space'[1] = b.sp
  BY <1>3, <1>4
<1>17. \A p \in DOMAIN space' :
         /\ Fits(space'[p], mem', Views(mem')) /\ Common \subseteq Reach(space'[p])
         /\ LeavesIn(space'[p], Straight) /\ PmmFrames(mem) \subseteq Reach(space'[p])
  BY <1>3, <1>4, <1>8, <1>11, <1>13, <1>15, <1>16
<1>18. WalkInv'
  BY <1>3, <1>12, <1>17 DEF WalkInv
<1> QED BY <1>3, <1>14, <1>16, <1>17, <1>18

(* The image lies in its storage, which is never taken for a table.        *)
LEMMA ImageFits ==
  ASSUME NEW b \in Boots, Loaded(b.image), NEW m, Sound(m)
  PROVE  ElfRequests(b.image) \in Seq(Fitting(0, Views(m)))
<1>1. PICK s : s = b.image.segments
  OBVIOUS
<1>2. PICK q : q = ElfRequests(b.image)
  OBVIOUS
<1>3. q \in Seq(Asked(0))
  BY <1>2, ImageIsAsked
<1>4. /\ DOMAIN q = DOMAIN s
      /\ \A i \in DOMAIN s : q[i] = Request(s[i].page, StoredAt(s[i].page), FirstFrameAfter(s[i].size),
                                            s[i].flags \cup {"U"})
  BY <1>1, <1>2 DEF ElfRequests
<1>5. ASSUME NEW i \in DOMAIN q PROVE q[i] \in Fitting(0, Views(m))
  <2>1. PICK g, v, f, n, flags : /\ g = s[i] /\ v = g.page /\ f = StoredAt(v)
                                 /\ n = FirstFrameAfter(g.size) /\ flags = g.flags \cup {"U"}
    OBVIOUS
  <2>2. q[i] = Request(v, f, n, flags)
    BY <1>4, <2>1
  <2>3. q[i].v = v /\ q[i].frame = f /\ q[i].n = n /\ q[i].flags = flags
    BY <2>2 DEF Request
  <2>4. q[i] \in Asked(0)
    BY <1>3, SeqFacts
  <2>5. v \in Int /\ f \in Int /\ n \in Nat /\ flags \in SUBSET AS!Flag
    BY <2>3, <2>4 DEF Asked
  <2>6. \A k \in 0 .. n - 1 : f + k \in StorageFrames
    <3>1. PagesOf(g) \subseteq ElfBase .. ElfBase + StorageLength - 1
      BY <1>1, <1>4, <2>1 DEF Loaded
    <3>2. PagesOf(g) = v .. v + n - 1
      BY <2>1 DEF PagesOf
    <3>3. f = Storage + (v - ElfBase) /\ Storage \in Nat /\ ElfBase \in Nat /\ StorageLength \in Nat
      BY <2>1, VirtualMemoryAssumption, LayoutAssumption DEF StoredAt
    <3>4. ASSUME NEW k \in 0 .. n - 1 PROVE f + k \in Storage .. Storage + StorageLength - 1
      <4>1. v + k \in ElfBase .. ElfBase + StorageLength - 1
        BY <2>5, <3>1, <3>2
      <4> QED BY <2>5, <3>3, <4>1
    <3> QED BY <3>4 DEF StorageFrames
  <2>7. StorageFrames \cap RangeFrames(m.ranges) = {}
    BY LayoutAssumption DEF Sound
  <2>8. Admits(Views(m), v, f, n, flags)
    <3> SUFFICES ASSUME NEW k \in 0 .. n - 1
                 PROVE  <<v + k, [frame |-> f + k, flags |-> AS!LeafFlags(flags)]>> \in Views(m)
      BY DEF Admits
    <3>1. PICK w, h : w = v + k /\ h = f + k
      OBVIOUS
    <3>2. w \in Int /\ h \in Int /\ h \notin RangeFrames(m.ranges)
      BY <2>5, <2>6, <2>7, <3>1
    <3>3. <<w, [frame |-> h, flags |-> AS!LeafFlags(flags)]>> \in Views(m)
      BY <2>5, <3>2, LeafIs
    <3> QED BY <3>1, <3>3
  <2> QED BY <2>3, <2>4, <2>8 DEF Fitting
<1>6. DOMAIN q = 1 .. Len(q) /\ Len(q) \in Nat /\ q = [i \in 1 .. Len(q) |-> q[i]]
  BY <1>3
<1>7. q \in Seq(Fitting(0, Views(m)))
  BY <1>5, <1>6, SeqFacts
<1> QED BY <1>2, <1>7

(* One space is changed by an operation that fits.                         *)
LEMMA WalkChanged ==
  ASSUME VMInv, WalkInv, outcome = "up", NEW p \in DOMAIN space,
         NEW r, Good(r), Fits(r.sp, r.m, Views(r.m)), Later(mem, r.m), Grown(space[p], r.sp),
         space' = [space EXCEPT ![p] = r.sp], mem' = r.m, Booted'
  PROVE  WalkInv' /\ Later(mem, mem')
<1>1. IsMem(mem) /\ IsMem(r.m) /\ Sound(r.m)
  BY DEF VMInv, Good, Fits
<1>2. ASSUME NEW q \in DOMAIN space'
      PROVE  Fits(space'[q], mem', Views(mem')) /\ Common \subseteq Reach(space'[q])
  <2>1. /\ q \in DOMAIN space /\ Fits(space[q], mem, Views(mem)) /\ Common \subseteq Reach(space[q])
    BY DEF WalkInv
  <2>2. CASE q = p
    <3>1. space'[q] = r.sp
      BY <2>1, <2>2
    <3> QED BY <2>1, <2>2, <3>1, ReachGrows
  <2>3. CASE q # p
    <3>1. space'[q] = space[q]
      BY <2>1, <2>3
    <3> QED BY <1>1, <2>1, <3>1, OthersFit
  <2> QED BY <2>2, <2>3
<1> QED BY <1>1, <1>2 DEF WalkInv

(* The image in the first root.                                            *)
LEMMA WalkImage ==
  ASSUME VMInv, TidyInv, WalkInv, BootImage, outcome' = "up"
  PROVE  WalkInv' /\ Later(mem, mem') /\ DOMAIN space' = DOMAIN space
<1>1. PICK o, q : o = AS!Outcome(space[0], mem, "OK") /\ q = ElfRequests(boot.image)
  OBVIOUS
<1>2. PICK r : r = MapAll(o, q, BootReach)
  OBVIOUS
<1>3. /\ Doing("image") /\ outcome = "up" /\ phase' = phase + 1
      /\ space' = [space EXCEPT ![0] = r.sp] /\ mem' = r.m /\ r.status = "OK"
  BY <1>1, <1>2, HaltIs DEF BootImage, Doing
<1>4. 0 \in DOMAIN space
  BY <1>3, OrderFacts DEF VMInv, Doing
<1>5. Loaded(boot.image) /\ boot \in Boots
  <2>1. phase # 0
    BY <1>3, PhaseFacts DEF VMInv
  <2> QED BY <1>3, <2>1 DEF TidyInv, VMInv
<1>6. Booted'
  BY <1>3, PhaseFacts DEF VMInv, Booted, BootOrder
<1>7. IsSpace(space[0]) /\ IsMem(mem) /\ Fits(space[0], mem, Views(mem)) /\ Sound(mem)
  BY <1>3, <1>4 DEF VMInv, WalkInv
<1>8. Good(o) /\ o.sp = space[0] /\ o.m = mem
  BY <1>1, <1>7, OutcomeIs
<1>9. PICK A, bound : A = Views(mem) /\ bound = 0
  OBVIOUS
<1>10. bound \in Int /\ q \in Seq(Fitting(bound, A)) /\ Fits(o.sp, o.m, A)
  BY <1>1, <1>5, <1>7, <1>8, <1>9, ImageFits
<1>11. Good(r) /\ Fits(r.sp, r.m, A) /\ Later(o.m, r.m)
  BY <1>2, <1>8, <1>10, AllFits, ReachIs
<1>12. Fits(r.sp, r.m, Views(r.m)) /\ Later(mem, r.m)
  BY <1>8, <1>9, <1>11, FitsLater
<1>13. Grown(space[0], r.sp)
  <2>1. q \in Seq(Asked(bound))
    BY <1>1, <1>5, <1>9, ImageIsAsked
  <2> QED BY <1>2, <1>8, <1>10, <2>1, AllFacts, ReachIs
<1> QED BY <1>3, <1>4, <1>6, <1>11, <1>12, <1>13, WalkChanged

(* What the kernel can write while a process runs and could still be taken *)
(* is common to all.                                                       *)
LEMMA WritableIsCommon ==
  ASSUME NEW sp, NEW m, Sound(m), LeavesIn(sp, Views(m)),
         NEW f \in Reach(sp) \cap RangeFrames(m.ranges), f # 0
  PROVE  f \in Common
<1>1. f \in 0 .. IdentityEnd - 1 /\ f \in DOMAIN sp.leaves /\ sp.leaves[f].frame = f
  BY DEF Reach
<1>2. PICK w : w = <<f, sp.leaves[f]>>
  OBVIOUS
<1>3. w \in Views(m) /\ w[2] = sp.leaves[f]
  BY <1>1, <1>2 DEF LeavesIn
<1>4. f \in WindowFrames \cup StackFrames
  BY <1>1, <1>3 DEF Views
<1>5. f \in BootReach
  <2>1. f \notin KernelFrames /\ f \notin TextFrames
    BY DEF Sound
  <2>2. \A i \in DOMAIN KernelRegions : f \notin KernelRegions[i].start .. KernelRegions[i].end - 1
    BY <2>1 DEF KernelFrames
  <2>3. f \in 1 .. IdentityEnd - 1
    BY <1>1, VirtualMemoryAssumption
  <2> QED BY <2>1, <2>2, <2>3 DEF BootReach, TextFrames
<1> QED BY <1>4, <1>5 DEF Common

(* The kernel and the user text begin at the link base.                    *)
LEMMA KernelIsAbove ==
  ASSUME NEW f \in KernelFrames \cup TextFrames
  PROVE  f \in Nat /\ LinkBase <= f
<1>1. CASE f \in TextFrames
  BY <1>1, LinkAssumption, VirtualMemoryAssumption DEF TextFrames
<1>2. CASE f \in KernelFrames
  <2>1. PICK i \in DOMAIN KernelRegions : f \in KernelRegions[i].start .. KernelRegions[i].end - 1
    BY <1>2 DEF KernelFrames
  <2>2. KernelRegions[i] \in [start : Nat, end : Nat, flags : SUBSET {"R", "W", "X"}]
    BY LinkAssumption, SeqFacts
  <2>3. KernelRegions[i].start \in Nat /\ KernelRegions[i].end \in Nat
        /\ LinkBase <= KernelRegions[i].start
    BY <2>2, LinkAssumption
  <2> QED BY <2>1, <2>3, VirtualMemoryAssumption
<1> QED BY <1>1, <1>2

(* The frames every process can write, whatever is taken when: those below *)
(* the kernel and the pool.                                                *)
LowFrames == (0 .. LinkBase - 1) \cup PoolFrames

(* The pool is in the bss, which every process maps.                       *)
LEMMA PoolIsCommon == PoolFrames \subseteq Common
<1> SUFFICES ASSUME NEW f \in PoolFrames PROVE f \in Common
  OBVIOUS
<1>1. f \in KernelFrames /\ f \notin TextFrames
  BY LayoutAssumption
<1>2. PICK i \in DOMAIN KernelRegions : f \in KernelRegions[i].start .. KernelRegions[i].end - 1
  BY <1>1 DEF KernelFrames
<1>3. KernelRegions[i] \in [start : Nat, end : Nat, flags : SUBSET {"R", "W", "X"}]
  BY LinkAssumption, SeqFacts
<1>4. KernelRegions[i].start \in Nat /\ KernelRegions[i].end \in Nat
      /\ KernelRegions[i].end <= IdentityEnd
  BY <1>3, LinkAssumption
<1>5. f \in Nat /\ LinkBase <= f /\ LinkBase > 0
  BY <1>1, KernelIsAbove, VirtualMemoryAssumption
<1>6. f \in 1 .. IdentityEnd - 1
  BY <1>2, <1>4, <1>5, VirtualMemoryAssumption
<1>7. \A j \in DOMAIN KernelRegions :
        f \in KernelRegions[j].start .. KernelRegions[j].end - 1 => "W" \in KernelRegions[j].flags
  BY LayoutAssumption
<1> QED BY <1>1, <1>6, <1>7 DEF BootReach, TextFrames, Common

(* A table below the kernel lies in the window.                            *)
LEMMA LowIsCommon ==
  ASSUME NEW b \in Boots, NEW sp, NEW m, Own(sp, m, b)
  PROVE  AS!TableFrames(sp) \cap LowFrames \subseteq Common
<1> SUFFICES ASSUME NEW f \in AS!TableFrames(sp), f \in 0 .. LinkBase - 1, f \notin PoolFrames
             PROVE  f \in Common
  BY PoolIsCommon DEF LowFrames
<1>1. f \in Nat /\ f # 0 /\ f < LinkBase
  BY VirtualMemoryAssumption DEF Own, Neat
<1>2. f * PageBytes >= Minimum
  BY DEF Own, Given, FreeFrames
<1>3. WindowStart <= f
  <2>1. PICK x, y : x = f * PageBytes /\ y = WindowStart * PageBytes
    OBVIOUS
  <2>2. x \in Nat /\ y \in Nat /\ (WindowStart <= f <=> y <= x)
    BY <1>1, <2>1, FrameOrder, VirtualMemoryAssumption
  <2>3. y <= Minimum /\ Minimum <= x /\ Minimum \in Nat
    BY <1>2, <2>1, <2>2, VirtualMemoryAssumption, PhysMemAssumption
  <2> QED BY <2>2, <2>3
<1>4. f \in WindowFrames
  BY <1>1, <1>3, VirtualMemoryAssumption DEF WindowFrames
<1>5. f \notin KernelFrames /\ f \notin TextFrames
  BY <1>1, KernelIsAbove, VirtualMemoryAssumption
<1>6. f \in 1 .. IdentityEnd - 1
  BY <1>1, VirtualMemoryAssumption
<1>7. \A j \in DOMAIN KernelRegions : f \notin KernelRegions[j].start .. KernelRegions[j].end - 1
  BY <1>5 DEF KernelFrames
<1> QED BY <1>4, <1>5, <1>6, <1>7 DEF BootReach, TextFrames, Common

(* SYS_SHM_MAP maps the shared page; the tables it takes are common to all.*)
LEMMA WalkShm ==
  ASSUME VMInv, TidyInv, WalkInv, NEW p \in Space, NEW v \in ShmPages, ShmMap(p, v),
         outcome' = "up"
  PROVE  /\ WalkInv' /\ Later(mem, mem') /\ DOMAIN space' = DOMAIN space
         /\ \A q \in DOMAIN space :
              AS!TableFrames(space'[q]) \subseteq AS!TableFrames(space[q]) \cup Common
<1>1. outcome = "up" /\ Booted /\ phase' = phase
  BY DEF ShmMap
<1>2. p \in DOMAIN space /\ IsSpace(space[p]) /\ IsMem(mem)
  BY <1>1, OrderFacts, VirtualMemoryAssumption DEF VMInv, Space
<1>3. PICK m \in Survivors :
         LET x == AS!Map(space[p], m, v, Shared, 1, {"R", "W", "U"}, Reach(space[p])) IN
           space' = [space EXCEPT ![p] = x.sp] /\ mem' = x.m
  BY DEF ShmMap
<1>4. PICK n, flags, reach, sp : /\ n = 1 /\ flags = {"R", "W", "U"} /\ reach = Reach(space[p])
                                 /\ sp = space[p]
  OBVIOUS
<1>5. PICK r : r = AS!Map(sp, m, v, Shared, n, flags, reach)
  OBVIOUS
<1>6. space' = [space EXCEPT ![p] = r.sp] /\ mem' = r.m
  BY <1>3, <1>4, <1>5
<1>7. IsMem(m) /\ MemOk(m) /\ m.pmm = mem.pmm
      /\ RangeFrames(m.ranges) \subseteq RangeFrames(mem.ranges)
  <2>1. IsMem(m) /\ MemOk(m)
    BY <1>2, SurvivorsFacts DEF Survivors, TidyInv, Tidily
  <2>2. m.pmm = mem.pmm /\ m.ranges \in {mem.ranges, <<>>}
    <3>1. [mem EXCEPT !.ranges = <<>>] = [ranges |-> <<>>, pool |-> mem.pool, pmm |-> mem.pmm]
      BY <1>2 DEF IsMem
    <3> QED BY <3>1 DEF Survivors
  <2>3. RangeFrames(<<>>) = {}
    BY DEF RangeFrames
  <2> QED BY <2>1, <2>2, <2>3
<1>8. Sound(mem) /\ Fits(space[p], mem, Views(mem))
  BY <1>1, <1>2 DEF WalkInv
<1>9. Sound(m) /\ Later(mem, m)
  <2>1. Len(mem.pmm) \in Nat
    BY <1>2 DEF IsMem
  <2> QED BY <1>7, <1>8, <2>1 DEF Sound, Later, PmmFrames
<1>10. Fits(sp, m, Views(m))
  BY <1>2, <1>4, <1>7, <1>8, <1>9, OthersFit
<1>11. PICK A : A = Views(m)
  OBVIOUS
<1>12. Admits(A, v, Shared, n, flags)
  <2>1. Shared \notin RangeFrames(m.ranges)
    BY <1>9, LayoutAssumption DEF Sound
  <2>2. \A i \in 0 .. n - 1 : Shared + i = Shared /\ v + i = v
    BY <1>4, VirtualMemoryAssumption
  <2>3. flags \in SUBSET AS!Flag /\ v \in Int /\ Shared \in Int
    BY <1>4, VirtualMemoryAssumption DEF AS!Flag
  <2>4. <<v, [frame |-> Shared, flags |-> AS!LeafFlags(flags)]>> \in A
    BY <1>11, <2>1, <2>3, LeafIs
  <2> QED BY <2>2, <2>4 DEF Admits
<1>13. v \in Int /\ Shared \in Int /\ n \in Nat /\ reach \in SUBSET Nat /\ IsSpace(sp)
  BY <1>2, <1>4, VirtualMemoryAssumption, ReachIs
<1>14. /\ Good(r) /\ Fits(r.sp, r.m, A) /\ Later(m, r.m)
       /\ AS!TableFrames(r.sp) \subseteq
            AS!TableFrames(sp) \cup PoolFrames \cup (reach \cap RangeFrames(m.ranges))
  BY <1>5, <1>7, <1>10, <1>11, <1>12, <1>13, MapFits
<1>15. Fits(r.sp, r.m, Views(r.m)) /\ Later(mem, r.m)
  <2>1. IsMem(r.m)
    BY <1>14 DEF Good
  <2> QED BY <1>2, <1>7, <1>9, <1>11, <1>14, <2>1, LaterTwice, FitsLater
<1>16. Grown(space[p], r.sp)
  <2>1. Mapped(r, sp, v, Shared, n, flags)
    BY <1>5, <1>7, <1>13, MapFacts
  <2> QED BY <1>4, <2>1 DEF Mapped
<1>17. Booted'
  BY <1>1 DEF Booted, BootOrder
<1>18. WalkInv' /\ Later(mem, mem')
  BY <1>1, <1>2, <1>6, <1>14, <1>15, <1>16, <1>17, WalkChanged
<1>19. 0 \notin AS!TableFrames(r.sp)
  <2>1. TidyInv'
    BY TidyShm
  <2>2. p \in DOMAIN space' /\ space'[p] = r.sp
    BY <1>2, <1>6
  <2> QED BY <2>1, <2>2 DEF TidyInv, Neat
<1>20. AS!TableFrames(r.sp) \subseteq AS!TableFrames(sp) \cup Common
  <2>1. LeavesIn(sp, Views(m))
    BY <1>10 DEF Fits
  <2>2. ASSUME NEW f \in AS!TableFrames(r.sp), f \in reach \cap RangeFrames(m.ranges)
        PROVE  f \in Common
    BY <1>4, <1>9, <1>19, <2>1, <2>2, WritableIsCommon
  <2> QED BY <1>14, <2>2, PoolIsCommon
<1>21. DOMAIN space' = DOMAIN space /\ \A q \in DOMAIN space : space'[q] = IF q = p THEN r.sp ELSE space[q]
  BY <1>2, <1>6
<1>22. \A q \in DOMAIN space :
         AS!TableFrames(space'[q]) \subseteq AS!TableFrames(space[q]) \cup Common
  BY <1>4, <1>20, <1>21
<1> QED BY <1>18, <1>21, <1>22

(* A step of the machine.                                                  *)
LEMMA WalkStep == VMInv /\ TidyInv /\ WalkInv /\ [Next]_vars => WalkInv'
<1> SUFFICES ASSUME VMInv, TidyInv, WalkInv, [Next]_vars, outcome' = "up" PROVE WalkInv'
  BY DEF WalkInv
<1>1. CASE BootLoad
  <2>1. /\ outcome = "up" /\ mem' = mem /\ space' = space /\ ~Booted
    BY <1>1 DEF BootLoad, Doing
  <2> QED BY <2>1 DEF WalkInv
<1>2. ASSUME NEW p \in Space, NEW q \in Space, NEW v \in ShmPages, CheckBuffer(p, q, v)
      PROVE  WalkInv'
  <2>1. /\ outcome = "up" /\ mem' = mem /\ space' = space /\ phase' = phase
    BY <1>2 DEF CheckBuffer
  <2> QED BY <2>1 DEF WalkInv, Booted, BootOrder
<1>3. CASE UNCHANGED vars
  BY <1>3 DEF vars, WalkInv, Booted, BootOrder
<1> QED BY <1>1, <1>2, <1>3, WalkSpace, WalkAlias, WalkImage, WalkShm DEF Next

(* The three invariants together.                                          *)
LEMMA WalkAlways == Spec => [](VMInv /\ TidyInv /\ WalkInv)
<1>1. Init => VMInv /\ TidyInv /\ WalkInv
  BY VMInit, TidyInit, WalkInit
<1>2. (VMInv /\ TidyInv /\ WalkInv) /\ [Next]_vars => (VMInv /\ TidyInv /\ WalkInv)'
  BY VMStep, TidyStep, WalkStep
<1> QED BY <1>1, <1>2, PTL DEF Spec

(* The tables of all processes there are.                                  *)
Tables == UNION {TableFramesOf(p) : p \in DOMAIN space}

(* Once the machine is up for good every process has its root.             *)
LEMMA AllAreBuilt ==
  ASSUME VMInv, Booted
  PROVE  DOMAIN space = Space /\ phase >= 4
<1>1. Built(phase) = NumSpaces
  BY OrderFacts DEF VMInv
<1>2. Len(BootOrder) >= 4
  <2>1. PICK l : l = Len(BootOrder)
    OBVIOUS
  <2>2. NumSpaces = 2 => l = 5
    BY <2>1 DEF BootOrder
  <2>3. NumSpaces # 2 => l = 6
    BY <2>1 DEF BootOrder
  <2>4. l >= 4
    BY <2>2, <2>3
  <2> QED BY <2>1, <2>4
<1> QED BY <1>1, <1>2 DEF VMInv, Space, Booted

(* While the machine is up every root took its tables from what was given. *)
LEMMA AllAreOwn ==
  ASSUME TidyInv, outcome = "up", NEW p \in DOMAIN space
  PROVE  Own(space[p], mem, boot)
<1>1. Neat(space[p])
  BY DEF TidyInv
<1>2. ~Neat(AS!EmptySpace(0))
  BY EmptyClean DEF Neat
<1> QED BY <1>1, <1>2 DEF TidyInv, Tidily

(* What the boot counts on: when the first two roots get their aliases     *)
(* (kernel.c:1561) there is room in vm_pmm_pages for one frame more, and   *)
(* the tables made from then on to the launch lie below the kernel or in   *)
(* the pool.                                                               *)
RoomToNote == Doing("alias") => Len(mem.pmm) < MaxPmm
NewTablesAreLow == phase >= 3 /\ ~Booted => Tables' \ Tables \subseteq LowFrames

(* From the aliases on every table is noted or common to all, and every    *)
(* process reaches it.                                                     *)
SeenInv ==
  outcome = "up" /\ phase >= 4 =>
    /\ Tables \subseteq Common \cup PmmFrames(mem)
    /\ \A p \in DOMAIN space : Tables \subseteq Reach(space[p])

(* New tables that lie low are common to all.                              *)
LEMMA NewIsCommon ==
  ASSUME VMInv', TidyInv', outcome' = "up", Tables' \ Tables \subseteq LowFrames
  PROVE  Tables' \ Tables \subseteq Common
<1> SUFFICES ASSUME NEW f \in Tables', f \in LowFrames PROVE f \in Common
  OBVIOUS
<1>1. PICK p \in DOMAIN space' : f \in AS!TableFrames(space'[p])
  BY DEF Tables, TableFramesOf
<1>2. Own(space'[p], mem', boot')
  <2>1. Neat(space'[p])
    BY <1>1 DEF TidyInv
  <2>2. ~Neat(AS!EmptySpace(0))
    BY EmptyClean DEF Neat
  <2> QED BY <1>1, <2>1, <2>2 DEF TidyInv, Tidily
<1>3. PICK sp, m, b : sp = space'[p] /\ m = mem' /\ b = boot'
  OBVIOUS
<1>4. b \in Boots /\ Own(sp, m, b) /\ f \in AS!TableFrames(sp)
  BY <1>1, <1>2, <1>3 DEF VMInv
<1> QED BY <1>4, LowIsCommon

(* What is noted, or common, is seen by all after a step by which it was   *)
(* seen or which leaves the old spaces.                                    *)
LEMMA SeenMore ==
  ASSUME WalkInv', outcome' = "up", Tables' \ Tables \subseteq Common,
         Tables \subseteq Common \cup PmmFrames(mem), PmmFrames(mem) \subseteq PmmFrames(mem'),
         \A p \in DOMAIN space' : \/ PmmFrames(mem) \subseteq Reach(space'[p])
                                  \/ Tables \subseteq Reach(space'[p])
  PROVE  SeenInv'
<1>1. Tables' \subseteq Common \cup PmmFrames(mem')
  OBVIOUS
<1>2. ASSUME NEW p \in DOMAIN space' PROVE Tables' \subseteq Reach(space'[p])
  <2>1. Common \subseteq Reach(space'[p])
    BY DEF WalkInv
  <2> QED BY <2>1
<1> QED BY <1>1, <1>2 DEF SeenInv

(* The table frames taken so far are noted or common.                      *)
LEMMA AllAreNoted ==
  ASSUME WalkInv, outcome = "up", Len(mem.pmm) < MaxPmm
  PROVE  Tables \subseteq Common \cup PmmFrames(mem)
<1> SUFFICES ASSUME NEW p \in DOMAIN space
             PROVE  AS!TableFrames(space[p]) \subseteq Common \cup PmmFrames(mem)
  BY DEF Tables, TableFramesOf
<1>1. Noted(AS!TableFrames(space[p]), mem)
  BY DEF WalkInv, Fits
<1> QED BY <1>1, PoolIsCommon DEF Noted

(* A step of the machine.                                                  *)
LEMMA SeenStep ==
  VMInv /\ TidyInv /\ WalkInv /\ SeenInv /\ RoomToNote /\ [Next]_vars /\ [NewTablesAreLow]_vars
    => SeenInv'
<1> SUFFICES ASSUME VMInv, TidyInv, WalkInv, SeenInv, RoomToNote, [Next]_vars,
                    [NewTablesAreLow]_vars, outcome' = "up", phase' >= 4
             PROVE  SeenInv'
  BY DEF SeenInv
<1>1. VMInv' /\ TidyInv' /\ WalkInv' /\ SpacesGrow
  BY VMStep, TidyStep, WalkStep
<1>2. phase \in 0 .. Len(BootOrder) /\ phase \in Int
  BY DEF VMInv
<1>3. IsMem(mem) /\ IsMem(mem')
  BY <1>1 DEF VMInv
<1>4. ASSUME outcome = "up", ~Booted, phase >= 3, NewTablesAreLow
      PROVE  Tables' \ Tables \subseteq Common
  BY <1>1, <1>4, NewIsCommon DEF NewTablesAreLow
<1>5. CASE BootLoad
  <2>1. phase = 0 /\ phase' = phase + 1
    BY <1>2, <1>5, PhaseFacts DEF BootLoad
  <2> QED BY <2>1
<1>6. CASE BootSpace
  <2>1. Doing("space") /\ phase' = phase + 1 /\ ~Booted /\ outcome = "up"
    BY <1>6 DEF BootSpace, Doing
  <2>2. phase = 4
    BY <1>2, <2>1, PhaseFacts
  <2>3. NewTablesAreLow
    BY <2>1, <2>2 DEF vars
  <2>4. /\ Later(mem, mem')
        /\ \A p \in DOMAIN space : p \in DOMAIN space' /\ space'[p] = space[p]
        /\ \A p \in DOMAIN space' : p \notin DOMAIN space => PmmFrames(mem') \subseteq Reach(space'[p])
    BY <1>6, WalkSpace
  <2>5. PmmFrames(mem) \subseteq PmmFrames(mem')
    BY <1>3, <2>4, LaterNoted
  <2>6. /\ Tables \subseteq Common \cup PmmFrames(mem)
        /\ \A p \in DOMAIN space : Tables \subseteq Reach(space[p])
    BY <2>1, <2>2 DEF SeenInv
  <2>7. Tables' \ Tables \subseteq Common
    BY <1>4, <2>1, <2>2, <2>3
  <2>8. \A p \in DOMAIN space' : \/ PmmFrames(mem) \subseteq Reach(space'[p])
                                 \/ Tables \subseteq Reach(space'[p])
    BY <2>4, <2>5, <2>6
  <2> QED BY <1>1, <2>5, <2>6, <2>7, <2>8, SeenMore
<1>7. CASE BootAlias
  <2>1. Doing("alias") /\ phase' = phase + 1 /\ ~Booted /\ outcome = "up"
    BY <1>7 DEF BootAlias, Doing
  <2>2. phase = 3
    BY <1>2, <2>1, PhaseFacts
  <2>3. NewTablesAreLow
    BY <2>1, <2>2 DEF vars
  <2>4. /\ Later(mem, mem')
        /\ \A p \in DOMAIN space' : PmmFrames(mem) \subseteq Reach(space'[p])
    BY <1>7, WalkAlias
  <2>5. PmmFrames(mem) \subseteq PmmFrames(mem')
    BY <1>3, <2>4, LaterNoted
  <2>6. Tables \subseteq Common \cup PmmFrames(mem)
    BY <2>1, AllAreNoted DEF RoomToNote
  <2>7. Tables' \ Tables \subseteq Common
    BY <1>4, <2>1, <2>2, <2>3
  <2> QED BY <1>1, <2>4, <2>5, <2>6, <2>7, SeenMore
<1>8. CASE BootImage
  <2>1. Doing("image") /\ phase' = phase + 1 /\ ~Booted /\ outcome = "up"
    BY <1>8 DEF BootImage, Doing
  <2>2. phase >= 4
    BY <1>2, <2>1, PhaseFacts
  <2>3. NewTablesAreLow
    BY <1>2, <2>1, <2>2 DEF vars
  <2>4. Later(mem, mem') /\ DOMAIN space' = DOMAIN space
    BY <1>8, WalkImage
  <2>5. PmmFrames(mem) \subseteq PmmFrames(mem')
    BY <1>3, <2>4, LaterNoted
  <2>6. /\ Tables \subseteq Common \cup PmmFrames(mem)
        /\ \A p \in DOMAIN space : Tables \subseteq Reach(space[p])
    BY <2>1, <2>2 DEF SeenInv
  <2>7. Tables' \ Tables \subseteq Common
    BY <1>2, <1>4, <2>1, <2>2, <2>3
  <2>8. \A p \in DOMAIN space' : Tables \subseteq Reach(space'[p])
    BY <1>1, <2>4, <2>6, ReachGrows DEF SpacesGrow
  <2> QED BY <1>1, <2>5, <2>6, <2>7, <2>8, SeenMore
<1>9. ASSUME NEW k \in Space, NEW v \in ShmPages, ShmMap(k, v) PROVE SeenInv'
  <2>1. outcome = "up" /\ phase' = phase
    BY <1>9 DEF ShmMap
  <2>2. /\ Later(mem, mem') /\ DOMAIN space' = DOMAIN space
        /\ \A q \in DOMAIN space :
             AS!TableFrames(space'[q]) \subseteq AS!TableFrames(space[q]) \cup Common
    BY <1>9, WalkShm
  <2>3. PmmFrames(mem) \subseteq PmmFrames(mem')
    BY <1>3, <2>2, LaterNoted
  <2>4. /\ Tables \subseteq Common \cup PmmFrames(mem)
        /\ \A p \in DOMAIN space : Tables \subseteq Reach(space[p])
    BY <2>1 DEF SeenInv
  <2>5. Tables' \ Tables \subseteq Common
    BY <2>2 DEF Tables, TableFramesOf
  <2>6. \A p \in DOMAIN space' : Tables \subseteq Reach(space'[p])
    BY <1>1, <2>2, <2>4, ReachGrows DEF SpacesGrow
  <2> QED BY <1>1, <2>3, <2>4, <2>5, <2>6, SeenMore
<1>10. ASSUME NEW k \in Space, NEW q \in Space, NEW v \in ShmPages, CheckBuffer(k, q, v)
       PROVE  SeenInv'
  BY <1>10 DEF CheckBuffer, SeenInv, Tables, TableFramesOf
<1>11. CASE UNCHANGED vars
  BY <1>11 DEF vars, SeenInv, Tables, TableFramesOf
<1> QED BY <1>5, <1>6, <1>7, <1>8, <1>9, <1>10, <1>11 DEF Next

-----------------------------------------------------------------------------
(* The theorems. *)

(* While the machine is up, what a space records as mapped is what its     *)
(* tables hold, for any kernel layout, memory map, image and page tables:  *)
(* agent_os_address_space_map records a region exactly when all its pages  *)
(* are in the tables, and a refusal that leaves pages behind stops the     *)
(* machine.                                                                *)
THEOREM RegionsMatchTables == Spec => []RegionsHold
<1>1. VMInv => RegionsHold
  <2> SUFFICES ASSUME VMInv, outcome = "up", NEW sp \in Spaces
               PROVE  /\ Len(sp.regions) <= MaxRegions
                      /\ \A i \in DOMAIN sp.regions :
                           LET g == sp.regions[i] IN
                             \A n \in 0 .. g.length - 1 :
                               /\ AS!MappedTo(sp, g.page + n, g.frame + n, g.flags)
                               /\ "U" \in g.flags <=> AS!UserPageOk(sp, g.page + n, FALSE, FALSE)
                      /\ DOMAIN sp.leaves =
                           UNION {RegionPages(sp.regions[i]) : i \in DOMAIN sp.regions}
    BY DEF RegionsHold
  <2>1. SpaceOk(sp)
    BY DEF VMInv, Spaces
  <2> QED BY <2>1 DEF SpaceOk, RegionOk
<1>2. VMInv /\ [Next]_vars => VMInv'
  BY VMStep
<1> QED BY <1>1, <1>2, VMInit, PTL DEF Spec

(* A page that was mapped stays mapped to the same frame with the same     *)
(* rights, and a buffer user_range_ok accepted is accepted from then on:   *)
(* nothing in vm.c and address_space.c takes a table or an entry back.     *)
THEOREM BuffersStayGood == Spec => CheckedStaysGood
<1>1. VMInv /\ [Next]_vars =>
        [\A p \in DOMAIN space : space'[p] # space[p] =>
           \A v \in DOMAIN space[p].leaves :
             /\ space'[p].leaves[v] = space[p].leaves[v]
             /\ \A write, execute \in BOOLEAN :
                  AS!UserPageOk(space[p], v, write, execute) =>
                    AS!UserPageOk(space'[p], v, write, execute)]_vars
  <2> SUFFICES ASSUME VMInv, [Next]_vars, NEW p \in DOMAIN space, NEW v \in DOMAIN space[p].leaves
               PROVE  /\ space'[p].leaves[v] = space[p].leaves[v]
                      /\ \A write, execute \in BOOLEAN :
                           AS!UserPageOk(space[p], v, write, execute) =>
                             AS!UserPageOk(space'[p], v, write, execute)
    OBVIOUS
  <2>1. Grown(space[p], space'[p])
    BY VMStep DEF SpacesGrow
  <2>2. space'[p].leaves[v] = space[p].leaves[v]
    BY <2>1 DEF Grown
  <2> QED BY <2>1, <2>2, GrownWalks
<1>2. VMInv /\ [Next]_vars => VMInv'
  BY VMStep
<1> QED BY <1>1, <1>2, VMInit, PTL DEF Spec, CheckedStaysGood

(* However memory is laid out and whatever the boot and the calls run into *)
(* on the way, a table frame was usable and unreserved memory, or a page   *)
(* of the pool, and it is the frame of one table of one process: what      *)
(* phys_alloc_page and process_page_allocate hand out is never the kernel, *)
(* its initrd or another table.                                            *)
THEOREM TablesAreFree == Spec => []FramesAreFree
<1>1. TidyInv => FramesAreFree
  <2> SUFFICES ASSUME TidyInv, NEW p \in DOMAIN space, space[p].root # 0
               PROVE  /\ TableFramesOf(p) \subseteq FreeFrames(boot.map, boot.reserved) \cup PoolFrames
                      /\ Cardinality(TableFramesOf(p)) = 1 + Cardinality(DOMAIN space[p].tables)
                      /\ \A q \in DOMAIN space \ {p} : TableFramesOf(p) \cap TableFramesOf(q) = {}
    BY DEF FramesAreFree
  <2>1. AS!EmptySpace(0).root = 0
    BY DEF AS!EmptySpace
  <2>2. Own(space[p], mem, boot)
    BY <2>1 DEF TidyInv, Tidily
  <2>3. Cardinality(TableFramesOf(p)) = 1 + Cardinality(DOMAIN space[p].tables)
    BY <2>2, FramesCounted DEF Own, TableFramesOf
  <2> QED BY <2>2, <2>3 DEF Own, Given, TidyInv, Tidily, TableFramesOf
<1> QED BY <1>1, TidyAlways, PTL

(* No table lies on a user stack.  What is reserved ends with the kernel   *)
(* (physmem.c:28), and the stacks lie behind it (linker.ld:53).            *)
StacksAreNoTables == StackFrames \cap UNION {TableFramesOf(p) : p \in DOMAIN space} = {}

(* Unless a table lies on a user stack, user code reaches no table, of the *)
(* kernel only the storage of its image and the shared page, and no frame  *)
(* both writable and executable, whatever was mapped by the boot and by    *)
(* SYS_SHM_MAP: kernel_main and vm.c map for user code nothing but the     *)
(* user text, the stacks, the segments of an image that passed             *)
(* agent_os_elf64_plan and shared_test_page.                               *)
THEOREM UserStaysConfined == Spec => [](StacksAreNoTables => UserConfined)
<1>1. VMInv /\ TidyInv => (StacksAreNoTables => UserConfined)
  <2> SUFFICES ASSUME VMInv, TidyInv, StacksAreNoTables PROVE UserConfined
    OBVIOUS
  <2> DEFINE leaves == UserLeaves
             held(flag) == {leaf.frame : leaf \in {l \in leaves : flag \in l.flags}}
             tables == UNION {TableFramesOf(p) : p \in DOMAIN space}
  <2>1. boot \in Boots
    BY DEF VMInv
  <2>2. leaves \subseteq Meant(boot.image)
    <3> SUFFICES ASSUME NEW x \in UserLeaves PROVE x \in Meant(boot.image)
      OBVIOUS
    <3>1. PICK sp \in Spaces :
            x \in {sp.leaves[v] : v \in {u \in DOMAIN sp.leaves : AS!UserPageOk(sp, u, FALSE, FALSE)}}
      BY DEF UserLeaves
    <3>2. PICK v \in DOMAIN sp.leaves : x = sp.leaves[v] /\ AS!UserPageOk(sp, v, FALSE, FALSE)
      BY <3>1
    <3>3. PICK p \in DOMAIN space : sp = space[p]
      BY DEF Spaces
    <3>4. "U" \in x.flags
      BY <3>2 DEF AS!UserPageOk
    <3>5. UserLeavesIn(AS!EmptySpace(0), Meant(boot.image))
      BY EmptyClean
    <3>6. UserLeavesIn(sp, Meant(boot.image))
      BY <3>3, <3>5 DEF TidyInv, Tidily, Own
    <3> QED BY <3>2, <3>4, <3>6 DEF UserLeavesIn
  <2>3. ASSUME NEW flag, NEW f \in held(flag)
        PROVE  f \in TextFrames \cup StackFrames \cup {Shared} \cup StorageFrames
    BY <2>1, <2>2, MeantFacts
  <2>4. ASSUME NEW f \in tables, f \in TextFrames \cup {Shared} \cup StorageFrames
        PROVE  FALSE
    <3>1. PICK p \in DOMAIN space : f \in TableFramesOf(p)
      OBVIOUS
    <3>2. CASE Own(space[p], mem, boot)
      <4>1. f \in FreeFrames(boot.map, boot.reserved) \/ f \in PoolFrames
        BY <3>1, <3>2 DEF Own, Given, TableFramesOf
      <4>2. f \notin FreeFrames(boot.map, boot.reserved)
        BY <2>1, <2>4, KernelIsNotFree, LayoutAssumption
      <4>3. f \notin PoolFrames
        BY <2>4, LayoutAssumption
      <4> QED BY <4>1, <4>2, <4>3
    <3>3. CASE space[p] = AS!EmptySpace(0)
      <4>1. f = 0
        BY <3>1, <3>3, EmptyClean DEF TableFramesOf
      <4>2. f \in TextFrames \/ f \in KernelFrames
        BY <2>4, LayoutAssumption
      <4>3. LinkBase \in Nat /\ LinkBase > 0
        BY VirtualMemoryAssumption
      <4>4. f \in TextFrames => f >= LinkBase
        BY <4>3, LinkAssumption DEF TextFrames
      <4>5. f \in KernelFrames => f >= LinkBase
        <5> SUFFICES ASSUME NEW i \in DOMAIN KernelRegions,
                            f \in KernelRegions[i].start .. KernelRegions[i].end - 1
                     PROVE  f >= LinkBase
          BY DEF KernelFrames
        <5>1. KernelRegions[i] \in [start : Nat, end : Nat, flags : SUBSET {"R", "W", "X"}]
          BY LinkAssumption, SeqFacts
        <5>2. KernelRegions[i].start \in Nat /\ KernelRegions[i].end \in Nat
              /\ LinkBase <= KernelRegions[i].start
          BY <5>1, LinkAssumption
        <5> QED BY <4>3, <5>2
      <4> QED BY <4>1, <4>2, <4>3, <4>4, <4>5
    <3> QED BY <3>2, <3>3 DEF TidyInv, Tidily
  <2>5. held("R") \cap tables = {}
    BY <2>3, <2>4 DEF StacksAreNoTables
  <2>6. held("R") \cap KernelFrames \subseteq StorageFrames \cup {Shared}
    BY <2>3, LayoutAssumption
  <2>7. held("W") \cap held("X") = {}
    BY <2>1, <2>2, MeantFacts
  <2> HIDE DEF tables
  <2> QED BY <2>5, <2>6, <2>7 DEF UserConfined, StorageFrames, tables
<1> QED BY <1>1, TidyAlways, PTL

(* What the comment at vm.c:103 says of the table frames: all of them lie  *)
(* below the kernel; or they are of the pool, in the bss.                  *)
TablesAreLow == Tables \subseteq LowFrames

(* While all tables lie below the kernel or in the pool, whatever process  *)
(* runs, the kernel can write the tables of every process: each root maps  *)
(* the whole window from the end of the firmware's scratch area on and the *)
(* bss, and nothing mapped later takes that away (comment at vm.c:339).    *)
THEOREM LowTablesAreWalkable == Spec => [](TablesAreLow => KernelCanWalk)
<1>1. VMInv /\ TidyInv /\ WalkInv => (TablesAreLow => KernelCanWalk)
  <2> SUFFICES ASSUME VMInv, TidyInv, WalkInv, TablesAreLow, outcome = "up", Booted,
                      NEW p \in Space, NEW q \in Space
               PROVE  TableFramesOf(q) \subseteq Reach(space[p])
    BY DEF KernelCanWalk
  <2>1. p \in DOMAIN space /\ q \in DOMAIN space
    BY AllAreBuilt
  <2>2. TableFramesOf(q) \subseteq LowFrames
    BY <2>1 DEF TablesAreLow, Tables
  <2>3. TableFramesOf(q) \subseteq Common
    BY <2>1, <2>2, AllAreOwn, LowIsCommon DEF TableFramesOf, VMInv
  <2>4. Common \subseteq Reach(space[p])
    BY <2>1 DEF WalkInv
  <2> QED BY <2>3, <2>4
<1> QED BY <1>1, WalkAlways, PTL

(* Once the processes run, no call loses the kernel a table it could       *)
(* write.  A table that SYS_SHM_MAP takes was writable in the root of the  *)
(* caller, and what is both writable there and still free lies in the      *)
(* window or in a stack, which every root maps alike.                      *)
THEOREM CallsKeepWalk == Spec => [][Booted /\ KernelCanWalk => KernelCanWalk']_vars
<1>1. VMInv /\ TidyInv /\ WalkInv /\ [Next]_vars => [Booted /\ KernelCanWalk => KernelCanWalk']_vars
  <2> SUFFICES ASSUME VMInv, TidyInv, WalkInv, [Next]_vars, Booted, KernelCanWalk
               PROVE  KernelCanWalk'
    OBVIOUS
  <2>1. ASSUME outcome' = "up", NEW k \in Space, NEW v \in ShmPages, ShmMap(k, v) PROVE KernelCanWalk'
    <3>1. outcome = "up" /\ DOMAIN space = Space
      BY <2>1, AllAreBuilt DEF ShmMap
    <3>2. /\ WalkInv' /\ DOMAIN space' = DOMAIN space
          /\ \A q \in DOMAIN space :
               AS!TableFrames(space'[q]) \subseteq AS!TableFrames(space[q]) \cup Common
      BY <2>1, WalkShm
    <3>3. \A p \in Space : Reach(space[p]) \subseteq Reach(space'[p])
      BY <3>1, VMStep, ReachGrows DEF SpacesGrow
    <3>4. \A p \in Space : Common \subseteq Reach(space'[p])
      BY <2>1, <3>1, <3>2 DEF WalkInv
    <3>5. ASSUME NEW p \in Space, NEW q \in Space
          PROVE  AS!TableFrames(space'[q]) \subseteq Reach(space'[p])
      <4>1. AS!TableFrames(space[q]) \subseteq Reach(space[p])
        BY <3>1 DEF KernelCanWalk, TableFramesOf
      <4> QED BY <3>1, <3>2, <3>3, <3>4, <4>1
    <3> QED BY <3>5 DEF KernelCanWalk, TableFramesOf
  <2>2. ASSUME NEW k \in Space, NEW q \in Space, NEW v \in ShmPages, CheckBuffer(k, q, v)
        PROVE  KernelCanWalk'
    <3>1. outcome = "up" /\ space' = space
      BY <2>2 DEF CheckBuffer
    <3> QED BY <3>1 DEF KernelCanWalk, TableFramesOf
  <2>3. CASE UNCHANGED vars
    <3>1. outcome' = outcome /\ space' = space
      BY <2>3 DEF vars
    <3> QED BY <3>1 DEF KernelCanWalk, TableFramesOf
  <2>4. ~(BootLoad \/ BootSpace \/ BootAlias \/ BootImage)
    BY DEF BootLoad, BootSpace, BootAlias, BootImage, Doing
  <2>5. outcome' # "up" => KernelCanWalk'
    BY DEF KernelCanWalk
  <2> QED BY <2>1, <2>2, <2>3, <2>4, <2>5 DEF Next
<1> QED BY <1>1, WalkAlways, PTL DEF Spec

(* Wherever the first tables lie, the kernel can write the tables of every *)
(* process once the processes run, if vm_pmm_pages had room left when the  *)
(* first two roots were aliased and the tables made after that, in the     *)
(* boot, are low: vm_map_phys_allocator_pages maps every frame noted so    *)
(* far, those taken while it maps included, into either root.              *)
THEOREM TablesStayInReach ==
  Spec /\ []RoomToNote /\ [][NewTablesAreLow]_vars => []KernelCanWalk
<1>1. Init => SeenInv
  BY DEF Init, SeenInv
<1>2. VMInv /\ SeenInv => KernelCanWalk
  <2> SUFFICES ASSUME VMInv, SeenInv, outcome = "up", Booted, NEW p \in Space, NEW q \in Space
               PROVE  TableFramesOf(q) \subseteq Reach(space[p])
    BY DEF KernelCanWalk
  <2>1. p \in DOMAIN space /\ q \in DOMAIN space /\ phase >= 4
    BY AllAreBuilt
  <2>2. TableFramesOf(q) \subseteq Tables
    BY <2>1 DEF Tables
  <2> QED BY <2>1, <2>2 DEF SeenInv
<1> QED BY <1>1, <1>2, SeenStep, WalkAlways, PTL DEF Spec

=============================================================================
