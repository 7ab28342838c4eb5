------------------------- MODULE IpcEndpointProofs --------------------------
(***************************************************************************)
(* Proofs about the ring of an endpoint, for every capacity and every      *)
(* width of the message numbers: its counters agree, and it implements the *)
(* bounded FIFO.                                                           *)
(***************************************************************************)
EXTENDS IpcEndpoint, SequenceTheorems, TLAPS

(* The inductive invariant: the counters need their types, and the         *)
(* messages the ring holds are where the counters say.                     *)
RingOK == TypeOK /\ RingInv

-----------------------------------------------------------------------------
(* Arithmetic of the ring. *)

(* Going k steps around the ring, at most once, wraps at most once. *)
LEMMA Around ==
  ASSUME NEW a \in Index, NEW k \in 0 .. Capacity
  PROVE  /\ (a + k) % Capacity = IF a + k < Capacity THEN a + k ELSE a + k - Capacity
         /\ (a + k) % Capacity \in Index
<1>1. Capacity \in Nat \ {0} /\ a \in Nat /\ k \in Nat /\ a + k \in Nat
  BY EndpointAssumption DEF Index
<1>2. CASE a + k < Capacity
  <2>1. (a + k) % Capacity = a + k
    BY <1>1, <1>2
  <2> QED BY <2>1, <1>1, <1>2 DEF Index
<1>3. CASE ~(a + k < Capacity)
  <2>1. Capacity <= a + k /\ a + k < 2 * Capacity
    BY <1>1, <1>3 DEF Index
  <2>2. (a + k) % Capacity = (a + k) - Capacity
    BY <1>1, <2>1
  <2> QED BY <2>1, <2>2, <1>1, <1>3 DEF Index
<1> QED BY <1>2, <1>3

(* Succ moves an index to another one of the ring (ipc_endpoint.c, 88). *)
LEMMA SuccInRing ==
  ASSUME NEW a \in Index
  PROVE  Succ(a) \in Index
BY Around, EndpointAssumption DEF Succ, Index

(* The number that follows a number is a number and never zero. *)
LEMMA AfterNonzero ==
  ASSUME NEW n \in Sequence
  PROVE  After(n) \in Sequence \ {0}
<1>1. MaxSeq + 1 \in Nat \ {0} /\ n + 1 \in Nat
  BY EndpointAssumption DEF Sequence
<1>2. (n + 1) % (MaxSeq + 1) \in 0 .. MaxSeq
  BY <1>1, EndpointAssumption
<1> QED BY <1>2, EndpointAssumption DEF After, Sequence

(* The c messages of the ring q from position h on. *)
Window(q, h, c) == [i \in 1 .. c |-> q[(h + i - 1) % Capacity]]

(* A window no larger than the ring is a sequence of messages. *)
LEMMA RingSeq ==
  ASSUME NEW q \in [Index -> Stored], NEW h \in Index, NEW c \in 0 .. Capacity
  PROVE  Window(q, h, c) \in Seq(Stored) /\ Len(Window(q, h, c)) = c
<1>1. Capacity \in Nat /\ c \in Nat /\ h \in Nat
  BY EndpointAssumption DEF Index
<1>2. ASSUME NEW i \in 1 .. c
      PROVE  q[(h + i - 1) % Capacity] \in Stored
  <2>1. i - 1 \in 0 .. Capacity /\ h + i - 1 = h + (i - 1)
    BY <1>1
  <2>2. (h + (i - 1)) % Capacity \in Index
    BY <2>1, Around
  <2> QED BY <2>1, <2>2
<1> QED BY <1>1, <1>2 DEF Window

-----------------------------------------------------------------------------
(* The invariant. *)

LEMMA InitRing == Init => RingOK
<1> SUFFICES ASSUME Init PROVE RingOK
  OBVIOUS
<1>1. 0 \in Index /\ 0 % Capacity = 0
  BY EndpointAssumption DEF Index
<1>2. TypeOK
  <2>1. queue \in [Index -> Stored] /\ received \in Stored
    BY DEF Init, Stored
  <2>2. nextSequence \in Sequence
    BY EndpointAssumption DEF Init, Sequence
  <2>3. count \in 0 .. Capacity
    BY EndpointAssumption DEF Init
  <2>4. active \in BOOLEAN /\ closed \in BOOLEAN /\ head = 0 /\ tail = 0
    BY DEF Init
  <2> QED BY <1>1, <2>1, <2>2, <2>3, <2>4 DEF TypeOK
<1>3. RingInv
  BY <1>1, EndpointAssumption DEF Init, RingInv, Held
<1> QED BY <1>2, <1>3 DEF RingOK

(* A successful send appends one message with a nonzero number. *)
LEMMA SendAppends ==
  ASSUME RingOK, NEW body \in Body, NEW sequence \in Sequence, Send(body, sequence)
  PROVE  /\ RingOK'
         /\ \E number \in Sequence \ {0} :
              Held' = Append(Held, [body |-> body, sequence |-> number])
<1> DEFINE number == IF sequence = 0 THEN nextSequence ELSE sequence
           message == [body |-> body, sequence |-> number]
<1>1. /\ head \in Index /\ tail \in Index /\ count \in Nat /\ count < Capacity
      /\ Capacity \in Nat \ {0} /\ nextSequence \in Sequence /\ nextSequence # 0
      /\ queue \in [Index -> Stored] /\ tail = (head + count) % Capacity
  BY EndpointAssumption DEF RingOK, TypeOK, RingInv, Send
<1>2. number \in Sequence \ {0} /\ message \in Message
  BY <1>1 DEF Message
<1>3. /\ queue' = [queue EXCEPT ![tail] = message]
      /\ nextSequence' = IF number >= nextSequence THEN After(number) ELSE nextSequence
      /\ tail' = Succ(tail) /\ count' = count + 1
      /\ head' = head /\ closed' = closed /\ active' = active /\ received' = received
  BY DEF Send
<1> HIDE DEF number, message
<1>4. TypeOK'
  <2>1. queue' \in [Index -> Stored]
    BY <1>1, <1>2, <1>3 DEF Stored
  <2>2. tail' \in Index /\ count' \in 0 .. Capacity
    BY <1>1, <1>3, SuccInRing
  <2>3. nextSequence' \in Sequence
    BY <1>1, <1>2, <1>3, AfterNonzero
  <2> QED BY <1>3, <2>1, <2>2, <2>3 DEF TypeOK, RingOK
<1>5. ASSUME NEW i \in 1 .. count + 1
      PROVE  Held'[i] = IF i = count + 1 THEN message ELSE Held[i]
  <2>1. Held'[i] = queue'[(head + i - 1) % Capacity]
    BY <1>1, <1>3 DEF Held
  <2>2. CASE i = count + 1
    <3>1. head + i - 1 = head + count
      BY <2>2, <1>1 DEF Index
    <3> QED BY <2>1, <2>2, <3>1, <1>1, <1>3
  <2>3. CASE i # count + 1
    <3> DEFINE k == i - 1
    <3>1. i \in 1 .. count /\ k \in 0 .. Capacity /\ count \in 0 .. Capacity /\ k < count
      BY <2>3, <1>1
    <3>2. head + i - 1 = head + k
      BY <3>1, <1>1 DEF Index
    <3> HIDE DEF k
    <3>3. /\ (head + k) % Capacity =
               IF head + k < Capacity THEN head + k ELSE head + k - Capacity
          /\ (head + k) % Capacity \in Index
      BY <3>1, <1>1, Around
    <3>4. tail = IF head + count < Capacity THEN head + count ELSE head + count - Capacity
      BY <3>1, <1>1, Around
    <3>5. head \in 0 .. Capacity - 1
      BY <1>1 DEF Index
    <3>6. (head + k) % Capacity # tail
      BY <3>1, <3>3, <3>4, <3>5, <1>1
    <3>7. Held[i] = queue[(head + k) % Capacity]
      BY <3>1, <3>2 DEF Held
    <3> QED BY <2>1, <2>3, <3>2, <3>3, <3>6, <3>7, <1>1, <1>3
  <2> QED BY <2>2, <2>3
<1>6. Held' = Append(Held, message)
  <2>1. /\ Held = Window(queue, head, count) /\ count \in 0 .. Capacity
        /\ Held' = Window(queue', head, count + 1) /\ count + 1 \in 0 .. Capacity
        /\ queue' \in [Index -> Stored]
    BY <1>1, <1>3, <1>4 DEF Held, Window, TypeOK
  <2>2. Held \in Seq(Stored) /\ Len(Held) = count
    BY <1>1, <2>1, RingSeq
  <2>3. Held' \in Seq(Stored) /\ Len(Held') = count + 1
    BY <1>1, <2>1, RingSeq
  <2>4. /\ Append(Held, message) \in Seq(Stored)
        /\ Len(Append(Held, message)) = count + 1
        /\ \A i \in 1 .. count : Append(Held, message)[i] = Held[i]
        /\ Append(Held, message)[count + 1] = message
    BY <1>2, <2>2, AppendProperties DEF Stored
  <2>5. \A i \in 1 .. count + 1 : Held'[i] = Append(Held, message)[i]
    BY <1>1, <1>5, <2>4
  <2> QED BY <2>3, <2>4, <2>5, SeqEqual
<1>7. RingInv'
  <2>1. tail' = (head' + count') % Capacity
    <3>1. tail' = (tail + 1) % Capacity
      BY <1>3 DEF Succ
    <3>2. tail \in 0 .. Capacity - 1 /\ head \in 0 .. Capacity - 1
      BY <1>1 DEF Index
    <3>3. count \in 0 .. Capacity /\ count + 1 \in 0 .. Capacity /\ 1 \in 0 .. Capacity
      BY <1>1
    <3>4. tail = IF head + count < Capacity THEN head + count ELSE head + count - Capacity
      BY <1>1, <3>3, Around
    <3>5. (tail + 1) % Capacity =
            IF tail + 1 < Capacity THEN tail + 1 ELSE tail + 1 - Capacity
      BY <1>1, <3>3, Around
    <3>6. (head + (count + 1)) % Capacity =
            IF head + (count + 1) < Capacity THEN head + (count + 1)
                                             ELSE head + (count + 1) - Capacity
      BY <1>1, <3>3, Around
    <3> QED BY <1>1, <1>3, <3>1, <3>2, <3>4, <3>5, <3>6
  <2>2. ASSUME NEW i \in 1 .. count'
        PROVE  Held'[i] \in Message /\ Held'[i].sequence # 0
    <3>1. i \in 1 .. count + 1
      BY <1>3
    <3>2. Held'[i] = IF i = count + 1 THEN message ELSE Held[i]
      BY <1>5, <3>1
    <3>3. CASE i = count + 1
      BY <3>2, <3>3, <1>2 DEF message
    <3>4. CASE i # count + 1
      BY <3>1, <3>2, <3>4, <1>1 DEF RingOK, RingInv
    <3> QED BY <3>3, <3>4
  <2>3. nextSequence' # 0
    BY <1>1, <1>2, <1>3, AfterNonzero
  <2> QED BY <2>1, <2>2, <2>3 DEF RingInv
<1> QED BY <1>2, <1>4, <1>6, <1>7 DEF RingOK, message

(* A successful receive takes the oldest message away. *)
LEMMA RecvTakes ==
  ASSUME RingOK, Recv
  PROVE  /\ RingOK'
         /\ Held # <<>> /\ received' = Head(Held) /\ Held' = Tail(Held)
<1>1. /\ head \in Index /\ tail \in Index /\ count \in 1 .. Capacity
      /\ Capacity \in Nat \ {0} /\ count \in Nat
      /\ queue \in [Index -> Stored] /\ tail = (head + count) % Capacity
  BY EndpointAssumption DEF RingOK, TypeOK, RingInv, Recv
<1>2. /\ received' = queue[head] /\ head' = Succ(head) /\ count' = count - 1
      /\ queue' = queue /\ tail' = tail /\ nextSequence' = nextSequence
      /\ closed' = closed /\ active' = active
  BY DEF Recv
<1>3. TypeOK'
  <2>1. head' \in Index /\ count' \in 0 .. Capacity /\ received' \in Stored
    BY <1>1, <1>2, SuccInRing
  <2> QED BY <1>2, <2>1 DEF RingOK, TypeOK
(* Position i after the receive is position i + 1 before it. *)
<1>4. ASSUME NEW i \in 1 .. count - 1
      PROVE  (head' + i - 1) % Capacity = (head + (i + 1) - 1) % Capacity
  <2>1. i - 1 \in 0 .. Capacity /\ i \in 0 .. Capacity /\ 1 \in 0 .. Capacity
    BY <1>1
  <2>2. head' = (head + 1) % Capacity /\ head' \in Index
    BY <1>1, <1>2, SuccInRing DEF Succ
  <2>3. head' = IF head + 1 < Capacity THEN head + 1 ELSE head + 1 - Capacity
    BY <1>1, <2>1, <2>2, Around
  <2>4. (head + i) % Capacity = IF head + i < Capacity THEN head + i ELSE head + i - Capacity
    BY <1>1, <2>1, Around
  <2>5. (head' + (i - 1)) % Capacity =
          IF head' + (i - 1) < Capacity THEN head' + (i - 1) ELSE head' + (i - 1) - Capacity
    BY <2>1, <2>2, Around
  <2>6. head + (i + 1) - 1 = head + i /\ head' + i - 1 = head' + (i - 1)
    BY <1>1, <2>2 DEF Index
  <2>7. head \in 0 .. Capacity - 1
    BY <1>1 DEF Index
  <2> QED BY <1>1, <2>1, <2>3, <2>4, <2>5, <2>6, <2>7
<1>5. Held \in Seq(Stored) /\ Len(Held) = count
  <2>1. Held = Window(queue, head, count) /\ count \in 0 .. Capacity
    BY <1>1 DEF Held, Window
  <2> QED BY <2>1, <1>1, RingSeq
<1>6. Held # <<>>
  BY <1>1, <1>5
<1>7. received' = Head(Held)
  <2>1. Head(Held) = Held[1]
    BY <1>5, <1>6
  <2>2. Held[1] = queue[(head + 1 - 1) % Capacity]
    BY <1>1 DEF Held
  <2>3. 0 \in 0 .. Capacity /\ head + 1 - 1 = head + 0 /\ head + 0 = head /\ head < Capacity
    BY <1>1 DEF Index
  <2>4. (head + 0) % Capacity = head
    BY <1>1, <2>3, Around
  <2> QED BY <1>2, <2>1, <2>2, <2>3, <2>4
<1>8. Held' = Tail(Held)
  <2>1. /\ Tail(Held) \in Seq(Stored) /\ Len(Tail(Held)) = count - 1
        /\ \A i \in 1 .. count - 1 : Tail(Held)[i] = Held[i + 1]
    BY <1>5, <1>6, HeadTailProperties
  <2>2. /\ Held' = Window(queue, head', count - 1)
        /\ head' \in Index /\ count - 1 \in 0 .. Capacity
    BY <1>1, <1>2, <1>3 DEF Held, Window, TypeOK
  <2>3. Held' \in Seq(Stored) /\ Len(Held') = count - 1
    BY <1>1, <2>2, RingSeq
  <2>4. ASSUME NEW i \in 1 .. count - 1
        PROVE  Held'[i] = Held[i + 1]
    <3>1. i + 1 \in 1 .. count
      BY <1>1
    <3> QED BY <3>1, <1>2, <1>4 DEF Held
  <2> QED BY <2>1, <2>3, <2>4, SeqEqual
<1>9. RingInv'
  <2>1. tail' = (head' + count') % Capacity
    <3>1. head' = (head + 1) % Capacity /\ head' \in Index
      BY <1>1, <1>2, SuccInRing DEF Succ
    <3>2. count - 1 \in 0 .. Capacity /\ count \in 0 .. Capacity /\ 1 \in 0 .. Capacity
      BY <1>1
    <3>3. head' = IF head + 1 < Capacity THEN head + 1 ELSE head + 1 - Capacity
      BY <1>1, <3>1, <3>2, Around
    <3>4. tail = IF head + count < Capacity THEN head + count ELSE head + count - Capacity
      BY <1>1, <3>2, Around
    <3>5. (head' + (count - 1)) % Capacity =
            IF head' + (count - 1) < Capacity THEN head' + (count - 1)
                                              ELSE head' + (count - 1) - Capacity
      BY <3>1, <3>2, Around
    <3>6. head \in 0 .. Capacity - 1
      BY <1>1 DEF Index
    <3> QED BY <1>1, <1>2, <3>3, <3>4, <3>5, <3>6
  <2>2. ASSUME NEW i \in 1 .. count'
        PROVE  Held'[i] \in Message /\ Held'[i].sequence # 0
    <3>1. i \in 1 .. count - 1 /\ i + 1 \in 1 .. count
      BY <1>1, <1>2
    <3>2. Held'[i] = Held[i + 1]
      BY <1>2, <1>4, <3>1 DEF Held
    <3> QED BY <3>1, <3>2 DEF RingOK, RingInv
  <2>3. active' => nextSequence' # 0
    BY <1>2 DEF RingOK, RingInv
  <2> QED BY <2>1, <2>2, <2>3 DEF RingInv
<1> QED BY <1>3, <1>6, <1>7, <1>8, <1>9 DEF RingOK

(* Creating and destroying leave the ring empty. *)
LEMMA EmptiedRing ==
  ASSUME RingOK, Create \/ Destroy
  PROVE  RingOK' /\ Held' = <<>>
<1>1. 0 \in Index /\ 0 % Capacity = 0 /\ 0 \in 0 .. Capacity /\ 1 \in Sequence
  BY EndpointAssumption DEF Index, Sequence
<1>2. head' = 0 /\ tail' = 0 /\ count' = 0
  BY DEF Create, Destroy
<1>3. TypeOK'
  BY <1>1, <1>2 DEF RingOK, TypeOK, Create, Destroy, Stored
<1>4. active' => nextSequence' # 0
  BY DEF Create, Destroy
<1>5. RingInv'
  BY <1>1, <1>2, <1>4 DEF RingInv
<1>6. Held' = <<>>
  BY <1>2 DEF Held
<1> QED BY <1>3, <1>5, <1>6 DEF RingOK

LEMMA ClosedRing ==
  ASSUME RingOK, Close
  PROVE  RingOK' /\ Held' = Held
BY DEF RingOK, TypeOK, RingInv, Held, Close

LEMMA IdleRing ==
  ASSUME RingOK, UNCHANGED vars
  PROVE  RingOK' /\ Held' = Held
BY DEF RingOK, TypeOK, RingInv, Held, vars

LEMMA StepRing == RingOK /\ [Next]_vars => RingOK'
<1> SUFFICES ASSUME RingOK, [Next]_vars PROVE RingOK'
  OBVIOUS
<1>1. CASE Create \/ Destroy
  BY <1>1, EmptiedRing
<1>2. CASE Close
  BY <1>2, ClosedRing
<1>3. CASE Recv
  BY <1>3, RecvTakes
<1>4. CASE \E body \in Body, sequence \in Sequence : Send(body, sequence)
  BY <1>4, SendAppends
<1>5. CASE UNCHANGED vars
  BY <1>5, IdleRing
<1> QED BY <1>1, <1>2, <1>3, <1>4, <1>5 DEF Next

LEMMA AlwaysRing == Spec => []RingOK
BY InitRing, StepRing, PTL DEF Spec

(* The indices, the count and the numbers stay in range, whatever the      *)
(* capacity and the width of the numbers (struct AgentOsIpcEndpoint).      *)
THEOREM RingTypeCorrect == Spec => []TypeOK
<1>1. RingOK => TypeOK
  BY DEF RingOK
<1> QED BY <1>1, AlwaysRing, PTL

(* head, tail and count agree, what lies between them was sent under a     *)
(* nonzero number, and the next number is not zero.                        *)
THEOREM RingKept == Spec => []RingInv
<1>1. RingOK => RingInv
  BY DEF RingOK
<1> QED BY <1>1, AlwaysRing, PTL

-----------------------------------------------------------------------------
(* The refinement. *)

LEMMA FifoInit == Init => Fifo!Init
<1> SUFFICES ASSUME Init PROVE Fifo!Init
  OBVIOUS
<1>1. Held = <<>>
  BY DEF Init, Held
<1>2. ~closed
  BY DEF Init
<1> QED BY <1>1, <1>2 DEF Fifo!Init

LEMMA FifoStep == RingOK /\ [Next]_vars => [Fifo!Next]_Fifo!vars
<1> SUFFICES ASSUME RingOK, [Next]_vars PROVE [Fifo!Next]_Fifo!vars
  OBVIOUS
<1>1. CASE Create \/ Destroy
  <2>1. Held' = <<>> /\ received' = received
    BY <1>1, EmptiedRing DEF Create, Destroy
  <2>2. ~active' \/ ~closed'
    BY <1>1 DEF Create, Destroy
  <2>3. Fifo!Reset
    BY <2>1, <2>2 DEF Fifo!Reset
  <2> QED BY <2>3 DEF Fifo!Next
<1>2. CASE Close
  <2>1. Held' = Held
    BY <1>2, ClosedRing
  <2>2. active /\ active' /\ closed' /\ received' = received
    BY <1>2 DEF Close
  <2>3. Fifo!Close
    BY <2>1, <2>2 DEF Fifo!Close
  <2> QED BY <2>3 DEF Fifo!Next
<1>3. CASE Recv
  <2>1. Held # <<>> /\ received' = Head(Held) /\ Held' = Tail(Held)
    BY <1>3, RecvTakes
  <2>2. active' = active /\ closed' = closed
    BY <1>3 DEF Recv
  <2>3. Fifo!Deliver
    BY <2>1, <2>2 DEF Fifo!Deliver
  <2> QED BY <2>3 DEF Fifo!Next
<1>4. CASE \E body \in Body, sequence \in Sequence : Send(body, sequence)
  <2>1. PICK body \in Body, sequence \in Sequence : Send(body, sequence)
    BY <1>4
  <2>2. PICK number \in Sequence \ {0} :
          Held' = Append(Held, [body |-> body, sequence |-> number])
    BY <2>1, SendAppends
  <2>3. /\ active /\ active' = active /\ ~closed /\ closed' = closed
        /\ received' = received /\ count < Capacity /\ count \in Nat
    BY <2>1 DEF Send, RingOK, TypeOK
  <2>4. Len(Held) = count
    BY <2>3 DEF Held
  <2>5. Fifo!Accept(body, number)
    BY <2>2, <2>3, <2>4 DEF Fifo!Accept
  <2> QED BY <2>5 DEF Fifo!Next
<1>5. CASE UNCHANGED vars
  <2>1. Held' = Held
    BY <1>5, IdleRing
  <2> QED BY <1>5, <2>1 DEF vars, Fifo!vars
<1> QED BY <1>1, <1>2, <1>3, <1>4, <1>5 DEF Next

(* The ring delivers what was sent, once, in order and unaltered but for   *)
(* its number, across wraps, close, destroy and reuse.                     *)
THEOREM RingIsFifo == Spec => RefinesFifo
BY FifoInit, FifoStep, AlwaysRing, PTL DEF Spec, RefinesFifo, Fifo!Spec
=============================================================================
