---------------------------- MODULE IpcEndpoint -----------------------------
(***************************************************************************)
(* One endpoint of the pool of kernel/src/ipc_endpoint.c: a ring of        *)
(* Capacity messages with head, tail and count, the numbering of messages  *)
(* that come without a number, and the closed and active flags.  A call    *)
(* that returns an error changes nothing and is a stuttering step.         *)
(***************************************************************************)
EXTENDS Integers, Sequences

CONSTANTS
  Capacity,   \* AGENT_OS_IPC_QUEUE_CAPACITY
  Body,       \* what a message carries besides its number
  NoBody,     \* the body of a zeroed message
  MaxSeq      \* UINT64_MAX, the last sequence number

ASSUME EndpointAssumption ==
  /\ Capacity \in Nat \ {0}
  /\ MaxSeq \in Nat \ {0}
  /\ NoBody \notin Body

VARIABLES
  queue,         \* the ring; a slot keeps its message after it is received
  head, tail, count,
  nextSequence,  \* next_sequence
  closed, active,
  received       \* *out_message of the last successful receive

vars == <<queue, head, tail, count, nextSequence, closed, active, received>>

Index    == 0 .. Capacity - 1
Sequence == 0 .. MaxSeq
Message  == [body : Body, sequence : Sequence]
Zeroed   == [body |-> NoBody, sequence |-> 0]
Stored   == Message \cup {Zeroed}

TypeOK ==
  /\ queue \in [Index -> Stored]
  /\ head \in Index
  /\ tail \in Index
  /\ count \in 0 .. Capacity
  /\ nextSequence \in Sequence
  /\ closed \in BOOLEAN
  /\ active \in BOOLEAN
  /\ received \in Stored

(* After boot: the static endpoint is initialised, a slot of the pool is   *)
(* zeroed memory.                                                          *)
Init ==
  /\ queue = [i \in Index |-> Zeroed]
  /\ head = 0 /\ tail = 0 /\ count = 0
  /\ active \in BOOLEAN
  /\ nextSequence = IF active THEN 1 ELSE 0
  /\ closed = FALSE
  /\ received = Zeroed

-----------------------------------------------------------------------------
(* The operations. *)

\* Slip: the index is not brought back to the start of the ring.
SuccUnwrapped(i) == i + 1

Succ(i) == (i + 1) % Capacity

\* Slip: the wrap to zero is not skipped.
AfterWrapsToZero(sequence) == (sequence + 1) % (MaxSeq + 1)

(* 64-bit increment that skips zero, the value that asks for a number. *)
After(sequence) ==
  LET n == (sequence + 1) % (MaxSeq + 1) IN IF n = 0 THEN 1 ELSE n

(* agent_os_ipc_endpoint_create on a slot of the pool that is not active. *)
Create ==
  /\ ~active
  /\ queue' = [i \in Index |-> Zeroed]
  /\ head' = 0 /\ tail' = 0 /\ count' = 0
  /\ nextSequence' = 1
  /\ closed' = FALSE /\ active' = TRUE
  /\ UNCHANGED received

Close ==
  /\ active
  /\ closed' = TRUE
  /\ UNCHANGED <<queue, head, tail, count, nextSequence, active, received>>

Destroy ==
  /\ active
  /\ closed' = TRUE /\ active' = FALSE
  /\ head' = 0 /\ tail' = 0 /\ count' = 0
  /\ UNCHANGED <<queue, nextSequence, received>>

(* agent_os_ipc_send: a message without a number takes the next one, and a *)
(* number at or beyond the next one moves it on.                           *)
Send(body, sequence) ==
  /\ active /\ ~closed
  /\ count < Capacity
  /\ LET number == IF sequence = 0 THEN nextSequence ELSE sequence IN
       /\ queue' = [queue EXCEPT ![tail] = [body |-> body, sequence |-> number]]
       /\ nextSequence' = IF number >= nextSequence THEN After(number) ELSE nextSequence
  /\ tail' = Succ(tail)
  /\ count' = count + 1
  /\ UNCHANGED <<head, closed, active, received>>

\* Slip: the newest message is taken instead of the oldest.
RecvNewest ==
  /\ active
  /\ count # 0
  /\ received' = queue[(head + count - 1) % Capacity]
  /\ head' = Succ(head)
  /\ count' = count - 1
  /\ UNCHANGED <<queue, tail, nextSequence, closed, active>>

(* agent_os_ipc_recv, also after a close, until the ring is empty. *)
Recv ==
  /\ active
  /\ count # 0
  /\ received' = queue[head]
  /\ head' = Succ(head)
  /\ count' = count - 1
  /\ UNCHANGED <<queue, tail, nextSequence, closed, active>>

Next ==
  \/ Create \/ Close \/ Destroy \/ Recv
  \/ \E body \in Body, sequence \in Sequence : Send(body, sequence)

Spec == Init /\ [][Next]_vars

-----------------------------------------------------------------------------
(* Properties. *)

(* The messages the ring holds, oldest first. *)
Held == [i \in 1 .. count |-> queue[(head + i - 1) % Capacity]]

(* The three counters agree through every wrap of head and tail, what lies *)
(* between them was sent and carries a number, and the next number of an   *)
(* endpoint in use is never zero, the number that asks for one.            *)
RingInv ==
  /\ tail = (head + count) % Capacity
  /\ \A i \in 1 .. count : Held[i] \in Message /\ Held[i].sequence # 0
  /\ active => nextSequence # 0

(* A receiver sees the sends in order, none twice, none lost, none altered *)
(* but for its number, across close, destroy and reuse of the pool slot.   *)
Fifo == INSTANCE BoundedFifo WITH
  status <- IF ~active THEN "free" ELSE IF closed THEN "closed" ELSE "open",
  buffer <- Held

RefinesFifo == Fifo!Spec
=============================================================================
