---------------------------- MODULE BoundedFifo -----------------------------
(***************************************************************************)
(* What an IPC endpoint promises, without the ring: a bounded queue that   *)
(* delivers each accepted message once, unchanged and in the order of the  *)
(* sends, under a number that is never zero; it drains after a close and   *)
(* forgets its contents when it is destroyed.                              *)
(***************************************************************************)
EXTENDS Naturals, Sequences

CONSTANTS Body, Sequence, Capacity

VARIABLES
  status,     \* "free", "open" or "closed"
  buffer,     \* the messages accepted and not yet received
  received    \* the message of the last receive

vars == <<status, buffer, received>>

Init == status \in {"free", "open"} /\ buffer = <<>>

Accept(body, sequence) ==
  /\ status = "open"
  /\ Len(buffer) < Capacity
  /\ buffer' = Append(buffer, [body |-> body, sequence |-> sequence])
  /\ UNCHANGED <<status, received>>

Deliver ==
  /\ buffer # <<>>
  /\ received' = Head(buffer)
  /\ buffer' = Tail(buffer)
  /\ UNCHANGED status

Close ==
  /\ status # "free"
  /\ status' = "closed"
  /\ UNCHANGED <<buffer, received>>

(* Creating and destroying an endpoint both drop what is queued. *)
Reset ==
  /\ status' \in {"free", "open"}
  /\ buffer' = <<>>
  /\ UNCHANGED received

Next ==
  \/ \E body \in Body, sequence \in Sequence \ {0} : Accept(body, sequence)
  \/ Deliver
  \/ Close
  \/ Reset

Spec == Init /\ [][Next]_vars
=============================================================================
