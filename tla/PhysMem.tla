------------------------------ MODULE PhysMem -------------------------------
(***************************************************************************)
(* The physical page allocator of kernel/src/physmem.c.  It carves page    *)
(* ranges out of the firmware's memory map, around the reserved byte       *)
(* ranges, and hands their frames out in order; nothing is ever given back.*)
(* Addresses are bytes, frames are page numbers.  The saturation of sums   *)
(* that pass 2^64 is left out.                                             *)
(***************************************************************************)
EXTENDS Integers, Sequences, FiniteSets, SequencesExt

CONSTANTS
  PageBytes,  \* 0x1000
  Minimum,    \* 0x10000: the firmware scratch area ends here
  MaxRanges   \* PHYS_MAX_RANGES

ASSUME PhysMemAssumption ==
  /\ PageBytes \in Nat \ {0}
  /\ Minimum \in Nat
  /\ MaxRanges \in Nat \ {0}

(* A memory map is a sequence of [usable, base, length], usable being      *)
(* type 1; reserved ranges are a sequence of [start, end].                 *)

FrameOf(byte) == byte \div PageBytes

\* Slip: an unaligned end loses its page.
FirstFrameAfterDown(byte) == FrameOf(byte)

(* up(): the first frame that starts at or after a byte. *)
FirstFrameAfter(byte) == (byte + PageBytes - 1) \div PageBytes

(* The frames an entry of the memory map offers: first and end. *)
FirstOf(e) == FirstFrameAfter(IF e.base < Minimum THEN Minimum ELSE e.base)
EndOf(e)   == FrameOf(e.base + e.length)

(* The frames a reserved range touches: its start rounded down, its end up. *)
ReservedFirst(r) == FrameOf(r.start)
ReservedEnd(r)   == FirstFrameAfter(r.end)

(* The reserved ranges that still lie ahead of frame c in an entry that    *)
(* ends at end, and the first of those that start lowest.                  *)
Ahead(reserved, c, end) ==
  {i \in DOMAIN reserved : ReservedEnd(reserved[i]) > c /\ ReservedFirst(reserved[i]) < end}

Nearest(reserved, S) ==
  CHOOSE i \in S : \A j \in S :
    \/ ReservedFirst(reserved[i]) < ReservedFirst(reserved[j])
    \/ ReservedFirst(reserved[i]) = ReservedFirst(reserved[j]) /\ i <= j

(* The while loop of phys_allocator_init over one entry, from cursor c: a  *)
(* range up to the next reserved one, then on behind it.                   *)
Carve(reserved, end) ==
  LET from[c \in Nat] ==
        IF c >= end THEN <<>>
        ELSE LET S == Ahead(reserved, c, end) IN
             IF S = {} THEN <<[next |-> c, end |-> end]>>
             ELSE LET r == reserved[Nearest(reserved, S)] IN
                  (IF ReservedFirst(r) > c THEN <<[next |-> c, end |-> ReservedFirst(r)]>>
                                           ELSE <<>>)
                  \o from[ReservedEnd(r)]
  IN  from

(* phys_allocator_init: the ranges of all entries, the first MaxRanges.    *)
Ranges(map, reserved) ==
  LET all == FlattenSeq([i \in DOMAIN map |->
                IF map[i].usable /\ FirstOf(map[i]) < EndOf(map[i])
                  THEN Carve(reserved, EndOf(map[i]))[FirstOf(map[i])]
                  ELSE <<>>])
  IN  SubSeq(all, 1, IF Len(all) < MaxRanges THEN Len(all) ELSE MaxRanges)

(* phys_alloc_page.  Ranges before current_range are used up, so the       *)
(* current range is the first that is not.                                 *)
Exhausted(ranges) == \A i \in DOMAIN ranges : ranges[i].next >= ranges[i].end

CurrentRange(ranges) ==
  CHOOSE i \in DOMAIN ranges :
    /\ ranges[i].next < ranges[i].end
    /\ \A j \in 1 .. i - 1 : ranges[j].next >= ranges[j].end

NextFrame(ranges) == ranges[CurrentRange(ranges)].next
AfterAlloc(ranges) == [ranges EXCEPT ![CurrentRange(ranges)].next = @ + 1]

(* Reference: the frames that may be handed out lie wholly in usable       *)
(* memory, above the scratch area, and share no byte with what is reserved.*)
FreeFrames(map, reserved) ==
  {f \in UNION {FrameOf(map[i].base) .. EndOf(map[i]) : i \in DOMAIN map} :
     /\ f * PageBytes >= Minimum
     /\ \E i \in DOMAIN map :
          /\ map[i].usable
          /\ map[i].base <= f * PageBytes
          /\ (f + 1) * PageBytes <= map[i].base + map[i].length
     /\ \A i \in DOMAIN reserved :
          \/ reserved[i].end <= f * PageBytes
          \/ (f + 1) * PageBytes <= reserved[i].start}
=============================================================================
