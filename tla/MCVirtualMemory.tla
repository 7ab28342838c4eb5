-------------------------- MODULE MCVirtualMemory ---------------------------
(* A small machine for VirtualMemory: pages of two bytes, 34 pages of      *)
(* identity map, of which 19 lie below the kernel.                         *)
EXTENDS VirtualMemory

(* One low table reaches 34 pages, one table above it 102. *)
SpanDef == <<102, 34>>

Kernel ==
  <<[start |-> 20, end |-> 21, flags |-> {"R", "X"}],
    [start |-> 21, end |-> 22, flags |-> {"R"}],
    [start |-> 22, end |-> 23, flags |-> {"R", "W"}],
    [start |-> 23, end |-> 29, flags |-> {"R", "W"}]>>
UserTextDef == [start |-> 29, end |-> 30]
StacksDef   == <<31, 32, 33>>
PoolDef     == <<25, 26>>

(* A stack, the image's area, a page further up, the kernel's half. *)
ShmDef == {31, 35, 68, 102}

Use(base, length) == [usable |-> TRUE, base |-> base, length |-> length]
Hole(base, length) == [usable |-> FALSE, base |-> base, length |-> length]
Bytes(start, end) == [start |-> start, end |-> end]

Seg(page, size, file, flags) == [page |-> page, size |-> size, file |-> file, flags |-> flags]
Images ==
  {[entry |-> 68, segments |-> <<Seg(34, 2, 2, {"R", "X"})>>],
   [entry |-> 68, segments |-> <<Seg(34, 2, 1, {"R", "X"}), Seg(35, 1, 0, {"R", "W"})>>],
   [entry |-> 68, segments |-> <<Seg(34, 3, 3, {"X"}), Seg(35, 2, 2, {"R"})>>],
   [entry |-> 68, segments |-> <<Seg(34, 2, 2, {"R", "W", "X"})>>],
   [entry |-> 69, segments |-> <<Seg(34, 2, 1, {"X"})>>],
   [entry |-> 68, segments |-> <<Seg(34, 2, 2, {"X"}), Seg(36, 2, 2, {"R"})>>]}

(* The low memory is aligned or not, and so are the kernel, the initrd and *)
(* the memory map, which are reserved; the memory above the kernel ends in *)
(* the identity map, goes beyond it or starts there.                       *)
BootsDef ==
  {[map |-> <<low.map, Hole(68, 2), high>>, reserved |-> low.reserved, image |-> i] :
     low \in {[map |-> Use(0, 40),
               reserved |-> <<Bytes(40, 60), Bytes(5, 6), Bytes(0, 2)>>],
              [map |-> Use(1, 38),
               reserved |-> <<Bytes(40, 59), Bytes(70, 73), Bytes(3, 5), Bytes(1, 3)>>]},
     high \in {Use(40, 28), Use(40, 34), Use(70, 4)},
     i \in Images}
=============================================================================
