--------------------------- MODULE VirtualMemory ----------------------------
(***************************************************************************)
(* How the kernel builds and uses the address spaces of its processes      *)
(* (kernel/src/vm.c, elf_user_loader.c and the boot sequence and           *)
(* SYS_SHM_MAP of kernel.c), on top of the frame allocator and the page    *)
(* tables.  Until the launch the kernel runs on the bootstrap tables; from *)
(* then on it runs on the tables of the process that called it.            *)
(***************************************************************************)
EXTENDS PhysMem

CONSTANTS
  Span, UserLimit, PageLimit, MaxRegions,   \* as in AddressSpace
  NumSpaces,      \* processes the boot configuration has
  WindowStart,    \* 0x10000, as a page
  LinkBase,       \* AGENT_OS_KERNEL_LINK_BASE
  IdentityEnd,    \* AGENT_OS_IDENTITY_MAP_END
  HighBase,       \* AGENT_OS_HIGH_HALF_KERNEL_BASE
  KernelRegions,  \* those of text, rodata, data and bss that are not empty:
                  \* [start, end, flags]
  UserText,       \* the pages of __user_text: [start, end]
  Stacks,         \* the user stack pages
  Pool,           \* the frames of process_page_pool, in the bss
  MaxPmm,         \* entries of vm_pmm_pages
  ElfBase,        \* 0x400000, the virtual page user images are linked at
  Storage,        \* the first frame of user_load_storage, in the bss
  StorageLength,  \* and its number of frames
  MaxSegments,    \* AGENT_OS_ELF_MAX_SEGMENTS
  Shared,         \* the frame of shared_test_page, in the bss
  ShmPages,       \* the addresses callers pass to SYS_SHM_MAP
  Boots           \* what the loader hands over: [map, reserved, image]

ASSUME VirtualMemoryAssumption ==
  /\ Span \in Seq(Nat \ {0})
  /\ PageLimit \in Nat /\ UserLimit \in 0 .. PageLimit
  /\ MaxRegions \in Nat /\ MaxPmm \in Nat
  /\ NumSpaces \in {2, 3}
  /\ {WindowStart, LinkBase, IdentityEnd, HighBase, ElfBase, Storage, Shared} \subseteq Nat
  /\ WindowStart < LinkBase /\ LinkBase < IdentityEnd
  /\ WindowStart * PageBytes <= Minimum
  /\ ShmPages \subseteq Nat

(* linker.ld puts the sections of the kernel and the user text at the link *)
(* base or behind it, the kernel within the identity map (it asserts that, *)
(* and vm_high_half_address refuses what lies beyond it), the stacks lie   *)
(* behind the user text, and the high half lies further up.                *)
ASSUME LinkAssumption ==
  /\ KernelRegions \in Seq([start : Nat, end : Nat, flags : SUBSET {"R", "W", "X"}])
  /\ \A i \in DOMAIN KernelRegions :
       /\ LinkBase <= KernelRegions[i].start
       /\ KernelRegions[i].start < KernelRegions[i].end
       /\ KernelRegions[i].end <= IdentityEnd
  /\ UserText \in [start : Nat, end : Nat]
  /\ LinkBase <= UserText.start /\ UserText.start <= UserText.end
  /\ Stacks \in Seq(Nat)
  /\ \A i \in DOMAIN Stacks : LinkBase <= Stacks[i]
  /\ IdentityEnd <= HighBase

ASSUME ImageAssumption ==
  \A b \in Boots :
    b.image.segments \in
      Seq([page : Nat, size : Nat, file : Nat, flags : SUBSET {"R", "W", "X"}])

KernelFrames == UNION {KernelRegions[i].start .. KernelRegions[i].end - 1 :
                         i \in DOMAIN KernelRegions}
TextFrames    == UserText.start .. UserText.end - 1
StackFrames   == {Stacks[i] : i \in DOMAIN Stacks}
PoolFrames    == {Pool[i] : i \in DOMAIN Pool}
StorageFrames == Storage .. Storage + StorageLength - 1

(* The pool, the storage of the image and the shared page are objects of   *)
(* the bss, each of its own, which can be written; the user text lies      *)
(* behind the kernel and the stacks behind the user text.                  *)
ASSUME LayoutAssumption ==
  /\ Pool \in Seq(Nat \ {0})
  /\ \A i, j \in DOMAIN Pool : i # j => Pool[i] # Pool[j]
  /\ StorageLength \in Nat
  /\ PoolFrames \cup StorageFrames \cup {Shared} \subseteq KernelFrames
  /\ \A i \in DOMAIN KernelRegions :
       PoolFrames \cap (KernelRegions[i].start .. KernelRegions[i].end - 1) # {} =>
         "W" \in KernelRegions[i].flags
  /\ PoolFrames \cap StorageFrames = {} /\ Shared \notin PoolFrames \cup StorageFrames
  /\ TextFrames \cap KernelFrames = {}
  /\ StackFrames \cap (TextFrames \cup KernelFrames) = {}

(* Firmware describes no byte of usable memory twice, a reserved range     *)
(* begins before it ends, and the loader reserves a part at least of every *)
(* page of the kernel image, the user text included.                       *)
ASSUME LoaderAssumption ==
  \A b \in Boots :
    /\ b.map \in Seq([usable : BOOLEAN, base : Nat, length : Nat])
    /\ \A i, j \in DOMAIN b.map :
         i # j /\ b.map[i].usable /\ b.map[j].usable =>
           \/ b.map[i].base + b.map[i].length <= b.map[j].base
           \/ b.map[j].base + b.map[j].length <= b.map[i].base
    /\ b.reserved \in Seq([start : Nat, end : Nat])
    /\ \A i \in DOMAIN b.reserved : b.reserved[i].start <= b.reserved[i].end
    /\ \A f \in KernelFrames \cup TextFrames : \E i \in DOMAIN b.reserved :
         /\ b.reserved[i].start < (f + 1) * PageBytes
         /\ f * PageBytes < b.reserved[i].end

Space == 0 .. NumSpaces - 1

VARIABLES
  boot,     \* BootInfo and the user image
  phase,    \* how many steps of BootOrder are done
  mem,      \* the sources of table frames [ranges, pool, pmm]
  space,    \* process -> address space, those built so far
  outcome   \* "up", or how the machine stopped

vars == <<boot, phase, mem, space, outcome>>

-----------------------------------------------------------------------------
(* process_page_allocate. *)

FromPool(m) ==
  IF m.pool < Len(Pool)
    THEN [status |-> "OK", frame |-> Pool[m.pool + 1], pool |-> [m EXCEPT !.pool = @ + 1]]
    ELSE [status |-> "NO_MEMORY", frame |-> 0, pool |-> m]

(* A frame of the physical allocator beyond the identity map is taken from *)
(* it all the same, and the pool steps in.  A frame is cleared through its *)
(* identity address: where that is not mapped the kernel faults.           *)
TakeFrame(m, reach) ==
  IF Exhausted(m.ranges) THEN FromPool(m)
  ELSE LET f == NextFrame(m.ranges)
           rest == [m EXCEPT !.ranges = AfterAlloc(m.ranges)]
       IN  IF f = 0 \/ f >= IdentityEnd THEN FromPool(rest)
           ELSE IF f \notin reach THEN [status |-> "FAULT", frame |-> 0, pool |-> rest]
           ELSE [status |-> "OK", frame |-> f,
                 pool |-> IF Len(m.pmm) < MaxPmm THEN [rest EXCEPT !.pmm = Append(@, f)]
                                                 ELSE rest]

AS == INSTANCE AddressSpace WITH Take <- TakeFrame

(* What vm_init leaves writable in the bootstrap tables. *)
BootReach ==
  {f \in 1 .. IdentityEnd - 1 :
     /\ f \notin UserText.start .. UserText.end - 1
     /\ \A i \in DOMAIN KernelRegions :
          f \in KernelRegions[i].start .. KernelRegions[i].end - 1 =>
            "W" \in KernelRegions[i].flags}

(* The frames the kernel can write at their identity address while it runs *)
(* on the tables of sp.                                                    *)
Reach(sp) ==
  {f \in 0 .. IdentityEnd - 1 :
     f \in DOMAIN sp.leaves /\ sp.leaves[f].frame = f /\ "W" \in sp.leaves[f].flags}

-----------------------------------------------------------------------------
(* The mappings of a process root. *)

Request(v, frame, n, flags) == [v |-> v, frame |-> frame, n |-> n, flags |-> flags]

(* User mappings come first, so that the tables on their way are user      *)
(* tables.                                                                 *)
UserRequests ==
  <<Request(UserText.start, UserText.start, UserText.end - UserText.start, {"R", "X", "U"})>>
    \o [i \in DOMAIN Stacks |-> Request(Stacks[i], Stacks[i], 1, {"R", "W", "U"})]

KernelRequests ==
  [i \in DOMAIN KernelRegions |->
     LET k == KernelRegions[i] IN Request(k.start, k.start, k.end - k.start, k.flags)]

LowRequests == UserRequests \o KernelRequests

(* vm_prepare_high_half_alias. *)
HighPage(f) == HighBase + (f - LinkBase)

HighRequests ==
  [i \in DOMAIN KernelRegions |->
     LET k == KernelRegions[i] IN
       Request(HighPage(k.start), k.start, k.end - k.start, k.flags)]

MapAll(r, requests, reach) ==
  LET after[i \in 0 .. Len(requests)] ==
        IF i = 0 THEN r
        ELSE LET p == after[i - 1]
                 q == requests[i]
             IN  IF p.status # "OK" THEN p
                 ELSE AS!Map(p.sp, p.m, q.v, q.frame, q.n, q.flags, reach)
  IN  after[Len(requests)]

(* A mapping that is there already is as good. *)
Tolerated(r) == IF r.status = "BUSY" THEN [r EXCEPT !.status = "OK"] ELSE r

\* Slip: the window can only be read.
WindowReadOnly == {"R"}

WindowFlags == {"R", "W"}

(* vm_map_phys_allocator_pages: the window below the kernel, then every    *)
(* table frame taken so far, those taken meanwhile included.               *)
MapPmmPages(r, reach) ==
  LET window == Tolerated(AS!Map(r.sp, r.m, WindowStart, WindowStart,
                                 LinkBase - WindowStart, WindowFlags, reach))
      from[i \in 1 .. MaxPmm + 1] ==
        LET p == IF i = 1 THEN window ELSE from[i - 1] IN
          IF p.status # "OK" \/ i > Len(p.m.pmm) THEN p
          ELSE Tolerated(AS!Map(p.sp, p.m, p.m.pmm[i], p.m.pmm[i], 1, {"R", "W"}, reach))
  IN  IF r.status # "OK" THEN r ELSE from[MaxPmm + 1]

(* vm_process_address_space_init. *)
InitSpace(m, reach) ==
  LET root == TakeFrame(m, reach) IN
    IF root.status # "OK"
      THEN AS!Outcome(AS!EmptySpace(0), root.pool, root.status)
      ELSE MapPmmPages(MapAll(AS!Outcome(AS!EmptySpace(root.frame), root.pool, "OK"),
                              LowRequests \o HighRequests, reach),
                       reach)

-----------------------------------------------------------------------------
(* The user image. *)

(* A segment is [page, size, file, flags], sizes in bytes. *)
PagesOf(s)   == s.page .. s.page + FirstFrameAfter(s.size) - 1
ByteStart(s) == s.page * PageBytes

SegmentsApart(s, t) == PagesOf(s) \cap PagesOf(t) = {}

(* agent_os_elf64_plan accepts the image; what the header and the offsets  *)
(* of a file can get wrong is left out.                                    *)
Planned(image) ==
  /\ Len(image.segments) \in 1 .. MaxSegments
  /\ \A i \in DOMAIN image.segments :
       LET s == image.segments[i] IN
         /\ s.size # 0 /\ s.file <= s.size
         /\ s.flags # {} /\ ~({"W", "X"} \subseteq s.flags)
         /\ s.page + FirstFrameAfter(s.size) <= UserLimit
         /\ \A j \in 1 .. i - 1 : SegmentsApart(s, image.segments[j])
  /\ \E i \in DOMAIN image.segments :
       LET s == image.segments[i] IN
         /\ "X" \in s.flags
         /\ image.entry \in ByteStart(s) .. ByteStart(s) + s.file - 1

(* agent_os_elf64_load: what is planned also fits the storage. *)
Loaded(image) ==
  /\ Planned(image)
  /\ \A i \in DOMAIN image.segments :
       PagesOf(image.segments[i]) \subseteq ElfBase .. ElfBase + StorageLength - 1

\* Slip: the storage is indexed from one.
StoredNext(page) == Storage + (page - ElfBase) + 1

(* The frame of the storage a page of the image was loaded into. *)
StoredAt(page) == Storage + (page - ElfBase)

ElfRequests(image) ==
  [i \in DOMAIN image.segments |->
     LET s == image.segments[i] IN
       Request(s.page, StoredAt(s.page), FirstFrameAfter(s.size),
               s.flags \cup {"U"})]

-----------------------------------------------------------------------------
(* Boot (kernel_main).  A step that fails halts the machine. *)

BootOrder ==
  IF NumSpaces = 2 THEN <<"load", "space", "space", "alias", "image">>
                   ELSE <<"load", "space", "space", "alias", "space", "image">>

Booted == phase = Len(BootOrder)
Doing(step) == outcome = "up" /\ ~Booted /\ BootOrder[phase + 1] = step

Init ==
  /\ boot \in Boots
  /\ phase = 0
  /\ mem = [ranges |-> Ranges(boot.map, boot.reserved), pool |-> 0, pmm |-> <<>>]
  /\ space = <<>>
  /\ outcome = "up"

(* What a failed step of the boot sequence was about. *)
Halt(status) ==
  CASE status = "OK"        -> "up"
    [] status = "NO_MEMORY" -> "out of memory"
    [] status = "FAULT"     -> "fault"
    [] OTHER                -> "refused"

BootLoad ==
  /\ Doing("load")
  /\ phase' = phase + 1
  /\ outcome' = IF Loaded(boot.image) THEN "up" ELSE "image refused"
  /\ UNCHANGED <<boot, mem, space>>

(* The next process gets its root. *)
BootSpace ==
  /\ Doing("space")
  /\ phase' = phase + 1
  /\ LET p == Cardinality(DOMAIN space)
         r == InitSpace(mem, BootReach)
     IN  /\ space' = AS!With(space, p, r.sp)
         /\ mem' = r.m
         /\ outcome' = Halt(r.status)
  /\ UNCHANGED boot

(* The first two roots see each other's table frames. *)
BootAlias ==
  /\ Doing("alias")
  /\ phase' = phase + 1
  /\ LET a == MapPmmPages(AS!Outcome(space[0], mem, "OK"), BootReach)
         b == IF a.status = "OK"
                THEN MapPmmPages(AS!Outcome(space[1], a.m, "OK"), BootReach)
                ELSE AS!Outcome(space[1], a.m, a.status)
     IN  /\ space' = [space EXCEPT ![0] = a.sp, ![1] = b.sp]
         /\ mem' = b.m
         /\ outcome' = Halt(b.status)
  /\ UNCHANGED boot

(* The segments of the image are mapped into the first root. *)
BootImage ==
  /\ Doing("image")
  /\ phase' = phase + 1
  /\ LET r == MapAll(AS!Outcome(space[0], mem, "OK"), ElfRequests(boot.image), BootReach) IN
       /\ space' = [space EXCEPT ![0] = r.sp]
       /\ mem' = r.m
       /\ outcome' = Halt(r.status)
  /\ UNCHANGED boot

-----------------------------------------------------------------------------
(* System calls. *)

(* PhysAllocator allocator is a local of kernel_main, and rsp0 is the top  *)
(* of the stack kernel_main runs on: once the processes run, the calls     *)
(* overwrite its frame.  An allocation may then find the ranges as they    *)
(* were, find none left, or be given any word for a frame, which it clears.*)
Survivors == {mem, [mem EXCEPT !.ranges = <<>>]}

(* SYS_SHM_MAP of process p at page v, by a holder of the right to map. *)
ShmMap(p, v) ==
  /\ outcome = "up" /\ Booted
  /\ \E m \in Survivors :
       LET r == AS!Map(space[p], m, v, Shared, 1, {"R", "W", "U"}, Reach(space[p])) IN
         \/ /\ space' = [space EXCEPT ![p] = r.sp]
            /\ mem' = r.m
            /\ outcome' = IF r.status = "FAULT" THEN "fault" ELSE "up"
         \/ /\ r.m # m
            /\ outcome' = "astray"
            /\ UNCHANGED <<space, mem>>
  /\ UNCHANGED <<boot, phase>>

(* The check of a user buffer at page v of process q, made while p runs:   *)
(* p's own in most calls, that of a blocked receiver in SYS_IPC_CALL.      *)
CheckBuffer(p, q, v) ==
  /\ outcome = "up" /\ Booted
  /\ outcome' = IF AS!WalkFrames(space[q], v) \subseteq Reach(space[p]) THEN "up" ELSE "fault"
  /\ UNCHANGED <<boot, phase, mem, space>>

Next ==
  \/ BootLoad \/ BootSpace \/ BootAlias \/ BootImage
  \/ \E p \in Space, v \in ShmPages : ShmMap(p, v)
  \/ \E p, q \in Space, v \in ShmPages : CheckBuffer(p, q, v)

Spec == Init /\ [][Next]_vars

-----------------------------------------------------------------------------
(* Properties. *)

Spaces == {space[p] : p \in DOMAIN space}
TableFramesOf(p) == AS!TableFrames(space[p])

(* Every table of every process has a frame of its own, out of memory that *)
(* is usable and not reserved to the byte, or out of the pool (comment at  *)
(* physmem.c:50).                                                          *)
FramesAreFree ==
  /\ \A p \in DOMAIN space : space[p].root # 0 =>
       /\ TableFramesOf(p) \subseteq FreeFrames(boot.map, boot.reserved) \cup PoolFrames
       /\ Cardinality(TableFramesOf(p)) = 1 + Cardinality(DOMAIN space[p].tables)
       /\ \A q \in DOMAIN space \ {p} : TableFramesOf(p) \cap TableFramesOf(q) = {}

RegionPages(g) == g.page .. g.page + g.length - 1

(* While the machine is up, the regions a space records are what its       *)
(* tables hold, through every mapping that was refused or ran out of       *)
(* frames half way: each page of a region leads to its frame with its      *)
(* flags, user code reaches it iff it is a user region, and no other page  *)
(* is mapped.                                                              *)
RegionsHold ==
  outcome = "up" => \A sp \in Spaces :
    /\ Len(sp.regions) <= MaxRegions
    /\ \A i \in DOMAIN sp.regions :
         LET g == sp.regions[i] IN
           \A n \in 0 .. g.length - 1 :
             /\ AS!MappedTo(sp, g.page + n, g.frame + n, g.flags)
             /\ "U" \in g.flags <=> AS!UserPageOk(sp, g.page + n, FALSE, FALSE)
    /\ DOMAIN sp.leaves = UNION {RegionPages(sp.regions[i]) : i \in DOMAIN sp.regions}

(* Once the processes run, the kernel can read and write the tables of any *)
(* process while it runs on those of any other (comment at vm.c:339).      *)
KernelCanWalk ==
  outcome = "up" /\ Booted =>
    LET tables == UNION {TableFramesOf(q) : q \in Space} IN
      \A p \in Space : tables \subseteq Reach(space[p])

UserLeaves ==
  UNION {{sp.leaves[v] : v \in {u \in DOMAIN sp.leaves : AS!UserPageOk(sp, u, FALSE, FALSE)}} :
           sp \in Spaces}

(* User code reaches no table, no kernel code or data but what is meant    *)
(* for it, and never holds one frame both writable and executable, over    *)
(* all its mappings in all processes.                                      *)
UserConfined ==
  LET leaves     == UserLeaves
      held(flag) == {leaf.frame : leaf \in {l \in leaves : flag \in l.flags}}
  IN  /\ held("R") \cap UNION {TableFramesOf(p) : p \in DOMAIN space} = {}
      /\ held("R") \cap KernelFrames \subseteq
           (Storage .. Storage + StorageLength - 1) \cup {Shared}
      /\ held("W") \cap held("X") = {}

(* A buffer that passed its check keeps passing it, so that the copy a     *)
(* sender makes later into a blocked receiver's buffer finds it: nothing   *)
(* is ever unmapped or mapped over.                                        *)
CheckedStaysGood ==
  [][\A p \in DOMAIN space : space'[p] # space[p] =>
       \A v \in DOMAIN space[p].leaves :
         /\ space'[p].leaves[v] = space[p].leaves[v]
         /\ \A write, execute \in BOOLEAN :
              AS!UserPageOk(space[p], v, write, execute) =>
                AS!UserPageOk(space'[p], v, write, execute)]_vars

=============================================================================
