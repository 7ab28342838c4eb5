------------------------------- MODULE Kernel -------------------------------
(***************************************************************************)
(* The kernel after boot: the process table, the scheduler, blocking IPC   *)
(* over the endpoint pool, capability-checked system calls, restart and    *)
(* the emergency pause (kernel/src/kernel.c, process.c).  The kernel runs  *)
(* on one core with interrupts off, so a system call is one step; what     *)
(* interleaves are the calls of the processes, page faults and the timer.  *)
(* A call that is denied changes nothing and is a stuttering step.         *)
(*                                                                         *)
(* A process is its index in the process table: the kernel creates         *)
(* processes only at boot, so an index has one owner.  An endpoint is its  *)
(* index in the pool and its queue is the number of messages in it:        *)
(* IpcEndpoint models the ring.  A blocked receive keeps the set of        *)
(* receives that were blocked before it in place of its sequence number,   *)
(* which the code only compares among processes that are BLOCKED.          *)
(***************************************************************************)
EXTENDS Capability, Sequences

CONSTANTS
  Fixture,    \* the boot configuration: "pair", "multi" or "recursive"
  NoProc,     \* AGENT_OS_PROCESS_INVALID
  PoolSize,   \* AGENT_OS_IPC_ENDPOINT_POOL_SIZE
  QueueCap,   \* AGENT_OS_IPC_QUEUE_CAPACITY
  RestartCaps,\* AGENT_OS_RESTART_CAPS
  Authority,  \* the object policy_authority
  SEND, RECV, ADMIN,  \* CAP_RIGHT_*
  Syscalls,   \* the calls and events of this instance
  RightsArg   \* the rights words callers pass

Proc     == Table
Endpoint == 0 .. PoolSize - 1
Static   == 0  \* ipc_endpoint, which lives as long as the kernel

ASSUME KernelAssumption ==
  /\ Fixture \in {"pair", "multi", "recursive"}
  /\ Table = IF Fixture = "pair" THEN 0 .. 1 ELSE 0 .. 2
  /\ NoProc \notin Table
  /\ PoolSize \in Nat \ {0}
  /\ QueueCap \in Nat \ {0}
  /\ RestartCaps \in Nat \ {0}
  /\ Authority \notin Endpoint
  /\ Object = Endpoint \cup {Authority}
  /\ Right = {SEND, RECV, TRANSFER, REVOKE, ADMIN}
  /\ ADMIN \notin {SEND, RECV, TRANSFER, REVOKE}
  /\ NumSlots >= 2
  /\ RightsArg \subseteq SUBSET Right

State == {"UNUSED", "READY", "RUNNING", "BLOCKED", "ZOMBIE", "FROZEN"}

(* What a blocked receive finds in rax when it is resumed. *)
Answer == {"none", "message", "denied", "cancelled"}

VARIABLES
  state,       \* process -> State
  current,     \* current_index, NoProc for UINT32_MAX
  pausedFlag,  \* process -> emergency_frozen
  wait,        \* process -> its blocked receive
  answer,      \* process -> what its receive returned while it was blocked
  saved,       \* process -> restart_capabilities, in order
  paused,      \* policy_emergency_paused
  ent,         \* the capability tables, all of them
  mode,        \* endpoint -> "free" (not active), "open" or "closed"
  queued       \* endpoint -> count

procVars == <<state, current, pausedFlag, wait, answer, saved>>
ipcVars  == <<mode, queued>>
vars     == <<procVars, ipcVars, paused, ent>>

(* object and handle are blocked_ipc_endpoint and blocked_ipc_capability.  *)
(* All code that reads them asks for BLOCKED first, so they are cleared    *)
(* here whenever a process leaves that state.                              *)
NotWaiting == [object |-> NoObject, handle |-> [slot |-> 0, gen |-> 0], ahead |-> {}]
Waiting    == [object : Endpoint, handle : Handle, ahead : SUBSET Proc]

(* What is saved of a capability: its lineage is not.                      *)
Descriptor == [object : Object, rights : SUBSET Right]

(* Tables are opened at boot, in creation order, and zeroed when their     *)
(* owner is reaped.                                                        *)
Incarnation(st) == [p \in Proc |-> IF st[p] = "UNUSED" THEN 0 ELSE p + 1]
incn == Incarnation(state)

TypeOK ==
  /\ state \in [Proc -> State]
  /\ current \in Proc \cup {NoProc}
  /\ pausedFlag \in [Proc -> BOOLEAN]
  /\ wait \in [Proc -> Waiting \cup {NotWaiting}]
  /\ answer \in [Proc -> Answer]
  /\ saved \in [Proc -> Seq(Descriptor)]
  /\ paused \in BOOLEAN
  /\ ent \in [Pos -> Entry]
  /\ mode \in [Endpoint -> {"free", "open", "closed"}]
  /\ queued \in [Endpoint -> 0 .. QueueCap]

-----------------------------------------------------------------------------
(* Boot. *)

Parent(p) ==
  IF p = 0 THEN NoProc ELSE IF p = 2 /\ Fixture = "recursive" THEN 1 ELSE 0

Group(p) ==
  CASE p = 1 /\ Fixture # "recursive" -> 7
    [] p # 0 /\ Fixture = "recursive" -> 9
    [] OTHER                          -> 1

Groups == {Group(p) : p \in Proc}

(* The capabilities minted at boot, but for those to the shared page and   *)
(* to devices, which no call modelled here uses.                           *)
Grants(p) ==
  CASE p = 0 -> <<[object |-> Static, rights |-> {SEND, RECV, TRANSFER, REVOKE}]>>
    [] p = 1 -> <<[object |-> Static, rights |-> {SEND, RECV}],
                  [object |-> Authority, rights |-> {ADMIN}]>>
    [] p = 2 -> IF Fixture = "multi"
                  THEN <<[object |-> Static, rights |-> {SEND, RECV}]>>
                  ELSE <<>>

Init ==
  /\ state = [p \in Proc |-> IF p = 0 THEN "RUNNING" ELSE "READY"]
  /\ current = 0
  /\ pausedFlag = [p \in Proc |-> FALSE]
  /\ wait = [p \in Proc |-> NotWaiting]
  /\ answer = [p \in Proc |-> "none"]
  /\ saved = [p \in Proc |-> <<>>]
  /\ paused = FALSE
  /\ ent = [q \in Pos |->
              LET g == Grants(q[1]) IN
                IF q[2] < Len(g)
                  THEN Minted(Blank(1), g[q[2] + 1].object, g[q[2] + 1].rights,
                              0, NoParent)
                  ELSE Blank(1)]
  /\ mode = [o \in Endpoint |-> IF o = Static THEN "open" ELSE "free"]
  /\ queued = [o \in Endpoint |-> 0]

-----------------------------------------------------------------------------
(* The scheduler. *)

\* Slip: the search always starts with the first process.
TurnsFromStart(q, from) == q

(* agent_os_process_schedule: the first READY process after the current    *)
(* one in table order, from the start when no process is current.          *)
Turns(q, from) == IF from = NoProc THEN q ELSE (q - from - 1) % Cardinality(Proc)

NextReady(st, from) ==
  CHOOSE q \in Proc : /\ st[q] = "READY"
                      /\ \A r \in Proc : st[r] = "READY" => Turns(q, from) <= Turns(r, from)

\* Slip: the process that was running is not put back.
ScheduleBoth(st, from, an) ==
  IF \E q \in Proc : st[q] = "READY"
    THEN LET q == NextReady(st, from) IN
           /\ state' = [st EXCEPT ![q] = "RUNNING"]
           /\ current' = q
           /\ answer' = [an EXCEPT ![q] = "none"]
    ELSE state' = st /\ current' = from /\ answer' = an

(* schedule_into_next from the states st with the answers an.  With no     *)
(* process READY nothing is dispatched; the callers that gave up the CPU   *)
(* then halt the machine, which leaves no process RUNNING.                 *)
Schedule(st, from, an) ==
  IF \E q \in Proc : st[q] = "READY"
    THEN LET q == NextReady(st, from) IN
           /\ state' = [r \in Proc |->
                          IF r = q THEN "RUNNING"
                          ELSE IF r = from /\ st[r] = "RUNNING" THEN "READY"
                          ELSE st[r]]
           /\ current' = q
           /\ answer' = [an EXCEPT ![q] = "none"]
    ELSE state' = st /\ current' = from /\ answer' = an

Running(p) == current = p /\ state[p] = "RUNNING"

(* The timer interrupt of a build that preempts. *)
Preempt(p) ==
  /\ Running(p)
  /\ Schedule(state, p, answer)
  /\ UNCHANGED <<pausedFlag, wait, saved, ipcVars, paused, ent>>

(* SYS_YIELD: p is READY itself, so a process is always found. *)
Yield(p) ==
  /\ Running(p)
  /\ Schedule([state EXCEPT ![p] = "READY"], p, answer)
  /\ UNCHANGED <<pausedFlag, wait, saved, ipcVars, paused, ent>>

-----------------------------------------------------------------------------
(* Blocking IPC. *)

\* Slip: only the oldest of them is found.
OldestReceiver(o) ==
  {q \in Proc : /\ state[q] = "BLOCKED" /\ wait[q].object = o
                /\ \A r \in wait[q].ahead : wait[r].object # o}

(* The processes BLOCKED in a receive on endpoint o. *)
Receivers(o) == {q \in Proc : state[q] = "BLOCKED" /\ wait[q].object = o}

\* Slip: the receives that ended keep their place in the line.
WaitInLine(Gone) == [q \in Proc |-> IF q \in Gone THEN NotWaiting ELSE wait[q]]

(* The receives left after those of the set Gone have ended. *)
WaitWithout(Gone) ==
  [q \in Proc |-> IF q \in Gone THEN NotWaiting
                                ELSE [wait[q] EXCEPT !.ahead = @ \ Gone]]

(* clear_blocked_ipc for the processes of the domain of reply. *)
Wake(reply) ==
  /\ state' = [q \in Proc |-> IF q \in DOMAIN reply THEN "READY" ELSE state[q]]
  /\ answer' = [q \in Proc |-> IF q \in DOMAIN reply THEN reply[q] ELSE answer[q]]
  /\ wait' = WaitWithout(DOMAIN reply)

(* The same reply for each process of a set. *)
Each(S, r) == [q \in S |-> r]

(* The object a call names: a valid handle with the right, of an endpoint  *)
(* in use.                                                                 *)
ObjectOf(p, h) == ent[<<p, h.slot>>].object

Names(p, h, right) ==
  /\ Permits(incn, ent, p, h, {right})
  /\ ObjectOf(p, h) \in Endpoint
  /\ mode[ObjectOf(p, h)] # "free"

HasAuthority(p, h) ==
  Permits(incn, ent, p, h, {ADMIN}) /\ ObjectOf(p, h) = Authority

(* SYS_IPC_CREATE: the lowest slot of the pool that is not in use.  With   *)
(* no capability slot left the endpoint is destroyed again.                *)
IpcCreate(p, h) ==
  /\ Running(p)
  /\ HasAuthority(p, h)
  /\ \E o \in Endpoint \ {Static}, s \in Slot :
       /\ mode[o] = "free"
       /\ \A e \in Endpoint \ {Static} : mode[e] = "free" => o <= e
       /\ IsFirstFree(ent, p, s)
       /\ mode' = [mode EXCEPT ![o] = "open"]
       /\ queued' = [queued EXCEPT ![o] = 0]
       /\ ent' = MintRoot(ent, p, s, o, {SEND, RECV, TRANSFER, REVOKE})
  /\ UNCHANGED <<procVars, paused>>

\* Slip: a process that has ended is passed over.
AliveTables == {r \in Proc : state[r] \notin {"UNUSED", "ZOMBIE"}}

TablesInUse == {r \in Proc : state[r] # "UNUSED"}

(* SYS_IPC_DESTROY: its queue is dropped, its receivers are cancelled, and *)
(* every capability that names it is retired, in every table in use.       *)
IpcDestroy(p, h) ==
  /\ Running(p)
  /\ Names(p, h, REVOKE)
  /\ LET o == ObjectOf(p, h) IN
       /\ o # Static
       /\ mode' = [mode EXCEPT ![o] = "free"]
       /\ queued' = [queued EXCEPT ![o] = 0]
       /\ Wake(Each(Receivers(o), "cancelled"))
       /\ ent' = RetireWhere(ent, UNION {Naming(ent, q, o) : q \in TablesInUse})
  /\ UNCHANGED <<current, pausedFlag, saved, paused>>

(* SYS_IPC_CLOSE: what is queued can still be received. *)
IpcClose(p, h) ==
  /\ Running(p)
  /\ Names(p, h, REVOKE)
  /\ LET o == ObjectOf(p, h) IN
       /\ mode' = [mode EXCEPT ![o] = "closed"]
       /\ Wake(Each(Receivers(o), "cancelled"))
  /\ UNCHANGED <<current, pausedFlag, saved, queued, paused, ent>>

\* Slip: the handle is not looked at again.
AuthorisedOnce(q, o) == q \in Receivers(o)

(* The waiter check of SYS_IPC_CALL: the handle the receive was made with  *)
(* still names o and still has the right to receive.                       *)
StillAuthorised(q, o) ==
  /\ Permits(incn, ent, q, wait[q].handle, {RECV})
  /\ ObjectOf(q, wait[q].handle) = o

Able(o) == {q \in Receivers(o) : StillAuthorised(q, o)}

(* agent_os_ipc_send accepts a message. *)
HasRoom(o) == mode[o] = "open" /\ queued[o] < QueueCap

(* SYS_IPC_CALL: the oldest receiver that is still authorised gets the     *)
(* message, and those before it, which are not, are denied.  With no such  *)
(* receiver all are denied and the message is queued, if there is room and *)
(* the endpoint is open.                                                   *)
IpcCall(p, h) ==
  /\ Running(p)
  /\ Names(p, h, SEND)
  /\ LET o == ObjectOf(p, h) IN
       \/ \E served \in Able(o) :
            /\ wait[served].ahead \cap Able(o) = {}
            /\ Wake([q \in {served} \cup (Receivers(o) \cap wait[served].ahead) |->
                       IF q = served THEN "message" ELSE "denied"])
            /\ UNCHANGED queued
       \/ /\ Able(o) = {}
          /\ Wake(Each(Receivers(o), "denied"))
          /\ queued' = IF HasRoom(o) THEN [queued EXCEPT ![o] = @ + 1] ELSE queued
  /\ UNCHANGED <<current, pausedFlag, saved, mode, paused, ent>>

(* agent_os_ipc_recv when a message is queued. *)
Take(o) == queued[o] # 0 /\ queued' = [queued EXCEPT ![o] = @ - 1]

(* SYS_IPC_RECV. *)
IpcRecv(p, h) ==
  /\ Running(p)
  /\ Names(p, h, RECV)
  /\ Take(ObjectOf(p, h))
  /\ UNCHANGED <<procVars, mode, paused, ent>>

(* SYS_IPC_RECV_WAIT: a message that is queued is taken at once; on an     *)
(* open, empty endpoint the process blocks and another one is dispatched.  *)
IpcRecvWait(p, h) ==
  /\ Running(p)
  /\ Names(p, h, RECV)
  /\ LET o == ObjectOf(p, h) IN
       \/ /\ Take(o)
          /\ UNCHANGED procVars
       \/ /\ queued[o] = 0
          /\ mode[o] = "open"
          /\ wait' = [wait EXCEPT ![p] =
                        [object |-> o, handle |-> h,
                         ahead |-> {q \in Proc : state[q] = "BLOCKED"}]]
          /\ Schedule([state EXCEPT ![p] = "BLOCKED"], p, answer)
          /\ UNCHANGED <<pausedFlag, saved, queued>>
  /\ UNCHANGED <<mode, paused, ent>>

(* SYS_IPC_CANCEL: a parent ends the blocked receive of its child. *)
IpcCancel(p, q) ==
  /\ Running(p)
  /\ Parent(q) = p
  /\ state[q] = "BLOCKED"
  /\ Wake(Each({q}, "cancelled"))
  /\ UNCHANGED <<current, pausedFlag, saved, ipcVars, paused, ent>>

-----------------------------------------------------------------------------
(* Capabilities. *)

CapRestrict(p, h, rights) ==
  /\ Running(p)
  /\ MayDerive(incn, ent, p, h, rights)
  /\ \E s \in Slot : /\ IsFirstFree(ent, p, s)
                     /\ ent' = MintChild(incn, ent, p, h, p, s, rights)
  /\ UNCHANGED <<procVars, ipcVars, paused>>

\* Slip: the right to transfer is not asked for.
MayTransferFreely(p, h, rights) == MayDerive(incn, ent, p, h, rights)

MayTransfer(p, h, rights) ==
  MayDerive(incn, ent, p, h, rights) /\ TRANSFER \in ent[<<p, h.slot>>].rights

(* SYS_CAP_TRANSFER, to any process that has not been reaped. *)
CapTransfer(p, h, q, rights) ==
  /\ Running(p)
  /\ state[q] # "UNUSED"
  /\ MayTransfer(p, h, rights)
  /\ \E s \in Slot : /\ IsFirstFree(ent, q, s)
                     /\ ent' = MintChild(incn, ent, p, h, q, s, rights)
  /\ UNCHANGED <<procVars, ipcVars, paused>>

CapRevoke(p, h) ==
  /\ Running(p)
  /\ Permits(incn, ent, p, h, {REVOKE})
  /\ ent' = [ent EXCEPT ![<<p, h.slot>>] = Retire(@)]
  /\ UNCHANGED <<procVars, ipcVars, paused>>

-----------------------------------------------------------------------------
(* Life cycle. *)

(* The position of s among the slots of S, and the n-th slot of S. *)
RankIn(s, S) == Cardinality({r \in S : r <= s})
NthOf(S, n)  == CHOOSE s \in S : RankIn(s, S) = n

(* snapshot_restart_capabilities: the first active entries, in slot order. *)
Snapshot(p) ==
  LET held == {s \in Slot : ent[<<p, s>>].active} IN
    [i \in 1 .. (IF Cardinality(held) < RestartCaps THEN Cardinality(held)
                                                     ELSE RestartCaps) |->
       LET e == ent[<<p, NthOf(held, i)>>] IN
         [object |-> e.object, rights |-> e.rights]]

(* SYS_EXIT: the capabilities are saved and retired. *)
Exit(p) ==
  /\ Running(p)
  /\ saved' = [saved EXCEPT ![p] = Snapshot(p)]
  /\ ent' = RetireWhere(ent, ActiveIn(ent, p))
  /\ Schedule([state EXCEPT ![p] = "ZOMBIE"], NoProc, answer)
  /\ UNCHANGED <<pausedFlag, wait, ipcVars, paused>>

(* A page fault in user code: recover_user_exception neither saves nor     *)
(* retires anything.                                                       *)
Fault(p) ==
  /\ Running(p)
  /\ Schedule([state EXCEPT ![p] = "ZOMBIE"], NoProc, answer)
  /\ UNCHANGED <<pausedFlag, wait, saved, ipcVars, paused, ent>>

(* agent_os_process_exit for the processes of S, none of which is current. *)
Terminated(S) ==
  /\ state' = [q \in Proc |-> IF q \in S THEN "ZOMBIE" ELSE state[q]]
  /\ answer' = [q \in Proc |-> IF q \in S THEN "none" ELSE answer[q]]
  /\ wait' = WaitWithout(S)

(* SYS_KILL.  On a zombie the call fails, but only after it has retired    *)
(* the capabilities.                                                       *)
Kill(p, q) ==
  /\ Running(p)
  /\ Parent(q) = p
  /\ state[q] # "UNUSED"
  /\ ent' = RetireWhere(ent, ActiveIn(ent, q))
  /\ Terminated({q})
  /\ UNCHANGED <<current, pausedFlag, saved, ipcVars, paused>>

Alive(q) == state[q] \notin {"UNUSED", "ZOMBIE"}

(* SYS_GROUP_TERMINATE: the direct children in the group. *)
GroupTerminate(p, g) ==
  /\ Running(p)
  /\ Terminated({q \in Proc : Alive(q) /\ Parent(q) = p /\ Group(q) = g})
  /\ UNCHANGED <<current, pausedFlag, saved, ipcVars, paused, ent>>

(* descendant_of: up the parents, as long as none of them has been reaped. *)
DescendantOf(root, q) ==
  LET below[r \in Proc] ==
        /\ state[r] # "UNUSED"
        /\ Parent(r) # NoProc
        /\ Parent(r) = root \/ below[Parent(r)]
  IN  below[q]

(* SYS_GROUP_TERMINATE_TREE: the descendants in the group. *)
GroupTerminateTree(p, g) ==
  /\ Running(p)
  /\ Terminated({q \in Proc : Alive(q) /\ Group(q) = g /\ DescendantOf(p, q)})
  /\ UNCHANGED <<current, pausedFlag, saved, ipcVars, paused, ent>>

(* group_transition: SYS_GROUP_FREEZE from READY to FROZEN,                *)
(* SYS_GROUP_RESUME back.  The emergency flag is left alone.               *)
Transition(p, g, from, to) ==
  LET moved == {q \in Proc : state[q] = from /\ Parent(q) = p /\ Group(q) = g} IN
    /\ Running(p)
    /\ state' = [q \in Proc |-> IF q \in moved THEN to ELSE state[q]]
    /\ UNCHANGED <<current, pausedFlag, wait, answer, saved, ipcVars, paused, ent>>

GroupFreeze(p, g) == Transition(p, g, "READY", "FROZEN")
GroupResume(p, g) == Transition(p, g, "FROZEN", "READY")

\* Slip: running out of slots is not noticed.
FitsAlways(q) == TRUE

(* There is a free slot for every saved capability. *)
Fits(q) == Len(saved[q]) <= Cardinality(Free(ent, q))

(* SYS_RESTART: the saved capabilities are minted one by one into the      *)
(* lowest free slots.  If they run out the child stays a zombie with what  *)
(* it got so far, and keeps what was saved.                                *)
Restart(p, q) ==
  /\ Running(p)
  /\ Parent(q) = p
  /\ state[q] = "ZOMBIE"
  /\ LET free == Free(ent, q)
         wanted == Len(saved[q])
     IN
       /\ ent' = [r \in Pos |->
                    IF r[1] = q /\ r[2] \in free /\ RankIn(r[2], free) <= wanted
                      THEN LET d == saved[q][RankIn(r[2], free)] IN
                             Minted(ent[r], d.object, d.rights, 0, NoParent)
                      ELSE ent[r]]
       /\ IF Fits(q)
            THEN /\ saved' = [saved EXCEPT ![q] = <<>>]
                 /\ state' = [state EXCEPT ![q] = "READY"]
            ELSE UNCHANGED <<saved, state>>
  /\ UNCHANGED <<current, pausedFlag, wait, answer, ipcVars, paused>>

(* SYS_WAIT: a zombie child is reaped; its record and table are zeroed. *)
Reap(p, q) ==
  /\ Running(p)
  /\ Parent(q) = p
  /\ state[q] = "ZOMBIE"
  /\ state' = [state EXCEPT ![q] = "UNUSED"]
  /\ pausedFlag' = [pausedFlag EXCEPT ![q] = FALSE]
  /\ saved' = [saved EXCEPT ![q] = <<>>]
  /\ ent' = Wiped(ent, q)
  /\ UNCHANGED <<current, wait, answer, ipcVars, paused>>

-----------------------------------------------------------------------------
(* The emergency pause. *)

(* SYS_POLICY_PAUSE: every other process that is READY or BLOCKED becomes  *)
(* FROZEN; a blocked receive is cancelled first.                           *)
EmergencyPause(p, h) ==
  /\ Running(p)
  /\ HasAuthority(p, h)
  /\ LET woken   == {q \in Proc : state[q] = "BLOCKED"}
         stopped == woken \cup {q \in Proc : state[q] = "READY"}
     IN
       /\ state' = [q \in Proc |-> IF q \in stopped THEN "FROZEN" ELSE state[q]]
       /\ pausedFlag' = [q \in Proc |-> q \in stopped \/ pausedFlag[q]]
       /\ answer' = [q \in Proc |-> IF q \in woken THEN "cancelled" ELSE answer[q]]
       /\ wait' = WaitWithout(woken)
  /\ paused' = TRUE
  /\ UNCHANGED <<current, saved, ipcVars, ent>>

(* SYS_POLICY_RESUME. *)
EmergencyResume(p, h) ==
  /\ Running(p)
  /\ HasAuthority(p, h)
  /\ LET back == {q \in Proc : state[q] = "FROZEN" /\ pausedFlag[q]} IN
       /\ state' = [q \in Proc |-> IF q \in back THEN "READY" ELSE state[q]]
       /\ pausedFlag' = [q \in Proc |-> q \notin back /\ pausedFlag[q]]
  /\ paused' = FALSE
  /\ UNCHANGED <<current, wait, answer, saved, ipcVars, ent>>

-----------------------------------------------------------------------------
(* The steps of an instance: those Syscalls lists. *)

Does(call) == call \in Syscalls

SchedulerStep ==
  \E p \in Proc :
    \/ Does("TIMER") /\ Preempt(p)
    \/ Does("YIELD") /\ Yield(p)

IpcStep ==
  \E p \in Proc :
    \/ \E h \in Handle :
         \/ Does("IPC_CREATE") /\ IpcCreate(p, h)
         \/ Does("IPC_DESTROY") /\ IpcDestroy(p, h)
         \/ Does("IPC_CLOSE") /\ IpcClose(p, h)
         \/ Does("IPC_CALL") /\ IpcCall(p, h)
         \/ Does("IPC_RECV") /\ IpcRecv(p, h)
         \/ Does("IPC_RECV_WAIT") /\ IpcRecvWait(p, h)
    \/ \E q \in Proc : Does("IPC_CANCEL") /\ IpcCancel(p, q)

CapStep ==
  \E p \in Proc, h \in Handle :
    \/ \E rights \in RightsArg :
         \/ Does("CAP_RESTRICT") /\ CapRestrict(p, h, rights)
         \/ \E q \in Proc : Does("CAP_TRANSFER") /\ CapTransfer(p, h, q, rights)
    \/ Does("CAP_REVOKE") /\ CapRevoke(p, h)

LifeStep ==
  \E p \in Proc :
    \/ Does("EXIT") /\ Exit(p)
    \/ Does("FAULT") /\ Fault(p)
    \/ \E q \in Proc :
         \/ Does("KILL") /\ Kill(p, q)
         \/ Does("RESTART") /\ Restart(p, q)
         \/ Does("WAIT") /\ Reap(p, q)
    \/ \E g \in Groups :
         \/ Does("GROUP_TERMINATE") /\ GroupTerminate(p, g)
         \/ Does("GROUP_TERMINATE_TREE") /\ GroupTerminateTree(p, g)
         \/ Does("GROUP_FREEZE") /\ GroupFreeze(p, g)
         \/ Does("GROUP_RESUME") /\ GroupResume(p, g)

PolicyStep ==
  \E p \in Proc, h \in Handle :
    \/ Does("POLICY_PAUSE") /\ EmergencyPause(p, h)
    \/ Does("POLICY_RESUME") /\ EmergencyResume(p, h)

Next == SchedulerStep \/ IpcStep \/ CapStep \/ LifeStep \/ PolicyStep

Spec == Init /\ [][Next]_vars

(* The timer keeps interrupting user code. *)
FairSpec == Spec /\ WF_vars(\E p \in Proc : Does("TIMER") /\ Preempt(p))

-----------------------------------------------------------------------------
(* Properties. *)

LivePos == Live(incn, ent)

(* At most one process runs, it is the current one, and the machine only   *)
(* stops, with no process running, when no process could be dispatched.    *)
CpuInv ==
  /\ \A p \in Proc : state[p] = "RUNNING" => current = p
  /\ (\E p \in Proc : state[p] = "READY") => \E p \in Proc : Running(p)

(* No lost wakeup: a process sleeps in a receive only while its endpoint   *)
(* is in use, open and empty, whatever close, destroy, cancel, kill, pause *)
(* and revocation happened around it.                                      *)
NoLostWakeup ==
  \A p \in Proc : state[p] = "BLOCKED" =>
    mode[wait[p].object] = "open" /\ queued[wait[p].object] = 0

(* The receives that are blocked stand in one line: of two of them exactly *)
(* one is ahead of the other, nothing else is ahead of anyone, and a       *)
(* process with no blocked receive has left nothing behind.                *)
WaitInv ==
  \A p \in Proc :
    /\ state[p] # "BLOCKED" <=> wait[p] = NotWaiting
    /\ state[p] = "BLOCKED" =>
         /\ wait[p].ahead \subseteq {q \in Proc \ {p} : state[q] = "BLOCKED"}
         /\ \A q \in Proc \ {p} : state[q] = "BLOCKED" =>
              /\ q \in wait[p].ahead <=> p \notin wait[q].ahead
              /\ q \in wait[p].ahead => wait[q].ahead \subseteq wait[p].ahead

(* A sender does not hand a message to a receiver whose authority went     *)
(* away while it slept, nor past an older receiver that still has it.      *)
DeliveredRightly ==
  [][\A p \in Proc :
       state[p] = "BLOCKED" /\ answer'[p] = "message" =>
         /\ Permits(incn, ent, p, wait[p].handle, {RECV})
         /\ \A q \in wait[p].ahead :
              wait[q].object = wait[p].object =>
                ~Permits(incn, ent, q, wait[q].handle, {RECV})]_vars

(* The policy authority stays where boot put it, through every transfer,   *)
(* restriction, snapshot and restart.                                      *)
AuthorityConfined ==
  /\ \A q \in Pos : ent[q].active /\ ent[q].object = Authority =>
       q[1] = 1 /\ ent[q].rights \subseteq {ADMIN}
  /\ \A p \in Proc \ {1} : \A i \in DOMAIN saved[p] : saved[p][i].object # Authority

(* A destroyed endpoint is forgotten: no capability, blocked receive or    *)
(* queued message is left for the next endpoint in the same pool slot.     *)
DestroyForgets ==
  [][\A o \in Endpoint : mode[o] # "free" /\ mode'[o] = "free" =>
       /\ queued'[o] = 0
       /\ \A p \in Proc : state'[p] = "BLOCKED" => wait'[p].object # o
       /\ \A q \in Pos : ent'[q].object # o]_vars

(* A restart gives the process what it saved when it exited, whatever was  *)
(* transferred to it or revoked from it as a zombie.                       *)
RestartRestores ==
  [][\A p \in Proc : state[p] = "ZOMBIE" /\ state'[p] = "READY" =>
       \A i \in DOMAIN saved[p] :
         \E q \in LivePos' \ LivePos :
           /\ q[1] = p /\ IsRoot(ent'[q])
           /\ ent'[q].object = saved[p][i].object
           /\ ent'[q].rights = saved[p][i].rights]_vars

(* A process that is READY is dispatched unless it is stopped first. *)
Dispatched == \A p \in Proc : state[p] = "READY" ~> state[p] # "READY"

(* IPC_DESTROY retires every handle that names the endpoint before its     *)
(* pool slot is reused (comment at kernel.c:753): what names an endpoint   *)
(* that was just created is the capability its creator got.                *)
CreatedIsExclusive ==
  [][\A o \in Endpoint : mode[o] = "free" /\ mode'[o] = "open" =>
       \E q \in Pos : {r \in LivePos' : ent'[r].object = o} = {q}]_vars
=============================================================================
