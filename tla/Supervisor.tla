----------------------------- MODULE Supervisor -----------------------------
(***************************************************************************)
(* The service supervisor, services/supervisor_runtime.py: the life cycle, *)
(* generations, nonces and bootstrap capabilities of the services, task    *)
(* groups, restarts and heartbeat timeouts.  A call is one step; calls     *)
(* come from the host and the services in any order, and a heartbeat may   *)
(* carry any nonce handed out so far.  A call that answers False or raises *)
(* changes nothing and is a stuttering step.                               *)
(*                                                                         *)
(* Time is kept as the age of the last heartbeat and the delay until a     *)
(* restart is due, all the code ever compares.  A service has one          *)
(* capability, whose handle is the pair of the service and a generation.   *)
(* The events, which the code only appends to a log, are left out.         *)
(***************************************************************************)
EXTENDS Naturals, Sequences

CONSTANTS
  Service,      \* the services of the manifests
  Order,        \* the order in which the manifests list them
  Group,        \* service -> task group
  Deps,         \* service -> the services it depends on
  Mode,         \* service -> restart mode
  MaxAttempts,  \* service -> restart.max_attempts
  Backoff,      \* restart.backoff_ms, in steps of the clock
  Timeout,      \* heartbeat timeout_ms + grace_ms, in steps of the clock
  NoDue,        \* restart_due_ns = None
  MaxNonce      \* bound: a start needs a nonce below it

Groups == {Group[s] : s \in Service}

ASSUME SupervisorAssumption ==
  /\ Order \in Seq(Service)
  /\ {Order[i] : i \in DOMAIN Order} = Service
  /\ Deps \in [Service -> SUBSET Service]
  /\ Mode \in [Service -> {"never", "on-fault", "always"}]
  /\ MaxAttempts \in [Service -> Nat]
  /\ Backoff \in Nat
  /\ Timeout \in Nat \ {0}
  /\ NoDue \notin Nat
  /\ MaxNonce \in Nat

VARIABLES
  service,    \* service -> its record
  granted,    \* _capabilities: the handles granted
  revoked,    \* _revoked_capabilities
  frozen      \* _frozen_groups

vars == <<service, granted, revoked, frozen>>

State == {"EXIT", "STARTING", "READY", "HEARTBEAT", "FAULT", "RESTARTING", "FROZEN"}
Up    == {"STARTING", "READY", "HEARTBEAT"}

MaxGen(s) == MaxAttempts[s] + 1
Handle(s) == {s} \X (1 .. MaxGen(s))

TypeOK ==
  /\ \A s \in Service :
       service[s] \in [state      : State,
                       generation : 0 .. MaxGen(s),
                       nonce      : 0 .. MaxNonce + MaxAttempts[s],
                       age        : 0 .. Timeout,
                       attempts   : 0 .. MaxAttempts[s],
                       due        : (0 .. Backoff) \cup {NoDue},
                       handles    : SUBSET Handle(s)]
  /\ granted \subseteq UNION {Handle(s) : s \in Service}
  /\ revoked \subseteq UNION {Handle(s) : s \in Service}
  /\ frozen \subseteq Groups

Init ==
  /\ service = [s \in Service |->
                  [state |-> "EXIT", generation |-> 0, nonce |-> 0, age |-> 0,
                   attempts |-> 0, due |-> NoDue, handles |-> {}]]
  /\ granted = {}
  /\ revoked = {}
  /\ frozen = {}

-----------------------------------------------------------------------------
(* The helpers.  tick applies several of them in one call, so they map     *)
(* what a call has reached so far, w, to what they leave.                  *)

Now == [service |-> service, granted |-> granted, revoked |-> revoked]

Becomes(w) ==
  /\ service' = w.service
  /\ granted' = w.granted
  /\ revoked' = w.revoked

Mint(w, s) ==
  LET h == <<s, w.service[s].generation>> IN
    [w EXCEPT !.service[s].handles = {h}, !.granted = @ \cup {h}]

\* Slip: the handles are dropped but not remembered as revoked.
RevokeUnlisted(w, s) ==
  [w EXCEPT !.service[s].handles = {}, !.granted = @ \ w.service[s].handles]

Revoke(w, s) ==
  [w EXCEPT !.service[s].handles = {},
            !.granted = @ \ w.service[s].handles,
            !.revoked = @ \cup w.service[s].handles]

(* The services _freeze_group stops. *)
Freezable(w, g) == {p \in Service : Group[p] = g /\ w.service[p].state # "EXIT"}

Freeze(w, S) ==
  LET v == w.service IN
    [w EXCEPT !.service = [p \in Service |-> [v[p] EXCEPT !.state = IF p \in S THEN "FROZEN"
                                                                  ELSE @]]]

\* Slip: only the peers that are ready are stopped.
FreezeReadyPeers(w, s) ==
  Freeze(w, {p \in Freezable(w, Group[s]) \ {s} : w.service[p].state # "STARTING"})

FreezePeers(w, s) == Freeze(w, Freezable(w, Group[s]) \ {s})

\* Slip: the attempts are compared before one is added.
MayRestartOnceMore(w, s) == Mode[s] # "never" /\ w.service[s].attempts <= MaxAttempts[s]

MayRestart(w, s) == Mode[s] # "never" /\ w.service[s].attempts < MaxAttempts[s]

(* A service that waits for its restart. *)
Renewed(r) ==
  [r EXCEPT !.attempts = @ + 1, !.generation = @ + 1, !.nonce = @ + 1,
            !.due = Backoff, !.state = "RESTARTING"]

(* _schedule_restart. *)
ScheduleRestart(w, s) ==
  IF MayRestart(w, s)
    THEN [Revoke(w, s) EXCEPT !.service[s] = Renewed(@)]
    ELSE [w EXCEPT !.service[s].due = NoDue]

DepsReady(w, s) == \A d \in Deps[s] : w.service[d].state \in {"READY", "HEARTBEAT"}

\* Slip: a group that is frozen is started all the same.
StartableFrozen(w, s) ==
  \/ w.service[s].state \notin Up \cup {"RESTARTING"}
  \/ w.service[s].state = "RESTARTING" /\ w.service[s].due \in {0, NoDue}

(* What start asks for besides the dependencies: the group is not paused,  *)
(* and the service is not up nor waiting for its restart.                  *)
Startable(w, s) ==
  /\ Group[s] \notin frozen
  /\ \/ w.service[s].state \notin Up \cup {"RESTARTING"}
     \/ w.service[s].state = "RESTARTING" /\ w.service[s].due \in {0, NoDue}

(* A restarting service keeps the nonce _schedule_restart gave it. *)
Begun(r) ==
  [r EXCEPT !.generation = IF @ = 0 THEN 1 ELSE @,
            !.nonce = IF r.state = "RESTARTING" THEN @ ELSE @ + 1,
            !.state = "STARTING", !.age = 0, !.due = NoDue]

Started(w, s) == Mint([w EXCEPT !.service[s] = Begun(@)], s)

\* Slip: the revocation is left to the restart, which may not come.
EndedUnrevoked(w, s, state) == FreezePeers([w EXCEPT !.service[s].state = state], s)

(* What fault, exit and stop have in common. *)
Ended(w, s, state) == FreezePeers(Revoke([w EXCEPT !.service[s].state = state], s), s)

(* fault, and the restart it schedules. *)
Faulted(w, s) == ScheduleRestart(Ended(w, s, "FAULT"), s)

-----------------------------------------------------------------------------
(* The calls. *)

Start(s) ==
  /\ Startable(Now, s)
  /\ DepsReady(Now, s)
  /\ service[s].nonce < MaxNonce
  /\ Becomes(Started(Now, s))
  /\ UNCHANGED frozen

(* start_all ignores the dependencies; what one start does matters to no   *)
(* other, so their order does not either.                                  *)
StartAll ==
  LET S == {s \in Service : Startable(Now, s)} IN
    /\ \A s \in S : service[s].nonce < MaxNonce
    /\ service' = [s \in Service |-> IF s \in S THEN Started(Now, s).service[s]
                                                 ELSE service[s]]
    /\ granted' = granted \cup UNION {Started(Now, s).granted : s \in S}
    /\ UNCHANGED <<revoked, frozen>>

Ready(s) ==
  /\ service[s].state = "STARTING"
  /\ service' = [service EXCEPT ![s].state = "READY", ![s].age = 0]
  /\ UNCHANGED <<granted, revoked, frozen>>

Heartbeat(s, generation, nonce) ==
  /\ generation = service[s].generation
  /\ nonce = service[s].nonce
  /\ service[s].state \in Up
  /\ service' = [service EXCEPT ![s].state = "HEARTBEAT", ![s].age = 0]
  /\ UNCHANGED <<granted, revoked, frozen>>

FreezeGroup(g) ==
  /\ frozen' = frozen \cup {g}
  /\ Becomes(Freeze(Now, Freezable(Now, g)))

UnfreezeGroup(g) ==
  /\ frozen' = frozen \ {g}
  /\ service' = [s \in Service |->
                   IF Group[s] = g /\ service[s].state = "FROZEN"
                     THEN [service[s] EXCEPT !.state = "READY", !.age = 0]
                     ELSE service[s]]
  /\ UNCHANGED <<granted, revoked>>

Fault(s) ==
  /\ service[s].state # "EXIT"
  /\ Becomes(Faulted(Now, s))
  /\ UNCHANGED frozen

Exit(s) ==
  /\ service[s].state # "EXIT"
  /\ LET w == Ended(Now, s, "EXIT") IN
       Becomes(IF Mode[s] = "always" THEN ScheduleRestart(w, s) ELSE w)
  /\ UNCHANGED frozen

Stop(s) ==
  /\ service[s].state # "EXIT"
  /\ Becomes(Ended(Now, s, "EXIT"))
  /\ UNCHANGED frozen

\* Slip: a service is watched only once it is ready.
TendedOnceReady(w, s) ==
  CASE w.service[s].state = "RESTARTING" /\ w.service[s].due = 0 ->
         IF Startable(w, s) /\ DepsReady(w, s) THEN Started(w, s) ELSE w
    [] w.service[s].state \in Up \ {"STARTING"} /\ w.service[s].age = Timeout -> Faulted(w, s)
    [] OTHER -> w

(* What tick does for one service. *)
Tended(w, s) ==
  CASE w.service[s].state = "RESTARTING" /\ w.service[s].due = 0 ->
         IF Startable(w, s) /\ DepsReady(w, s) THEN Started(w, s) ELSE w
    [] w.service[s].state \in Up /\ w.service[s].age = Timeout -> Faulted(w, s)
    [] OTHER -> w

(* tick goes through the services in the order of the manifests, and what  *)
(* it does for one, the next ones see.                                     *)
Tick ==
  LET after[i \in 0 .. Len(Order)] ==
        IF i = 0 THEN Now ELSE Tended(after[i - 1], Order[i])
  IN  Becomes(after[Len(Order)]) /\ UNCHANGED frozen

(* The clock moves on. *)
Pass ==
  /\ service' = [s \in Service |->
                   [service[s] EXCEPT !.age = IF @ < Timeout THEN @ + 1 ELSE @,
                                      !.due = IF @ \in {0, NoDue} THEN @ ELSE @ - 1]]
  /\ UNCHANGED <<granted, revoked, frozen>>

Next ==
  \/ StartAll \/ Tick \/ Pass
  \/ \E s \in Service : Start(s) \/ Ready(s) \/ Fault(s) \/ Exit(s) \/ Stop(s)
  \/ \E s \in Service : \E generation \in 0 .. MaxGen(s), nonce \in 1 .. service[s].nonce :
       Heartbeat(s, generation, nonce)
  \/ \E g \in Groups : FreezeGroup(g) \/ UnfreezeGroup(g)

Spec == Init /\ [][Next]_vars

(* The clock does not stop, and the host keeps polling. *)
FairSpec == Spec /\ WF_vars(Pass) /\ WF_vars(Tick)

-----------------------------------------------------------------------------
(* Properties. *)

(* validate_capability. *)
Validates(h) ==
  h \in granted /\ h \notin revoked /\ h[2] = service[h[1]].generation

(* Authority ends with the life it was given for: only a service that is   *)
(* up or frozen holds a capability, one of its present generation, and the *)
(* table holds nothing else, whatever faults, freezes and restarts met in  *)
(* one tick.                                                               *)
AuthorityEnds ==
  /\ granted = UNION {service[s].handles : s \in Service}
  /\ \A s \in Service : service[s].handles # {} =>
       /\ service[s].state \in Up \cup {"FROZEN"}
       /\ service[s].handles = {<<s, service[s].generation>>}

(* A handle that is valid for a time and then is not stays dead, although  *)
(* start gives a service that was stopped a handle of the same name.       *)
HandlesStayDead ==
  \A h \in UNION {Handle(s) : s \in Service} :
    [](Validates(h) /\ <>~Validates(h) => <>[]~Validates(h))

(* A paused group rests: none of its services is up until it is released,  *)
(* whatever restarts fall due meanwhile.                                   *)
PausedGroupsRest ==
  \A s \in Service : Group[s] \in frozen => service[s].state \notin Up

(* A group fails together: when a service ends or faults, none of its      *)
(* peers is left up, in a tick that starts and faults several of them too. *)
GroupsFailTogether ==
  [][\A s \in Service :
       service[s].state \in Up /\ service'[s].state \in {"FAULT", "EXIT", "RESTARTING"} =>
         \A p \in Service \ {s} : Group[p] = Group[s] => service'[p].state \notin Up]_vars

(* A restart that nothing holds up is carried out, and a service that is   *)
(* silent for longer than its timeout does not stay up.                    *)
Attended ==
  \A s \in Service :
    /\ []<>~(/\ service[s].state = "RESTARTING" /\ DepsReady(Now, s)
             /\ Group[s] \notin frozen)
    /\ []<>~(service[s].state \in Up /\ service[s].age = Timeout)
=============================================================================
