-------------------------- MODULE SupervisorProofs --------------------------
(***************************************************************************)
(* Proofs about the service supervisor, for any services, groups,          *)
(* dependencies, restart budgets and timeouts.  The helpers map what a     *)
(* call has reached so far to what they leave, so the inductive invariant  *)
(* is a predicate of such a record, Sound: each service is Sane, and what  *)
(* is granted is what the services hold.  Every helper keeps it; a tick is *)
(* a sequence of them, by induction over the order of the manifests.       *)
(***************************************************************************)
EXTENDS Supervisor, WellFoundedInduction, TLAPS

AllHandles == UNION {Handle(s) : s \in Service}

AnyRecord == [state : State, generation : Nat, nonce : Nat, age : Nat, attempts : Nat,
              due : Nat \cup {NoDue}, handles : SUBSET AllHandles]

Reached == [service : [Service -> AnyRecord], granted : SUBSET AllHandles,
            revoked : SUBSET AllHandles]

(* What holds of the record r of service s while the groups fr are paused. *)
(* The generation is one more than the restarts at most, and a nonce past  *)
(* the bound was given by a restart.                                       *)
Sane(r, s, fr) ==
  /\ r \in AnyRecord
  /\ r.attempts <= MaxAttempts[s]
  /\ r.generation <= r.attempts + 1
  /\ r.nonce <= MaxNonce + r.attempts
  /\ r.age <= Timeout
  /\ r.due \in (0 .. Backoff) \cup {NoDue}
  /\ \/ r.handles = {}
     \/ /\ r.state \in Up \cup {"FROZEN"}
        /\ r.generation # 0
        /\ r.handles = {<<s, r.generation>>}
  /\ Group[s] \in fr => r.state \notin Up

Holds(w, h) == \E s \in Service : h \in w.service[s].handles

Sound(w, fr) ==
  /\ w \in Reached
  /\ \A s \in Service : Sane(w.service[s], s, fr)
  /\ \A h : h \in w.granted <=> Holds(w, h)

(* From w to v no handle that was granted is lost without a trace.         *)
Remembers(w, v) ==
  w.revoked \subseteq v.revoked /\ w.granted \subseteq v.granted \cup v.revoked

Inv == Sound(Now, frozen) /\ frozen \subseteq Groups

-----------------------------------------------------------------------------
(* The helpers. *)

(* The numbers of the assumption.                                          *)
LEMMA Numbers ==
  /\ \A s \in Service : MaxAttempts[s] \in Nat
  /\ Backoff \in Nat /\ Timeout \in Nat /\ Timeout # 0 /\ MaxNonce \in Nat /\ NoDue \notin Nat
  BY SupervisorAssumption

(* The handle of a present generation is one of the service's.             *)
LEMMA HandleTyped ==
  ASSUME NEW s \in Service, NEW n \in Nat, n # 0, n <= MaxAttempts[s] + 1
  PROVE  <<s, n>> \in Handle(s) /\ <<s, n>> \in AllHandles
  BY Numbers DEF Handle, MaxGen, AllHandles

(* Changing a part of a record that is written out.                        *)
LEMMA Parts ==
  ASSUME NEW sv, NEW g, NEW rv, NEW s, NEW a
  PROVE  LET w == [service |-> sv, granted |-> g, revoked |-> rv] IN
    /\ [w EXCEPT !.service[s] = a] = [service |-> [sv EXCEPT ![s] = a], granted |-> g, revoked |-> rv]
    /\ [w EXCEPT !.granted = a] = [service |-> sv, granted |-> a, revoked |-> rv]
    /\ [w EXCEPT !.revoked = a] = [service |-> sv, granted |-> g, revoked |-> a]
  OBVIOUS

(* A record of the kind that the helpers map.                              *)
IsReached(w) == w = [service |-> w.service, granted |-> w.granted, revoked |-> w.revoked]

(* What _revoke_all leaves, written out.                                   *)
LEMMA RevokeIs ==
  ASSUME NEW w, NEW s, IsReached(w)
  PROVE  Revoke(w, s) = [service |-> [w.service EXCEPT ![s] = [w.service[s] EXCEPT !.handles = {}]],
                         granted |-> w.granted \ w.service[s].handles,
                         revoked |-> w.revoked \cup w.service[s].handles]
<1> DEFINE sv == w.service
           g == w.granted
           rv == w.revoked
           q == [sv[s] EXCEPT !.handles = {}]
           f == [sv EXCEPT ![s] = q]
           a == g \ sv[s].handles
           b == rv \cup sv[s].handles
           x == [service |-> f, granted |-> g, revoked |-> rv]
           y == [service |-> f, granted |-> a, revoked |-> rv]
           z == [service |-> f, granted |-> a, revoked |-> b]
<1>1. [w EXCEPT !.service[s].handles = {}] = x
  <2>1. w = [service |-> sv, granted |-> g, revoked |-> rv]
    BY DEF IsReached
  <2> HIDE DEF sv, g, rv
  <2> QED BY <2>1
<1>2. Revoke(w, s) = [[[w EXCEPT !.service[s].handles = {}] EXCEPT !.granted = a] EXCEPT !.revoked = b]
  BY DEF Revoke
<1> HIDE DEF a, b, f
<1>3. [x EXCEPT !.granted = a] = y
  BY Parts
<1>4. [y EXCEPT !.revoked = b] = z
  BY Parts
<1>5. Revoke(w, s) = [[x EXCEPT !.granted = a] EXCEPT !.revoked = b]
  BY <1>1, <1>2, Zenon
<1>6. Revoke(w, s) = [y EXCEPT !.revoked = b]
  BY <1>3, <1>5, Zenon
<1> QED BY <1>4, <1>6, Zenon DEF a, b, f, q

(* Giving one service a new record, and with it other handles.             *)
LEMMA Replaced ==
  ASSUME NEW w, NEW fr, Sound(w, fr), NEW s \in Service, NEW r, Sane(r, s, fr),
         NEW rev \in SUBSET AllHandles
  PROVE  Sound([service |-> [w.service EXCEPT ![s] = r],
                granted |-> (w.granted \ w.service[s].handles) \cup r.handles,
                revoked |-> rev], fr)
<1> DEFINE v == [service |-> [w.service EXCEPT ![s] = r],
                 granted |-> (w.granted \ w.service[s].handles) \cup r.handles,
                 revoked |-> rev]
<1>1. /\ w \in Reached /\ r \in AnyRecord
      /\ \A p \in Service : Sane(w.service[p], p, fr)
  BY DEF Sound, Sane
<1>2. w.service \in [Service -> AnyRecord] /\ w.granted \in SUBSET AllHandles
  BY <1>1 DEF Reached
<1>3. r.handles \in SUBSET AllHandles
  BY <1>1 DEF AnyRecord
<1>4. v.service = [w.service EXCEPT ![s] = r]
      /\ v.granted = (w.granted \ w.service[s].handles) \cup r.handles
  OBVIOUS
<1>5. v \in Reached
  <2>1. [w.service EXCEPT ![s] = r] \in [Service -> AnyRecord]
    BY <1>1, <1>2
  <2> QED BY <1>2, <1>3, <2>1 DEF Reached
<1> HIDE DEF v
<1>6. v.service[s] = r /\ \A p \in Service \ {s} : v.service[p] = w.service[p]
  BY <1>2, <1>4
<1>7. ASSUME NEW p \in Service, NEW h \in w.service[p].handles
      PROVE  h[1] = p
  BY <1>1 DEF Sane
<1>8. \A h : h \in v.granted <=> Holds(v, h)
  <2>1. ASSUME NEW h, h \in v.granted PROVE Holds(v, h)
    <3>1. CASE h \in r.handles
      BY <1>6, <3>1 DEF Holds
    <3>2. CASE h \in w.granted /\ h \notin w.service[s].handles
      <4>1. PICK p \in Service : h \in w.service[p].handles
        BY <3>2 DEF Sound, Holds
      <4> QED BY <1>6, <3>2, <4>1 DEF Holds
    <3> QED BY <1>4, <2>1, <3>1, <3>2
  <2>2. ASSUME NEW h, Holds(v, h) PROVE h \in v.granted
    <3>1. PICK p \in Service : h \in v.service[p].handles
      BY <2>2 DEF Holds
    <3>2. CASE p = s
      BY <1>4, <1>6, <3>1, <3>2
    <3>3. CASE p # s
      <4>1. h \in w.service[p].handles
        BY <1>6, <3>1, <3>3
      <4>2. h \in w.granted
        BY <4>1 DEF Sound, Holds
      <4>3. h \notin w.service[s].handles
        BY <1>7, <3>3, <4>1
      <4> QED BY <1>4, <4>2, <4>3
    <3> QED BY <3>2, <3>3
  <2> QED BY <2>1, <2>2
<1>9. \A p \in Service : Sane(v.service[p], p, fr)
  BY <1>1, <1>6
<1> QED BY <1>5, <1>8, <1>9 DEF Sound, v

(* Stopping a set of services.                                             *)
LEMMA Frozen ==
  ASSUME NEW w, NEW fr, Sound(w, fr), NEW S \in SUBSET Service
  PROVE  /\ Sound(Freeze(w, S), fr)
         /\ \A p \in S : Freeze(w, S).service[p].state = "FROZEN"
         /\ \A p \in Service \ S : Freeze(w, S).service[p] = w.service[p]
         /\ \A p \in Service : Freeze(w, S).service[p].handles = w.service[p].handles
         /\ Freeze(w, S).revoked = w.revoked /\ Freeze(w, S).granted = w.granted
<1> DEFINE f == [p \in Service |-> [w.service[p] EXCEPT !.state = IF p \in S THEN "FROZEN" ELSE @]]
           v == Freeze(w, S)
<1>1. /\ w \in Reached
      /\ \A p \in Service : Sane(w.service[p], p, fr)
  BY DEF Sound
<1>2. w.service \in [Service -> AnyRecord]
  BY <1>1 DEF Reached
<1>3. ASSUME NEW p \in Service
      PROVE  /\ Sane(f[p], p, fr)
             /\ f[p].handles = w.service[p].handles
             /\ p \in S => f[p].state = "FROZEN"
             /\ p \notin S => f[p] = w.service[p]
  <2>1. w.service[p] \in AnyRecord
    BY <1>2
  <2>2. CASE p \in S
    <3> DEFINE r == w.service[p]
    <3>1. f[p] = [r EXCEPT !.state = "FROZEN"]
      BY <2>2
    <3>2. /\ f[p] \in AnyRecord /\ f[p].state = "FROZEN"
          /\ f[p].attempts = r.attempts /\ f[p].generation = r.generation
          /\ f[p].nonce = r.nonce /\ f[p].age = r.age /\ f[p].due = r.due
          /\ f[p].handles = r.handles
      BY <2>1, <3>1 DEF AnyRecord, State
    <3>3. Sane(r, p, fr)
      BY <1>1
    <3> HIDE DEF f, r
    <3>4. Sane(f[p], p, fr)
      BY <3>2, <3>3 DEF Sane, Up
    <3> QED BY <2>2, <3>2, <3>4 DEF r
  <2>3. CASE p \notin S
    <3>1. f[p] = w.service[p]
      BY <2>1, <2>3 DEF AnyRecord
    <3> QED BY <1>1, <2>3, <3>1
  <2> QED BY <2>2, <2>3
<1>4. v.service = f /\ v.granted = w.granted /\ v.revoked = w.revoked
      /\ v = [service |-> f, granted |-> w.granted, revoked |-> w.revoked]
  BY <1>1 DEF Freeze, Reached
<1>5. f \in [Service -> AnyRecord]
  BY <1>3 DEF Sane
<1> HIDE DEF f
<1>6. v \in Reached
  BY <1>1, <1>4, <1>5 DEF Reached
<1> HIDE DEF v
<1>7. \A h : h \in v.granted <=> Holds(v, h)
  BY <1>3, <1>4 DEF Sound, Holds
<1>8. Sound(v, fr)
  BY <1>3, <1>4, <1>6, <1>7 DEF Sound
<1> QED BY <1>3, <1>4, <1>8 DEF v

(* A service that ends holds nothing any more and stops its peers.         *)
LEMMA EndedFacts ==
  ASSUME NEW w, NEW fr, Sound(w, fr), NEW s \in Service, NEW st \in {"FAULT", "EXIT"}
  PROVE  /\ Sound(Ended(w, s, st), fr) /\ Remembers(w, Ended(w, s, st))
         /\ Ended(w, s, st).service[s].state = st
         /\ \A p \in Service : p # s =>
              \/ Ended(w, s, st).service[p] = w.service[p]
              \/ Group[p] = Group[s] /\ Ended(w, s, st).service[p].state = "FROZEN"
         /\ \A p \in Service : p # s /\ Group[p] = Group[s] =>
              Ended(w, s, st).service[p].state \in {"FROZEN", "EXIT"}
<1> DEFINE r == w.service[s]
           x == [w EXCEPT !.service[s].state = st]
           e == [[r EXCEPT !.state = st] EXCEPT !.handles = {}]
           y == [service |-> [w.service EXCEPT ![s] = e],
                 granted |-> (w.granted \ r.handles) \cup e.handles,
                 revoked |-> w.revoked \cup r.handles]
<1>1. w \in Reached /\ Sane(r, s, fr) /\ r \in AnyRecord
  BY DEF Sound, Sane
<1>2. w = [service |-> w.service, granted |-> w.granted, revoked |-> w.revoked]
      /\ w.service \in [Service -> AnyRecord] /\ w.revoked \in SUBSET AllHandles
      /\ r.handles \in SUBSET AllHandles
  BY <1>1 DEF Reached, AnyRecord
<1>3. /\ e \in AnyRecord /\ e.state = st /\ e.handles = {}
      /\ e.attempts = r.attempts /\ e.generation = r.generation
      /\ e.nonce = r.nonce /\ e.age = r.age /\ e.due = r.due
  BY <1>1 DEF AnyRecord, State
<1>4. Sane(e, s, fr)
  <2> HIDE DEF e, r
  <2> QED BY <1>1, <1>3 DEF Sane, Up
<1>5. Revoke(x, s) = y
  <2>1. x = [service |-> [w.service EXCEPT ![s] = [r EXCEPT !.state = st]],
             granted |-> w.granted, revoked |-> w.revoked]
    BY <1>2
  <2>2. x.service[s] = [r EXCEPT !.state = st] /\ x.service[s].handles = r.handles
    BY <1>1, <1>2, <2>1 DEF AnyRecord
  <2> HIDE DEF x
  <2>3. Revoke(x, s) = [service |-> [x.service EXCEPT ![s] = [x.service[s] EXCEPT !.handles = {}]],
                        granted |-> w.granted \ r.handles, revoked |-> w.revoked \cup r.handles]
    <3>1. IsReached(x) /\ x.granted = w.granted /\ x.revoked = w.revoked
      BY <2>1 DEF IsReached
    <3>2. x.service[s].handles = r.handles
      BY <2>2
    <3> HIDE DEF r
    <3> QED BY <3>1, <3>2, RevokeIs, Zenon
  <2>4. [x.service[s] EXCEPT !.handles = {}] = e
    BY <2>2
  <2>5. [x.service EXCEPT ![s] = e] = [w.service EXCEPT ![s] = e]
    BY <1>2, <2>1
  <2> QED BY <1>3, <2>3, <2>4, <2>5
<1>6. Sound(y, fr)
  <2>1. w.revoked \cup r.handles \in SUBSET AllHandles
    BY <1>2
  <2> HIDE DEF e
  <2> QED BY <1>4, <2>1, Replaced
<1>7. y.service[s] = e /\ \A p \in Service \ {s} : y.service[p] = w.service[p]
  BY <1>2
<1>11. Remembers(w, y)
  BY DEF Remembers
<1> HIDE DEF x, y, e
<1> DEFINE S == Freezable(y, Group[s]) \ {s}
<1>8. Ended(w, s, st) = Freeze(y, S)
  BY <1>5 DEF Ended, FreezePeers, x
<1>9. S \in SUBSET Service
  BY DEF Freezable
<1>10. /\ \A p \in S : p # s /\ Group[p] = Group[s]
       /\ \A p \in Service \ {s} : p \notin S /\ Group[p] = Group[s] => y.service[p].state = "EXIT"
       /\ s \notin S
  BY DEF Freezable
<1> HIDE DEF S
<1> HIDE DEF r
<1>12. /\ Sound(Freeze(y, S), fr)
       /\ \A p \in S : Freeze(y, S).service[p].state = "FROZEN"
       /\ \A p \in Service \ S : Freeze(y, S).service[p] = y.service[p]
       /\ Freeze(y, S).revoked = y.revoked /\ Freeze(y, S).granted = y.granted
  BY <1>6, <1>9, Frozen
<1>13. Remembers(w, Freeze(y, S))
  BY <1>11, <1>12 DEF Remembers
<1> QED BY <1>3, <1>7, <1>8, <1>10, <1>12, <1>13

(* What _schedule_restart does when it may, written out.                   *)
LEMMA ScheduleIs ==
  ASSUME NEW w, NEW s \in DOMAIN w.service, IsReached(w), MayRestart(w, s)
  PROVE  ScheduleRestart(w, s) =
           [service |-> [w.service EXCEPT ![s] = Renewed([w.service[s] EXCEPT !.handles = {}])],
            granted |-> w.granted \ w.service[s].handles,
            revoked |-> w.revoked \cup w.service[s].handles]
<1> DEFINE sv == w.service
           q == [sv[s] EXCEPT !.handles = {}]
           a == w.granted \ sv[s].handles
           b == w.revoked \cup sv[s].handles
           f == [sv EXCEPT ![s] = q]
           n == Renewed(q)
           u == [service |-> f, granted |-> a, revoked |-> b]
<1>1. ScheduleRestart(w, s) = [Revoke(w, s) EXCEPT !.service[s] = Renewed(@)]
  BY Zenon DEF ScheduleRestart
<1>2. Revoke(w, s) = u
  BY RevokeIs, Zenon
<1>3. f[s] = q /\ [f EXCEPT ![s] = n] = [sv EXCEPT ![s] = n]
  OBVIOUS
<1>4. u.service[s] = q
  BY <1>3
<1> HIDE DEF a, b, f
<1>5. ScheduleRestart(w, s) = [u EXCEPT !.service[s] = Renewed(u.service[s])]
  BY <1>1, <1>2, Zenon
<1>6. ScheduleRestart(w, s) = [u EXCEPT !.service[s] = n]
  BY <1>4, <1>5, Zenon
<1> HIDE DEF n
<1>7. [u EXCEPT !.service[s] = n] = [service |-> [f EXCEPT ![s] = n], granted |-> a, revoked |-> b]
  OBVIOUS
<1> QED BY <1>3, <1>6, <1>7, Zenon DEF a, b, n, q

(* The record of a service that waits for its restart.                     *)
LEMMA RenewedTyped ==
  ASSUME NEW q \in AnyRecord
  PROVE  Renewed(q) \in AnyRecord
<1> DEFINE a == q.attempts + 1
           b == q.generation + 1
           c == q.nonce + 1
           x == [q EXCEPT !.attempts = a]
           y == [x EXCEPT !.generation = b]
           z == [y EXCEPT !.nonce = c]
           u == [z EXCEPT !.due = Backoff]
           v == [u EXCEPT !.state = "RESTARTING"]
<1>1. a \in Nat /\ b \in Nat /\ c \in Nat /\ Backoff \in Nat /\ "RESTARTING" \in State
  BY Numbers DEF AnyRecord, State
<1>2. Renewed(q) = v
  BY DEF Renewed
<1> HIDE DEF a, b, c, v, u, z, y, x
<1>3. x \in AnyRecord
  BY <1>1 DEF AnyRecord, x
<1>4. y \in AnyRecord
  BY <1>1, <1>3 DEF AnyRecord, y
<1>5. z \in AnyRecord
  BY <1>1, <1>4 DEF AnyRecord, z
<1>6. u \in AnyRecord
  BY <1>1, <1>5 DEF AnyRecord, u
<1>7. v \in AnyRecord
  BY <1>1, <1>6 DEF AnyRecord, v
<1> QED BY <1>2, <1>7

(* A restart that is scheduled moves the service to its next generation.   *)
LEMMA ScheduledFacts ==
  ASSUME NEW w, NEW fr, Sound(w, fr), NEW s \in Service
  PROVE  LET v == ScheduleRestart(w, s) IN
           /\ Sound(v, fr) /\ Remembers(w, v)
           /\ v.service[s].state \in {w.service[s].state, "RESTARTING"}
           /\ \A p \in Service \ {s} : v.service[p] = w.service[p]
<1> DEFINE r == w.service[s]
<1>1. w \in Reached /\ Sane(r, s, fr) /\ r \in AnyRecord
  BY DEF Sound, Sane
<1>2. w = [service |-> w.service, granted |-> w.granted, revoked |-> w.revoked]
      /\ w.service \in [Service -> AnyRecord] /\ w.revoked \in SUBSET AllHandles
      /\ w.granted \in SUBSET AllHandles
      /\ r.handles \in SUBSET AllHandles
  BY <1>1 DEF Reached, AnyRecord
<1>3. CASE MayRestart(w, s)
  <2> DEFINE q == [r EXCEPT !.handles = {}]
             e == Renewed(q)
             y == [service |-> [w.service EXCEPT ![s] = e],
                   granted |-> (w.granted \ r.handles) \cup e.handles,
                   revoked |-> w.revoked \cup r.handles]
  <2>1. ScheduleRestart(w, s) = [service |-> [w.service EXCEPT ![s] = e],
          granted |-> w.granted \ r.handles, revoked |-> w.revoked \cup r.handles]
    <3>1. s \in DOMAIN w.service /\ IsReached(w)
      BY <1>2 DEF IsReached
    <3> QED BY <1>3, <3>1, ScheduleIs, Zenon
  <2>2. q \in AnyRecord /\ q.handles = {} /\ q.attempts = r.attempts
        /\ q.generation = r.generation /\ q.nonce = r.nonce /\ q.age = r.age
    BY <1>1 DEF AnyRecord
  <2> HIDE DEF q
  <2>3. e \in AnyRecord /\ e.handles = {} /\ e.attempts = r.attempts + 1
        /\ e.generation = r.generation + 1 /\ e.nonce = r.nonce + 1 /\ e.age = r.age
        /\ e.due = Backoff /\ e.state = "RESTARTING"
    <3>1. e.handles = {} /\ e.attempts = r.attempts + 1
          /\ e.generation = r.generation + 1 /\ e.nonce = r.nonce + 1 /\ e.age = r.age
          /\ e.due = Backoff /\ e.state = "RESTARTING"
      BY <2>2 DEF AnyRecord, Renewed
    <3>2. e \in AnyRecord
      BY <2>2, RenewedTyped
    <3> QED BY <3>1, <3>2
  <2>5. r.attempts \in Nat /\ r.generation \in Nat /\ r.nonce \in Nat /\ r.age \in Nat
        /\ r.attempts < MaxAttempts[s]
    BY <1>1, <1>3 DEF AnyRecord, MayRestart
  <2> HIDE DEF e
  <2>6. Sane(e, s, fr)
    <3> HIDE DEF r
    <3> QED BY <1>1, <2>3, <2>5, Numbers DEF Sane, Up
  <2>7. ScheduleRestart(w, s) = y
    <3>1. (w.granted \ r.handles) \cup e.handles = w.granted \ r.handles
      BY <2>3
    <3> HIDE DEF r
    <3> QED BY <2>1, <3>1, Zenon
  <2>8. w.revoked \cup r.handles \in SUBSET AllHandles
    BY <1>2
  <2>9. Sound(y, fr)
    BY <2>6, <2>8, Replaced
  <2>10. y.service[s] = e /\ \A p \in Service \ {s} : y.service[p] = w.service[p]
    BY <1>2
  <2>11. Remembers(w, y)
    BY DEF Remembers
  <2> HIDE DEF y
  <2> QED BY <2>3, <2>7, <2>9, <2>10, <2>11
<1>4. CASE ~MayRestart(w, s)
  <2> DEFINE e == [r EXCEPT !.due = NoDue]
             y == [service |-> [w.service EXCEPT ![s] = e],
                   granted |-> (w.granted \ r.handles) \cup e.handles,
                   revoked |-> w.revoked]
  <2>1. e \in AnyRecord /\ e.handles = r.handles /\ e.attempts = r.attempts
        /\ e.generation = r.generation /\ e.nonce = r.nonce /\ e.age = r.age
        /\ e.due = NoDue /\ e.state = r.state
    BY <1>1 DEF AnyRecord
  <2>2. r.handles \subseteq w.granted
    BY DEF Sound, Holds
  <2>3. ScheduleRestart(w, s) = [service |-> [w.service EXCEPT ![s] = e], granted |-> w.granted,
                                 revoked |-> w.revoked]
    BY <1>2, <1>4 DEF ScheduleRestart
  <2> HIDE DEF e
  <2>4. ScheduleRestart(w, s) = y
    <3>1. (w.granted \ r.handles) \cup e.handles = w.granted
      BY <2>1, <2>2
    <3> QED BY <2>3, <3>1
  <2>5. Sane(e, s, fr)
    <3> HIDE DEF r
    <3> QED BY <1>1, <2>1 DEF Sane
  <2>6. Sound(y, fr)
    BY <1>2, <2>5, Replaced
  <2>7. y.service[s] = e /\ \A p \in Service \ {s} : y.service[p] = w.service[p]
    BY <1>2
  <2>8. Remembers(w, y)
    BY <2>1 DEF Remembers
  <2> HIDE DEF y
  <2> QED BY <2>1, <2>4, <2>6, <2>7, <2>8
<1> QED BY <1>3, <1>4

(* The record of a service that was just started.                          *)
LEMMA BegunTyped ==
  ASSUME NEW r \in AnyRecord
  PROVE  LET e == Begun(r) IN
           /\ e \in AnyRecord /\ e.state = "STARTING" /\ e.age = 0 /\ e.due = NoDue
           /\ e.attempts = r.attempts /\ e.handles = r.handles
           /\ e.generation = IF r.generation = 0 THEN 1 ELSE r.generation
           /\ e.nonce = IF r.state = "RESTARTING" THEN r.nonce ELSE r.nonce + 1
<1> DEFINE a == IF r.generation = 0 THEN 1 ELSE r.generation
           b == IF r.state = "RESTARTING" THEN r.nonce ELSE r.nonce + 1
           x == [r EXCEPT !.generation = a]
           y == [x EXCEPT !.nonce = b]
           z == [y EXCEPT !.state = "STARTING"]
           u == [z EXCEPT !.age = 0]
           v == [u EXCEPT !.due = NoDue]
<1>1. a \in Nat /\ b \in Nat /\ "STARTING" \in State
  BY DEF AnyRecord, State
<1>2. Begun(r) = v
  BY DEF Begun
<1> HIDE DEF a, b, v, u, z, y, x
<1>3. x \in AnyRecord
  BY <1>1 DEF AnyRecord, x
<1>4. y \in AnyRecord
  BY <1>1, <1>3 DEF AnyRecord, y
<1>5. z \in AnyRecord
  BY <1>1, <1>4 DEF AnyRecord, z
<1>6. u \in AnyRecord
  BY <1>1, <1>5 DEF AnyRecord, u
<1>7. v \in AnyRecord
  BY <1>1, <1>6 DEF AnyRecord, v
<1>8. v.state = "STARTING" /\ v.age = 0 /\ v.due = NoDue /\ v.generation = a /\ v.nonce = b
      /\ v.attempts = r.attempts /\ v.handles = r.handles
  BY DEF AnyRecord, v, u, z, y, x
<1> QED BY <1>2, <1>7, <1>8 DEF a, b

(* What minting leaves, written out.                                       *)
LEMMA MintIs ==
  ASSUME NEW w, NEW s, IsReached(w)
  PROVE  LET h == <<s, w.service[s].generation>> IN
           Mint(w, s) = [service |-> [w.service EXCEPT ![s] = [w.service[s] EXCEPT !.handles = {h}]],
                         granted |-> w.granted \cup {h}, revoked |-> w.revoked]
<1> DEFINE sv == w.service
           g == w.granted
           rv == w.revoked
           h == <<s, sv[s].generation>>
           q == [sv[s] EXCEPT !.handles = {h}]
           f == [sv EXCEPT ![s] = q]
           a == g \cup {h}
           x == [service |-> f, granted |-> g, revoked |-> rv]
           y == [service |-> f, granted |-> a, revoked |-> rv]
<1>1. [w EXCEPT !.service[s].handles = {h}] = x
  <2>1. w = [service |-> sv, granted |-> g, revoked |-> rv]
    BY DEF IsReached
  <2> HIDE DEF sv, g, rv
  <2> QED BY <2>1
<1>2. Mint(w, s) = [[w EXCEPT !.service[s].handles = {h}] EXCEPT !.granted = a]
  BY DEF Mint
<1> HIDE DEF a, f
<1>3. [x EXCEPT !.granted = a] = y
  BY Parts
<1>4. Mint(w, s) = [x EXCEPT !.granted = a]
  BY <1>1, <1>2, Zenon
<1> QED BY <1>3, <1>4, Zenon DEF a, f, q, h

(* A start brings a service up with the one capability of its generation.  *)
LEMMA StartedFacts ==
  ASSUME NEW w, Sound(w, frozen), NEW s \in Service, Startable(w, s),
         w.service[s].state = "RESTARTING" \/ w.service[s].nonce < MaxNonce
  PROVE  LET v == Started(w, s) IN
           /\ Sound(v, frozen)
           /\ v.service[s].state = "STARTING" /\ Remembers(w, v)
           /\ w.service[s].handles \subseteq v.service[s].handles
           /\ w.granted \subseteq v.granted
           /\ \A p \in Service \ {s} : v.service[p] = w.service[p]
<1> DEFINE r == w.service[s]
           b == Begun(r)
           h == <<s, b.generation>>
           e == [b EXCEPT !.handles = {h}]
           x == [w EXCEPT !.service[s] = b]
           y == [service |-> [w.service EXCEPT ![s] = e],
                 granted |-> (w.granted \ r.handles) \cup e.handles,
                 revoked |-> w.revoked]
<1>1. w \in Reached /\ Sane(r, s, frozen) /\ r \in AnyRecord
  BY DEF Sound, Sane
<1>2. /\ w = [service |-> w.service, granted |-> w.granted, revoked |-> w.revoked]
      /\ w.service \in [Service -> AnyRecord] /\ w.revoked \in SUBSET AllHandles
      /\ w.granted \in SUBSET AllHandles
      /\ s \in DOMAIN w.service
  BY <1>1 DEF Reached
<1>3. /\ b \in AnyRecord /\ b.state = "STARTING" /\ b.age = 0 /\ b.due = NoDue
      /\ b.attempts = r.attempts /\ b.handles = r.handles
      /\ b.generation = IF r.generation = 0 THEN 1 ELSE r.generation
      /\ b.nonce = IF r.state = "RESTARTING" THEN r.nonce ELSE r.nonce + 1
  BY <1>1, BegunTyped
<1>4. r.generation \in Nat /\ r.attempts \in Nat /\ r.nonce \in Nat
  BY <1>1 DEF AnyRecord
<1> HIDE DEF b, r
<1>5. b.generation \in Nat /\ b.generation # 0 /\ b.generation <= r.attempts + 1
      /\ r.attempts <= MaxAttempts[s]
  BY <1>1, <1>3, <1>4 DEF Sane
<1>6. h \in AllHandles
  BY <1>4, <1>5, HandleTyped, Numbers
<1>7. e \in AnyRecord /\ e.state = "STARTING" /\ e.age = 0 /\ e.due = NoDue
      /\ e.attempts = r.attempts /\ e.handles = {h} /\ e.generation = b.generation
      /\ e.nonce = b.nonce
  BY <1>3, <1>6 DEF AnyRecord
<1>8. r.handles \subseteq {h}
  BY <1>1, <1>3, <1>4 DEF Sane
<1>9. r.handles \subseteq w.granted
  BY DEF r, Sound, Holds
<1>10. x = [service |-> [w.service EXCEPT ![s] = b], granted |-> w.granted, revoked |-> w.revoked]
  BY <1>2
<1>11. /\ IsReached(x) /\ x.service[s] = b /\ x.granted = w.granted /\ x.revoked = w.revoked
       /\ [x.service EXCEPT ![s] = e] = [w.service EXCEPT ![s] = e]
  <2> HIDE DEF e
  <2> QED BY <1>2, <1>10 DEF IsReached
<1>12. Started(w, s) = Mint(x, s)
  BY DEF Started, b, r
<1> HIDE DEF x
<1>13. Mint(x, s) = [service |-> [w.service EXCEPT ![s] = e], granted |-> w.granted \cup {h},
                     revoked |-> w.revoked]
  <2> DEFINE k == <<s, x.service[s].generation>>
             d == [x.service[s] EXCEPT !.handles = {k}]
  <2>1. Mint(x, s) = [service |-> [x.service EXCEPT ![s] = d], granted |-> x.granted \cup {k},
                      revoked |-> x.revoked]
    BY <1>11, MintIs, Zenon
  <2>2. k = h /\ d = e
    BY <1>11
  <2> HIDE DEF k, d, h, e
  <2> QED BY <1>11, <2>1, <2>2, Zenon
<1> HIDE DEF e
<1>14. Started(w, s) = y
  <2>1. (w.granted \ r.handles) \cup e.handles = w.granted \cup {h}
    BY <1>7, <1>8
  <2> HIDE DEF h
  <2> QED BY <1>12, <1>13, <2>1, Zenon
<1>15. Sane(e, s, frozen)
  <2>1. Group[s] \notin frozen
    BY DEF Startable
  <2>2. r.state = "RESTARTING" \/ r.nonce < MaxNonce
    BY DEF r
  <2>3. e.nonce <= MaxNonce + r.attempts
    BY <1>1, <1>3, <1>4, <1>7, <2>2, Numbers DEF Sane
  <2> QED
    BY <1>5, <1>7, <2>1, <2>3, Numbers DEF Sane, Up
<1>16. Sound(y, frozen)
  BY <1>2, <1>15, Replaced DEF r
<1>17. /\ y.service[s] = e /\ Remembers(w, y)
       /\ w.granted \subseteq y.granted
       /\ \A p \in Service \ {s} : y.service[p] = w.service[p]
  BY <1>2, <1>7, <1>8 DEF Remembers
<1> HIDE DEF y
<1> QED BY <1>7, <1>8, <1>14, <1>16, <1>17 DEF r

-----------------------------------------------------------------------------
(* What a call has reached so far fails together, if the peers of every    *)
(* service that was up and is not any more are frozen or have ended.       *)
Failed(w, s) ==
  service[s].state \in Up /\ w.service[s].state \in {"FAULT", "EXIT", "RESTARTING"}

TogetherIn(w) ==
  \A s \in Service : Failed(w, s) =>
    \A p \in Service \ {s} : Group[p] = Group[s] => w.service[p].state \in {"FROZEN", "EXIT"}

(* Nothing has failed when the call begins.                                *)
LEMMA NothingFailedYet == ASSUME NEW s \in Service PROVE ~Failed(Now, s)
  BY DEF Failed, Now, Up

(* A service that ends while no peer has failed takes its group with it.   *)
LEMMA EndTogether ==
  ASSUME NEW w, Sound(w, frozen), TogetherIn(w), Remembers(Now, w), NEW s \in Service, NEW st \in {"FAULT", "EXIT"},
         \A p \in Service \ {s} : Group[p] = Group[s] => ~Failed(w, p)
  PROVE  /\ Sound(Ended(w, s, st), frozen) /\ TogetherIn(Ended(w, s, st))
         /\ Remembers(Now, Ended(w, s, st))
         /\ Remembers(Now, ScheduleRestart(Ended(w, s, st), s))
         /\ Sound(ScheduleRestart(Ended(w, s, st), s), frozen)
         /\ TogetherIn(ScheduleRestart(Ended(w, s, st), s))
<1> DEFINE x == Ended(w, s, st)
           v == ScheduleRestart(x, s)
<1>1. /\ Sound(x, frozen) /\ x.service[s].state = st /\ Remembers(w, x)
      /\ \A p \in Service : p # s =>
           \/ x.service[p] = w.service[p]
           \/ Group[p] = Group[s] /\ x.service[p].state = "FROZEN"
      /\ \A p \in Service : p # s /\ Group[p] = Group[s] => x.service[p].state \in {"FROZEN", "EXIT"}
  <2>1. Sound(x, frozen) /\ x.service[s].state = st /\ Remembers(w, x)
    BY EndedFacts
  <2>2. \A p \in Service : p # s /\ Group[p] = Group[s] => x.service[p].state \in {"FROZEN", "EXIT"}
    BY ZenonT(30), EndedFacts
  <2>3. ASSUME NEW p \in Service, p # s
        PROVE  \/ x.service[p] = w.service[p]
               \/ Group[p] = Group[s] /\ x.service[p].state = "FROZEN"
    BY <2>3, EndedFacts, SMTT(60)
  <2> QED BY <2>1, <2>2, <2>3
<1>2. /\ Sound(v, frozen) /\ v.service[s].state \in {st, "RESTARTING"} /\ Remembers(x, v)
      /\ \A p \in Service \ {s} : v.service[p] = x.service[p]
  BY <1>1, ScheduledFacts
<1> HIDE DEF x, v
<1>3. ASSUME NEW y, y.service[s].state \in {st, "RESTARTING"},
             \A p \in Service \ {s} : y.service[p] = x.service[p]
      PROVE  TogetherIn(y)
  <2> SUFFICES ASSUME NEW q \in Service, Failed(y, q), NEW p \in Service \ {q}, Group[p] = Group[q]
               PROVE  y.service[p].state \in {"FROZEN", "EXIT"}
    BY DEF TogetherIn
  <2>1. CASE q = s
    BY <1>1, <1>3, <2>1
  <2>2. CASE q # s
    <3>1. x.service[q] = y.service[q]
      BY <1>3, <2>2
    <3>2. x.service[q].state # "FROZEN"
      BY <3>1 DEF Failed
    <3>3. x.service[q] = w.service[q]
      BY <1>1, <2>2, <3>2
    <3>4. Failed(w, q)
      BY <3>1, <3>3 DEF Failed
    <3>5. Group[q] # Group[s]
      BY <2>2, <3>4
    <3>6. w.service[p].state \in {"FROZEN", "EXIT"}
      BY <3>4 DEF TogetherIn
    <3>7. p # s
      BY <3>5
    <3>8. x.service[p] = w.service[p]
      BY <1>1, <3>5, <3>7
    <3> QED BY <1>3, <3>6, <3>7, <3>8
  <2> QED BY <2>1, <2>2
<1>4. Remembers(Now, x) /\ Remembers(Now, v)
  BY <1>1, <1>2 DEF Remembers
<1> QED BY <1>1, <1>2, <1>3, <1>4 DEF x, v

(* What tick does for one service.                                         *)
LEMMA TendedFacts ==
  ASSUME NEW w, Sound(w, frozen), TogetherIn(w), Remembers(Now, w), NEW s \in Service
  PROVE  Sound(Tended(w, s), frozen) /\ TogetherIn(Tended(w, s)) /\ Remembers(Now, Tended(w, s))
<1>1. CASE Tended(w, s) = w
  BY <1>1
<1>2. CASE /\ w.service[s].state = "RESTARTING" /\ Startable(w, s)
           /\ Tended(w, s) = Started(w, s)
  <2> DEFINE v == Started(w, s)
  <2>1. Sound(v, frozen) /\ v.service[s].state = "STARTING" /\ Remembers(w, v)
        /\ \A p \in Service \ {s} : v.service[p] = w.service[p]
    BY <1>2, StartedFacts
  <2> HIDE DEF v
  <2>2. TogetherIn(v)
    <3> SUFFICES ASSUME NEW q \in Service, Failed(v, q), NEW p \in Service \ {q}, Group[p] = Group[q]
                 PROVE  v.service[p].state \in {"FROZEN", "EXIT"}
      BY DEF TogetherIn
    <3>1. q # s
      BY <2>1 DEF Failed
    <3>2. Failed(w, q)
      BY <2>1, <3>1 DEF Failed
    <3>3. w.service[p].state \in {"FROZEN", "EXIT"}
      BY <3>2 DEF TogetherIn
    <3>4. p # s
      BY <1>2, <3>3
    <3> QED BY <2>1, <3>3, <3>4
  <2>3. Remembers(Now, v)
    BY <2>1 DEF Remembers
  <2> QED BY <1>2, <2>1, <2>2, <2>3 DEF v
<1>3. CASE /\ w.service[s].state \in Up
           /\ Tended(w, s) = Faulted(w, s)
  <2>1. \A p \in Service \ {s} : Group[p] = Group[s] => ~Failed(w, p)
    BY <1>3 DEF TogetherIn, Up
  <2> QED BY <1>3, <2>1, EndTogether DEF Faulted
<1>4. CASE w.service[s].state = "RESTARTING" /\ w.service[s].due = 0
  <2>1. Tended(w, s) = IF Startable(w, s) /\ DepsReady(w, s) THEN Started(w, s) ELSE w
    BY <1>4 DEF Tended, Up
  <2> QED BY <1>1, <1>2, <1>4, <2>1
<1>5. CASE w.service[s].state \in Up /\ w.service[s].age = Timeout
  <2>1. Tended(w, s) = Faulted(w, s)
    BY <1>5 DEF Tended, Up
  <2> QED BY <1>3, <1>5, <2>1
<1>6. CASE /\ ~(w.service[s].state = "RESTARTING" /\ w.service[s].due = 0)
           /\ ~(w.service[s].state \in Up /\ w.service[s].age = Timeout)
  <2>1. Tended(w, s) = w
    BY <1>6 DEF Tended
  <2> QED BY <1>1, <2>1
<1> QED BY <1>4, <1>5, <1>6

-----------------------------------------------------------------------------
(* A tick. *)

(* Induction over the naturals up to n, for a set in place of a predicate. *)
LEMMA UpTo ==
  ASSUME NEW n \in Nat, NEW S, 0 \in S, \A i \in 0 .. n - 1 : i \in S => i + 1 \in S
  PROVE  0 .. n \subseteq S
<1> SUFFICES ASSUME NEW k \in 0 .. n, k \notin S PROVE FALSE
  OBVIOUS
<1> DEFINE B == {i \in 0 .. n : i \notin S}
           L == OpToRel(<, Nat)
<1>1. IsWellFoundedOn(L, Nat)
  BY NatLessThanWellFounded
<1>2. B \subseteq Nat /\ B # {}
  OBVIOUS
<1>3. \A a, b \in Nat : a < b => <<a, b>> \in L
  BY DEF OpToRel
<1> HIDE DEF L
<1>4. PICK x \in B : \A y \in B : ~(<<y, x>> \in L)
  BY <1>1, <1>2, WFMin
<1>5. x \in 1 .. n /\ x - 1 \in 0 .. n - 1
  BY <1>4
<1>6. x - 1 \in S
  <2>1. x - 1 \in Nat /\ x \in Nat /\ x - 1 < x /\ x - 1 \in 0 .. n
    BY <1>5
  <2>2. <<x - 1, x>> \in L
    BY <1>3, <2>1
  <2>3. x - 1 \notin B
    BY <1>4, <2>2
  <2> QED BY <2>1, <2>3
<1>7. x \in S
  BY <1>5, <1>6
<1> QED BY <1>4, <1>7

(* The loop of tick, as the function in its definition.                    *)
Passed(f, n) ==
  f = [i \in 0 .. n |-> IF i = 0 THEN Now ELSE Tended(f[i - 1], Order[i])]

(* There is such a function, so that a tick does what it says.             *)
LEMMA TickLoops ==
  \E f : Passed(f, Len(Order))
<1> DEFINE N == Len(Order)
           S == {n \in Nat : \E f : Passed(f, n)}
<1>1. N \in Nat
  BY SupervisorAssumption
<1>2. 0 \in S
  <2> DEFINE f == [i \in 0 .. 0 |-> Now]
  <2>1. Passed(f, 0)
    BY DEF Passed
  <2> QED BY <2>1
<1>3. ASSUME NEW n \in 0 .. N - 1, n \in S PROVE n + 1 \in S
  <2>1. PICK f : Passed(f, n)
    BY <1>3
  <2> DEFINE g == [i \in 0 .. n + 1 |-> IF i = n + 1 THEN Tended(f[n], Order[i]) ELSE f[i]]
  <2>2. n \in Nat /\ n + 1 \in Nat
    BY <1>1
  <2>3. \A i \in 0 .. n : f[i] = IF i = 0 THEN Now ELSE Tended(f[i - 1], Order[i])
    BY <2>1 DEF Passed
  <2>4. \A i \in 0 .. n : g[i] = f[i]
    BY <2>2
  <2>5. g[n + 1] = Tended(f[n], Order[n + 1])
    BY <2>2
  <2>6. ASSUME NEW i \in 0 .. n + 1
        PROVE  g[i] = IF i = 0 THEN Now ELSE Tended(g[i - 1], Order[i])
    <3>1. CASE i = n + 1
      <4>1. g[i - 1] = f[n] /\ i # 0
        BY <2>2, <2>4, <3>1
      <4> HIDE DEF g
      <4> QED BY <2>5, <3>1, <4>1
    <3>2. CASE i # n + 1
      <4>1. i \in 0 .. n
        BY <2>2, <3>2
      <4>2. i # 0 => i - 1 \in 0 .. n
        BY <2>2, <4>1
      <4> HIDE DEF g
      <4> QED BY <2>3, <2>4, <4>1, <4>2
    <3> QED BY <3>1, <3>2
  <2>7. g = [i \in 0 .. n + 1 |-> g[i]]
    OBVIOUS
  <2> HIDE DEF g
  <2>8. Passed(g, n + 1)
    BY <2>6, <2>7 DEF Passed
  <2> QED BY <2>2, <2>8
<1> HIDE DEF S
<1>4. 0 .. N \subseteq S
  BY <1>1, <1>2, <1>3, UpTo
<1>5. N \in S
  BY <1>1, <1>4
<1> QED BY <1>5 DEF S

(* What a tick leaves is what the services' turns leave.                   *)
LEMMA TickFacts ==
  ASSUME Inv, Tick
  PROVE  \E w : Sound(w, frozen) /\ TogetherIn(w) /\ Remembers(Now, w) /\ Becomes(w)
<1> DEFINE N == Len(Order)
           after == CHOOSE f : Passed(f, N)
<1>1. Becomes(after[N])
  BY DEF Tick, Passed
<1>2. Passed(after, N)
  BY TickLoops
<1> HIDE DEF after
<1>3. N \in Nat /\ \A i \in 1 .. N : Order[i] \in Service
  BY SupervisorAssumption
<1>4. after[0] = Now /\ \A i \in 0 .. N - 1 : after[i + 1] = Tended(after[i], Order[i + 1])
  BY <1>2, <1>3 DEF Passed
<1> DEFINE S == {i \in 0 .. N : Sound(after[i], frozen) /\ TogetherIn(after[i]) /\ Remembers(Now, after[i])}
<1>5. 0 \in S
  <2>1. Sound(Now, frozen) /\ TogetherIn(Now) /\ Remembers(Now, Now)
    BY NothingFailedYet DEF Inv, TogetherIn, Remembers
  <2> QED BY <1>3, <1>4, <2>1
<1>6. ASSUME NEW i \in 0 .. N - 1, i \in S PROVE i + 1 \in S
  <2>1. Order[i + 1] \in Service /\ after[i + 1] = Tended(after[i], Order[i + 1]) /\ i + 1 \in 0 .. N
    BY <1>3, <1>4
  <2>2. Sound(after[i], frozen) /\ TogetherIn(after[i]) /\ Remembers(Now, after[i])
    BY <1>6
  <2> QED BY <2>1, <2>2, TendedFacts
<1> HIDE DEF S
<1>7. N \in S
  <2> HIDE DEF N
  <2>1. 0 .. N \subseteq S
    BY <1>3, <1>5, <1>6, UpTo
  <2> QED BY <1>3, <2>1
<1> QED BY <1>1, <1>7 DEF S

-----------------------------------------------------------------------------
(* Every call. *)

(* What a call leaves is what it has reached in the end.                   *)
LEMMA BecomesFacts ==
  ASSUME NEW w, NEW fr, Sound(w, fr), Becomes(w)
  PROVE  Now' = w
<1>1. w = [service |-> w.service, granted |-> w.granted, revoked |-> w.revoked]
  BY DEF Sound, Reached
<1> QED BY <1>1 DEF Becomes, Now

(* A call that gives each service a sane record and leaves the handles     *)
(* alone.                                                                  *)
LEMMA Retouched ==
  ASSUME Inv, NEW fr, NEW f,
         f \in [Service -> AnyRecord],
         \A s \in Service : Sane(f[s], s, fr) /\ f[s].handles = service[s].handles
  PROVE  Sound([service |-> f, granted |-> granted, revoked |-> revoked], fr)
<1> DEFINE v == [service |-> f, granted |-> granted, revoked |-> revoked]
<1>1. granted \in SUBSET AllHandles /\ revoked \in SUBSET AllHandles
  BY DEF Inv, Sound, Reached, Now
<1>2. v \in Reached
  BY <1>1 DEF Reached
<1>3. v.service = f /\ v.granted = granted
  OBVIOUS
<1> HIDE DEF v
<1>4. \A h : h \in v.granted <=> Holds(v, h)
  BY <1>3 DEF Inv, Sound, Holds, Now
<1> QED BY <1>2, <1>3, <1>4 DEF Sound, v

(* The services of the present state.                                      *)
LEMMA InvFacts ==
  ASSUME Inv
  PROVE  /\ service \in [Service -> AnyRecord]
         /\ \A s \in Service : service[s] \in AnyRecord /\ Sane(service[s], s, frozen)
         /\ granted \in SUBSET AllHandles /\ revoked \in SUBSET AllHandles
         /\ \A h : h \in granted <=> \E s \in Service : h \in service[s].handles
<1>1. Now.service = service /\ Now.granted = granted /\ Now.revoked = revoked
  BY DEF Now
<1> QED BY <1>1 DEF Inv, Sound, Reached, Holds

(* What a call leaves: sound with the groups paused by now, failed         *)
(* together, and with no handle forgotten.                                 *)
Leaves(w) == Sound(w, frozen') /\ TogetherIn(w) /\ Remembers(Now, w) /\ Becomes(w)

(* A call after which no service has failed.                               *)
LEMMA NoneFailed ==
  ASSUME NEW w, \A s \in Service : ~Failed(w, s)
  PROVE  TogetherIn(w)
  BY DEF TogetherIn

(* start *)
LEMMA StartStep ==
  ASSUME Inv, NEW s \in Service, Start(s)
  PROVE  \E w : Leaves(w)
<1> DEFINE v == Started(Now, s)
<1>1. Sound(Now, frozen) /\ Startable(Now, s) /\ Now.service = service
  BY DEF Inv, Start, Now
<1>2. Now.service[s].nonce < MaxNonce
  BY <1>1 DEF Start
<1>3. /\ Sound(v, frozen) /\ v.service[s].state = "STARTING" /\ Remembers(Now, v)
      /\ \A p \in Service \ {s} : v.service[p] = service[p]
  BY <1>1, <1>2, StartedFacts
<1>4. Becomes(v) /\ frozen' = frozen
  BY DEF Start
<1> HIDE DEF v
<1>5. \A p \in Service : ~Failed(v, p)
  BY <1>3 DEF Failed, Up
<1> QED BY <1>3, <1>4, <1>5, NoneFailed DEF Leaves

(* start_all: each service that may start does.                            *)
LEMMA StartAllStep ==
  ASSUME Inv, StartAll
  PROVE  \E w : Leaves(w)
<1> DEFINE S == {s \in Service : Startable(Now, s)}
           v(s) == Started(Now, s)
           w == [service |-> service', granted |-> granted', revoked |-> revoked']
<1>1. Sound(Now, frozen) /\ Now.service = service /\ Now.granted = granted
  BY DEF Inv, Now
<1>2. ASSUME NEW s \in S
      PROVE  /\ s \in Service
             /\ Sound(v(s), frozen) /\ v(s).service[s].state = "STARTING"
             /\ service[s].handles \subseteq v(s).service[s].handles
             /\ granted \subseteq v(s).granted
             /\ \A p \in Service \ {s} : v(s).service[p] = service[p]
  <2>1. Startable(Now, s) /\ Now.service[s].nonce < MaxNonce /\ s \in Service
    BY <1>1 DEF StartAll
  <2> QED BY <1>1, <2>1, StartedFacts
<1>3. /\ \A s \in Service : service'[s] = IF s \in S THEN v(s).service[s] ELSE service[s]
      /\ service' = [s \in Service |-> service'[s]]
      /\ granted' = granted \cup UNION {v(s).granted : s \in S}
      /\ revoked' = revoked /\ frozen' = frozen
  BY DEF StartAll
<1>4. /\ service \in [Service -> AnyRecord]
      /\ \A s \in Service : service[s] \in AnyRecord /\ Sane(service[s], s, frozen)
      /\ granted \in SUBSET AllHandles /\ revoked \in SUBSET AllHandles
      /\ \A h : h \in granted <=> \E s \in Service : h \in service[s].handles
  BY InvFacts
<1> HIDE DEF S, v
<1>5. ASSUME NEW s \in S
      PROVE  /\ Sane(v(s).service[s], s, frozen) /\ v(s).service[s] \in AnyRecord
             /\ v(s).granted \in SUBSET AllHandles
             /\ \A h : h \in v(s).granted <=> \E p \in Service : h \in v(s).service[p].handles
  BY <1>2 DEF Sound, Holds, Sane, Reached
<1>6. \A s \in Service : Sane(service'[s], s, frozen) /\ service'[s] \in AnyRecord
  BY <1>3, <1>4, <1>5
<1>7. service' \in [Service -> AnyRecord]
  BY <1>3, <1>6
<1>8. granted' \in SUBSET AllHandles
  BY <1>3, <1>4, <1>5
<1>9. \A h : h \in granted' <=> \E s \in Service : h \in service'[s].handles
  <2>1. ASSUME NEW h, h \in granted'
        PROVE  \E s \in Service : h \in service'[s].handles
    <3>1. CASE \E s \in Service : h \in service[s].handles
      <4>1. PICK s \in Service : h \in service[s].handles
        BY <3>1
      <4> QED BY <1>2, <1>3, <4>1
    <3>2. CASE \E s \in S : h \in v(s).granted
      <4>1. PICK s \in S : h \in v(s).granted
        BY <3>2
      <4>2. PICK p \in Service : h \in v(s).service[p].handles
        BY <1>5, <4>1
      <4>3. CASE p = s
        BY <1>3, <4>2, <4>3
      <4>4. CASE p # s
        <5>1. h \in service[p].handles
          BY <1>2, <4>2, <4>4
        <5> QED BY <1>2, <1>3, <5>1
      <4> QED BY <4>3, <4>4
    <3>3. h \in granted \/ \E s \in S : h \in v(s).granted
      BY <1>3, <2>1
    <3> QED BY <1>4, <3>1, <3>2, <3>3
  <2>2. ASSUME NEW h, NEW s \in Service, h \in service'[s].handles
        PROVE  h \in granted'
    <3>1. CASE s \in S
      <4>1. h \in v(s).granted
        BY <1>3, <1>5, <2>2, <3>1
      <4> QED BY <1>3, <3>1, <4>1
    <3>2. CASE s \notin S
      BY <1>3, <1>4, <2>2, <3>2
    <3> QED BY <3>1, <3>2
  <2> QED BY <2>1, <2>2
<1>10. w.service = service' /\ w.granted = granted' /\ w.revoked = revoked' /\ w \in Reached
  BY <1>3, <1>4, <1>7, <1>8 DEF Reached
<1> HIDE DEF w
<1>11. Sound(w, frozen)
  BY <1>6, <1>9, <1>10 DEF Sound, Holds
<1>12. \A s \in Service : ~Failed(w, s)
  BY <1>2, <1>3, <1>10 DEF Failed, Up
<1>13. Becomes(w)
  BY <1>10 DEF Becomes
<1>14. Remembers(Now, w)
  BY <1>3, <1>10 DEF Remembers, Now
<1> QED BY <1>3, <1>11, <1>12, <1>13, <1>14, NoneFailed DEF Leaves

(* The calls that only touch the records, and no handles.                  *)
LEMMA TouchStep ==
  ASSUME Inv, NEW f, f \in [Service -> AnyRecord],
         \A s \in Service : Sane(f[s], s, frozen') /\ f[s].handles = service[s].handles,
         \A s \in Service : service[s].state \in Up => f[s].state \in Up \cup {"FROZEN"},
         service' = f, UNCHANGED <<granted, revoked>>
  PROVE  \E w : Leaves(w)
<1> DEFINE w == [service |-> f, granted |-> granted, revoked |-> revoked]
<1>1. Sound(w, frozen')
  BY Retouched
<1>2. w.service = f /\ w.granted = granted /\ w.revoked = revoked
  OBVIOUS
<1> HIDE DEF w
<1>3. \A s \in Service : ~Failed(w, s)
  BY <1>2 DEF Failed, Up
<1>4. Remembers(Now, w)
  BY <1>2 DEF Remembers, Now
<1> QED BY <1>1, <1>2, <1>3, <1>4, NoneFailed DEF Leaves, Becomes

(* ready *)
LEMMA ReadyStep ==
  ASSUME Inv, NEW s \in Service, Ready(s)
  PROVE  \E w : Leaves(w)
<1> DEFINE e == [service[s] EXCEPT !.state = "READY", !.age = 0]
           f == [service EXCEPT ![s] = e]
<1>1. /\ service \in [Service -> AnyRecord] /\ service[s] \in AnyRecord
      /\ \A p \in Service : Sane(service[p], p, frozen)
  BY InvFacts
<1>2. /\ e \in AnyRecord /\ e.state = "READY" /\ e.age = 0 /\ e.handles = service[s].handles
      /\ e.attempts = service[s].attempts /\ e.generation = service[s].generation
      /\ e.nonce = service[s].nonce /\ e.due = service[s].due
  BY <1>1 DEF AnyRecord, State
<1>3. service' = f /\ UNCHANGED <<granted, revoked, frozen>> /\ service[s].state = "STARTING"
  BY DEF Ready
<1> HIDE DEF e
<1>4. Sane(e, s, frozen)
  BY <1>1, <1>2, <1>3, Numbers DEF Sane, Up
<1>5. f \in [Service -> AnyRecord] /\ f[s] = e /\ \A p \in Service \ {s} : f[p] = service[p]
  BY <1>1, <1>2
<1> HIDE DEF f
<1> QED BY <1>1, <1>2, <1>3, <1>4, <1>5, TouchStep DEF Up

(* heartbeat *)
LEMMA HeartbeatStep ==
  ASSUME Inv, NEW s \in Service, NEW generation, NEW nonce, Heartbeat(s, generation, nonce)
  PROVE  \E w : Leaves(w)
<1> DEFINE e == [service[s] EXCEPT !.state = "HEARTBEAT", !.age = 0]
           f == [service EXCEPT ![s] = e]
<1>1. /\ service \in [Service -> AnyRecord] /\ service[s] \in AnyRecord
      /\ \A p \in Service : Sane(service[p], p, frozen)
  BY InvFacts
<1>2. /\ e \in AnyRecord /\ e.state = "HEARTBEAT" /\ e.age = 0 /\ e.handles = service[s].handles
      /\ e.attempts = service[s].attempts /\ e.generation = service[s].generation
      /\ e.nonce = service[s].nonce /\ e.due = service[s].due
  BY <1>1 DEF AnyRecord, State
<1>3. service' = f /\ UNCHANGED <<granted, revoked, frozen>> /\ service[s].state \in Up
  BY DEF Heartbeat
<1> HIDE DEF e
<1>4. Sane(e, s, frozen)
  BY <1>1, <1>2, <1>3, Numbers DEF Sane, Up
<1>5. f \in [Service -> AnyRecord] /\ f[s] = e /\ \A p \in Service \ {s} : f[p] = service[p]
  BY <1>1, <1>2
<1> HIDE DEF f
<1> QED BY <1>1, <1>2, <1>3, <1>4, <1>5, TouchStep DEF Up

(* The clock. *)
LEMMA PassStep ==
  ASSUME Inv, Pass
  PROVE  \E w : Leaves(w)
<1> DEFINE e(s) == [service[s] EXCEPT !.age = IF @ < Timeout THEN @ + 1 ELSE @,
                                      !.due = IF @ \in {0, NoDue} THEN @ ELSE @ - 1]
           f == [s \in Service |-> e(s)]
<1>1. \A s \in Service : service[s] \in AnyRecord /\ Sane(service[s], s, frozen)
  BY InvFacts
<1>2. ASSUME NEW s \in Service
      PROVE  e(s) \in AnyRecord /\ Sane(e(s), s, frozen)
             /\ e(s).handles = service[s].handles /\ e(s).state = service[s].state
  <2> DEFINE r == service[s]
             a == IF r.age < Timeout THEN r.age + 1 ELSE r.age
             d == IF r.due \in {0, NoDue} THEN r.due ELSE r.due - 1
             x == [r EXCEPT !.age = a]
             y == [x EXCEPT !.due = d]
  <2>1. r \in AnyRecord /\ Sane(r, s, frozen)
    BY <1>1
  <2> HIDE DEF r
  <2>2. r.age \in Nat /\ r.age <= Timeout /\ r.due \in (0 .. Backoff) \cup {NoDue}
    BY <2>1 DEF AnyRecord, Sane
  <2>3. a \in Nat /\ a <= Timeout
    BY <2>2, Numbers
  <2>4. d \in (0 .. Backoff) \cup {NoDue}
    BY <2>2, Numbers
  <2>5. d \in Nat \cup {NoDue}
    BY <2>4, Numbers
  <2>6. e(s) = y
    BY DEF r
  <2> HIDE DEF a, d, e
  <2>7. x \in AnyRecord
    BY <2>1, <2>3 DEF AnyRecord
  <2>8. y \in AnyRecord
    BY <2>5, <2>7 DEF AnyRecord
  <2>9. y.age = a /\ y.due = d /\ y.state = r.state /\ y.handles = r.handles
        /\ y.attempts = r.attempts /\ y.generation = r.generation /\ y.nonce = r.nonce
    BY <2>1 DEF AnyRecord
  <2> HIDE DEF y
  <2>10. Sane(y, s, frozen)
    BY <2>1, <2>3, <2>4, <2>8, <2>9 DEF Sane
  <2> QED BY <2>6, <2>8, <2>9, <2>10 DEF r
<1>3. service' = f /\ UNCHANGED <<granted, revoked, frozen>>
  BY DEF Pass
<1> HIDE DEF e
<1>4. f \in [Service -> AnyRecord] /\ \A s \in Service : f[s] = e(s)
  BY <1>2
<1> HIDE DEF f
<1> QED BY <1>2, <1>3, <1>4, TouchStep

(* unfreeze_group *)
LEMMA UnfreezeStep ==
  ASSUME Inv, NEW g, UnfreezeGroup(g)
  PROVE  \E w : Leaves(w)
<1> DEFINE e(s) == IF Group[s] = g /\ service[s].state = "FROZEN"
                     THEN [service[s] EXCEPT !.state = "READY", !.age = 0]
                     ELSE service[s]
           f == [s \in Service |-> e(s)]
<1>1. \A s \in Service : service[s] \in AnyRecord /\ Sane(service[s], s, frozen)
  BY InvFacts
<1>2. ASSUME NEW s \in Service
      PROVE  /\ e(s) \in AnyRecord /\ Sane(e(s), s, frozen \ {g})
             /\ e(s).handles = service[s].handles
             /\ service[s].state \in Up => e(s).state \in Up
  <2>1. CASE Group[s] = g /\ service[s].state = "FROZEN"
    <3> DEFINE r == service[s]
               x == [r EXCEPT !.state = "READY", !.age = 0]
    <3>1. r \in AnyRecord /\ Sane(r, s, frozen) /\ e(s) = x
      BY <1>1, <2>1
    <3> HIDE DEF r, e
    <3>2. x \in AnyRecord /\ x.state = "READY" /\ x.age = 0 /\ x.handles = r.handles
          /\ x.attempts = r.attempts /\ x.generation = r.generation /\ x.nonce = r.nonce
          /\ x.due = r.due
      BY <3>1 DEF AnyRecord, State
    <3> HIDE DEF x
    <3>3. Sane(x, s, frozen \ {g})
      BY <2>1, <3>1, <3>2, Numbers DEF Sane, Up
    <3> QED BY <3>1, <3>2, <3>3 DEF r, Up
  <2>2. CASE ~(Group[s] = g /\ service[s].state = "FROZEN")
    <3>1. e(s) = service[s]
      BY <2>2
    <3> QED BY <1>1, <3>1 DEF Sane
  <2> QED BY <2>1, <2>2
<1>3. service' = f /\ UNCHANGED <<granted, revoked>> /\ frozen' = frozen \ {g}
  BY DEF UnfreezeGroup
<1> HIDE DEF e
<1>4. f \in [Service -> AnyRecord] /\ \A s \in Service : f[s] = e(s)
  BY <1>2
<1> HIDE DEF f
<1> QED BY <1>2, <1>3, <1>4, TouchStep

(* freeze_group *)
LEMMA FreezeStep ==
  ASSUME Inv, NEW g, FreezeGroup(g)
  PROVE  \E w : Leaves(w)
<1> DEFINE S == Freezable(Now, g)
           v == Freeze(Now, S)
<1>1. Sound(Now, frozen) /\ Now.service = service
  BY DEF Inv, Now
<1>2. S \in SUBSET Service
  BY DEF Freezable
<1>3. \A p \in Service \ S : Group[p] = g => service[p].state = "EXIT"
  BY <1>1 DEF Freezable
<1> HIDE DEF S
<1>4. /\ Sound(v, frozen)
      /\ \A p \in S : v.service[p].state = "FROZEN"
      /\ \A p \in Service \ S : v.service[p] = service[p]
      /\ Remembers(Now, v)
  BY <1>1, <1>2, Frozen DEF Remembers
<1>5. Becomes(v) /\ frozen' = frozen \cup {g}
  BY DEF FreezeGroup, S
<1> HIDE DEF v
<1>6. \A p \in Service : Group[p] = g => v.service[p].state \notin Up
  BY <1>3, <1>4 DEF Up
<1>7. ASSUME NEW p \in Service PROVE Sane(v.service[p], p, frozen')
  <2>1. Sane(v.service[p], p, frozen)
    BY <1>4 DEF Sound
  <2>2. Group[p] \in frozen' => v.service[p].state \notin Up
    BY <1>5, <1>6, <2>1 DEF Sane
  <2> QED BY <2>1, <2>2 DEF Sane
<1>8. Sound(v, frozen')
  BY <1>4, <1>7 DEF Sound
<1>9. \A s \in Service : ~Failed(v, s)
  BY <1>4 DEF Failed, Up
<1> QED BY <1>4, <1>5, <1>8, <1>9, NoneFailed DEF Leaves

(* fault, exit and stop *)
LEMMA EndStep ==
  ASSUME Inv, NEW s \in Service, Fault(s) \/ Exit(s) \/ Stop(s)
  PROVE  \E w : Leaves(w)
<1>1. Sound(Now, frozen) /\ TogetherIn(Now) /\ Remembers(Now, Now) /\ frozen' = frozen
      /\ \A p \in Service \ {s} : Group[p] = Group[s] => ~Failed(Now, p)
  BY NothingFailedYet, NoneFailed DEF Inv, Fault, Exit, Stop, Remembers
<1>2. ASSUME NEW st \in {"FAULT", "EXIT"}
      PROVE  /\ Sound(Ended(Now, s, st), frozen') /\ TogetherIn(Ended(Now, s, st))
             /\ Remembers(Now, Ended(Now, s, st))
             /\ Remembers(Now, ScheduleRestart(Ended(Now, s, st), s))
             /\ Sound(ScheduleRestart(Ended(Now, s, st), s), frozen')
             /\ TogetherIn(ScheduleRestart(Ended(Now, s, st), s))
  BY <1>1, EndTogether
<1>3. \/ Becomes(ScheduleRestart(Ended(Now, s, "FAULT"), s))
      \/ Becomes(ScheduleRestart(Ended(Now, s, "EXIT"), s))
      \/ Becomes(Ended(Now, s, "EXIT"))
  BY DEF Fault, Exit, Stop, Faulted
<1> QED BY <1>2, <1>3 DEF Leaves

(* Whatever the call is, what it leaves is sound and failed together.      *)
LEMMA NextLeaves ==
  ASSUME Inv, Next
  PROVE  (\E w : Leaves(w)) /\ frozen' \subseteq Groups
<1>1. frozen' \subseteq Groups
  BY DEF Inv, Next, StartAll, Tick, Pass, Start, Ready, Fault, Exit, Stop, Heartbeat,
         FreezeGroup, UnfreezeGroup
<1>2. CASE StartAll
  BY <1>1, <1>2, StartAllStep
<1>3. CASE Tick
  BY <1>1, <1>3, TickFacts DEF Tick, Leaves
<1>4. CASE Pass
  BY <1>1, <1>4, PassStep
<1>5. CASE \E s \in Service : Start(s) \/ Ready(s) \/ Fault(s) \/ Exit(s) \/ Stop(s)
  BY <1>1, <1>5, StartStep, ReadyStep, EndStep
<1>6. CASE \E s \in Service : \E generation \in 0 .. MaxGen(s), nonce \in 1 .. service[s].nonce :
             Heartbeat(s, generation, nonce)
  BY <1>1, <1>6, HeartbeatStep
<1>7. CASE \E g \in Groups : FreezeGroup(g) \/ UnfreezeGroup(g)
  BY <1>1, <1>7, FreezeStep, UnfreezeStep
<1> QED BY <1>1, <1>2, <1>3, <1>4, <1>5, <1>6, <1>7 DEF Next

(* Every call keeps the invariant, and a group fails together.             *)
LEMMA InvStep ==
  ASSUME Inv, Next
  PROVE  /\ Inv'
         /\ \A s \in Service :
              service[s].state \in Up /\ service'[s].state \in {"FAULT", "EXIT", "RESTARTING"} =>
                \A p \in Service \ {s} : Group[p] = Group[s] => service'[p].state \notin Up
<1>1. PICK w : Leaves(w)
  BY NextLeaves
<1>2. Now' = w /\ service' = w.service
  BY <1>1, BecomesFacts DEF Leaves, Becomes
<1>3. Sound(Now', frozen')
  BY <1>1, <1>2 DEF Leaves
<1>4. Inv'
  BY <1>3, NextLeaves DEF Inv
<1> QED BY <1>1, <1>2, <1>4 DEF Leaves, TogetherIn, Failed, Up

(* A handle that was valid and is not any more is remembered as revoked,   *)
(* and a handle is revoked for good.                                       *)
LEMMA RevokedForGood ==
  ASSUME Inv, [Next]_vars, NEW h
  PROVE  /\ h \in revoked => h \in revoked'
         /\ Validates(h) => Validates(h)' \/ h \in revoked'
<1>1. CASE UNCHANGED vars
  BY <1>1 DEF vars, Validates
<1>2. CASE Next
  <2>1. PICK w : Leaves(w)
    BY <1>2, NextLeaves
  <2>2. service' = w.service /\ granted' = w.granted /\ revoked' = w.revoked
    BY <2>1 DEF Leaves, Becomes
  <2>3. revoked \subseteq revoked' /\ granted \subseteq granted' \cup revoked'
    BY <2>1, <2>2 DEF Leaves, Remembers, Now
  <2>4. ASSUME h \in granted' PROVE h[2] = service'[h[1]].generation
    <3>1. Inv'
      BY <1>2, InvStep
    <3>2. PICK s \in Service : h \in service'[s].handles
      BY <2>1, <2>2, <2>4 DEF Leaves, Sound, Holds
    <3>3. Sane(service'[s], s, frozen')
      BY <2>1, <2>2 DEF Leaves, Sound
    <3>4. h = <<s, service'[s].generation>>
      BY <3>2, <3>3 DEF Sane
    <3> QED BY <3>4
  <2> QED BY <2>3, <2>4 DEF Validates
<1> QED BY <1>1, <1>2

(* No service has run yet.                                                 *)
LEMMA InvInit == Init => Inv
<1> SUFFICES ASSUME Init PROVE Inv
  OBVIOUS
<1> DEFINE e == [state |-> "EXIT", generation |-> 0, nonce |-> 0, age |-> 0,
                 attempts |-> 0, due |-> NoDue, handles |-> {}]
<1>1. e \in AnyRecord /\ \A s \in Service : Sane(e, s, {})
  BY Numbers DEF AnyRecord, Sane, State, Up
<1>2. service = [s \in Service |-> e] /\ granted = {} /\ revoked = {} /\ frozen = {}
  BY DEF Init
<1>3. e.handles = {}
  OBVIOUS
<1> HIDE DEF e
<1>4. Now \in Reached /\ Now.service = service /\ Now.granted = {}
  BY <1>1, <1>2 DEF Now, Reached
<1>5. \A s \in Service : service[s] = e
  BY <1>2
<1> QED BY <1>1, <1>2, <1>3, <1>4, <1>5 DEF Inv, Sound, Holds

(* Every call, or none.                                                    *)
LEMMA InvKept == Inv /\ [Next]_vars => Inv'
<1> SUFFICES ASSUME Inv, [Next]_vars PROVE Inv'
  OBVIOUS
<1>1. CASE UNCHANGED vars
  <2>1. Now' = Now /\ frozen' = frozen
    BY <1>1 DEF vars, Now
  <2> QED BY <2>1 DEF Inv
<1>2. CASE Next
  BY <1>2, InvStep
<1> QED BY <1>1, <1>2

-----------------------------------------------------------------------------
(* The record of every service stays in range whatever calls come: its     *)
(* generation within its restart budget, its age and its delay within what *)
(* the clock counts, its handles those of the service.                     *)
THEOREM SupervisorTypeCorrect == Spec => []TypeOK
<1>1. Inv => TypeOK
  <2> SUFFICES ASSUME Inv PROVE TypeOK
    OBVIOUS
  <2>1. ASSUME NEW s \in Service
        PROVE  service[s] \in [state      : State,
                               generation : 0 .. MaxGen(s),
                               nonce      : 0 .. MaxNonce + MaxAttempts[s],
                               age        : 0 .. Timeout,
                               attempts   : 0 .. MaxAttempts[s],
                               due        : (0 .. Backoff) \cup {NoDue},
                               handles    : SUBSET Handle(s)]
    <3>1. service[s] \in AnyRecord /\ Sane(service[s], s, frozen)
      BY InvFacts
    <3> DEFINE r == service[s]
    <3>2. r = [state |-> r.state, generation |-> r.generation, nonce |-> r.nonce, age |-> r.age,
               attempts |-> r.attempts, due |-> r.due, handles |-> r.handles]
          /\ r.state \in State /\ r.generation \in Nat /\ r.nonce \in Nat /\ r.age \in Nat
          /\ r.attempts \in Nat
      BY <3>1 DEF AnyRecord
    <3> HIDE DEF r
    <3>3. /\ r.attempts \in 0 .. MaxAttempts[s] /\ r.generation \in 0 .. MaxGen(s)
          /\ r.nonce \in 0 .. MaxNonce + MaxAttempts[s] /\ r.age \in 0 .. Timeout
          /\ r.due \in (0 .. Backoff) \cup {NoDue}
          /\ r.generation <= MaxAttempts[s] + 1
      BY <3>1, <3>2, Numbers DEF Sane, MaxGen, r
    <3>4. r.handles \in SUBSET Handle(s)
      BY <3>1, <3>2, <3>3, HandleTyped DEF Sane, r
    <3> QED BY <3>2, <3>3, <3>4 DEF r
  <2>2. granted \subseteq AllHandles /\ revoked \subseteq AllHandles /\ frozen \subseteq Groups
    BY InvFacts DEF Inv
  <2> QED BY <2>1, <2>2 DEF TypeOK, AllHandles
<1> QED
  BY <1>1, InvInit, InvKept, PTL DEF Spec

(* Only a service that is up or frozen holds a capability, one of its      *)
(* present generation, and the table of granted handles holds nothing      *)
(* else, whatever faults, freezes and restarts meet in one tick.           *)
THEOREM AuthorityEndsWithLife == Spec => []AuthorityEnds
<1>1. Inv => AuthorityEnds
  <2> SUFFICES ASSUME Inv PROVE AuthorityEnds
    OBVIOUS
  <2>1. granted = UNION {service[s].handles : s \in Service}
    BY InvFacts
  <2> QED BY <2>1, InvFacts DEF AuthorityEnds, Sane
<1> QED
  BY <1>1, InvInit, InvKept, PTL DEF Spec

(* No service of a paused group is up, whatever restarts fall due.         *)
THEOREM PausedGroupsStayDown == Spec => []PausedGroupsRest
<1>1. Inv => PausedGroupsRest
  BY InvFacts DEF PausedGroupsRest, Sane
<1> QED
  BY <1>1, InvInit, InvKept, PTL DEF Spec

(* When a service ends or faults none of its peers is left up, also in a   *)
(* tick that starts and faults several of them.                            *)
THEOREM GroupsEndTogether == Spec => GroupsFailTogether
<1> DEFINE Together ==
      \A s \in Service :
        service[s].state \in Up /\ service'[s].state \in {"FAULT", "EXIT", "RESTARTING"} =>
          \A p \in Service \ {s} : Group[p] = Group[s] => service'[p].state \notin Up
<1>1. Inv /\ [Next]_vars => [Together]_vars
  BY InvStep
<1> HIDE DEF Together
<1>2. Spec => [][Together]_vars
  BY <1>1, InvInit, InvKept, PTL DEF Spec
<1> QED BY <1>2 DEF GroupsFailTogether, Together

(* A handle that was valid and then is not stays dead, although start      *)
(* gives a service that was stopped a handle of the same name.             *)
THEOREM HandlesDieForGood == Spec => HandlesStayDead
<1>1. ASSUME NEW h
      PROVE  Spec => [](Validates(h) /\ <>~Validates(h) => <>[]~Validates(h))
  <2> DEFINE V == Validates(h)
             D == h \in revoked
  <2>1. Inv /\ [Next]_vars => (D => D') /\ (V => V' \/ D')
    BY RevokedForGood
  <2>2. D => ~V
    BY DEF Validates
  <2> HIDE DEF V, D
  <2>3. Spec => [](V /\ <>~V => <>[]~V)
    BY <2>1, <2>2, InvInit, InvKept, PTL DEF Spec
  <2> QED BY <2>3 DEF V
<1> QED BY <1>1 DEF HandlesStayDead
=============================================================================
