--------------------------- MODULE AgentLoopProofs --------------------------
(***************************************************************************)
(* What PiAgentLoop promises, proved for every list of decisions, any      *)
(* number of calls in progress, every watermark and any number of crashes. *)
(*                                                                         *)
(* All three properties are about what a recovery would find.  Wherever a  *)
(* stretch changes the task it saves it, except for acknowledged events:   *)
(* the checkpoint and the task agree on everything the loop decides by     *)
(* (SavedIsKnown), so the invariants below are stated of the checkpoint    *)
(* and a crash leaves them as they are.                                    *)
(***************************************************************************)
EXTENDS AgentLoop, FiniteSetTheorems, TLAPS

TaskState == {"none", "created", "running", "awaiting_approval", "paused",
              "completed", "failed", "cancelled"}
Phase == {"prepare", "commit", "rollback_pending"}
Record == [action : Action, phase : Phase]

Task == [state : TaskState, backpressure : BOOLEAN, pending : Nat,
         planned : BOOLEAN, cursor : Nat, confirmation : Nat, approved : Nat,
         journal : Seq(Record)]

Place == {"idle", "model", "check", "issue", "execute", "consume"}
Call == [at : Place, action : Nat, entry : Nat, token : Nat]

\* A call between the policy's first answer and the executor's has an action.
HasAction(r) == r.at \in {"check", "issue", "execute", "consume"} => r.action \in Action

Reply == {"none", "ok", "failed", "torn"}

TypeInv ==
  /\ task \in Task /\ saved \in Task
  /\ run \in [Coroutine -> Call]
  /\ issued \in Nat
  /\ begun \in [Action -> Nat] /\ paid \in [Action -> Nat]
  /\ crashes \in Nat /\ interrupted \in [Action -> Nat] /\ overlapped \in BOOLEAN
  /\ starts \in Nat /\ lost \in [Action -> Nat] /\ answer \in [Action -> Reply]

ActionInv == \A c \in Coroutine : HasAction(run[c])

\* What the loop decides by survives a crash.
SavedIsKnown ==
  /\ Exists => /\ saved.state = task.state
               /\ saved.cursor = task.cursor
               /\ saved.approved = task.approved
               /\ saved.journal = task.journal
  /\ saved.state = "none" => saved = NoTask
  /\ saved.state = "completed" => saved.cursor >= Len(Decision)

\* A call in progress has a task to work on.
TaskInv == \A c \in Coroutine : run[c] # Idle => Exists

BaseInv == TypeInv /\ ActionInv /\ SavedIsKnown /\ TaskInv

-----------------------------------------------------------------------------
(* Tasks and events.                                                       *)

\* u is t, further on: where it stands and what it recorded are the same.
Carries(t, u) == u.cursor = t.cursor /\ u.approved = t.approved /\ u.journal = t.journal

\* The entries are the journal's.
LEMMA EntriesOf == \A t, u : t.journal = u.journal => \A a : Entries(t, a) = Entries(u, a)
  BY DEF Entries

\* There is something to do.
LEMMA DecisionLen == Len(Decision) \in Nat \ {0} /\ Action = 1..Len(Decision)
  BY AgentAssumption DEF Action

\* NoTask is a task without a journal.
LEMMA NoTaskIs ==
  NoTask \in Task /\ NoTask.state = "none" /\ NoTask.cursor = 0
  /\ NoTask.approved = 0 /\ NoTask.journal = << >>
  BY DEF NoTask, Task, TaskState

\* Idle is a call that holds nothing.
LEMMA IdleIs == Idle \in Call /\ HasAction(Idle) /\ Idle.at = "idle"
  BY DEF Idle, Call, HasAction, Place

\* A call that awaits at p with action a.
LEMMA CallAt ==
  ASSUME NEW p \in Place, NEW a \in Nat
  PROVE  LET r == [Idle EXCEPT !.at = p, !.action = a]
         IN  r \in Call /\ r.at = p /\ r.action = a
PROOF
<1> DEFINE q == [Idle EXCEPT !.at = p]
           r == [q EXCEPT !.action = a]
<1>1. q \in Call /\ q.at = p
  BY DEF Call, Idle, Place
<1>2. r \in Call /\ r.at = p /\ r.action = a
  <2> HIDE DEF q
  <2> QED BY <1>1 DEF Call
<1>3. r = [Idle EXCEPT !.at = p, !.action = a]
  BY DEF Idle
<1> HIDE DEF r
<1> QED BY <1>2, <1>3

\* An event moves the task nowhere and ends nothing; at most it pauses the task.
LEMMA EventIs ==
  ASSUME NEW t \in Task
  PROVE  /\ Event(t) \in Task
         /\ Carries(t, Event(t))
         /\ Event(t).planned = t.planned
         /\ Event(t).confirmation = t.confirmation
         /\ Event(t).state \in {t.state, "paused"}
         /\ Ended(t) \/ t.state \in {"none", "created", "awaiting_approval"} =>
              Event(t).state = t.state
PROOF
<1> DEFINE n == IF t.pending < MaxOutstanding THEN t.pending + 1 ELSE t.pending
           u == [t EXCEPT !.pending = n]
           v == [u EXCEPT !.state = "paused"]
           w == [v EXCEPT !.backpressure = TRUE]
<1>1. n \in Nat
  BY DEF Task
<1>2. u \in Task /\ u.state = t.state /\ Carries(t, u)
      /\ u.planned = t.planned /\ u.confirmation = t.confirmation
  <2> HIDE DEF n
  <2> QED BY <1>1 DEF Task, Carries
<1>3. v \in Task /\ v.state = "paused" /\ Carries(u, v)
      /\ v.planned = u.planned /\ v.confirmation = u.confirmation
  <2> HIDE DEF u
  <2> QED BY <1>2 DEF Task, TaskState, Carries
<1>4. w \in Task /\ w.state = "paused" /\ Carries(v, w)
      /\ w.planned = v.planned /\ w.confirmation = v.confirmation
  <2> HIDE DEF v
  <2> QED BY <1>3 DEF Task, Carries
<1>5. w = [u EXCEPT !.state = "paused", !.backpressure = TRUE]
  <2> HIDE DEF u
  <2> QED BY <1>2 DEF Task
<1>6. \/ Event(t) = u
      \/ Event(t) = w /\ ~Ended(t) /\ t.state \notin {"none", "created", "awaiting_approval"}
  <2>1. Event(t) = IF n >= MaxOutstanding /\ Active(t) /\ t.state # "awaiting_approval"
                     THEN w ELSE u
    <3> HIDE DEF u, w, n
    <3> QED BY <1>5 DEF Event, u, n
  <2> HIDE DEF u, w, n
  <2> QED BY <2>1 DEF Active, Ended
<1> HIDE DEF u, v, w, n
<1> QED BY <1>2, <1>3, <1>4, <1>6 DEF Carries

\* Changing the state of a task alone.
LEMMA StateIs ==
  ASSUME NEW t \in Task, NEW s \in TaskState
  PROVE  LET u == [t EXCEPT !.state = s]
         IN  u \in Task /\ u.state = s /\ Carries(t, u)
  BY DEF Task, Carries

\* A task that fails has moved nowhere.
LEMMA FailedIs ==
  ASSUME NEW t \in Task
  PROVE  /\ Failed(t) \in Task
         /\ Carries(t, Failed(t))
         /\ Failed(t).state = "failed"
PROOF
<1> DEFINE u == [t EXCEPT !.state = "failed"]
           v == [u EXCEPT !.backpressure = FALSE]
<1>1. u \in Task /\ u.state = "failed" /\ Carries(t, u)
  BY DEF Task, TaskState, Carries
<1>2. v \in Task /\ v.state = "failed" /\ Carries(u, v)
  <2> HIDE DEF u
  <2> QED BY <1>1 DEF Task, Carries
<1>3. v = [t EXCEPT !.state = "failed", !.backpressure = FALSE]
  BY DEF Task
<1>4. Failed(t) = Event(v)
  BY <1>3 DEF Failed
<1> HIDE DEF u, v
<1> QED BY <1>1, <1>2, <1>4, EventIs DEF Carries, Ended

-----------------------------------------------------------------------------
(* Where a stretch may leave the task.  Every stretch but the one that     *)
(* executes an action leaves the entries of the checkpoint s it began with *)
(* (NoTask for start); they differ in the place the task has reached and   *)
(* in the approval it holds.                                               *)
SameEntries(s) == \A a \in Action : Entries(saved', a) = Entries(s, a)

Settles(s) ==
  /\ task' \in Task /\ saved' = task' /\ task'.state # "none"
  /\ SameEntries(s)

Lands(s, c, k, ap) ==
  /\ Settles(s)
  /\ task'.cursor = k /\ task'.approved = ap
  /\ task'.state = "completed" => k >= Len(Decision)
  /\ \E r \in Call :
       /\ run' = [run EXCEPT ![c] = r]
       /\ \/ r = Idle
          \/ r.at = "model"
          \/ r.at = "check" /\ r.action = k + 1 /\ k < Len(Decision)

\* The call ends, and its task with it.
LandsEnded(s, c, k, ap) ==
  /\ Settles(s)
  /\ task'.cursor = k /\ task'.approved = ap
  /\ Ended(task') /\ (task'.state = "completed" => k >= Len(Decision))
  /\ run' = [run EXCEPT ![c] = Idle]

\* A task saved with the same journal has the same entries.
LEMMA Saves ==
  ASSUME NEW t \in Task, t.state # "none", NEW s \in Task,
         \A a : Entries(t, a) = Entries(s, a), NEW c, NEW r, Ends(c, t, r)
  PROVE  Settles(s) /\ task' = t /\ run' = [run EXCEPT ![c] = r]
  BY DEF Settles, SameEntries, Ends

\* The top of the loop lands where the task is.
LEMMA LoopTopLands ==
  ASSUME NEW t \in Task, NEW s \in Task, t.state # "none", t.state = "completed" => t.cursor >= Len(Decision),
         \A a : Entries(t, a) = Entries(s, a), NEW c, LoopTop(c, t)
  PROVE  Lands(s, c, t.cursor, t.approved)
PROOF
<1>1. CASE t.cursor >= Len(Decision)
  <2> DEFINE u == [t EXCEPT !.state = "completed"]
  <2>1. u \in Task /\ u.state = "completed" /\ Carries(t, u)
    BY DEF Task, TaskState, Carries
  <2>2. Ends(c, Event(u), Idle)
    BY <1>1 DEF LoopTop
  <2> HIDE DEF u
  <2>3. Event(u) \in Task /\ Event(u).state = "completed" /\ Carries(u, Event(u))
    BY <2>1, EventIs DEF Ended
  <2> DEFINE w == Event(u)
  <2> HIDE DEF w
  <2>4. w \in Task /\ w.state = "completed" /\ Carries(t, w) /\ Ends(c, w, Idle)
    BY <2>1, <2>2, <2>3 DEF w, Carries
  <2> QED BY EntriesOf, <1>1, <2>4, Saves, IdleIs DEF Lands, Carries
<1>2. CASE t.cursor < Len(Decision) /\ t.state = "paused"
  <2>1. Ends(c, t, Idle)
    BY <1>2, DecisionLen DEF LoopTop, Task
  <2> QED BY <1>2, <2>1, Saves, IdleIs DEF Lands
<1>3. CASE t.cursor < Len(Decision) /\ t.state # "paused"
  <2> DEFINE r == [Idle EXCEPT !.at = "check", !.action = t.cursor + 1]
  <2>1. Ends(c, t, r)
    BY <1>3, DecisionLen DEF LoopTop, Task
  <2>2. r \in Call /\ r.at = "check" /\ r.action = t.cursor + 1
    <3>1. "check" \in Place /\ t.cursor + 1 \in Nat
      BY DEF Place, Task
    <3> QED BY <3>1, CallAt, Zenon
  <2> HIDE DEF r
  <2> QED BY <1>3, <2>1, <2>2, Saves DEF Lands
<1> QED BY <1>1, <1>2, <1>3, DecisionLen DEF Task

\* So does a step.
LEMMA StepLands ==
  ASSUME NEW t \in Task, NEW s \in Task, t.state # "none", t.state = "completed" => t.cursor >= Len(Decision),
         \A a : Entries(t, a) = Entries(s, a), NEW c, Step(c, t)
  PROVE  Lands(s, c, t.cursor, t.approved)
PROOF
<1>1. CASE Ended(t) \/ t.state \in {"awaiting_approval", "paused"}
  <2>1. Ends(c, t, Idle)
    BY <1>1 DEF Step
  <2> QED BY <2>1, Saves, IdleIs DEF Lands
<1>2. CASE ~(Ended(t) \/ t.state \in {"awaiting_approval", "paused"})
  <2> DEFINE u == Event(t)
             r == [Idle EXCEPT !.at = "model"]
  <2>1. u \in Task /\ Carries(t, u) /\ u.state \in {t.state, "paused"}
    BY EventIs
  <2>2. r \in Call /\ r.at = "model"
    BY DEF Call, Place, Idle
  <2>3. IF u.planned THEN LoopTop(c, u) ELSE Ends(c, u, r)
    BY <1>2 DEF Step
  <2> HIDE DEF u, r
  <2>4. u.state # "none" /\ u.state # "completed"
        /\ \A a : Entries(u, a) = Entries(s, a)
        /\ u.cursor = t.cursor /\ u.approved = t.approved
    BY EntriesOf, <1>2, <2>1 DEF Carries, Ended
  <2>5. CASE u.planned
    BY EntriesOf, <2>1, <2>3, <2>4, <2>5, LoopTopLands
  <2>6. CASE ~u.planned
    BY EntriesOf, <2>1, <2>2, <2>3, <2>4, <2>6, Saves DEF Lands
  <2> QED BY <2>5, <2>6
<1> QED BY <1>1, <1>2

-----------------------------------------------------------------------------
(* What each stretch does to what a recovery would find.                   *)

\* The task of a call in progress is the one that is saved.
LEMMA InHand ==
  ASSUME BaseInv, Exists
  PROVE  /\ task \in Task /\ saved \in Task /\ task.state # "none" /\ task.state = saved.state
         /\ Carries(saved, task)
         /\ task.state = "completed" => task.cursor >= Len(Decision)
  BY DEF BaseInv, TypeInv, SavedIsKnown, Exists, Carries

\* start begins with a task that has done nothing.
LEMMA StartedIs ==
  /\ Started \in Task /\ Started.state \in {"running", "paused"}
  /\ Started.cursor = 0 /\ Started.approved = 0 /\ Started.journal = << >>
PROOF
<1> DEFINE t0 == [NoTask EXCEPT !.state = "created"]
           t1 == Event(t0)
           t2 == [t1 EXCEPT !.state = "running"]
           t3 == Event(t2)
<1>1. t0 \in Task /\ t0.state = "created" /\ Carries(NoTask, t0)
  BY NoTaskIs, StateIs DEF TaskState
<1>2. Started = t3
  BY DEF Started
<1> HIDE DEF t0
<1>3. t1 \in Task /\ Carries(t0, t1)
  BY <1>1, EventIs
<1> HIDE DEF t1
<1>4. t2 \in Task /\ t2.state = "running" /\ Carries(t1, t2)
  BY <1>3, StateIs DEF TaskState
<1> HIDE DEF t2
<1>5. t3 \in Task /\ t3.state \in {"running", "paused"} /\ Carries(t2, t3)
  BY <1>4, EventIs
<1> HIDE DEF t3
<1> QED BY <1>1, <1>2, <1>3, <1>4, <1>5, NoTaskIs DEF Carries

\* start leaves behind what a task that did nothing would.
LEMMA StartLands ==
  ASSUME NEW c \in Coroutine, Start(c)
  PROVE  Begins(c) /\ Lands(NoTask, c, 0, 0) /\ ~Exists
PROOF
<1>1. Begins(c) /\ Step(c, Started) /\ ~Exists
  BY DEF Start
<1>2. \A a : Entries(Started, a) = Entries(NoTask, a)
  BY StartedIs, NoTaskIs, EntriesOf
<1>3. Lands(NoTask, c, Started.cursor, Started.approved)
  BY <1>1, <1>2, StartedIs, NoTaskIs, StepLands
<1> QED BY <1>1, <1>3, StartedIs

\* step goes on with the task as it is.
LEMMA CallStepLands ==
  ASSUME BaseInv, NEW c \in Coroutine, CallStep(c)
  PROVE  Begins(c) /\ Lands(saved, c, saved.cursor, saved.approved) /\ saved.state = "running" /\ Exists
PROOF
<1>1. Begins(c) /\ Step(c, task) /\ Exists /\ task.state = "running"
  BY DEF CallStep, Exists
<1>2. Lands(saved, c, task.cursor, task.approved)
  BY EntriesOf, <1>1, InHand, StepLands DEF Carries
<1> QED BY <1>1, <1>2, InHand DEF Carries

\* A plan leaves the task in its place.
LEMMA PlannedIs ==
  ASSUME BaseInv, Exists
  PROVE  Planned \in Task /\ Planned.state \in {task.state, "paused"} /\ Carries(saved, Planned)
PROOF
<1> DEFINE u == [task EXCEPT !.planned = TRUE]
<1>1. u \in Task /\ u.state = task.state /\ Carries(saved, u)
  BY InHand DEF Carries, Task
<1>2. Planned = Event(u)
  BY DEF Planned
<1> HIDE DEF u
<1> QED BY <1>1, <1>2, EventIs DEF Carries

\* The model's answer, or its failure, leaves the task in its place.
LEMMA ModelAnswersLands ==
  ASSUME BaseInv, NEW c \in Coroutine, ModelAnswers(c), Exists
  PROVE  Lands(saved, c, saved.cursor, saved.approved)
PROOF
<1>1. CASE Ends(c, Failed(task), Idle)
  <2> DEFINE t == Failed(task)
  <2>1. t \in Task /\ t.state = "failed" /\ Carries(saved, t)
    BY InHand, FailedIs DEF Carries
  <2>2. Ends(c, t, Idle)
    BY <1>1
  <2> HIDE DEF t
  <2> QED BY EntriesOf, InHand, <2>1, <2>2, Saves, IdleIs DEF Lands, Carries
<1>2. CASE ~Ends(c, Failed(task), Idle)
  <2> DEFINE t == Planned
  <2>1. IF t.state = "paused" THEN Ends(c, t, Idle) ELSE LoopTop(c, t)
    BY <1>2 DEF ModelAnswers
  <2>2. t \in Task /\ t.state \in {task.state, "paused"} /\ Carries(saved, t)
    BY PlannedIs
  <2> HIDE DEF t
  <2>3. CASE t.state = "paused"
    BY EntriesOf, InHand, <2>1, <2>2, <2>3, Saves, IdleIs DEF Lands, Carries
  <2>4. CASE t.state # "paused"
    BY EntriesOf, InHand, <2>1, <2>2, <2>4, LoopTopLands DEF Carries
  <2> QED BY <2>3, <2>4
<1> QED BY <1>1, <1>2

\* A failure to issue a token fails the task where it is.
LEMMA IssueFailsLands ==
  ASSUME BaseInv, NEW c \in Coroutine, IssueFails(c), Exists
  PROVE  Lands(saved, c, saved.cursor, saved.approved)
PROOF
<1> DEFINE t == Failed(task)
<1>1. t \in Task /\ t.state = "failed" /\ Carries(saved, t)
  BY InHand, FailedIs DEF Carries
<1>2. Ends(c, t, Idle)
  BY DEF IssueFails
<1> HIDE DEF t
<1> QED BY EntriesOf, InHand, <1>1, <1>2, Saves, IdleIs DEF Lands, Carries

\* A token that is issued has the task wait for its approval, where it is.
LEMMA TokenIssuedLands ==
  ASSUME BaseInv, NEW c \in Coroutine, TokenIssued(c), Exists
  PROVE  Lands(saved, c, saved.cursor, saved.approved) /\ issued' \in Nat
PROOF
<1> DEFINE u == [task EXCEPT !.confirmation = issued']
           v == [u EXCEPT !.state = "awaiting_approval"]
           t == Event(v)
<1>0. issued' \in Nat
  BY DEF TokenIssued, BaseInv, TypeInv
<1>1. u \in Task /\ Carries(saved, u)
  BY <1>0, InHand DEF Carries, Task
<1>2. v = [task EXCEPT !.confirmation = issued', !.state = "awaiting_approval"]
  BY InHand DEF Task
<1>3. Ends(c, t, Idle)
  BY <1>2 DEF TokenIssued
<1> HIDE DEF u
<1>4. v \in Task /\ v.state = "awaiting_approval" /\ Carries(u, v)
  BY <1>1, StateIs DEF TaskState
<1> HIDE DEF v
<1>5. t \in Task /\ t.state = "awaiting_approval" /\ Carries(saved, t)
  BY <1>1, <1>4, EventIs DEF Carries
<1> HIDE DEF t
<1> QED BY EntriesOf, InHand, <1>0, <1>3, <1>5, Saves, IdleIs DEF Lands, Carries

\* A token that was consumed approves the action it was consumed for.
LEMMA GrantedIs ==
  ASSUME BaseInv, NEW c \in Coroutine, Exists
  PROVE  LET t == Granted(c)
         IN  /\ t \in Task /\ t.state \in {"running", "paused"} /\ t.cursor = saved.cursor
             /\ t.approved = run[c].action /\ t.journal = saved.journal
PROOF
<1> DEFINE a == run[c].action
           u == [task EXCEPT !.confirmation = 0]
           v == [u EXCEPT !.approved = a]
           w == [v EXCEPT !.state = "running"]
           t == Event(w)
<1>0. a \in Nat
  BY DEF BaseInv, TypeInv, Call
<1>1. w = [task EXCEPT !.confirmation = 0, !.approved = run[c].action, !.state = "running"]
  BY InHand DEF Task
<1>2. Granted(c) = t
  BY <1>1 DEF Granted
<1> HIDE DEF a
<1>3. u \in Task /\ Carries(saved, u)
  BY InHand DEF Carries, Task
<1> HIDE DEF u
<1>4. v \in Task /\ v.cursor = saved.cursor /\ v.journal = saved.journal /\ v.approved = a
  BY <1>0, <1>3 DEF Carries, Task
<1> HIDE DEF v
<1>5. w \in Task /\ w.state = "running" /\ Carries(v, w)
  BY <1>4, StateIs DEF TaskState
<1> HIDE DEF w
<1>6. t \in Task /\ t.state \in {"running", "paused"} /\ Carries(w, t)
  BY <1>5, EventIs
<1> HIDE DEF t
<1>7. t.journal = saved.journal /\ t.cursor = saved.cursor /\ t.approved = a
  BY <1>4, <1>5, <1>6 DEF Carries
<1> QED BY <1>2, <1>6, <1>7 DEF a

\* The task goes on with the approval.
LEMMA TokenConsumedLands ==
  ASSUME BaseInv, NEW c \in Coroutine, TokenConsumed(c), Exists
  PROVE  Lands(saved, c, saved.cursor, run[c].action)
PROOF
<1> DEFINE t == Granted(c)
<1>1. Step(c, t)
  BY DEF TokenConsumed
<1>2. /\ t \in Task /\ t.state \in {"running", "paused"} /\ t.cursor = saved.cursor
      /\ t.approved = run[c].action /\ t.journal = saved.journal
  BY GrantedIs
<1> HIDE DEF t
<1>3. Lands(saved, c, t.cursor, t.approved)
  BY EntriesOf, InHand, <1>1, <1>2, StepLands
<1> QED BY <1>2, <1>3

\* Marking an entry of the journal changes none of the actions in it.
LEMMA MarkedIs ==
  ASSUME BaseInv, Exists, NEW c \in Coroutine, NEW ph \in Phase
  PROVE  LET t == Marked(c, ph)
         IN  /\ t \in Task /\ t.state = task.state
             /\ t.cursor = saved.cursor /\ t.approved = saved.approved
             /\ \A a : Entries(t, a) = Entries(saved, a)
PROOF
<1> DEFINE e == run[c].entry
           J == task.journal
           R == [J[e] EXCEPT !.phase = ph]
           K == [J EXCEPT ![e] = R]
           t == [task EXCEPT !.journal = K]
<1>1. J \in Seq(Record) /\ J = saved.journal
  BY InHand DEF Task, Carries
<1>2. K \in Seq(Record) /\ DOMAIN K = DOMAIN J /\ \A i \in DOMAIN J : K[i].action = J[i].action
  <2> HIDE DEF J, e
  <2>0. ASSUME e \in DOMAIN J PROVE R \in Record /\ R.action = J[e].action
    <3>1. J[e] \in Record
      BY <1>1, <2>0
    <3> QED BY <3>1 DEF Record
  <2> HIDE DEF R
  <2>1. \A i \in DOMAIN J : K[i] \in Record /\ K[i].action = J[i].action
    BY <1>1, <2>0
  <2>2. DOMAIN K = DOMAIN J /\ DOMAIN J = 1..Len(J) /\ Len(J) \in Nat
    BY <1>1
  <2>3. K \in [1..Len(J) -> Record]
    BY <2>1, <2>2
  <2> HIDE DEF K
  <2>4. K \in Seq(Record)
    BY <2>2, <2>3
  <2> QED BY <2>1, <2>2, <2>4, Zenon
<1>3. Marked(c, ph) = t
  BY InHand DEF Marked, Task
<1> HIDE DEF K, J
<1>4. t \in Task /\ t.journal = K /\ t.state = task.state
      /\ t.cursor = task.cursor /\ t.approved = task.approved
  BY <1>2, InHand DEF Task
<1> HIDE DEF t
<1>5. \A a : Entries(t, a) = Entries(saved, a)
  BY <1>1, <1>2, <1>4 DEF Entries
<1> QED BY <1>3, <1>4, <1>5, InHand DEF Carries

\* The heartbeat after an action leaves the task in its place.
LEMMA HeartbeatIs ==
  ASSUME NEW t \in Task, t.state # "none"
  PROVE  /\ Heartbeat(t) \in Task /\ Carries(t, Heartbeat(t))
         /\ Heartbeat(t).state # "none"
         /\ Heartbeat(t).state = "completed" => t.state = "completed"
  BY EventIs DEF Heartbeat, Carries

\* What the executor's answer makes of the task, before it fails or goes on.
LEMMA CommittedIs ==
  ASSUME BaseInv, Exists, NEW c \in Coroutine
  PROVE  LET t == Committed(c)
         IN  /\ t \in Task /\ t.cursor = saved.cursor + 1 /\ t.approved = saved.approved
             /\ t.state \in {task.state, "paused"}
             /\ \A a : Entries(t, a) = Entries(saved, a)
PROOF
<1> DEFINE m == Marked(c, "commit")
           u == [m EXCEPT !.cursor = m.cursor + 1]
<1>1. /\ m \in Task /\ m.state = task.state
      /\ m.cursor = saved.cursor /\ m.approved = saved.approved
      /\ \A a : Entries(m, a) = Entries(saved, a)
  BY MarkedIs DEF Phase
<1>2. Committed(c) = Event(u)
  BY DEF Committed
<1> HIDE DEF m
<1>3. u \in Task /\ u.cursor = saved.cursor + 1 /\ u.approved = saved.approved
      /\ u.journal = m.journal /\ u.state = task.state
  BY <1>1 DEF Task
<1> HIDE DEF u
<1>4. Event(u) \in Task /\ Event(u).state \in {u.state, "paused"} /\ Carries(u, Event(u))
  BY <1>3, EventIs
<1> DEFINE t == Event(u)
<1> HIDE DEF t
<1>5. t \in Task /\ t.state \in {u.state, "paused"} /\ Carries(u, t) /\ Committed(c) = t
  BY <1>2, <1>4 DEF t
<1>6. \A a : Entries(t, a) = Entries(saved, a)
  BY <1>1, <1>3, <1>5 DEF Entries, Carries
<1> QED BY <1>3, <1>5, <1>6 DEF Carries

\* A failed execution leaves the task where it is.
LEMMA RolledBackIs ==
  ASSUME BaseInv, Exists, NEW c \in Coroutine
  PROVE  LET t == RolledBack(c)
         IN  /\ t \in Task /\ t.cursor = saved.cursor /\ t.approved = saved.approved
             /\ t.state = task.state
             /\ \A a : Entries(t, a) = Entries(saved, a)
  BY MarkedIs DEF RolledBack, Phase

\* The executor's failure ends the task, where it is or one further; its
\* success moves the task on.
LEMMA ExecutorAnswersLands ==
  ASSUME BaseInv, NEW c \in Coroutine, ExecutorAnswers(c), Exists
  PROVE  \/ LandsEnded(saved, c, saved.cursor, saved.approved) /\ Answers(c, "failed")
         \/ /\ Lands(saved, c, saved.cursor + 1, saved.approved)
            /\ \/ Answers(c, "ok")
               \/ Answers(c, "failed") /\ task'.state = "failed" /\ run' = [run EXCEPT ![c] = Idle]
PROOF
<1> DEFINE t == Committed(c)
           f == RolledBack(c)
<1>1. \/ Ends(c, Failed(f), Idle) /\ Answers(c, "failed")
      \/ Ends(c, Failed(t), Idle) /\ Answers(c, "failed")
      \/ t.state = "paused" /\ Ends(c, t, Idle) /\ Answers(c, "ok")
      \/ t.state # "paused" /\ LoopTop(c, Heartbeat(t)) /\ Answers(c, "ok")
  BY DEF ExecutorAnswers
<1>2. /\ f \in Task /\ f.state = task.state
      /\ f.cursor = saved.cursor /\ f.approved = saved.approved
      /\ \A a : Entries(f, a) = Entries(saved, a)
  BY RolledBackIs
<1>3. /\ t \in Task /\ t.cursor = saved.cursor + 1 /\ t.approved = saved.approved
      /\ t.state \in {task.state, "paused"}
      /\ \A a : Entries(t, a) = Entries(saved, a)
  BY CommittedIs
<1> HIDE DEF t, f
<1>4. t.state # "none" /\ (t.state = "completed" => t.cursor >= Len(Decision))
  BY <1>3, InHand, DecisionLen DEF Task, Carries
<1>5. CASE Ends(c, Failed(f), Idle) /\ Answers(c, "failed")
  <2> DEFINE g == Failed(f)
  <2>1. g \in Task /\ g.state = "failed" /\ Carries(f, g)
    BY <1>2, FailedIs
  <2>2. Ends(c, g, Idle)
    BY <1>5
  <2> HIDE DEF g
  <2>3. \A a : Entries(g, a) = Entries(saved, a)
    BY <1>2, <2>1 DEF Entries, Carries
  <2> QED BY <1>2, <1>5, <2>1, <2>2, <2>3 DEF LandsEnded, Settles, SameEntries, Ends, Ended, Carries
<1>6. CASE Ends(c, Failed(t), Idle) /\ Answers(c, "failed")
  <2> DEFINE g == Failed(t)
  <2>1. g \in Task /\ g.state = "failed" /\ Carries(t, g)
    BY <1>3, FailedIs
  <2>2. Ends(c, g, Idle)
    BY <1>6
  <2> HIDE DEF g
  <2>3. \A a : Entries(g, a) = Entries(saved, a)
    BY <1>3, <2>1 DEF Entries, Carries
  <2> QED BY <1>3, <1>6, <2>1, <2>2, <2>3, IdleIs DEF Lands, Settles, SameEntries, Ends, Carries
<1>7. CASE t.state = "paused" /\ Ends(c, t, Idle) /\ Answers(c, "ok")
  BY <1>3, <1>7, IdleIs DEF Lands, Settles, SameEntries, Ends
<1>8. CASE t.state # "paused" /\ LoopTop(c, Heartbeat(t)) /\ Answers(c, "ok")
  <2> DEFINE h == Heartbeat(t)
  <2>1. /\ h \in Task /\ Carries(t, h) /\ h.state # "none"
        /\ h.state = "completed" => h.cursor >= Len(Decision)
    BY <1>3, <1>4, HeartbeatIs DEF Carries
  <2>2. LoopTop(c, h)
    BY <1>8
  <2> HIDE DEF h
  <2>3. h.cursor = saved.cursor + 1 /\ h.approved = saved.approved /\ h.journal = t.journal
    BY <1>3, <2>1 DEF Carries
  <2>4. \A a : Entries(h, a) = Entries(saved, a)
    BY <1>3, <2>3, EntriesOf
  <2>5. Lands(saved, c, h.cursor, h.approved)
    BY <2>1, <2>2, <2>4, InHand, LoopTopLands
  <2> QED BY <1>8, <2>3, <2>5
<1> QED BY <1>1, <1>5, <1>6, <1>7, <1>8

\* The policy's answer fails the task, has a token issued, or lets the action
\* be executed, with an entry of its own in the journal; an action to be
\* confirmed takes the approval with it.
Executes(c) ==
  LET a == run[c].action IN
  /\ task' \in Task /\ saved' = task'
  /\ task'.state # "none" /\ (task'.state = "completed" => saved.state = "completed")
  /\ task'.cursor = saved.cursor
  /\ saved'.journal = Append(saved.journal, [action |-> a, phase |-> "prepare"])
  /\ IF Decision[a] = "confirm"
       THEN saved.approved = a /\ task'.approved = 0
       ELSE task'.approved \in {saved.approved, 0}
  /\ \E r \in Call : r.at = "execute" /\ r.action = a /\ run' = [run EXCEPT ![c] = r]
  /\ begun' = [begun EXCEPT ![a] = @ + 1]

AsksForToken(c) ==
  /\ \E r \in Call : r.at = "issue" /\ r.action = run[c].action /\ run' = [run EXCEPT ![c] = r]
  /\ UNCHANGED <<task, saved, begun>>

\* A prepared task has one more entry.
LEMMA PreparedIs ==
  ASSUME NEW t \in Task, NEW a \in Action
  PROVE  LET u == Prepared(t, a)
         IN  /\ u \in Task /\ u.cursor = t.cursor /\ u.approved = t.approved
             /\ u.state \in {t.state, "paused"}
             /\ u.journal = Append(t.journal, [action |-> a, phase |-> "prepare"])
PROOF
<1> DEFINE R == [action |-> a, phase |-> "prepare"]
           J == Append(t.journal, R)
           v == [t EXCEPT !.journal = J]
<1>1. R \in Record
  BY DEF Record, Phase
<1>2. J \in Seq(Record)
  <2> HIDE DEF R
  <2> QED BY <1>1 DEF Task
<1>3. Prepared(t, a) = Event(v)
  BY DEF Prepared
<1> HIDE DEF J
<1>4. v \in Task /\ v.cursor = t.cursor /\ v.approved = t.approved /\ v.state = t.state
      /\ v.journal = J
  BY <1>2 DEF Task
<1> HIDE DEF v
<1>5. Event(v) \in Task /\ Carries(v, Event(v)) /\ Event(v).state \in {v.state, "paused"}
  BY <1>4, EventIs
<1> QED BY <1>3, <1>4, <1>5 DEF Carries, J

\* What a policy's answer leads to.
LEMMA PolicyAnswersLands ==
  ASSUME BaseInv, NEW c \in Coroutine, PolicyAnswers(c), Exists
  PROVE  \/ LandsEnded(saved, c, saved.cursor, saved.approved) /\ UNCHANGED begun
         \/ AsksForToken(c)
         \/ Executes(c)
PROOF
<1> DEFINE a == run[c].action
<1>1. a \in Action /\ Decision[a] \in {"allow", "confirm", "deny"}
  BY AgentAssumption, DecisionLen DEF BaseInv, ActionInv, HasAction, PolicyAnswers, At
<1>2. PICK d \in {Decision[a], "deny"} :
        CASE Answer(c, d) = "deny" ->
              Ends(c, Failed(Answered(c, d)), Idle) /\ UNCHANGED begun
         [] Answer(c, d) = "confirm" ->
              /\ run' = [run EXCEPT ![c].at = "issue"]
              /\ UNCHANGED <<task, saved, begun>>
         [] OTHER ->
              LET t == Prepared(Answered(c, d), run[c].action) IN
              /\ Ends(c, t, [run[c] EXCEPT !.at = "execute", !.entry = Len(t.journal)])
              /\ begun' = [begun EXCEPT ![run[c].action] = @ + 1]
  BY DEF PolicyAnswers
<1>3. run[c] \in Call
  BY DEF BaseInv, TypeInv
<1>4. CASE Answer(c, d) = "deny"
  <2>1. Answered(c, d) = task
    BY <1>4 DEF Answer, Answered
  <2> DEFINE g == Failed(task)
  <2>2. Ends(c, g, Idle) /\ UNCHANGED begun
    BY <1>2, <1>4, <2>1
  <2>3. g \in Task /\ g.state = "failed" /\ Carries(saved, g)
    BY InHand, FailedIs DEF Carries
  <2> HIDE DEF g
  <2> QED BY EntriesOf, <2>2, <2>3 DEF LandsEnded, Settles, SameEntries, Ends, Ended, Carries
<1>5. CASE Answer(c, d) = "confirm"
  <2> DEFINE r == [run[c] EXCEPT !.at = "issue"]
  <2>1. r \in Call /\ r.at = "issue" /\ r.action = a
    BY <1>3 DEF Call, Place
  <2>2. UNCHANGED <<task, saved, begun>> /\ run' = [run EXCEPT ![c].at = "issue"]
    BY <1>2, <1>5
  <2>3. run' = [run EXCEPT ![c] = r]
    BY <2>2
  <2> HIDE DEF r
  <2> QED BY <2>1, <2>2, <2>3 DEF AsksForToken
<1>6. CASE Answer(c, d) \notin {"deny", "confirm"}
  <2> DEFINE k == Answered(c, d)
             t == Prepared(k, a)
             q == [run[c] EXCEPT !.at = "execute"]
             r == [q EXCEPT !.entry = Len(t.journal)]
  <2>1. /\ k \in Task /\ k.state = task.state /\ k.cursor = task.cursor
        /\ k.journal = task.journal
        /\ IF Approved(c, d) THEN k.approved = 0 ELSE k.approved = task.approved
    BY InHand DEF Answered, Task
  <2>2. d = Decision[a] /\ (d = "confirm" <=> Approved(c, d))
    BY <1>1, <1>6 DEF Answer, Approved
  <2>3. r = [run[c] EXCEPT !.at = "execute", !.entry = Len(t.journal)]
    <3> HIDE DEF t
    <3> QED BY <1>3 DEF Call
  <2>4. /\ task' = t /\ saved' = t /\ run' = [run EXCEPT ![c] = r]
        /\ begun' = [begun EXCEPT ![a] = @ + 1]
    <3> HIDE DEF r
    <3> QED BY <1>2, <1>6, <2>3 DEF Ends
  <2> HIDE DEF k
  <2>5. /\ t \in Task /\ t.cursor = k.cursor /\ t.approved = k.approved
        /\ t.state \in {k.state, "paused"}
        /\ t.journal = Append(k.journal, [action |-> a, phase |-> "prepare"])
    BY <1>1, <2>1, PreparedIs
  <2> HIDE DEF t
  <2>6. q \in Call /\ q.at = "execute" /\ q.action = a
    BY <1>3 DEF Call, Place
  <2> HIDE DEF q
  <2>7. Len(t.journal) \in Nat
    BY <2>5 DEF Task
  <2>8. r \in Call /\ r.at = "execute" /\ r.action = a
    BY <2>6, <2>7 DEF Call
  <2> HIDE DEF r
  <2>9. saved'.journal = Append(saved.journal, [action |-> a, phase |-> "prepare"])
    BY <2>1, <2>4, <2>5, InHand DEF Carries
  <2>10. IF Decision[a] = "confirm"
           THEN saved.approved = a /\ task'.approved = 0
           ELSE task'.approved \in {saved.approved, 0}
    BY <2>1, <2>2, <2>4, <2>5, InHand DEF Carries, Approved
  <2> QED BY <2>1, <2>4, <2>5, <2>8, <2>9, <2>10, InHand DEF Executes, Carries
<1> QED BY <1>4, <1>5, <1>6

-----------------------------------------------------------------------------
(* The calls that touch the task from outside a stretch.                   *)

\* The task is where it was, saved or not; what has ended stays as it ended.
Stays ==
  /\ task' \in Task /\ task'.state # "none" /\ Carries(saved, task')
  /\ \/ saved' = task' /\ (Ended(saved) => task'.state = saved.state)
                       /\ (task'.state = "completed" => saved.state = "completed")
     \/ saved' = saved /\ task'.state = saved.state

Outside == MonitorExpires \/ Checkpoint \/ Cancel \/ \E n \in 0..MaxOutstanding : Ack(n)

\* A call from outside leaves the task in its place.
LEMMA OutsideStays ==
  ASSUME BaseInv, Outside
  PROVE  Stays /\ Exists /\ UNCHANGED <<run, policyVars, history, life, overlapped>>
PROOF
<1>1. ASSUME MonitorExpires PROVE Stays /\ Exists /\ UNCHANGED <<run, policyVars, history, life, overlapped>>
  <2> DEFINE t == Failed(task)
  <2>1. /\ Exists /\ task.state \in {"running", "paused"} /\ task' = t /\ saved' = t
        /\ UNCHANGED <<run, policyVars, history, life, overlapped>>
    BY <1>1 DEF MonitorExpires, Exists
  <2>2. t \in Task /\ Carries(saved, t) /\ t.state = "failed"
    BY <2>1, InHand, FailedIs DEF Carries
  <2> HIDE DEF t
  <2> QED BY <2>1, <2>2, InHand DEF Stays, Ended
<1>2. ASSUME Checkpoint PROVE Stays /\ Exists /\ UNCHANGED <<run, policyVars, history, life, overlapped>>
  <2> DEFINE t == Event(task)
  <2>1. /\ Exists /\ task' = t /\ saved' = t
        /\ UNCHANGED <<run, policyVars, history, life, overlapped>>
    BY <1>2 DEF Checkpoint
  <2>2. /\ t \in Task /\ Carries(saved, t) /\ t.state \in {task.state, "paused"}
        /\ Ended(task) => t.state = task.state
    BY <2>1, InHand, EventIs DEF Carries
  <2> HIDE DEF t
  <2> QED BY <2>1, <2>2, InHand DEF Stays, Ended
<1>3. ASSUME Cancel PROVE Stays /\ Exists /\ UNCHANGED <<run, policyVars, history, life, overlapped>>
  <2> DEFINE u == [task EXCEPT !.state = "cancelled"]
             v == [u EXCEPT !.backpressure = FALSE]
             t == Event(v)
  <2>1. v = [task EXCEPT !.state = "cancelled", !.backpressure = FALSE] /\ Exists /\ ~Ended(task)
    BY <1>3, InHand DEF Task, Cancel
  <2>2. task' = t /\ saved' = t /\ UNCHANGED <<run, policyVars, history, life, overlapped>>
    BY <1>3, <2>1 DEF Cancel
  <2>3. u \in Task /\ u.state = "cancelled" /\ Carries(saved, u)
    BY <2>1, InHand, StateIs DEF TaskState, Carries
  <2> HIDE DEF u
  <2>4. v \in Task /\ v.state = "cancelled" /\ Carries(saved, v)
    BY <2>3 DEF Task, Carries
  <2> HIDE DEF v
  <2>5. t \in Task /\ t.state = "cancelled" /\ Carries(saved, t)
    BY <2>4, EventIs DEF Carries, Ended
  <2> HIDE DEF t
  <2> QED BY <2>1, <2>2, <2>5, InHand DEF Stays, Ended
<1>4. ASSUME NEW n \in 0..MaxOutstanding, Ack(n)
      PROVE  Stays /\ Exists /\ UNCHANGED <<run, policyVars, history, life, overlapped>>
  <2> DEFINE u == [task EXCEPT !.pending = n]
             v == [u EXCEPT !.state = "running"]
             w == [v EXCEPT !.backpressure = FALSE]
             t == Event(w)
  <2>1. Exists /\ UNCHANGED <<run, policyVars, history, life, overlapped>>
    BY <1>4 DEF Ack
  <2>0. n \in Nat /\ task \in Task /\ Carries(saved, task)
    BY <2>1, InHand, AgentAssumption
  <2>2. u \in Task /\ u.state = task.state /\ Carries(saved, u)
    BY <2>0 DEF Task, Carries
  <2>3. IF u.state = "paused" /\ u.backpressure /\ n < MaxOutstanding
          THEN task' = Event([u EXCEPT !.state = "running", !.backpressure = FALSE]) /\ saved' = task'
          ELSE task' = u /\ saved' = saved
    BY <1>4 DEF Ack
  <2> HIDE DEF u
  <2>4. CASE task' = u /\ saved' = saved
    BY <2>1, <2>2, <2>4, InHand DEF Stays
  <2>5. CASE u.state = "paused" /\ task' = Event([u EXCEPT !.state = "running", !.backpressure = FALSE])
             /\ saved' = task'
    <3>1. w = [u EXCEPT !.state = "running", !.backpressure = FALSE]
      BY <2>2 DEF Task
    <3>2. task' = t /\ saved' = t
      BY <2>5, <3>1
    <3>3. v \in Task /\ v.state = "running" /\ Carries(saved, v)
      BY <2>2, StateIs DEF TaskState, Carries
    <3> HIDE DEF v
    <3>4. w \in Task /\ w.state = "running" /\ Carries(saved, w)
      BY <3>3 DEF Task, Carries
    <3> HIDE DEF w
    <3>5. t \in Task /\ t.state \in {"running", "paused"} /\ Carries(saved, t)
      BY <3>4, EventIs DEF Carries
    <3> HIDE DEF t
    <3> QED BY <2>1, <2>2, <2>5, <3>2, <3>5, InHand DEF Stays, Ended
  <2> QED BY <2>3, <2>4, <2>5
<1> QED BY <1>1, <1>2, <1>3, <1>4 DEF Outside

-----------------------------------------------------------------------------
(* The kinds of steps there are.                                           *)

Enters(c) ==
  /\ ~Ended(saved) /\ Exists /\ Begins(c)
  /\ Lands(saved, c, saved.cursor, saved.approved) /\ UNCHANGED <<history, life>>

\* The task begins anew, whatever the checkpoint held.
EntersAnew(c) ==
  /\ ~Exists /\ Begins(c)
  /\ Lands(NoTask, c, 0, 0) /\ BeginsLife /\ UNCHANGED history

\* A stretch that leaves the task where it is.
Rests(c) ==
  /\ run[c].at \in {"model", "issue"} /\ Exists
  /\ Lands(saved, c, saved.cursor, saved.approved) /\ UNCHANGED <<history, life, overlapped>>

\* A stretch that ends the task where it is.
Falls(c) ==
  /\ run[c].at \in {"check", "execute"} /\ Exists
  /\ LandsEnded(saved, c, saved.cursor, saved.approved)
  /\ UNCHANGED answer \/ Answers(c, "failed")
  /\ UNCHANGED <<history, starts, lost, overlapped>>

Asks(c) ==
  /\ run[c].at = "check" /\ Exists
  /\ AsksForToken(c) /\ UNCHANGED <<paid, crashes, interrupted, life, overlapped>>

Runs(c) ==
  /\ run[c].at = "check" /\ Exists
  /\ Executes(c) /\ UNCHANGED <<paid, crashes, interrupted, life, overlapped>>

Resumes(c) ==
  /\ run[c].at = "consume" /\ Exists
  /\ Lands(saved, c, saved.cursor, run[c].action) /\ UNCHANGED <<history, life, overlapped>>

Advances(c) ==
  /\ run[c].at = "execute" /\ Exists
  /\ Lands(saved, c, saved.cursor + 1, saved.approved)
  /\ \/ Answers(c, "ok")
     \/ Answers(c, "failed") /\ task'.state = "failed" /\ run' = [run EXCEPT ![c] = Idle]
  /\ UNCHANGED <<history, starts, lost, overlapped>>

Touches == Stays /\ Exists /\ UNCHANGED <<run, history, life, overlapped>>

\* The process dies, and a recovery will find another checkpoint.
Leaves ==
  /\ task' = NoTask /\ run' = [c \in Coroutine |-> Idle]
  /\ crashes' = crashes + 1 /\ Interrupts(saved') /\ UNCHANGED <<begun, paid>>
  /\ saved' \in Task /\ saved'.state # "none"
  /\ saved'.state = "completed" => saved'.cursor >= Len(Decision)

\* It dies in a start, after the first save.
DropsAnew(c) ==
  /\ ~Exists /\ Begins(c) /\ Leaves /\ BeginsLife
  /\ saved'.cursor = 0 /\ saved'.approved = 0 /\ saved'.journal = << >>

\* It dies between two saves of a stretch: what the first of them holds is
\* where the task was, or past an action that was executed.
Drops(c) ==
  /\ Exists /\ Leaves
  /\ IF run[c] = Idle THEN ~Ended(saved) /\ Begins(c) ELSE UNCHANGED overlapped
  /\ \/ SameEntries(saved)
     \/ \E a \in Action :
          saved'.journal = Append(saved.journal, [action |-> a, phase |-> "prepare"])
  /\ \/ saved'.approved \in {saved.approved, 0}
     \/ run[c].at = "consume" /\ saved'.approved = run[c].action
  /\ \/ saved'.cursor = saved.cursor /\ UNCHANGED answer
     \/ run[c].at = "execute" /\ saved'.cursor = saved.cursor /\ Answers(c, "failed")
     \/ /\ run[c].at = "execute" /\ saved'.cursor = saved.cursor + 1
        /\ \E how \in {"ok", "torn"} : Answers(c, how)
  /\ UNCHANGED <<starts, lost>>

\* A call in progress has a task.
LEMMA InProgress ==
  ASSUME BaseInv, NEW c \in Coroutine, run[c].at # "idle"
  PROVE  Exists
  BY IdleIs DEF BaseInv, TaskInv

\* A crash inside a stretch leaves a checkpoint of that stretch.
LEMMA CrashInside ==
  ASSUME BaseInv, NEW c \in Coroutine
  PROVE  /\ CrashInStart(c) => DropsAnew(c)
         /\ (\/ CrashInStep(c) \/ CrashAfterModel(c) \/ CrashAfterPrepare(c)
             \/ CrashAfterGrant(c) \/ CrashAfterExecute(c)) => Drops(c)
PROOF
<1>1. ASSUME CrashInStart(c) PROVE DropsAnew(c)
  BY <1>1, StartedIs DEF CrashInStart, DropsAnew, Leaves, Dies
<1>2. ASSUME NEW t \in Task, Dies(t), t.state # "none",
             t.state = "completed" => t.cursor >= Len(Decision)
      PROVE  Leaves /\ saved' = t
  BY <1>2 DEF Dies, Leaves
<1>3. ASSUME CrashInStep(c) PROVE Drops(c)
  <2> DEFINE t == Event(task)
  <2>1. Exists /\ task.state = "running" /\ Dies(t) /\ Begins(c) /\ UNCHANGED life
    BY <1>3 DEF CrashInStep, Exists
  <2>2. t \in Task /\ Carries(saved, t) /\ t.state \in {"running", "paused"}
    BY <2>1, InHand, EventIs DEF Carries
  <2> HIDE DEF t
  <2>3. Leaves /\ saved' = t
    BY <1>2, <2>1, <2>2
  <2>4. run[c] = Idle /\ ~Ended(saved)
    BY <2>1, InHand DEF Begins, Ended
  <2>5. SameEntries(saved)
    BY <2>2, <2>3 DEF SameEntries, Entries, Carries
  <2> QED BY <2>1, <2>2, <2>3, <2>4, <2>5 DEF Drops, Carries, life
<1>4. ASSUME CrashAfterModel(c) PROVE Drops(c)
  <2> DEFINE t == Planned
  <2>0. Exists /\ run[c].at = "model" /\ run[c] # Idle
    BY <1>4, InProgress, IdleIs DEF CrashAfterModel, At
  <2>1. Dies(t) /\ UNCHANGED <<life, overlapped>>
    BY <1>4 DEF CrashAfterModel
  <2>2. t \in Task /\ Carries(saved, t) /\ t.state \in {task.state, "paused"}
    BY <2>0, PlannedIs
  <2> HIDE DEF t
  <2>3. Leaves /\ saved' = t
    BY <1>2, <2>0, <2>1, <2>2, InHand DEF Carries
  <2>4. SameEntries(saved)
    BY <2>2, <2>3 DEF SameEntries, Entries, Carries
  <2> QED BY <2>0, <2>1, <2>2, <2>3, <2>4 DEF Drops, Carries, life
<1>5. ASSUME CrashAfterPrepare(c) PROVE Drops(c)
  <2> DEFINE a == run[c].action
             k == Answered(c, Decision[a])
             t == Prepared(k, a)
  <2>0. Exists /\ run[c].at = "check" /\ run[c] # Idle /\ a \in Action
    BY <1>5, InProgress, IdleIs DEF CrashAfterPrepare, At, BaseInv, ActionInv, HasAction
  <2>1. Dies(t) /\ UNCHANGED <<life, overlapped>>
    BY <1>5 DEF CrashAfterPrepare
  <2>2. /\ k \in Task /\ k.state = task.state /\ k.cursor = task.cursor
        /\ k.journal = task.journal /\ k.approved \in {task.approved, 0}
    BY <2>0, InHand DEF Answered, Task
  <2> HIDE DEF k
  <2>3. /\ t \in Task /\ t.cursor = k.cursor /\ t.approved = k.approved
        /\ t.state \in {k.state, "paused"}
        /\ t.journal = Append(k.journal, [action |-> a, phase |-> "prepare"])
    BY <2>0, <2>2, PreparedIs
  <2> HIDE DEF t
  <2>4. Leaves /\ saved' = t
    BY <1>2, <2>0, <2>1, <2>2, <2>3, InHand DEF Carries
  <2>5. saved'.journal = Append(saved.journal, [action |-> a, phase |-> "prepare"])
    BY <2>0, <2>2, <2>3, <2>4, InHand DEF Carries
  <2>6. saved'.cursor = saved.cursor /\ saved'.approved \in {saved.approved, 0}
    BY <2>0, <2>2, <2>3, <2>4, InHand DEF Carries
  <2> HIDE DEF a
  <2> QED BY <2>0, <2>1, <2>4, <2>5, <2>6 DEF Drops, life
<1>6. ASSUME CrashAfterGrant(c) PROVE Drops(c)
  <2> DEFINE g == Granted(c)
             h == Event(g)
  <2>0. Exists /\ run[c].at = "consume" /\ run[c] # Idle
    BY <1>6, InProgress, IdleIs DEF CrashAfterGrant, At
  <2>1. (Dies(g) \/ Dies(h)) /\ UNCHANGED <<life, overlapped>>
    BY <1>6 DEF CrashAfterGrant
  <2>2. /\ g \in Task /\ g.state \in {"running", "paused"} /\ g.cursor = saved.cursor
        /\ g.approved = run[c].action /\ g.journal = saved.journal
    BY <2>0, GrantedIs
  <2> HIDE DEF g
  <2>3. /\ h \in Task /\ h.state \in {"running", "paused"} /\ h.cursor = saved.cursor
        /\ h.approved = run[c].action /\ h.journal = saved.journal
    BY <2>2, EventIs DEF Carries
  <2> HIDE DEF h
  <2>4. PICK t \in {g, h} : Dies(t)
    BY <2>1
  <2>5. Leaves /\ saved' = t
    BY <1>2, <2>2, <2>3, <2>4
  <2>6. /\ saved'.cursor = saved.cursor /\ saved'.approved = run[c].action
        /\ saved'.journal = saved.journal
    BY <2>2, <2>3, <2>4, <2>5
  <2>7. SameEntries(saved)
    BY <2>6 DEF SameEntries, Entries
  <2> QED BY <2>0, <2>1, <2>5, <2>6, <2>7 DEF Drops, life
<1>7. ASSUME CrashAfterExecute(c) PROVE Drops(c)
  <2> DEFINE f == RolledBack(c)
             t == Committed(c)
             h == Heartbeat(t)
  <2>0. Exists /\ run[c].at = "execute" /\ run[c] # Idle
    BY <1>7, InProgress, IdleIs DEF CrashAfterExecute, At
  <2>1. /\ \/ Dies(f) /\ Answers(c, "failed")
           \/ (Dies(t) \/ Dies(h)) /\ \E how \in {"ok", "torn"} : Answers(c, how)
        /\ UNCHANGED <<starts, lost, overlapped>>
    BY <1>7 DEF CrashAfterExecute
  <2>2. /\ f \in Task /\ f.state = task.state
        /\ f.cursor = saved.cursor /\ f.approved = saved.approved
        /\ \A a : Entries(f, a) = Entries(saved, a)
    BY <2>0, RolledBackIs
  <2>3. /\ t \in Task /\ t.cursor = saved.cursor + 1 /\ t.approved = saved.approved
        /\ t.state \in {task.state, "paused"}
        /\ \A a : Entries(t, a) = Entries(saved, a)
    BY <2>0, CommittedIs
  <2> HIDE DEF f, t
  <2>4. t.state # "none" /\ (t.state = "completed" => t.cursor >= Len(Decision))
    BY <2>0, <2>3, InHand, DecisionLen DEF Task, Carries
  <2>5. /\ h \in Task /\ Carries(t, h) /\ h.state # "none"
        /\ h.state = "completed" => h.cursor >= Len(Decision)
    BY <2>3, <2>4, HeartbeatIs DEF Carries
  <2> HIDE DEF h
  <2>6. \A a : Entries(h, a) = Entries(saved, a)
    BY <2>3, <2>5, EntriesOf DEF Carries
  <2>7. CASE Dies(f) /\ Answers(c, "failed")
    <3>1. Leaves /\ saved' = f
      BY <1>2, <2>0, <2>2, <2>7, InHand DEF Carries
    <3>2. SameEntries(saved)
      BY <2>2, <3>1 DEF SameEntries
    <3> QED BY <2>0, <2>1, <2>2, <2>7, <3>1, <3>2 DEF Drops
  <2>8. CASE (Dies(t) \/ Dies(h)) /\ \E how \in {"ok", "torn"} : Answers(c, how)
    <3>1. PICK u \in {t, h} : Dies(u)
      BY <2>8
    <3>2. Leaves /\ saved' = u
      BY <1>2, <2>3, <2>4, <2>5, <3>1
    <3>3. SameEntries(saved)
      BY <2>3, <2>6, <3>1, <3>2 DEF SameEntries
    <3>4. saved'.cursor = saved.cursor + 1 /\ saved'.approved = saved.approved
      BY <2>3, <2>5, <3>1, <3>2 DEF Carries
    <3> QED BY <2>0, <2>1, <2>8, <3>2, <3>3, <3>4 DEF Drops
  <2> QED BY <2>1, <2>7, <2>8
<1> QED BY <1>1, <1>3, <1>4, <1>5, <1>6, <1>7

\* A step is of one of these kinds.
LEMMA Kinds ==
  ASSUME BaseInv, Next
  PROVE  /\ \/ \E c \in Coroutine :
                 \/ Enters(c) \/ EntersAnew(c) \/ Approve(c) \/ Rests(c) \/ Falls(c) \/ Asks(c)
                 \/ Runs(c) \/ Resumes(c) \/ Advances(c) \/ DropsAnew(c) \/ Drops(c)
            \/ Touches \/ Crash \/ Recovery
         /\ issued' \in Nat
PROOF
<1> DEFINE Goal == /\ \/ \E c \in Coroutine :
                            \/ Enters(c) \/ EntersAnew(c) \/ Approve(c) \/ Rests(c) \/ Falls(c)
                            \/ Asks(c) \/ Runs(c) \/ Resumes(c) \/ Advances(c)
                            \/ DropsAnew(c) \/ Drops(c)
                      \/ Touches \/ Crash \/ Recovery
                   /\ issued' \in Nat
<1>0. issued \in Nat
  BY DEF BaseInv, TypeInv
<1>1. ASSUME NEW c \in Coroutine, Start(c) PROVE Goal
  <2>1. UNCHANGED history /\ issued' = issued /\ BeginsLife
    BY <1>1 DEF Start, policyVars
  <2> QED BY <1>0, <1>1, <2>1, StartLands DEF EntersAnew
<1>2. ASSUME NEW c \in Coroutine, CallStep(c) PROVE Goal
  <2>1. UNCHANGED <<history, life>> /\ issued' = issued
    BY <1>2 DEF CallStep, policyVars
  <2>2. ~Ended(saved)
    BY <1>2, CallStepLands DEF Ended
  <2> QED BY <1>0, <1>2, <2>1, <2>2, CallStepLands DEF Enters
<1>3. ASSUME NEW c \in Coroutine, Approve(c) PROVE Goal
  BY <1>0, <1>3 DEF Approve
<1>4. ASSUME NEW c \in Coroutine, ModelAnswers(c) PROVE Goal
  <2>1. run[c].at = "model" /\ issued' = issued /\ UNCHANGED <<history, life, overlapped>>
    BY <1>4 DEF ModelAnswers, policyVars, At
  <2>2. Exists
    BY <2>1, InProgress
  <2> QED BY <1>0, <1>4, <2>1, <2>2, ModelAnswersLands DEF Rests
<1>5. ASSUME NEW c \in Coroutine, PolicyAnswers(c) PROVE Goal
  <2>1. run[c].at = "check" /\ issued' = issued /\ UNCHANGED <<paid, crashes, interrupted, life, overlapped>>
    BY <1>5 DEF PolicyAnswers, policyVars, At
  <2>2. Exists
    BY <2>1, InProgress
  <2> QED BY <1>0, <1>5, <2>1, <2>2, PolicyAnswersLands DEF Falls, Asks, Runs, history, life
<1>6. ASSUME NEW c \in Coroutine, TokenIssued(c) PROVE Goal
  <2>1. run[c].at = "issue" /\ UNCHANGED <<history, life, overlapped>>
    BY <1>6 DEF TokenIssued, At
  <2>2. Exists
    BY <2>1, InProgress
  <2> QED BY <1>6, <2>1, <2>2, TokenIssuedLands DEF Rests
<1>7. ASSUME NEW c \in Coroutine, IssueFails(c) PROVE Goal
  <2>1. run[c].at = "issue" /\ issued' = issued /\ UNCHANGED <<history, life, overlapped>>
    BY <1>7 DEF IssueFails, At, policyVars
  <2>2. Exists
    BY <2>1, InProgress
  <2> QED BY <1>0, <1>7, <2>1, <2>2, IssueFailsLands DEF Rests
<1>8. ASSUME NEW c \in Coroutine, TokenConsumed(c) PROVE Goal
  <2>1. run[c].at = "consume" /\ issued' = issued /\ UNCHANGED <<history, life, overlapped>>
    BY <1>8 DEF TokenConsumed, At, policyVars
  <2>2. Exists
    BY <2>1, InProgress
  <2> QED BY <1>0, <1>8, <2>1, <2>2, TokenConsumedLands DEF Resumes
<1>9. ASSUME NEW c \in Coroutine, ExecutorAnswers(c) PROVE Goal
  <2>1. /\ run[c].at = "execute" /\ issued' = issued
        /\ UNCHANGED <<history, starts, lost, overlapped>>
    BY <1>9 DEF ExecutorAnswers, At, policyVars
  <2>2. Exists
    BY <2>1, InProgress
  <2> QED BY <1>0, <1>9, <2>1, <2>2, ExecutorAnswersLands DEF Falls, Advances
<1>10. ASSUME Outside PROVE Goal
  BY <1>0, <1>10, OutsideStays DEF Touches, policyVars
<1>11. ASSUME Crash \/ Recovery PROVE Goal
  BY <1>0, <1>11 DEF Crash, Dies, Recovery, policyVars
<1>12. ASSUME NEW c \in Coroutine, CrashInStart(c) PROVE Goal
  <2>1. issued' = issued
    BY <1>12 DEF CrashInStart, Dies
  <2> QED BY <1>0, <1>12, <2>1, CrashInside
<1>13. ASSUME NEW c \in Coroutine,
              \/ CrashInStep(c) \/ CrashAfterModel(c) \/ CrashAfterPrepare(c)
              \/ CrashAfterGrant(c) \/ CrashAfterExecute(c)
       PROVE  Goal
  <2>1. issued' = issued
    BY <1>13 DEF CrashInStep, CrashAfterModel, CrashAfterPrepare, CrashAfterGrant,
                 CrashAfterExecute, Dies
  <2> QED BY <1>0, <1>13, <2>1, CrashInside
<1> QED BY <1>1, <1>2, <1>3, <1>4, <1>5, <1>6, <1>7, <1>8, <1>9, <1>10, <1>11, <1>12, <1>13,
        Zenon DEF Next, Outside

-----------------------------------------------------------------------------
(* What the loop decides by is saved.                                      *)

\* The entries of a journal can be counted.
LEMMA EntriesFinite ==
  ASSUME NEW t \in Task, NEW a
  PROVE  IsFiniteSet(Entries(t, a)) /\ Cardinality(Entries(t, a)) \in Nat
PROOF
<1>1. Len(t.journal) \in Nat /\ DOMAIN t.journal = 1..Len(t.journal)
  BY DEF Task
<1>2. IsFiniteSet(1..Len(t.journal))
  BY <1>1, FS_Interval
<1>3. Entries(t, a) \in SUBSET (1..Len(t.journal))
  BY <1>1 DEF Entries
<1> QED BY <1>2, <1>3, FS_Subset, FS_CardinalityType

\* At the start nothing exists.
LEMMA BaseInit == ASSUME Init PROVE BaseInv
  BY NoTaskIs, IdleIs DEF Init, BaseInv, TypeInv, Reply, ActionInv, SavedIsKnown, TaskInv, Exists

\* A life of the task begins with the accounts in their types.
LEMMA LifeTyped ==
  ASSUME BaseInv, BeginsLife
  PROVE  starts' \in Nat /\ lost' \in [Action -> Nat] /\ answer' \in [Action -> Reply]
PROOF
<1>1. \A a \in Action : Cardinality(Entries(saved, a)) \in Nat
  BY EntriesFinite DEF BaseInv, TypeInv
<1> QED BY <1>1 DEF BaseInv, TypeInv, BeginsLife, Reply

\* So are the answers when the executor gives one.
LEMMA AnswerTyped ==
  ASSUME BaseInv, NEW c, NEW how \in Reply, Answers(c, how)
  PROVE  answer' \in [Action -> Reply]
  BY DEF BaseInv, TypeInv, Answers

LifeTypes == starts' \in Nat /\ lost' \in [Action -> Nat] /\ answer' \in [Action -> Reply]

\* A task that was just saved is known, whatever the call does next.
LEMMA SettledKept ==
  ASSUME BaseInv, NEW s, Settles(s), LifeTypes, issued' \in Nat, begun' \in [Action -> Nat], paid' \in [Action -> Nat],
         crashes' \in Nat, interrupted' \in [Action -> Nat], overlapped' \in BOOLEAN,
         task'.state = "completed" => task'.cursor >= Len(Decision),
         NEW c \in Coroutine, NEW r \in Call, HasAction(r), run' = [run EXCEPT ![c] = r]
  PROVE  BaseInv'
  BY DEF Settles, BaseInv, TypeInv, LifeTypes, ActionInv, SavedIsKnown, TaskInv, Exists

\* A call that lands leaves the base invariant in place.
LEMMA LandedKept ==
  ASSUME BaseInv, issued' \in Nat, UNCHANGED history, LifeTypes, overlapped' \in BOOLEAN,
         NEW s, NEW c \in Coroutine, NEW k \in Nat, NEW ap, Lands(s, c, k, ap) \/ LandsEnded(s, c, k, ap)
  PROVE  BaseInv'
PROOF
<1>1. /\ begun' \in [Action -> Nat] /\ paid' \in [Action -> Nat] /\ crashes' \in Nat
      /\ interrupted' \in [Action -> Nat]
  BY DEF history, BaseInv, TypeInv
<1>2. CASE Lands(s, c, k, ap)
  <2>1. PICK r \in Call :
          /\ run' = [run EXCEPT ![c] = r]
          /\ \/ r = Idle
             \/ r.at = "model"
             \/ r.at = "check" /\ r.action = k + 1 /\ k < Len(Decision)
    BY <1>2 DEF Lands
  <2>2. HasAction(r)
    BY <2>1, IdleIs, DecisionLen DEF HasAction
  <2>3. Settles(s) /\ (task'.state = "completed" => task'.cursor >= Len(Decision))
    BY <1>2 DEF Lands
  <2> QED BY <1>1, <2>1, <2>2, <2>3, SettledKept
<1>3. CASE LandsEnded(s, c, k, ap)
  <2>1. Settles(s) /\ (task'.state = "completed" => task'.cursor >= Len(Decision))
        /\ run' = [run EXCEPT ![c] = Idle]
    BY <1>3 DEF LandsEnded
  <2> QED BY <1>1, <2>1, IdleIs, SettledKept
<1> QED BY <1>2, <1>3

\* Every step keeps the base invariant.
LEMMA BaseStep ==
  ASSUME BaseInv, [Next]_vars
  PROVE  BaseInv'
PROOF
<1>0. CASE UNCHANGED vars
  BY <1>0 DEF vars, BaseInv, TypeInv, ActionInv, SavedIsKnown, TaskInv, Exists
<1> SUFFICES ASSUME Next PROVE BaseInv'
  BY <1>0
<1>1. issued' \in Nat /\ saved.cursor \in Nat /\ overlapped \in BOOLEAN
  BY Kinds DEF BaseInv, TypeInv, Task
<1>2. UNCHANGED life => LifeTypes
  BY DEF life, LifeTypes, BaseInv, TypeInv
<1>12. ASSUME NEW c, UNCHANGED <<starts, lost>>,
              UNCHANGED answer \/ \E how \in Reply : Answers(c, how)
       PROVE  LifeTypes
  BY <1>12, AnswerTyped DEF LifeTypes, BaseInv, TypeInv
<1>13. ASSUME NEW c \in Coroutine, Enters(c) PROVE BaseInv'
  BY <1>1, <1>2, <1>13, LandedKept DEF Enters, Begins
<1>14. ASSUME NEW c \in Coroutine, EntersAnew(c) PROVE BaseInv'
  <2>1. LifeTypes
    BY <1>14, LifeTyped DEF EntersAnew, LifeTypes
  <2>2. 0 \in Nat
    OBVIOUS
  <2> QED BY <1>1, <1>14, <2>1, <2>2, LandedKept DEF EntersAnew, Begins
<1>3. ASSUME NEW c \in Coroutine, Approve(c) PROVE BaseInv'
  <2> DEFINE a == task.cursor + 1
             r == [Idle EXCEPT !.at = "consume", !.action = a]
  <2>1. a \in Action
    BY <1>3, DecisionLen DEF Approve, BaseInv, TypeInv, Task
  <2>2. r \in Call /\ r.at = "consume" /\ r.action = a
    <3>1. "consume" \in Place /\ a \in Nat
      BY <2>1, DecisionLen DEF Place
    <3> QED BY <3>1, CallAt, Zenon
  <2>3. /\ UNCHANGED <<task, saved, begun, crashes, interrupted, life>> /\ run' = [run EXCEPT ![c] = r]
        /\ paid' = [paid EXCEPT ![a] = @ + 1] /\ Exists
        /\ overlapped' \in BOOLEAN
    BY <1>1, <1>3 DEF Approve, Exists, Begins
  <2> HIDE DEF r
  <2>4. paid' \in [Action -> Nat]
    BY <2>1, <2>3 DEF BaseInv, TypeInv
  <2>5. run' \in [Coroutine -> Call] /\ ActionInv'
    BY <2>1, <2>2, <2>3 DEF BaseInv, TypeInv, ActionInv, HasAction
  <2> QED BY <1>1, <2>3, <2>4, <2>5 DEF BaseInv, TypeInv, SavedIsKnown, TaskInv, Exists, life
<1>4. ASSUME NEW c \in Coroutine, Rests(c) \/ Falls(c) PROVE BaseInv'
  <2>1. LifeTypes
    BY <1>2, <1>4, <1>12 DEF Rests, Falls, Reply
  <2> QED BY <1>1, <1>4, <2>1, LandedKept DEF Rests, Falls
<1>5. ASSUME NEW c \in Coroutine, Asks(c) PROVE BaseInv'
  <2>1. PICK r \in Call : r.at = "issue" /\ r.action = run[c].action /\ run' = [run EXCEPT ![c] = r]
    BY <1>5 DEF Asks, AsksForToken
  <2>2. HasAction(r)
    BY <1>5, <2>1 DEF Asks, HasAction, BaseInv, ActionInv
  <2>3. UNCHANGED <<task, saved, begun, paid, crashes, interrupted, life, overlapped>> /\ Exists
    BY <1>5 DEF Asks, AsksForToken
  <2> QED BY <1>1, <2>1, <2>2, <2>3
          DEF BaseInv, TypeInv, ActionInv, SavedIsKnown, TaskInv, Exists, life
<1>6. ASSUME NEW c \in Coroutine, Runs(c) PROVE BaseInv'
  <2>1. PICK r \in Call : r.at = "execute" /\ r.action = run[c].action /\ run' = [run EXCEPT ![c] = r]
    BY <1>6 DEF Runs, Executes
  <2>2. HasAction(r) /\ run[c].action \in Action
    BY <1>6, <2>1 DEF Runs, HasAction, BaseInv, ActionInv
  <2>3. /\ task' \in Task /\ saved' = task' /\ task'.state # "none"
        /\ task'.state = "completed" => task'.cursor >= Len(Decision)
        /\ begun' = [begun EXCEPT ![run[c].action] = @ + 1]
        /\ UNCHANGED <<paid, crashes, interrupted, life, overlapped>>
    BY <1>6 DEF Runs, Executes, BaseInv, SavedIsKnown
  <2>4. begun' \in [Action -> Nat]
    BY <2>2, <2>3 DEF BaseInv, TypeInv
  <2> QED BY <1>1, <2>1, <2>2, <2>3, <2>4
          DEF BaseInv, TypeInv, ActionInv, SavedIsKnown, TaskInv, Exists, life
<1>7. ASSUME NEW c \in Coroutine, Resumes(c) PROVE BaseInv'
  BY <1>1, <1>2, <1>7, LandedKept DEF Resumes
<1>8. ASSUME NEW c \in Coroutine, Advances(c) PROVE BaseInv'
  <2>1. saved.cursor + 1 \in Nat
    BY <1>1
  <2>2. LifeTypes
    BY <1>8, <1>12 DEF Advances, Reply
  <2> QED BY <1>1, <1>8, <2>1, <2>2, LandedKept DEF Advances
<1>9. ASSUME Touches PROVE BaseInv'
  <2>1. saved.state = "completed" => saved.cursor >= Len(Decision)
    BY DEF BaseInv, SavedIsKnown
  <2> QED BY <1>1, <1>9, <2>1
          DEF Touches, Stays, history, life, Carries, BaseInv, TypeInv, ActionInv, SavedIsKnown, TaskInv,
              Exists
<1>16. ASSUME NEW t, Interrupts(t) PROVE interrupted' \in [Action -> Nat]
  BY <1>16 DEF Interrupts, BaseInv, TypeInv
<1>10. ASSUME Crash PROVE BaseInv'
  <2>1. interrupted' \in [Action -> Nat]
    BY <1>10, <1>16 DEF Crash, Dies
  <2> QED BY <1>1, <1>10, <2>1, NoTaskIs, IdleIs
     DEF Crash, Dies, life, BaseInv, TypeInv, ActionInv, SavedIsKnown, TaskInv, Exists
<1>11. ASSUME Recovery PROVE BaseInv'
  BY <1>1, <1>11, NoTaskIs
     DEF Recovery, policyVars, history, life, BaseInv, TypeInv, ActionInv, SavedIsKnown, TaskInv, Exists
<1>15. ASSUME NEW c \in Coroutine, DropsAnew(c) \/ Drops(c) PROVE BaseInv'
  <2>1. Leaves /\ overlapped' \in BOOLEAN
    BY <1>1, <1>15 DEF DropsAnew, Drops, Begins
  <2>3. interrupted' \in [Action -> Nat]
    <3>1. PICK t : Interrupts(t)
      BY <2>1 DEF Leaves
    <3> QED BY <1>16, <3>1
  <2>2. LifeTypes
    <3>1. CASE DropsAnew(c)
      BY <3>1, LifeTyped DEF DropsAnew, LifeTypes
    <3>2. CASE Drops(c)
      BY <1>12, <3>2 DEF Drops, Reply
    <3> QED BY <1>15, <3>1, <3>2
  <2> QED BY <1>1, <2>1, <2>2, <2>3, NoTaskIs, IdleIs
          DEF Leaves, LifeTypes, BaseInv, TypeInv, ActionInv, SavedIsKnown, TaskInv, Exists
<1> QED BY <1>3, <1>4, <1>5, <1>6, <1>7, <1>8, <1>9, <1>10, <1>11, <1>13, <1>14, <1>15, Kinds

(* The task and its checkpoint agree, and a call in progress has a task,   *)
(* in every state.                                                         *)
LEMMA BaseHolds == Spec => []BaseInv
PROOF
<1>1. Init => BaseInv
  BY BaseInit
<1>2. BaseInv /\ [Next]_vars => BaseInv'
  BY BaseStep
<1> QED BY <1>1, <1>2, PTL DEF Spec

-----------------------------------------------------------------------------
(* The end is final.                                                       *)

\* What is known is in the checkpoint.
LEMMA KnownIs == ASSUME BaseInv PROVE Known.state = saved.state
  BY DEF BaseInv, SavedIsKnown, Known

\* Only a start of a task that is not in memory changes the state of one that
\* ended with no call in progress.
LEMMA EndedStep ==
  ASSUME BaseInv, [Next]_vars, Ended(Known), \A c \in Coroutine : run[c] = Idle
  PROVE  Known'.state = Known.state \/ (~Exists /\ starts' # starts)
PROOF
<1>1. BaseInv'
  BY BaseStep
<1>2. Known.state = saved.state /\ Known'.state = saved'.state
  BY <1>1, KnownIs DEF BaseInv, SavedIsKnown, Known, Exists
<1>3. CASE UNCHANGED vars
  BY <1>2, <1>3 DEF vars
<1>4. CASE Next
  <2>1. \A c \in Coroutine : run[c].at = "idle"
    BY IdleIs
  <2>2. Ended(saved)
    BY <1>2 DEF Ended
  <2>3. ASSUME NEW c \in Coroutine, Approve(c) PROVE FALSE
    BY <1>2, <2>2, <2>3 DEF Approve, BaseInv, SavedIsKnown, Exists, Ended
  <2>4. ASSUME NEW c \in Coroutine
        PROVE  ~(\/ Enters(c) \/ Approve(c) \/ Rests(c) \/ Falls(c) \/ Asks(c) \/ Runs(c)
                 \/ Resumes(c) \/ Advances(c) \/ Drops(c))
    BY <2>1, <2>2, <2>3 DEF Enters, Rests, Falls, Asks, Runs, Resumes, Advances, Drops
  <2>7. ASSUME NEW c \in Coroutine, EntersAnew(c) \/ DropsAnew(c)
        PROVE  ~Exists /\ starts' # starts
    BY <2>7 DEF EntersAnew, DropsAnew, BeginsLife, BaseInv, TypeInv
  <2>5. ASSUME Touches PROVE saved'.state = saved.state
    BY <2>2, <2>5 DEF Touches, Stays
  <2>6. ASSUME Crash \/ Recovery PROVE saved'.state = saved.state
    BY <2>6 DEF Crash, Dies, Recovery
  <2> QED BY <1>2, <1>4, <2>4, <2>5, <2>6, <2>7, Kinds
<1> QED BY <1>3, <1>4

(* A task that completed, failed or was cancelled stays so once no call is *)
(* in progress: through acknowledgements, the monitor, further calls of    *)
(* the host, a crash wherever it falls and the recovery.  The exception is *)
(* a start in a process that does not have the task in memory.             *)
THEOREM EndLasts == Spec => EndIsFinal
PROOF
<1>1. BaseInv /\ [Next]_vars =>
        [Ended(Known) /\ (\A c \in Coroutine : run[c] = Idle) =>
           \/ Known'.state = Known.state
           \/ ~Exists /\ starts' # starts]_vars
  BY EndedStep
<1>2. Spec => [][Ended(Known) /\ (\A c \in Coroutine : run[c] = Idle) =>
                   \/ Known'.state = Known.state
                   \/ ~Exists /\ starts' # starts]_vars
  BY <1>1, BaseHolds, PTL DEF Spec
<1> QED BY <1>2 DEF EndIsFinal

-----------------------------------------------------------------------------
(* Executions are accounted for.                                           *)

\* The calls that wait for the policy to take their token.
Consuming(a) == {c \in Coroutine : run[c].at = "consume" /\ run[c].action = a}

\* An execution is in the journal that was saved before it began, or was there
\* until a start wrote over it.
EntryInv == \A a \in Action : begun[a] <= Cardinality(Entries(saved, a)) + lost[a]

\* Every consumed token stands for an execution that began, an approval the
\* task holds, or a call that is about to put one into the task.
Owed(a) == begun[a] + Cardinality(Consuming(a)) + (IF saved.approved = a THEN 1 ELSE 0)

TokenInv ==
  \A a \in Action :
    /\ IsFiniteSet(Consuming(a))
    /\ Decision[a] = "confirm" => Owed(a) <= paid[a]

\* A prepared action adds one to the entries of its own and none to others'.
LEMMA EntriesAppended ==
  ASSUME NEW t \in Task, NEW u \in Task, NEW a \in Action,
         u.journal = Append(t.journal, [action |-> a, phase |-> "prepare"])
  PROVE  \A b \in Action :
           Cardinality(Entries(u, b)) = Cardinality(Entries(t, b)) + (IF b = a THEN 1 ELSE 0)
PROOF
<1> DEFINE J == t.journal
           n == Len(J)
           R == [action |-> a, phase |-> "prepare"]
<1>1. J \in Seq(Record) /\ n \in Nat /\ DOMAIN J = 1..n
  BY DEF Task
<1>2. DOMAIN u.journal = 1..n+1 /\ (\A i \in 1..n : u.journal[i] = J[i]) /\ u.journal[n+1].action = a
  <2> DEFINE K == u.journal
  <2>1. K = Append(J, R) /\ R.action = a
    OBVIOUS
  <2> HIDE DEF R, J, K
  <2>2. Len(K) = n + 1 /\ DOMAIN K = 1..Len(K) /\ (\A i \in 1..n : K[i] = J[i]) /\ K[n+1] = R
    BY <1>1, <2>1
  <2>3. DOMAIN K = 1..n+1 /\ (\A i \in 1..n : K[i] = J[i]) /\ K[n+1].action = a
    <3> HIDE DEF n
    <3> QED BY <2>1, <2>2
  <2> QED BY <2>3 DEF K
<1>3. ASSUME NEW b \in Action
      PROVE  Entries(u, b) = IF b = a THEN Entries(t, b) \cup {n + 1} ELSE Entries(t, b)
  <2> HIDE DEF n
  <2> QED BY <1>1, <1>2 DEF Entries
<1>4. ASSUME NEW b \in Action PROVE n + 1 \notin Entries(t, b)
  BY <1>1 DEF Entries
<1> QED BY <1>3, <1>4, EntriesFinite, FS_AddElement

\* Which calls wait for a token when c has moved to r.
LEMMA ConsumingMoved ==
  ASSUME BaseInv, NEW c \in Coroutine, NEW r \in Call, run' = [run EXCEPT ![c] = r], NEW a
  PROVE  Consuming(a)' = IF r.at = "consume" /\ r.action = a
                           THEN Consuming(a) \cup {c} ELSE Consuming(a) \ {c}
  BY DEF Consuming, BaseInv, TypeInv

\* A call that waits for nothing of the kind changes no count by moving on.
LEMMA ConsumingSame ==
  ASSUME BaseInv, NEW c \in Coroutine, run[c].at # "consume",
         NEW r \in Call, r.at # "consume", run' = [run EXCEPT ![c] = r], NEW a
  PROVE  Consuming(a)' = Consuming(a)
  BY ConsumingMoved DEF Consuming

\* Where a call lands, no call waits for a token.
LEMMA LandsCall ==
  ASSUME NEW s, NEW c, NEW k, NEW ap, Lands(s, c, k, ap) \/ LandsEnded(s, c, k, ap)
  PROVE  \E r \in Call : r.at # "consume" /\ run' = [run EXCEPT ![c] = r]
  BY IdleIs DEF Lands, LandsEnded

AccountInv == EntryInv /\ TokenInv

\* At the start there is nothing to account for.
LEMMA AccountInit == ASSUME Init PROVE AccountInv
PROOF
<1>1. \A a : Entries(saved, a) = {}
  BY NoTaskIs DEF Init, Entries
<1>2. \A a : Consuming(a) = {}
  BY IdleIs DEF Init, Consuming
<1>3. saved.approved = 0 /\ \A a \in Action : begun[a] = 0 /\ lost[a] = 0 /\ paid[a] = 0 /\ a # 0
  BY NoTaskIs, DecisionLen DEF Init
<1> QED BY <1>1, <1>2, <1>3, FS_EmptySet DEF AccountInv, EntryInv, TokenInv, Owed

\* A stretch that begins no execution and takes no token keeps the accounts.
LEMMA AccountKept ==
  ASSUME BaseInv, AccountInv, SameEntries(saved), UNCHANGED <<begun, paid, lost>>,
         saved'.approved = saved.approved,
         \A a \in Action : Consuming(a)' = Consuming(a)
  PROVE  AccountInv'
PROOF
<1>1. EntryInv'
  <2>1. \A a \in Action : Entries(saved', a) = Entries(saved, a)
    BY DEF SameEntries
  <2> SUFFICES ASSUME NEW a \in Action PROVE begun'[a] <= Cardinality(Entries(saved', a)) + lost'[a]
    BY DEF EntryInv
  <2> QED BY <2>1 DEF AccountInv, EntryInv
<1>2. TokenInv'
  <2> SUFFICES ASSUME NEW a \in Action
        PROVE  /\ IsFiniteSet(Consuming(a)')
               /\ Decision[a] = "confirm" =>
                    begun'[a] + Cardinality(Consuming(a)') + (IF saved'.approved = a THEN 1 ELSE 0)
                      <= paid'[a]
    BY DEF TokenInv, Owed
  <2> QED BY DEF AccountInv, TokenInv, Owed
<1> QED BY <1>1, <1>2 DEF AccountInv

\* Every step keeps the accounts.
LEMMA AccountStep ==
  ASSUME BaseInv, AccountInv, [Next]_vars
  PROVE  AccountInv'
PROOF
<1>0. CASE UNCHANGED vars
  BY <1>0 DEF vars, AccountInv, EntryInv, TokenInv, Owed, Consuming, Entries
<1> SUFFICES ASSUME Next PROVE AccountInv'
  BY <1>0
<1>1. ASSUME NEW a \in Action
      PROVE  /\ begun[a] \in Nat /\ paid[a] \in Nat /\ lost[a] \in Nat /\ a # 0
             /\ IsFiniteSet(Consuming(a)) /\ Cardinality(Consuming(a)) \in Nat
             /\ Cardinality(Entries(saved, a)) \in Nat
  <2>1. IsFiniteSet(Entries(saved, a)) /\ IsFiniteSet(Consuming(a)) /\ a # 0
    BY EntriesFinite, DecisionLen DEF BaseInv, TypeInv, AccountInv, TokenInv
  <2> QED BY <2>1, FS_CardinalityType DEF BaseInv, TypeInv
<1>2. ASSUME NEW c \in Coroutine, Enters(c) \/ Rests(c) \/ Falls(c) \/ Advances(c)
      PROVE  AccountInv'
  <2>1. run[c].at # "consume"
    BY <1>2, IdleIs DEF Enters, Begins, Rests, Falls, Advances
  <2>2. \E s, k, ap : Lands(s, c, k, ap) \/ LandsEnded(s, c, k, ap)
    BY <1>2 DEF Enters, Rests, Falls, Advances
  <2>3. \E r \in Call : r.at # "consume" /\ run' = [run EXCEPT ![c] = r]
    BY <2>2, LandsCall
  <2>4. SameEntries(saved) /\ saved'.approved = saved.approved
    BY <1>2 DEF Enters, Rests, Falls, Advances, Lands, LandsEnded, Settles
  <2>5. UNCHANGED <<begun, paid, lost>>
    BY <1>2 DEF Enters, Rests, Falls, Advances, history, life
  <2> QED BY <2>1, <2>3, <2>4, <2>5, ConsumingSame, AccountKept
<1>3. ASSUME NEW c \in Coroutine, Asks(c) PROVE AccountInv'
  <2>1. PICK r \in Call : r.at = "issue" /\ run' = [run EXCEPT ![c] = r]
    BY <1>3 DEF Asks, AsksForToken
  <2>2. run[c].at # "consume" /\ UNCHANGED <<saved, begun, paid, lost>>
    BY <1>3 DEF Asks, AsksForToken, life
  <2> QED BY <2>1, <2>2, ConsumingSame, AccountKept DEF SameEntries
<1>4. ASSUME NEW c \in Coroutine, Approve(c) PROVE AccountInv'
  <2> DEFINE a == task.cursor + 1
             r == [Idle EXCEPT !.at = "consume", !.action = a]
  <2>1. a \in Action
    BY <1>4, DecisionLen DEF Approve, BaseInv, TypeInv, Task
  <2>2. r \in Call /\ r.at = "consume" /\ r.action = a
    <3>1. "consume" \in Place /\ a \in Nat
      BY <2>1, DecisionLen DEF Place
    <3> QED BY <3>1, CallAt, Zenon
  <2>3. /\ UNCHANGED <<saved, begun, lost>> /\ run' = [run EXCEPT ![c] = r] /\ run[c].at = "idle"
        /\ paid' = [paid EXCEPT ![a] = @ + 1]
    BY <1>4, IdleIs DEF Approve, Begins, life
  <2> HIDE DEF r, a
  <2>4. \A b \in Action : paid'[b] = paid[b] + (IF b = a THEN 1 ELSE 0)
    BY <1>1, <2>1, <2>3 DEF BaseInv, TypeInv
  <2>5. ASSUME NEW b \in Action
        PROVE  /\ IsFiniteSet(Consuming(b)')
               /\ Cardinality(Consuming(b)') = Cardinality(Consuming(b)) + (IF b = a THEN 1 ELSE 0)
    <3>1. c \notin Consuming(b)
      BY <2>3 DEF Consuming
    <3>2. Consuming(b)' = IF b = a THEN Consuming(b) \cup {c} ELSE Consuming(b)
      <4>1. r \in Call /\ run' = [run EXCEPT ![c] = r]
        BY <2>2, <2>3
      <4>2. Consuming(b)' = IF r.at = "consume" /\ r.action = b
                              THEN Consuming(b) \cup {c} ELSE Consuming(b) \ {c}
        BY <4>1, ConsumingMoved
      <4> QED BY <2>2, <3>1, <4>2
    <3> QED BY <1>1, <3>1, <3>2, FS_AddElement
  <2>6. EntryInv'
    BY <2>3 DEF AccountInv, EntryInv, Entries
  <2>7. TokenInv'
    <3> SUFFICES ASSUME NEW b \in Action, Decision[b] = "confirm"
          PROVE  Owed(b)' <= paid'[b]
      BY <2>5 DEF TokenInv, Owed
    <3>2. Owed(b) <= paid[b]
      BY DEF AccountInv, TokenInv
    <3>3. begun'[b] = begun[b] /\ saved' = saved
      BY <2>3
    <3> QED BY <1>1, <2>4, <2>5, <3>2, <3>3 DEF Owed
  <2> QED BY <2>6, <2>7 DEF AccountInv
<1>5. ASSUME NEW c \in Coroutine, Runs(c) PROVE AccountInv'
  <2> DEFINE a == run[c].action
  <2>1. a \in Action
    BY <1>5 DEF Runs, BaseInv, ActionInv, HasAction
  <2>2. PICK r \in Call : r.at = "execute" /\ run' = [run EXCEPT ![c] = r]
    BY <1>5 DEF Runs, Executes
  <2>3. /\ run[c].at # "consume" /\ saved \in Task /\ saved' \in Task /\ paid' = paid /\ lost' = lost
        /\ saved'.journal = Append(saved.journal, [action |-> a, phase |-> "prepare"])
        /\ begun' = [begun EXCEPT ![a] = @ + 1]
        /\ IF Decision[a] = "confirm"
             THEN saved.approved = a /\ saved'.approved = 0
             ELSE saved'.approved \in {saved.approved, 0}
    BY <1>5 DEF Runs, Executes, BaseInv, TypeInv, life
  <2> HIDE DEF a
  <2>4. \A b \in Action : begun'[b] = begun[b] + (IF b = a THEN 1 ELSE 0)
    BY <1>1, <2>1, <2>3 DEF BaseInv, TypeInv
  <2>5. \A b \in Action :
          Cardinality(Entries(saved', b)) = Cardinality(Entries(saved, b)) + (IF b = a THEN 1 ELSE 0)
    BY <2>1, <2>3, EntriesAppended
  <2>6. \A b \in Action : Consuming(b)' = Consuming(b)
    BY <2>2, <2>3, ConsumingSame
  <2>7. EntryInv'
    <3> SUFFICES ASSUME NEW b \in Action PROVE begun'[b] <= Cardinality(Entries(saved', b)) + lost'[b]
      BY DEF EntryInv
    <3>2. begun[b] <= Cardinality(Entries(saved, b)) + lost[b] /\ lost'[b] = lost[b]
      BY <2>3 DEF AccountInv, EntryInv
    <3> QED BY <1>1, <2>4, <2>5, <3>2
  <2>8. TokenInv'
    <3> SUFFICES ASSUME NEW b \in Action, Decision[b] = "confirm"
          PROVE  Owed(b)' <= paid'[b]
      BY <1>1, <2>6 DEF TokenInv, Owed
    <3>2. Owed(b) <= paid[b]
      BY DEF AccountInv, TokenInv
    <3>3. paid'[b] = paid[b] /\ Consuming(b)' = Consuming(b) /\ b # 0
      BY <1>1, <2>3, <2>6
    <3> QED BY <1>1, <2>3, <2>4, <3>2, <3>3 DEF Owed
  <2> QED BY <2>7, <2>8 DEF AccountInv
<1>6. ASSUME NEW c \in Coroutine, Resumes(c) PROVE AccountInv'
  <2> DEFINE a == run[c].action
  <2>1. /\ run[c].at = "consume" /\ SameEntries(saved) /\ saved'.approved = a
        /\ UNCHANGED <<begun, paid, lost>>
    BY <1>6 DEF Resumes, Lands, Settles, history, life
  <2>2. PICK r \in Call : r.at # "consume" /\ run' = [run EXCEPT ![c] = r]
    BY <1>6, LandsCall DEF Resumes
  <2>3. ASSUME NEW b \in Action
        PROVE  /\ IsFiniteSet(Consuming(b)')
               /\ Cardinality(Consuming(b)') = Cardinality(Consuming(b)) - (IF b = a THEN 1 ELSE 0)
    <3>1. c \in Consuming(b) <=> b = a
      BY <2>1 DEF Consuming
    <3>2. Consuming(b)' = Consuming(b) \ {c}
      BY <2>2, ConsumingMoved
    <3> QED BY <1>1, <3>1, <3>2, FS_RemoveElement
  <2> HIDE DEF a
  <2>4. EntryInv'
    BY <2>1 DEF AccountInv, EntryInv, SameEntries
  <2>5. TokenInv'
    <3> SUFFICES ASSUME NEW b \in Action, Decision[b] = "confirm"
          PROVE  Owed(b)' <= paid'[b]
      BY <2>3 DEF TokenInv, Owed
    <3>2. Owed(b) <= paid[b]
      BY DEF AccountInv, TokenInv
    <3>3. begun'[b] = begun[b] /\ paid'[b] = paid[b]
      BY <2>1
    <3> QED BY <1>1, <2>1, <2>3, <3>2, <3>3 DEF Owed
  <2> QED BY <2>4, <2>5 DEF AccountInv
<1>7. ASSUME Touches PROVE AccountInv'
  <2>1. saved'.approved = saved.approved /\ saved'.journal = saved.journal
        /\ UNCHANGED <<run, begun, paid, lost>>
    BY <1>7 DEF Touches, Stays, Carries, history, life
  <2>2. SameEntries(saved) /\ \A a \in Action : Consuming(a)' = Consuming(a)
    BY <2>1 DEF SameEntries, Entries, Consuming
  <2> QED BY <2>1, <2>2, AccountKept
<1>8. ASSUME Crash PROVE AccountInv'
  <2>1. \A a : Consuming(a)' = {}
    BY <1>8, IdleIs DEF Crash, Dies, Consuming
  <2>2. UNCHANGED <<saved, begun, paid, lost>>
    BY <1>8 DEF Crash, Dies, life
  <2>3. EntryInv'
    BY <2>2 DEF AccountInv, EntryInv, Entries
  <2>4. TokenInv'
    <3> SUFFICES ASSUME NEW b \in Action, Decision[b] = "confirm"
          PROVE  begun[b] + Cardinality({}) + (IF saved.approved = b THEN 1 ELSE 0) <= paid[b]
      BY <2>1, <2>2, FS_EmptySet DEF TokenInv, Owed
    <3>2. Owed(b) <= paid[b]
      BY DEF AccountInv, TokenInv
    <3> QED BY <1>1, <3>2, FS_EmptySet DEF Owed
  <2> QED BY <2>3, <2>4 DEF AccountInv
<1>9. ASSUME Recovery PROVE AccountInv'
  BY <1>9, AccountKept DEF Recovery, history, life, SameEntries, Consuming
<1>10. ASSUME EntryInv', \A a \in Action : Consuming(a)' = {}, UNCHANGED <<begun, paid>>,
              \A a \in Action : a = saved'.approved => Owed(a) >= begun[a] + 1
       PROVE  AccountInv'
  <2>1. IsFiniteSet({}) /\ Cardinality({}) = 0
    BY FS_EmptySet
  <2>2. TokenInv'
    <3> SUFFICES ASSUME NEW b \in Action, Decision[b] = "confirm"
          PROVE  begun[b] + 0 + (IF saved'.approved = b THEN 1 ELSE 0) <= paid[b]
      BY <1>10, <2>1 DEF TokenInv, Owed
    <3>1. Owed(b) <= paid[b] /\ Owed(b) >= begun[b]
      BY <1>1 DEF AccountInv, TokenInv, Owed
    <3>2. Owed(b) \in Nat
      BY <1>1 DEF Owed
    <3> QED BY <1>1, <1>10, <3>1, <3>2
  <2> QED BY <1>10, <2>2 DEF AccountInv
<1>11. ASSUME NEW c \in Coroutine, Drops(c) PROVE AccountInv'
  <2>1. \A a \in Action : Consuming(a)' = {}
    BY <1>11, IdleIs DEF Drops, Leaves, Consuming
  <2>2. UNCHANGED <<begun, paid, lost>> /\ saved \in Task /\ saved' \in Task
    BY <1>11 DEF Drops, Leaves, BaseInv, TypeInv
  <2>3. \A a \in Action : Cardinality(Entries(saved', a)) >= Cardinality(Entries(saved, a))
                          /\ Cardinality(Entries(saved', a)) \in Nat
    <3>1. CASE SameEntries(saved)
      BY <1>1, <3>1 DEF SameEntries
    <3>2. CASE \E a \in Action :
                 saved'.journal = Append(saved.journal, [action |-> a, phase |-> "prepare"])
      <4>1. PICK a \in Action :
              saved'.journal = Append(saved.journal, [action |-> a, phase |-> "prepare"])
        BY <3>2
      <4>2. \A b \in Action : Cardinality(Entries(saved', b)) =
                                 Cardinality(Entries(saved, b)) + (IF b = a THEN 1 ELSE 0)
        BY <2>2, <4>1, EntriesAppended
      <4> QED BY <1>1, <4>2
    <3> QED BY <1>11, <3>1, <3>2 DEF Drops
  <2>4. EntryInv'
    <3> SUFFICES ASSUME NEW a \in Action
                 PROVE  begun'[a] <= Cardinality(Entries(saved', a)) + lost'[a]
      BY DEF EntryInv
    <3>1. begun[a] <= Cardinality(Entries(saved, a)) + lost[a]
      BY DEF AccountInv, EntryInv
    <3> QED BY <1>1, <2>2, <2>3, <3>1
  <2>5. ASSUME NEW a \in Action, a = saved'.approved PROVE Owed(a) >= begun[a] + 1
    <3>1. CASE saved.approved = a
      BY <1>1, <3>1 DEF Owed
    <3>2. CASE saved.approved # a
      <4>1. c \in Consuming(a)
        BY <1>1, <1>11, <2>5, <3>2 DEF Drops, Consuming
      <4>2. Cardinality(Consuming(a)) # 0
        BY <1>1, <4>1, FS_EmptySet
      <4> QED BY <1>1, <4>2 DEF Owed
    <3> QED BY <3>1, <3>2
  <2> QED BY <1>10, <2>1, <2>2, <2>4, <2>5
<1>12. ASSUME NEW c \in Coroutine, EntersAnew(c) \/ DropsAnew(c) PROVE AccountInv'
  <2>1. \A d \in Coroutine : run[d] = Idle
    BY <1>12 DEF EntersAnew, DropsAnew, BaseInv, TaskInv
  <2>2. \A a \in Action : Consuming(a)' = {}
    <3>1. CASE EntersAnew(c)
      <4>1. PICK r \in Call : r.at # "consume" /\ run' = [run EXCEPT ![c] = r]
        BY <3>1, LandsCall DEF EntersAnew
      <4> QED BY <2>1, <4>1, IdleIs DEF Consuming, BaseInv, TypeInv
    <3>2. CASE DropsAnew(c)
      BY <3>2, IdleIs DEF DropsAnew, Leaves, Consuming
    <3> QED BY <1>12, <3>1, <3>2
  <2>3. UNCHANGED <<begun, paid>> /\ BeginsLife /\ saved'.approved = 0
    BY <1>12 DEF EntersAnew, DropsAnew, Leaves, Lands, Settles, history
  <2>4. \A a \in Action : Entries(saved', a) = {}
    <3>1. CASE EntersAnew(c)
      BY <3>1, NoTaskIs DEF EntersAnew, Lands, Settles, SameEntries, Entries
    <3>2. CASE DropsAnew(c)
      BY <3>2 DEF DropsAnew, Entries
    <3> QED BY <1>12, <3>1, <3>2
  <2>5. EntryInv'
    <3> SUFFICES ASSUME NEW a \in Action
                 PROVE  begun'[a] <= Cardinality({}) + lost'[a]
      BY <2>4 DEF EntryInv
    <3>1. begun[a] <= Cardinality(Entries(saved, a)) + lost[a]
      BY DEF AccountInv, EntryInv
    <3>2. lost'[a] = lost[a] + Cardinality(Entries(saved, a)) /\ begun'[a] = begun[a]
      BY <2>3 DEF BeginsLife
    <3> QED BY <1>1, <3>1, <3>2, FS_EmptySet
  <2> QED BY <1>1, <1>10, <2>2, <2>3, <2>5
<1> QED BY <1>2, <1>3, <1>4, <1>5, <1>6, <1>7, <1>8, <1>9, <1>11, <1>12, Kinds

(* Every execution has a journal entry of its own, saved before it began,  *)
(* in the last checkpoint or in one a start wrote over; and none of an     *)
(* action to be confirmed begins without a token of its own - however many *)
(* calls overlap, and however often and wherever the process crashes.      *)
THEOREM ExecutionsHaveReasons == Spec => []ExecutionsAccounted
PROOF
<1>1. Init => AccountInv
  BY AccountInit
<1>2. BaseInv /\ AccountInv /\ [Next]_vars => AccountInv'
  BY AccountStep
<1>3. BaseInv /\ AccountInv => ExecutionsAccounted
  <2> SUFFICES ASSUME BaseInv, AccountInv, NEW a \in Action
               PROVE  /\ begun[a] <= Cardinality(Entries(saved, a)) + lost[a]
                      /\ Decision[a] = "confirm" => begun[a] <= paid[a]
    BY DEF ExecutionsAccounted
  <2>1. begun[a] \in Nat /\ paid[a] \in Nat /\ Cardinality(Consuming(a)) \in Nat
    BY FS_CardinalityType DEF BaseInv, TypeInv, AccountInv, TokenInv
  <2> QED BY <2>1 DEF AccountInv, EntryInv, TokenInv, Owed
<1> QED BY <1>1, <1>2, <1>3, BaseHolds, PTL DEF Spec

-----------------------------------------------------------------------------
(* A completed task did everything.                                        *)

AllIdle == \A c \in Coroutine : run[c] = Idle

\* The action whose turn it is may have been begun since the last crash only
\* while the executor is at it, or when the task ended over it.
Tried == (\E c \in Coroutine : run[c].at = "execute") \/ (Ended(saved) /\ AllIdle)

CallsInv ==
  /\ \A c, d \in Coroutine : run[c] # Idle /\ run[d] # Idle => c = d
  /\ \A c \in Coroutine :
       run[c].at \in {"check", "issue", "execute", "consume"} => run[c].action = saved.cursor + 1

\* An action is done with when its answer was good, or failed the task for good.
Done(a) == answer[a] \in {"ok", "torn"} \/ (saved.state = "failed" /\ AllIdle)

\* In this life the action is still to be begun, or a crash has allowed it once more.
Fresh(a) == saved.state = "none" \/ begun[a] < starts + interrupted[a]

CountInv ==
  /\ saved.cursor <= Len(Decision)
  /\ \A a \in Action :
       /\ begun[a] <= starts + interrupted[a]
       /\ a > saved.cursor + 1 => Fresh(a)
       /\ a = saved.cursor + 1 => Fresh(a) \/ Tried
       /\ a <= saved.cursor => Done(a)

ProgressInv == ~overlapped => CallsInv /\ CountInv

\* At the start nothing was begun.
LEMMA ProgressInit == ASSUME Init PROVE ProgressInv
  BY NoTaskIs, IdleIs, DecisionLen DEF Init, ProgressInv, CallsInv, CountInv, Fresh, Done, Tried, AllIdle

\* What a call that lands leaves to itself and to the others.
LEMMA CallsLanded ==
  ASSUME BaseInv, NEW s, NEW c \in Coroutine, NEW k \in Nat, NEW ap,
         Lands(s, c, k, ap) \/ LandsEnded(s, c, k, ap),
         \A d \in Coroutine : d # c => run[d] = Idle
  PROVE  /\ CallsInv' /\ saved'.cursor = k
         /\ \A d \in Coroutine : run'[d].at # "execute"
         /\ LandsEnded(s, c, k, ap) => Ended(saved') /\ AllIdle'
PROOF
<1>1. saved'.cursor = k /\ (LandsEnded(s, c, k, ap) => Ended(saved'))
  BY DEF Lands, LandsEnded, Settles, Ended
<1>2. PICK r \in Call :
        /\ run' = [run EXCEPT ![c] = r]
        /\ \/ r = Idle
           \/ r.at = "model"
           \/ r.at = "check" /\ r.action = k + 1
        /\ LandsEnded(s, c, k, ap) => r = Idle
  <2>1. CASE LandsEnded(s, c, k, ap)
    BY <2>1, IdleIs DEF LandsEnded
  <2>2. CASE ~LandsEnded(s, c, k, ap)
    BY <2>2 DEF Lands
  <2> QED BY <2>1, <2>2
<1>3. \A d \in Coroutine : run'[d] = IF d = c THEN r ELSE Idle
  BY <1>2 DEF BaseInv, TypeInv
<1> QED BY <1>1, <1>2, <1>3, IdleIs DEF CallsInv, AllIdle

\* Every step keeps count, until two calls are in progress together.
LEMMA ProgressStep ==
  ASSUME BaseInv, ProgressInv, [Next]_vars
  PROVE  ProgressInv'
PROOF
<1>0. CASE UNCHANGED vars
  BY <1>0 DEF vars, ProgressInv, CallsInv, CountInv, Fresh, Done, Tried, AllIdle, Ended, Exists
<1> SUFFICES ASSUME Next, ~overlapped' PROVE CallsInv' /\ CountInv'
  BY <1>0 DEF ProgressInv
<1>1. /\ saved.cursor \in Nat /\ starts \in Nat
      /\ \A a \in Action : begun[a] \in Nat /\ interrupted[a] \in Nat /\ a \in Nat
      /\ Len(Decision) \in Nat /\ Action = 1..Len(Decision)
      /\ Exists => saved.state # "none"
  <2>1. /\ saved \in Task /\ begun \in [Action -> Nat] /\ starts \in Nat
        /\ interrupted \in [Action -> Nat] /\ (Exists => saved.state # "none")
    BY DEF BaseInv, TypeInv, SavedIsKnown, Exists
  <2>2. \A a \in Action : begun[a] \in Nat /\ interrupted[a] \in Nat /\ a \in Nat
    BY <2>1, DecisionLen
  <2>3. saved.cursor \in Nat
    BY <2>1 DEF Task
  <2> QED BY <2>1, <2>2, <2>3, DecisionLen
<1>2. ~overlapped
  <2>1. ASSUME NEW c \in Coroutine,
               Enters(c) \/ EntersAnew(c) \/ Approve(c) \/ DropsAnew(c) \/ Drops(c)
        PROVE  ~overlapped
    BY <2>1 DEF Enters, EntersAnew, Approve, DropsAnew, Drops, Begins
  <2>2. ASSUME NEW c \in Coroutine,
               Rests(c) \/ Falls(c) \/ Asks(c) \/ Runs(c) \/ Resumes(c) \/ Advances(c)
        PROVE  ~overlapped
    BY <2>2 DEF Rests, Falls, Asks, Runs, Resumes, Advances
  <2>3. ASSUME Touches \/ Crash \/ Recovery PROVE ~overlapped
    BY <2>3 DEF Touches, Crash, Recovery
  <2> QED BY <2>1, <2>2, <2>3, Kinds
<1>3. CallsInv /\ CountInv
  BY <1>2 DEF ProgressInv
<1>4. ASSUME NEW c \in Coroutine, run[c].at # "idle"
      PROVE  /\ \A d \in Coroutine : d # c => run[d] = Idle /\ run[d].at = "idle"
             /\ ~AllIdle
  BY <1>3, <1>4, IdleIs DEF CallsInv, AllIdle
<1>5. ASSUME NEW c \in Coroutine, Begins(c) PROVE \A d \in Coroutine : run[d] = Idle
  BY <1>5 DEF Begins
<1>6. ASSUME \E c \in Coroutine : run[c].at # "idle" \/ ~Ended(saved)
      PROVE  \A a \in Action : a <= saved.cursor => answer[a] \in {"ok", "torn"}
  BY <1>3, <1>4, <1>6 DEF CountInv, Done, Ended
<1>7. ASSUME NEW c \in Coroutine, Enters(c) \/ Rests(c) \/ Resumes(c)
      PROVE  CallsInv' /\ CountInv'
  <2>1. ~Tried
    <3>1. CASE Enters(c)
      BY <1>5, <3>1, IdleIs DEF Enters, Tried
    <3>2. CASE Rests(c) \/ Resumes(c)
      BY <1>4, <3>2, IdleIs DEF Rests, Resumes, Tried, AllIdle
    <3> QED BY <1>7, <3>1, <3>2
  <2>2. \A d \in Coroutine : d # c => run[d] = Idle
    BY <1>4, <1>5, <1>7 DEF Enters, Rests, Resumes
  <2>3. UNCHANGED <<begun, starts, interrupted, answer>> /\ Exists /\ \E ap : Lands(saved, c, saved.cursor, ap)
    BY <1>7 DEF Enters, Rests, Resumes, history, life
  <2>4. /\ CallsInv' /\ saved'.cursor = saved.cursor
        /\ \A d \in Coroutine : run'[d].at # "execute"
    BY <1>1, <2>2, <2>3, CallsLanded
  <2>5. \A a \in Action : a <= saved.cursor => answer[a] \in {"ok", "torn"}
    BY <1>6, <1>7 DEF Enters, Rests, Resumes
  <2>6. /\ \A a \in Action : a <= saved.cursor => Done(a)'
        /\ \A a \in Action : Fresh(a) => Fresh(a)'
    BY <1>1, <2>3, <2>5 DEF Fresh, Done
  <2>7. CountInv'
    BY <1>1, <1>3, <2>1, <2>3, <2>4, <2>6 DEF CountInv
  <2> QED BY <2>4, <2>7
<1>8. ASSUME NEW c \in Coroutine, EntersAnew(c) PROVE CallsInv' /\ CountInv'
  <2>1. \A d \in Coroutine : run[d] = Idle
    BY <1>5, <1>8 DEF EntersAnew
  <2>2. /\ UNCHANGED <<begun, interrupted>> /\ ~Exists /\ Lands(NoTask, c, 0, 0)
        /\ starts' = starts + 1
    BY <1>8 DEF EntersAnew, history, BeginsLife
  <2>3. CallsInv' /\ saved'.cursor = 0
    BY <2>1, <2>2, CallsLanded
  <2>4. CountInv'
    BY <1>1, <1>3, <2>2, <2>3 DEF CountInv, Fresh
  <2> QED BY <2>3, <2>4
<1>9. ASSUME NEW c \in Coroutine, Falls(c) PROVE CallsInv' /\ CountInv'
  <2>1. \A d \in Coroutine : d # c => run[d] = Idle
    BY <1>4, <1>9 DEF Falls
  <2>2. /\ UNCHANGED <<begun, starts, interrupted>> /\ Exists
        /\ \E ap : LandsEnded(saved, c, saved.cursor, ap)
    BY <1>9 DEF Falls, history
  <2>3. /\ CallsInv' /\ saved'.cursor = saved.cursor
        /\ \A d \in Coroutine : run'[d].at # "execute"
        /\ Ended(saved') /\ AllIdle'
    BY <1>1, <2>1, <2>2, CallsLanded
  <2>4. Tried'
    BY <2>3 DEF Tried, Ended
  <2>5. \A a \in Action : a <= saved.cursor => answer'[a] \in {"ok", "torn"}
    <3>1. \A a \in Action : a <= saved.cursor => answer[a] \in {"ok", "torn"}
      BY <1>6, <1>9 DEF Falls
    <3>2. run[c].action = saved.cursor + 1
      BY <1>3, <1>9 DEF Falls, CallsInv
    <3>3. \A a \in Action : a <= saved.cursor => a # run[c].action
      BY <1>1, <3>2
    <3>4. UNCHANGED answer \/ answer' = [answer EXCEPT ![run[c].action] = "failed"]
      BY <1>9 DEF Falls, Answers
    <3> QED BY <3>1, <3>3, <3>4 DEF BaseInv, TypeInv
  <2>6. /\ \A a \in Action : a <= saved.cursor => Done(a)'
        /\ \A a \in Action : Fresh(a) => Fresh(a)'
    BY <1>1, <2>2, <2>5 DEF Fresh, Done
  <2>7. CountInv'
    BY <1>1, <1>3, <2>2, <2>3, <2>4, <2>6 DEF CountInv
  <2> QED BY <2>3, <2>7
<1>10. ASSUME NEW c \in Coroutine, Approve(c) PROVE CallsInv' /\ CountInv'
  <2> DEFINE a == task.cursor + 1
             r == [Idle EXCEPT !.at = "consume", !.action = a]
  <2>1. a = saved.cursor + 1 /\ ~Ended(saved) /\ Exists
    BY <1>10 DEF Approve, BaseInv, SavedIsKnown, Exists, Ended
  <2>2. r \in Call /\ r.at = "consume" /\ r.action = a
    <3>1. "consume" \in Place /\ a \in Nat
      BY <1>1, <2>1 DEF Place
    <3> QED BY <3>1, CallAt, Zenon
  <2>3. /\ UNCHANGED <<saved, begun, starts, interrupted, answer>> /\ run' = [run EXCEPT ![c] = r]
        /\ Begins(c)
    BY <1>10 DEF Approve, life
  <2>4. \A d \in Coroutine : run[d] = Idle
    BY <1>5, <2>3
  <2> HIDE DEF r, a
  <2>5. \A d \in Coroutine : run'[d] = IF d = c THEN r ELSE Idle
    BY <2>3, <2>4 DEF BaseInv, TypeInv
  <2>6. CallsInv'
    BY <2>1, <2>2, <2>3, <2>5, IdleIs DEF CallsInv
  <2>7. ~Tried /\ \A d \in Coroutine : run'[d].at # "execute"
    BY <2>1, <2>2, <2>4, <2>5, IdleIs DEF Tried
  <2>8. \A b \in Action : b <= saved.cursor => answer[b] \in {"ok", "torn"}
    BY <1>6, <2>1
  <2>9. /\ \A b \in Action : b <= saved.cursor => Done(b)'
        /\ \A b \in Action : Fresh(b) => Fresh(b)'
    BY <2>3, <2>8 DEF Fresh, Done
  <2>10. CountInv'
    BY <1>1, <1>3, <2>3, <2>7, <2>9 DEF CountInv
  <2> QED BY <2>6, <2>10
<1>11. ASSUME NEW c \in Coroutine, Asks(c) \/ Runs(c) PROVE CallsInv' /\ CountInv'
  <2> DEFINE a == run[c].action
  <2>1. a \in Action /\ a = saved.cursor + 1 /\ run[c].at = "check" /\ Exists
    BY <1>3, <1>11 DEF Asks, Runs, BaseInv, ActionInv, HasAction, CallsInv
  <2>2. \A d \in Coroutine : d # c => run[d] = Idle /\ run[d].at = "idle"
    BY <1>4, <2>1
  <2>3. ~Tried
    BY <1>4, <2>1, <2>2, IdleIs DEF Tried
  <2>4. PICK r \in Call : /\ r.action = a /\ run' = [run EXCEPT ![c] = r]
                          /\ r.at = IF Asks(c) THEN "issue" ELSE "execute"
    <3>1. CASE Asks(c)
      BY <3>1 DEF Asks, AsksForToken
    <3>2. CASE ~Asks(c)
      BY <1>11, <3>2 DEF Runs, Executes
    <3> QED BY <3>1, <3>2
  <2>5. saved'.cursor = saved.cursor /\ UNCHANGED <<starts, interrupted, answer>>
    BY <1>11 DEF Asks, Runs, AsksForToken, Executes, life
  <2>6. begun' = IF Asks(c) THEN begun ELSE [begun EXCEPT ![a] = @ + 1]
    <3>1. CASE Asks(c)
      BY <3>1 DEF Asks, AsksForToken
    <3>2. CASE ~Asks(c)
      BY <1>11, <3>2 DEF Runs, Executes
    <3> QED BY <3>1, <3>2
  <2> HIDE DEF a
  <2>7. \A d \in Coroutine : run'[d] = IF d = c THEN r ELSE Idle
    BY <2>2, <2>4 DEF BaseInv, TypeInv
  <2>8. CallsInv'
    BY <2>1, <2>4, <2>5, <2>7, IdleIs DEF CallsInv
  <2>9. (\E d \in Coroutine : run'[d].at = "execute") <=> ~Asks(c)
    BY <2>4, <2>7, IdleIs
  <2>10. \A b \in Action : begun'[b] = begun[b] + (IF b = a /\ ~Asks(c) THEN 1 ELSE 0)
    BY <1>1, <2>1, <2>6 DEF BaseInv, TypeInv
  <2>11. ~Asks(c) => Tried'
    BY <2>9 DEF Tried
  <2>12. \A b \in Action : b <= saved.cursor => Done(b)'
    <3>1. \A b \in Action : b <= saved.cursor => answer[b] \in {"ok", "torn"}
      BY <1>6, <2>1
    <3> QED BY <2>5, <3>1 DEF Done
  <2>13. CountInv'
    <3> SUFFICES ASSUME NEW b \in Action
                 PROVE  /\ begun'[b] <= starts' + interrupted'[b]
                        /\ b > saved'.cursor + 1 => begun'[b] < starts' + interrupted'[b]
                        /\ b = saved'.cursor + 1 => begun'[b] < starts' + interrupted'[b] \/ Tried'
      BY <1>3, <2>5, <2>12 DEF CountInv, Fresh
    <3>1. /\ begun[b] <= starts + interrupted[b]
          /\ b = saved.cursor + 1 => begun[b] < starts + interrupted[b]
          /\ b > saved.cursor + 1 => begun[b] < starts + interrupted[b]
      BY <1>1, <1>3, <2>1, <2>3 DEF CountInv, Fresh
    <3>2. /\ begun[b] \in Nat /\ b \in Nat /\ interrupted[b] \in Nat
          /\ begun'[b] = begun[b] + (IF b = a /\ ~Asks(c) THEN 1 ELSE 0)
      BY <1>1, <2>10
    <3> QED BY <1>1, <2>1, <2>5, <2>9, <2>11, <3>1, <3>2
  <2> QED BY <2>8, <2>13
<1>12. ASSUME NEW c \in Coroutine, Advances(c) PROVE CallsInv' /\ CountInv'
  <2>1. /\ run[c].at = "execute" /\ run[c].action = saved.cursor + 1
        /\ saved.cursor + 1 \in Action /\ Exists
    BY <1>3, <1>12 DEF Advances, BaseInv, ActionInv, HasAction, CallsInv
  <2>2. \A d \in Coroutine : d # c => run[d] = Idle
    BY <1>4, <2>1
  <2>3. UNCHANGED <<begun, starts, interrupted>> /\ \E ap : Lands(saved, c, saved.cursor + 1, ap)
    BY <1>12 DEF Advances, history
  <2>4. /\ CallsInv' /\ saved'.cursor = saved.cursor + 1
        /\ \A d \in Coroutine : run'[d].at # "execute"
    <3>1. saved.cursor + 1 \in Nat
      BY <1>1
    <3> QED BY <2>2, <2>3, <3>1, CallsLanded
  <2>5. \A a \in Action : a <= saved.cursor + 1 => Done(a)'
    <3>1. \A a \in Action : a <= saved.cursor => answer[a] \in {"ok", "torn"}
      BY <1>6, <2>1
    <3>2. CASE Answers(c, "ok")
      <4>1. \A a \in Action : answer'[a] = IF a = saved.cursor + 1 THEN "ok" ELSE answer[a]
        BY <2>1, <3>2 DEF Answers, BaseInv, TypeInv
      <4>2. \A a \in Action : a <= saved.cursor + 1 => a = saved.cursor + 1 \/ a <= saved.cursor
        BY <1>1
      <4> QED BY <3>1, <4>1, <4>2 DEF Done
    <3>3. CASE task'.state = "failed" /\ run' = [run EXCEPT ![c] = Idle]
      <4>1. saved'.state = "failed"
        BY <1>12, <3>3 DEF Advances, Lands, Settles
      <4>2. AllIdle'
        BY <2>2, <3>3 DEF AllIdle, BaseInv, TypeInv
      <4> QED BY <4>1, <4>2 DEF Done
    <3> QED BY <1>12, <3>2, <3>3 DEF Advances
  <2>6. \A a \in Action : Fresh(a) => Fresh(a)'
    BY <1>1, <2>1, <2>3 DEF Fresh
  <2>7. CountInv'
    BY <1>1, <1>3, <2>1, <2>3, <2>4, <2>5, <2>6 DEF CountInv
  <2> QED BY <2>4, <2>7
<1>13. ASSUME Touches PROVE CallsInv' /\ CountInv'
  <2>1. saved'.cursor = saved.cursor /\ UNCHANGED <<run, begun, starts, interrupted, answer>> /\ Exists /\ Exists'
    BY <1>13 DEF Touches, Stays, Carries, history, life, Exists
  <2>2. /\ Ended(saved) => Ended(saved')
        /\ saved.state = "failed" => saved'.state = "failed"
    BY <1>13 DEF Touches, Stays, Ended
  <2>3. CallsInv' /\ (Tried => Tried') /\ (\A a : Done(a) => Done(a)')
        /\ \A a \in Action : Fresh(a) => Fresh(a)'
    BY <1>1, <1>3, <2>1, <2>2 DEF CallsInv, Tried, Done, Fresh, AllIdle, Ended
  <2>4. CountInv'
    BY <1>1, <1>3, <2>1, <2>3 DEF CountInv
  <2> QED BY <2>3, <2>4
<1>18. ASSUME NEW t, Interrupts(t) PROVE \A a \in Action :
         /\ interrupted'[a] \in Nat /\ interrupted'[a] >= interrupted[a]
         /\ (\E c \in Coroutine : run[c].at = "execute" /\ run[c].action = a) /\ t.cursor < a
               => interrupted'[a] = interrupted[a] + 1
  BY <1>1, <1>18 DEF Interrupts, At
<1>19. \A a \in Action : begun[a] <= starts + interrupted[a]
  BY <1>3 DEF CountInv
<1>14. ASSUME Crash PROVE CallsInv' /\ CountInv'
  <2>1. /\ UNCHANGED <<saved, begun, starts, answer>> /\ Interrupts(saved) /\ Exists
        /\ \A c \in Coroutine : run'[c] = Idle
    BY <1>14 DEF Crash, Dies, life
  <2>2. CallsInv' /\ AllIdle'
    BY <2>1, IdleIs DEF CallsInv, AllIdle
  <2>3. \A a : Done(a) => Done(a)'
    BY <2>1, <2>2 DEF Done
  <2>4. ASSUME NEW a \in Action, a = saved.cursor + 1, ~Fresh(a) PROVE Fresh(a)' \/ Tried'
    <3>1. begun[a] <= starts + interrupted[a] /\ Tried
      BY <1>3, <2>4 DEF CountInv
    <3>2. CASE Ended(saved) /\ AllIdle
      BY <2>1, <2>2, <3>2 DEF Tried, Ended
    <3>3. CASE ~(Ended(saved) /\ AllIdle)
      <4>1. PICK c \in Coroutine : run[c].at = "execute"
        BY <3>1, <3>3 DEF Tried
      <4>2. run[c].action = a /\ saved.cursor < a
        BY <1>1, <1>3, <2>4, <4>1 DEF CallsInv
      <4>3. interrupted'[a] = interrupted[a] + 1
        BY <1>18, <2>1, <4>1, <4>2
      <4> QED BY <1>1, <2>1, <3>1, <4>3 DEF Fresh
    <3> QED BY <3>2, <3>3
  <2>5. \A a \in Action : interrupted'[a] \in Nat /\ interrupted'[a] >= interrupted[a]
    BY <1>18, <2>1
  <2>6. \A a \in Action : Fresh(a) => Fresh(a)'
    BY <1>1, <2>1, <2>5 DEF Fresh
  <2>7. \A a \in Action : begun'[a] <= starts' + interrupted'[a]
    BY <1>1, <1>19, <2>1, <2>5
  <2>8. CountInv'
    BY <1>1, <1>3, <2>1, <2>3, <2>4, <2>6, <2>7 DEF CountInv
  <2> QED BY <2>2, <2>8
<1>15. ASSUME NEW c \in Coroutine, Drops(c) PROVE CallsInv' /\ CountInv'
  <2>1. /\ UNCHANGED <<begun, starts>> /\ Interrupts(saved') /\ saved'.state # "none" /\ Exists
        /\ \A d \in Coroutine : run'[d] = Idle
    BY <1>15 DEF Drops, Leaves
  <2>2. CallsInv'
    BY <2>1, IdleIs DEF CallsInv
  <2>3. \A a \in Action : a <= saved.cursor => answer[a] \in {"ok", "torn"}
    BY <1>3, <1>15 DEF Drops, CountInv, Done, AllIdle, Ended
  <2>4. /\ saved'.cursor <= Len(Decision) /\ saved'.cursor \in Nat
        /\ \A a \in Action : a <= saved'.cursor => answer'[a] \in {"ok", "torn"}
    <3>1. CASE saved'.cursor = saved.cursor /\ UNCHANGED answer
      BY <1>1, <1>3, <2>3, <3>1 DEF CountInv
    <3>2. CASE run[c].at = "execute" /\ saved'.cursor = saved.cursor /\ Answers(c, "failed")
      <4>1. run[c].action = saved.cursor + 1
        BY <1>3, <3>2 DEF CallsInv
      <4>2. \A a \in Action : a <= saved.cursor => a # run[c].action
        BY <1>1, <4>1
      <4>3. \A a \in Action : a <= saved.cursor => answer'[a] = answer[a]
        BY <3>2, <4>2 DEF Answers, BaseInv, TypeInv
      <4> QED BY <1>1, <1>3, <2>3, <3>2, <4>3 DEF CountInv
    <3>3. CASE /\ run[c].at = "execute" /\ saved'.cursor = saved.cursor + 1
               /\ \E how \in {"ok", "torn"} : Answers(c, how)
      <4>1. run[c].action = saved.cursor + 1 /\ saved.cursor + 1 \in Action
        BY <1>3, <3>3 DEF CallsInv, BaseInv, ActionInv, HasAction
      <4>2. PICK how \in {"ok", "torn"} : Answers(c, how)
        BY <3>3
      <4>3. \A a \in Action : answer'[a] = IF a = saved.cursor + 1 THEN how ELSE answer[a]
        BY <4>1, <4>2 DEF Answers, BaseInv, TypeInv
      <4>4. \A a \in Action : a <= saved.cursor + 1 => a = saved.cursor + 1 \/ a <= saved.cursor
        BY <1>1
      <4>5. \A a \in Action : a <= saved'.cursor => answer'[a] \in {"ok", "torn"}
        BY <2>3, <3>3, <4>3, <4>4
      <4> QED BY <1>1, <3>3, <4>1, <4>5
    <3> QED BY <1>15, <3>1, <3>2, <3>3 DEF Drops
  <2>5. \A a \in Action : interrupted'[a] \in Nat /\ interrupted'[a] >= interrupted[a]
    BY <1>18, <2>1
  <2>6. \A a \in Action : Fresh(a) => Fresh(a)'
    BY <1>1, <2>1, <2>5 DEF Fresh
  <2>7. \A a \in Action : begun'[a] <= starts' + interrupted'[a]
    BY <1>1, <1>19, <2>1, <2>5
  <2>8. ASSUME NEW a \in Action, a = saved'.cursor + 1 PROVE Fresh(a)'
    <3>1. saved'.cursor = saved.cursor \/ saved'.cursor = saved.cursor + 1
      BY <1>15 DEF Drops
    <3>2. CASE Fresh(a)
      BY <2>6, <3>2
    <3>3. CASE ~Fresh(a)
      <4>1. a = saved.cursor + 1
        BY <1>1, <1>3, <2>8, <3>1, <3>3 DEF CountInv
      <4>2. Tried /\ ~(Ended(saved) /\ AllIdle)
        BY <1>3, <1>15, <3>3, <4>1 DEF CountInv, Drops, AllIdle
      <4>3. PICK d \in Coroutine : run[d].at = "execute"
        BY <4>2 DEF Tried
      <4>4. run[d].action = a /\ saved'.cursor < a
        BY <1>1, <1>3, <2>4, <2>8, <4>1, <4>3 DEF CallsInv
      <4>5. interrupted'[a] = interrupted[a] + 1
        BY <1>18, <2>1, <4>3, <4>4
      <4>6. begun[a] <= starts + interrupted[a]
        BY <1>3 DEF CountInv
      <4> QED BY <1>1, <2>1, <4>5, <4>6 DEF Fresh
    <3> QED BY <3>2, <3>3
  <2>9. \A a \in Action : a > saved'.cursor + 1 => a > saved.cursor + 1
    BY <1>1, <1>15 DEF Drops
  <2>10. CountInv'
    BY <1>3, <2>4, <2>6, <2>7, <2>8, <2>9 DEF CountInv, Done
  <2> QED BY <2>2, <2>10
<1>16. ASSUME NEW c \in Coroutine, DropsAnew(c) PROVE CallsInv' /\ CountInv'
  <2>1. /\ UNCHANGED begun /\ starts' = starts + 1 /\ Interrupts(saved') /\ saved'.cursor = 0
        /\ \A d \in Coroutine : run'[d] = Idle
    BY <1>16 DEF DropsAnew, Leaves, BeginsLife
  <2>2. CallsInv'
    BY <2>1, IdleIs DEF CallsInv
  <2>3. \A a \in Action : interrupted'[a] \in Nat /\ interrupted'[a] >= interrupted[a]
    BY <1>18, <2>1
  <2>4. \A a \in Action : begun'[a] < starts' + interrupted'[a]
    BY <1>1, <1>19, <2>1, <2>3
  <2>5. CountInv'
    BY <1>1, <2>1, <2>3, <2>4 DEF CountInv, Fresh
  <2> QED BY <2>2, <2>5
<1>17. ASSUME Recovery PROVE CallsInv' /\ CountInv'
  <2>1. UNCHANGED <<saved, run, begun, starts, interrupted, answer>> /\ ~Exists
    BY <1>17 DEF Recovery, history, life
  <2>2. CallsInv' /\ (Tried => Tried') /\ \A a : Done(a) => Done(a)'
    BY <1>3, <2>1 DEF CallsInv, Done, Tried, AllIdle, Ended
  <2>3. \A a : Fresh(a) => Fresh(a)'
    BY <2>1 DEF Fresh
  <2>4. CountInv'
    BY <1>1, <1>3, <2>1, <2>2, <2>3 DEF CountInv
  <2> QED BY <2>2, <2>4
<1> QED BY <1>7, <1>8, <1>9, <1>10, <1>11, <1>12, <1>13, <1>14, <1>15, <1>16, <1>17, Kinds

(* As long as the host never had two calls in progress, a completed task   *)
(* has a good answer of the executor for each of its actions since it was  *)
(* started, or a failed one the process died over between two saves; and   *)
(* each was begun once per start, and again only for a crash between its   *)
(* prepared entry and its commit.                                          *)
THEOREM CompletionIsWork == Spec => []CompletedDidAll
PROOF
<1>1. Init => ProgressInv
  BY ProgressInit
<1>2. BaseInv /\ ProgressInv /\ [Next]_vars => ProgressInv'
  BY ProgressStep
<1>3. BaseInv /\ ProgressInv => CompletedDidAll
  <2> SUFFICES ASSUME BaseInv, ProgressInv, task.state = "completed", ~overlapped
               PROVE  /\ task.cursor = Len(Decision)
                      /\ \A a \in Action : answer[a] \in {"ok", "torn"} /\ begun[a] <= starts + interrupted[a]
    BY DEF CompletedDidAll
  <2>1. saved.state = "completed" /\ saved.cursor = task.cursor
    BY DEF BaseInv, SavedIsKnown, Exists
  <2>2. saved.cursor >= Len(Decision) /\ saved.cursor \in Nat
        /\ Action = 1..Len(Decision) /\ Len(Decision) \in Nat
    BY <2>1, DecisionLen DEF BaseInv, SavedIsKnown, TypeInv, Task
  <2>3. CountInv
    BY DEF ProgressInv
  <2> QED BY <2>1, <2>2, <2>3 DEF CountInv, Done
<1> QED BY <1>1, <1>2, <1>3, BaseHolds, PTL DEF Spec

=============================================================================
