------------------------------ MODULE AgentLoop ------------------------------
(***************************************************************************)
(* PiAgentLoop of agent-runtime/reference/pi_runtime.js for one task, with *)
(* the policy's confirmation tokens (FixturePolicy of runtime.js).  A call *)
(* runs without interruption up to its next await; whatever the host calls *)
(* meanwhile - step, approve, ackThrough, monitor, checkpoint, cancel -    *)
(* finds the task as the call left it and changes it under the call's      *)
(* feet.  The process may crash between any two of these stretches, or     *)
(* between two saves of one; then the host recovers the task from its last *)
(* checkpoint, or starts it again and writes over that checkpoint.         *)
(*                                                                         *)
(* Events are counted, not kept: only how many of them the consumer has    *)
(* not acknowledged steers the loop.  The model proposes the same actions  *)
(* in every turn.                                                          *)
(***************************************************************************)
EXTENDS Integers, Sequences, FiniteSets

CONSTANTS
  Decision,         \* action number -> the policy's answer: allow, confirm, deny
  Coroutine,        \* the calls that may be in progress at a time
  MaxOutstanding,   \* maxOutstandingEvents
  MaxToken,         \* bound: confirmation tokens issued
  MaxCrashes        \* bound: crashes

ASSUME AgentAssumption ==
  /\ Decision \in Seq({"allow", "confirm", "deny"}) /\ Decision # << >>
  /\ MaxOutstanding \in Nat /\ MaxOutstanding >= 2
  /\ MaxToken \in Nat /\ MaxCrashes \in Nat

Action == 1..Len(Decision)

VARIABLES
  task,       \* the task in memory, NoTask before start and after a crash
  saved,      \* its last checkpoint
  run,        \* coroutine -> where it awaits, and what it holds across the await
  token,      \* the policy's live tokens: token number -> action
  issued,     \* tokens issued so far
  begun,      \* history: action -> executions begun
  paid,       \* history: action -> tokens consumed for it
  crashes,    \* crashes so far
  overlapped, \* history: two calls were in progress at once
  starts,     \* history: how often the task was started
  lost,       \* history: action -> its journal entries that a start wrote over
  answer,     \* history: action -> the executor's last answer since the last start
  interrupted \* history: action -> crashes before its commit, with the executor at it

vars == <<task, saved, run, token, issued, begun, paid, crashes, overlapped,
          starts, lost, answer, interrupted>>

NoTask == [state |-> "none", backpressure |-> FALSE, pending |-> 0, planned |-> FALSE,
           cursor |-> 0, confirmation |-> 0, approved |-> 0, journal |-> << >>]

Idle == [at |-> "idle", action |-> 0, entry |-> 0, token |-> 0]

Ended(t)  == t.state \in {"completed", "failed", "cancelled"}
Active(t) == t.state \in {"running", "awaiting_approval", "paused"}
Exists    == task.state # "none"

-----------------------------------------------------------------------------
(* Pieces of a stretch: functions from a task to a task.                   *)

\* _event: one more pending event; the watermark pauses the task.
Event(t) ==
  LET n == IF t.pending < MaxOutstanding THEN t.pending + 1 ELSE t.pending
      u == [t EXCEPT !.pending = n]
  IN  IF n >= MaxOutstanding /\ Active(t) /\ t.state # "awaiting_approval"
        THEN [u EXCEPT !.state = "paused", !.backpressure = TRUE] ELSE u

\* _fail
Failed(t) == Event([t EXCEPT !.state = "failed", !.backpressure = FALSE])

\* What a stretch ends with: the task saved, and the call awaiting at r.
Ends(c, t, r) ==
  /\ task' = t
  /\ saved' = t
  /\ run' = [run EXCEPT ![c] = r]

\* Slip: off by one.
LoopTopShort(c, t) ==
  IF t.cursor + 1 >= Len(Decision)
    THEN Ends(c, Event([t EXCEPT !.state = "completed"]), Idle)
  ELSE Ends(c, t, [Idle EXCEPT !.at = "check", !.action = t.cursor + 1])

\* The top of the loop: the next action is put to the policy, the task is
\* paused, or all is done.
LoopTop(c, t) ==
  IF t.cursor >= Len(Decision)
    THEN Ends(c, Event([t EXCEPT !.state = "completed"]), Idle)
  ELSE IF t.state = "paused"
    THEN Ends(c, t, Idle)
  ELSE Ends(c, t, [Idle EXCEPT !.at = "check", !.action = t.cursor + 1])

\* step, from its heartbeat on.
Step(c, t) ==
  IF Ended(t) \/ t.state \in {"awaiting_approval", "paused"} THEN Ends(c, t, Idle)
  ELSE LET u == Event(t) IN
       IF u.planned THEN LoopTop(c, u) ELSE Ends(c, u, [Idle EXCEPT !.at = "model"])

Begins(c) ==
  /\ run[c] = Idle
  /\ overlapped' = (overlapped \/ \E d \in Coroutine : run[d] # Idle)

policyVars == <<token, issued>>
history == <<begun, paid, crashes, interrupted>>
life == <<starts, lost, answer>>

-----------------------------------------------------------------------------
(* The calls of the host.                                                  *)
\* start makes a task of its own, whatever the checkpoint of that name holds.
Started == Event([Event([NoTask EXCEPT !.state = "created"]) EXCEPT !.state = "running"])

Entries(t, a) == {i \in DOMAIN t.journal : t.journal[i].action = a}

BeginsLife ==
  /\ starts' = starts + 1
  /\ lost' = [a \in Action |-> lost[a] + Cardinality(Entries(saved, a))]
  /\ answer' = [a \in Action |-> "none"]

\* Slip: a task in memory is no obstacle.
StartOver(c) ==
  /\ Begins(c)
  /\ Step(c, Started)
  /\ BeginsLife
  /\ UNCHANGED <<policyVars, history>>

Start(c) ==
  /\ ~Exists
  /\ Begins(c)
  /\ Step(c, Started)
  /\ BeginsLife
  /\ UNCHANGED <<policyVars, history>>

CallStep(c) ==
  /\ task.state = "running"
  /\ Begins(c)
  /\ Step(c, task)
  /\ UNCHANGED <<policyVars, history, life>>

\* approve, up to its await; the fixture policy consumes the token at once.
Approve(c) ==
  /\ task.state = "awaiting_approval"
  /\ task.confirmation # 0
  /\ task.cursor < Len(Decision)
  /\ task.confirmation \in DOMAIN token
  /\ token[task.confirmation] = task.cursor + 1
  /\ Begins(c)
  /\ token' = [k \in DOMAIN token \ {task.confirmation} |-> token[k]]
  /\ paid' = [paid EXCEPT ![task.cursor + 1] = @ + 1]
  /\ run' = [run EXCEPT ![c] = [Idle EXCEPT !.at = "consume", !.action = task.cursor + 1]]
  /\ UNCHANGED <<task, saved, issued, begun, crashes, interrupted, life>>

\* ackThrough: some of the pending events go.
Ack(n) ==
  /\ Exists
  /\ n < task.pending
  /\ LET t == [task EXCEPT !.pending = n] IN
       IF t.state = "paused" /\ t.backpressure /\ n < MaxOutstanding
         THEN /\ task' = Event([t EXCEPT !.state = "running", !.backpressure = FALSE])
              /\ saved' = task'
         ELSE task' = t /\ UNCHANGED saved
  /\ UNCHANGED <<run, policyVars, history, life, overlapped>>

\* monitor, when the heartbeat is too old.
MonitorExpires ==
  /\ task.state \in {"running", "paused"}
  /\ task' = Failed(task) /\ saved' = task'
  /\ UNCHANGED <<run, policyVars, history, life, overlapped>>

Checkpoint ==
  /\ Exists
  /\ task' = Event(task) /\ saved' = task'
  /\ UNCHANGED <<run, policyVars, history, life, overlapped>>

\* Slip: the checkpoint is left as it was.
CancelUnsaved ==
  /\ Exists /\ ~Ended(task)
  /\ task' = Event([task EXCEPT !.state = "cancelled", !.backpressure = FALSE])
  /\ UNCHANGED <<saved, run, policyVars, history, life, overlapped>>

Cancel ==
  /\ Exists /\ ~Ended(task)
  /\ task' = Event([task EXCEPT !.state = "cancelled", !.backpressure = FALSE])
  /\ saved' = task'
  /\ UNCHANGED <<run, policyVars, history, life, overlapped>>

-----------------------------------------------------------------------------
(* The stretches that follow an await.                                     *)
At(c, p) == run[c].at = p

Planned == Event([task EXCEPT !.planned = TRUE])

ModelAnswers(c) ==
  /\ At(c, "model")
  /\ \/ Ends(c, Failed(task), Idle)
     \/ IF Planned.state = "paused" THEN Ends(c, Planned, Idle) ELSE LoopTop(c, Planned)
  /\ UNCHANGED <<policyVars, history, life, overlapped>>

\* The policy's answer, or the approval of this very action in its place.
Approved(c, d) == d = "confirm" /\ task.approved = run[c].action
Answer(c, d) == IF Approved(c, d) THEN "allow" ELSE d

\* Slip: the approval is not used up.
AnsweredStill(c, d) == task

Answered(c, d) == IF Approved(c, d) THEN [task EXCEPT !.approved = 0] ELSE task

\* prepare is journalled and saved before the action is executed.
Prepared(t, a) ==
  Event([t EXCEPT !.journal = Append(@, [action |-> a, phase |-> "prepare"])])

PolicyAnswers(c) ==
  /\ At(c, "check")
  /\ \E d \in {Decision[run[c].action], "deny"} :
       CASE Answer(c, d) = "deny" ->
              Ends(c, Failed(Answered(c, d)), Idle) /\ UNCHANGED begun
         [] Answer(c, d) = "confirm" ->
              /\ run' = [run EXCEPT ![c].at = "issue"]
              /\ UNCHANGED <<task, saved, begun>>
         [] OTHER ->
              LET t == Prepared(Answered(c, d), run[c].action) IN
              /\ Ends(c, t, [run[c] EXCEPT !.at = "execute", !.entry = Len(t.journal)])
              /\ begun' = [begun EXCEPT ![run[c].action] = @ + 1]
  /\ UNCHANGED <<policyVars, paid, crashes, interrupted, life, overlapped>>

TokenIssued(c) ==
  /\ At(c, "issue")
  /\ issued < MaxToken
  /\ issued' = issued + 1
  /\ token' = [k \in DOMAIN token \cup {issued'} |->
                 IF k = issued' THEN run[c].action ELSE token[k]]
  /\ Ends(c, Event([task EXCEPT !.confirmation = issued', !.state = "awaiting_approval"]), Idle)
  /\ UNCHANGED <<history, life, overlapped>>

IssueFails(c) ==
  /\ At(c, "issue")
  /\ Ends(c, Failed(task), Idle)
  /\ UNCHANGED <<policyVars, history, life, overlapped>>

Granted(c) ==
  Event([task EXCEPT !.confirmation = 0, !.approved = run[c].action, !.state = "running"])

TokenConsumed(c) ==
  /\ At(c, "consume")
  /\ Step(c, Granted(c))
  /\ UNCHANGED <<policyVars, history, life, overlapped>>

Marked(c, phase) == [task EXCEPT !.journal[run[c].entry].phase = phase]

\* _heartbeat without force.
Heartbeat(t) == IF Active(t) THEN Event(t) ELSE t

Committed(c)  == Event([Marked(c, "commit") EXCEPT !.cursor = @ + 1])
RolledBack(c) == Marked(c, "rollback_pending")

Answers(c, how) == answer' = [answer EXCEPT ![run[c].action] = how]

ExecutorAnswers(c) ==
  /\ At(c, "execute")
  /\ \/ /\ \/ Ends(c, Failed(RolledBack(c)), Idle)
           \/ Ends(c, Failed(Committed(c)), Idle)
        /\ Answers(c, "failed")
     \/ /\ IF Committed(c).state = "paused"
             THEN Ends(c, Committed(c), Idle) ELSE LoopTop(c, Heartbeat(Committed(c)))
        /\ Answers(c, "ok")
  /\ UNCHANGED <<policyVars, history, starts, lost, overlapped>>

-----------------------------------------------------------------------------
\* The actions the executor is at and the checkpoint does not have as committed.
Interrupts(t) ==
  interrupted' =
    [a \in Action |->
       IF t.cursor < a /\ \E c \in Coroutine : At(c, "execute") /\ run[c].action = a
         THEN interrupted[a] + 1 ELSE interrupted[a]]

(* The process dies; the policy is another one, and may die with it.  What *)
(* a recovery will find is the checkpoint t.                               *)
Dies(t) ==
  /\ crashes < MaxCrashes
  /\ crashes' = crashes + 1
  /\ Interrupts(t)
  /\ task' = NoTask /\ saved' = t
  /\ run' = [c \in Coroutine |-> Idle]
  /\ \/ UNCHANGED token
     \/ token' = << >>
  /\ UNCHANGED <<issued, begun, paid>>

Crash ==
  /\ Exists
  /\ Dies(saved)
  /\ UNCHANGED <<life, overlapped>>

\* The process dies inside a stretch, after a save that is not its last.
CrashInStart(c) ==
  /\ ~Exists
  /\ Begins(c)
  /\ Dies(Started)
  /\ BeginsLife

\* What step saves first is its heartbeat.
CrashInStep(c) ==
  /\ task.state = "running"
  /\ Begins(c)
  /\ Dies(Event(task))
  /\ UNCHANGED life

CrashAfterModel(c) ==
  /\ At(c, "model")
  /\ Dies(Planned)
  /\ UNCHANGED <<life, overlapped>>

\* The entry is saved, and the execution does not begin.
CrashAfterPrepare(c) ==
  /\ At(c, "check")
  /\ LET d == Decision[run[c].action] IN
       /\ Answer(c, d) = "allow"
       /\ Dies(Prepared(Answered(c, d), run[c].action))
  /\ UNCHANGED <<life, overlapped>>

CrashAfterGrant(c) ==
  /\ At(c, "consume")
  /\ \/ Dies(Granted(c))
     \/ Granted(c).state = "running" /\ Dies(Event(Granted(c)))
  /\ UNCHANGED <<life, overlapped>>

\* torn: the executor failed, and the checkpoint has the action as committed.
CrashAfterExecute(c) ==
  /\ At(c, "execute")
  /\ \/ Dies(RolledBack(c)) /\ Answers(c, "failed")
     \/ Dies(Committed(c)) /\ \E how \in {"ok", "torn"} : Answers(c, how)
     \/ /\ Committed(c).state # "paused"
        /\ Dies(Heartbeat(Committed(c))) /\ Answers(c, "ok")
  /\ UNCHANGED <<starts, lost, overlapped>>

Recovery ==
  /\ ~Exists /\ saved # NoTask
  /\ task' = saved
  /\ UNCHANGED <<saved, run, policyVars, history, life, overlapped>>

Init ==
  /\ task = NoTask /\ saved = NoTask
  /\ run = [c \in Coroutine |-> Idle]
  /\ token = << >> /\ issued = 0
  /\ begun = [a \in Action |-> 0] /\ paid = [a \in Action |-> 0]
  /\ crashes = 0 /\ overlapped = FALSE
  /\ interrupted = [a \in Action |-> 0]
  /\ starts = 0 /\ lost = [a \in Action |-> 0] /\ answer = [a \in Action |-> "none"]

Next ==
  \/ \E c \in Coroutine :
       \/ Start(c) \/ CallStep(c) \/ Approve(c)
       \/ ModelAnswers(c) \/ PolicyAnswers(c) \/ TokenIssued(c) \/ IssueFails(c)
       \/ TokenConsumed(c) \/ ExecutorAnswers(c)
       \/ CrashInStart(c) \/ CrashInStep(c) \/ CrashAfterModel(c) \/ CrashAfterPrepare(c)
       \/ CrashAfterGrant(c) \/ CrashAfterExecute(c)
  \/ \E n \in 0..MaxOutstanding : Ack(n)
  \/ MonitorExpires \/ Checkpoint \/ Cancel \/ Crash \/ Recovery

Spec == Init /\ [][Next]_vars

-----------------------------------------------------------------------------
(* Every execution is accounted for: the last checkpoint holds a journal   *)
(* entry of its own for it, saved before it began, unless a start wrote    *)
(* over the checkpoint that did; and if the policy wants the action        *)
(* confirmed, a token of its own was consumed for it - however the calls   *)
(* overlap and wherever the process crashes.                               *)
ExecutionsAccounted ==
  \A a \in Action :
    /\ begun[a] <= Cardinality(Entries(saved, a)) + lost[a]
    /\ Decision[a] = "confirm" => begun[a] <= paid[a]

(* As long as the host never had two calls in progress, a completed task   *)
(* has every action answered by the executor since the task was started,   *)
(* and each answer was a success: a failure is passed over only where the  *)
(* process died between the save that moves the cursor and the one that    *)
(* fails the task.  And each action was begun once per start, and again    *)
(* only where a crash fell between its prepared entry and its commit.      *)
CompletedDidAll ==
  task.state = "completed" /\ ~overlapped =>
    /\ task.cursor = Len(Decision)
    /\ \A a \in Action :
         answer[a] \in {"ok", "torn"} /\ begun[a] <= starts + interrupted[a]

\* The task as the host knows it, or as a recovery will find it.
Known == IF Exists THEN task ELSE saved

(* Once no call is in progress, an ended task stays ended, through a crash *)
(* and its recovery too.  Only a start in a process that does not have the *)
(* task in memory sets it going again; while it is there, none does.  A    *)
(* call in progress does not look: a task that is cancelled or failed      *)
(* while its step awaits goes on and may complete.                         *)
EndIsFinal ==
  [][Ended(Known) /\ (\A c \in Coroutine : run[c] = Idle) =>
       \/ Known'.state = Known.state
       \/ ~Exists /\ starts' # starts]_vars
=============================================================================
