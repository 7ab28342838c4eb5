------------------------- MODULE BlockJournalProofs -------------------------
(***************************************************************************)
(* What the block driver and the journal programs promise, proved for      *)
(* every set of sectors and contents and every width of the ring indices.  *)
(*                                                                         *)
(* As long as no call began before an earlier request was finished, the    *)
(* ring is in one of two states, Quiet or Pending, and where the driver    *)
(* stands in its call tells which and what the page and the caches hold    *)
(* (DriverInv).  On top of it, JournalInv says for each program and each   *)
(* of its calls what the disk holds for certain (Known), however much of   *)
(* the cache the device has written back.                                  *)
(***************************************************************************)
EXTENDS BlockJournal, TLAPS

Disk  == [Sector -> Data]
Index == 0 .. IndexSpan - 1
Op    == {"read", "write", "flush"}

Page == [type : Op, sector : Sector, data : Data, status : {"ok", "error"}]

Todo == {<< >>, <<"poll">>, <<"sample", "poll">>, <<"publish", "poll">>,
         <<"publish", "sample", "poll">>, <<"sample", "publish", "poll">>}

DriverCall ==
  [op : Op \cup {"none"}, sector : Sector, data : Data, todo : Todo,
   expected : Index, answer : {"none", "ok", "failed"}, out : Data]

DriverType ==
  /\ medium \in Disk /\ cache \in Disk
  /\ avail \in Index /\ taken \in Index /\ used \in Index
  /\ page \in Page /\ call \in DriverCall

-----------------------------------------------------------------------------
(* The ring and the call. *)

\* The header the device copies.
Request == [type |-> page.type, sector |-> page.sector]

\* The device has nothing to do.
Quiet == avail = used /\ taken = used /\ flight = << >>

\* It has one request to finish, which it may have taken.
Pending ==
  /\ avail = IndexAfter(used)
  /\ \/ taken = used /\ flight = << >>
     \/ taken = avail /\ flight = <<Request>>

\* The page is the call's.
Ours ==
  /\ page.type = call.op /\ page.sector = call.sector
  /\ call.op = "write" => page.data = call.data

\* What the call asks for, with what was read in out, is done.
Done(out) ==
  /\ call.op = "write" => cache[call.sector] = call.data
  /\ call.op = "flush" => medium = cache
  /\ call.op = "read"  => out = cache[call.sector]

Completed == Quiet /\ (page.status = "ok" => Done(page.data))

Resting  == call.op = "none" /\ call.todo = << >> /\ call.answer = "none"
Answered ==
  /\ call.op \in Op /\ call.todo = << >> /\ call.answer \in {"ok", "failed"}
  /\ call.answer = "ok" => Quiet /\ Done(call.out)
Fresh    == call.op \in Op /\ call.todo = Steps(call.op) /\ call.answer = "none"
Sampled  ==
  /\ call.op \in {"read", "flush"} /\ call.todo = <<"publish", "poll">> /\ call.answer = "none"
  /\ Quiet /\ call.expected = IndexAfter(used)
Sent     ==
  /\ call.op = "write" /\ call.todo = <<"sample", "poll">> /\ call.answer = "none"
  /\ Ours /\ (Pending \/ Completed)
Waiting  ==
  /\ call.op \in Op /\ call.todo = <<"poll">> /\ call.answer = "none"
  /\ Ours
  /\ \/ Pending /\ call.expected = avail
     \/ Completed /\ call.expected = used
     \/ Completed /\ call.expected # used /\ call.op = "write"

CallInv == Resting \/ Answered \/ Fresh \/ Sampled \/ Sent \/ Waiting

DriverInv == DriverType /\ (Quiet \/ Pending) /\ CallInv

-----------------------------------------------------------------------------
(* Indices, steps and sequences. *)

\* The next index is another one.
LEMMA IndexMoves ==
  ASSUME NEW i \in Index
  PROVE  IndexAfter(i) \in Index /\ IndexAfter(i) # i
  BY VirtioAssumption DEF IndexAfter, Index

\* Nothing is pending while the ring is quiet.
LEMMA QuietOrPending == ASSUME DriverType PROVE ~(Quiet /\ Pending)
  BY IndexMoves DEF DriverType, Quiet, Pending

\* The steps a call has left.
LEMMA TodoIs ==
  /\ Steps("write") = <<"publish", "sample", "poll">>
  /\ Steps("read") = <<"sample", "publish", "poll">>
  /\ Steps("flush") = <<"sample", "publish", "poll">>
  BY DEF Steps

\* Where a call with these steps left stands, and where it is one step later.
LEMMA HeadsAndTails ==
  /\ Head(<<"publish", "sample", "poll">>) = "publish"
  /\ Tail(<<"publish", "sample", "poll">>) = <<"sample", "poll">>
  /\ Head(<<"sample", "publish", "poll">>) = "sample"
  /\ Tail(<<"sample", "publish", "poll">>) = <<"publish", "poll">>
  /\ Head(<<"sample", "poll">>) = "sample" /\ Tail(<<"sample", "poll">>) = <<"poll">>
  /\ Head(<<"publish", "poll">>) = "publish" /\ Tail(<<"publish", "poll">>) = <<"poll">>
  /\ Head(<<"poll">>) = "poll" /\ Tail(<<"poll">>) = << >>
  /\ Len(<<"publish", "sample", "poll">>) = 3 /\ Len(<<"sample", "publish", "poll">>) = 3
  /\ <<"poll">> # << >> /\ <<"sample", "poll">> # << >> /\ <<"publish", "poll">> # << >>
  /\ <<"publish", "sample", "poll">> # << >> /\ <<"sample", "publish", "poll">> # << >>
  OBVIOUS

\* The only request in flight is the first.
LEMMA OneInFlight ==
  ASSUME NEW r, NEW f, f = <<r>>
  PROVE  Len(f) = 1 /\ f[1] = r /\ RemoveAt(f, 1) = << >> /\ Append(<< >>, r) = f
  BY DEF RemoveAt

\* A call that is not there, and an empty page.
LEMMA NothingYet == NoCall \in DriverCall /\ EmptyPage \in Page
  BY VirtioAssumption DEF NoCall, EmptyPage, DriverCall, Page, Op, Todo, Index

\* A call that begins, or is refused because the device cannot flush.
LEMMA BegunIs ==
  ASSUME NEW op \in Op, NEW sector \in Sector, NEW data \in Data
  PROVE  LET b == Begun(op, sector, data)
         IN  /\ b \in DriverCall /\ b.op = op
             /\ \/ b.todo = << >> /\ b.answer = "failed"
                \/ b.todo = Steps(op) /\ b.answer = "none" /\ b.sector = sector /\ b.data = data
PROOF
<1> DEFINE b == Begun(op, sector, data)
<1>1. CASE op = "flush" /\ ~canFlush
  <2> DEFINE u == [NoCall EXCEPT !.op = op]
             v == [u EXCEPT !.answer = "failed"]
  <2>1. u \in DriverCall /\ u.op = op /\ u.todo = << >>
    BY NothingYet DEF DriverCall, NoCall
  <2>2. v = b
    BY <1>1 DEF Begun, NoCall
  <2> HIDE DEF u
  <2>3. v \in DriverCall /\ v.op = op /\ v.todo = << >> /\ v.answer = "failed"
    BY <2>1 DEF DriverCall
  <2> HIDE DEF v, b
  <2>4. b \in DriverCall /\ b.op = op /\ b.todo = << >> /\ b.answer = "failed"
    BY <2>2, <2>3
  <2> QED BY <2>4 DEF b
<1>2. CASE ~(op = "flush" /\ ~canFlush)
  <2> DEFINE T == Steps(op)
             u == [NoCall EXCEPT !.op = op]
             v == [u EXCEPT !.sector = sector]
             w == [v EXCEPT !.data = data]
             x == [w EXCEPT !.todo = T]
  <2>0. T \in Todo
    BY TodoIs DEF Op, Todo
  <2>1. x = b
    <3> HIDE DEF T
    <3> QED BY <1>2 DEF Begun, NoCall, T
  <2> HIDE DEF T
  <2>2. u \in DriverCall /\ u.op = op /\ u.answer = "none"
    BY NothingYet DEF DriverCall, NoCall
  <2> HIDE DEF u
  <2>3. v \in DriverCall /\ v.op = op /\ v.answer = "none" /\ v.sector = sector
    BY <2>2 DEF DriverCall
  <2> HIDE DEF v
  <2>4. w \in DriverCall /\ w.op = op /\ w.answer = "none" /\ w.sector = sector /\ w.data = data
    BY <2>3 DEF DriverCall
  <2> HIDE DEF w
  <2>5. x \in DriverCall /\ x.op = op /\ x.answer = "none" /\ x.sector = sector /\ x.data = data
        /\ x.todo = T
    BY <2>0, <2>4 DEF DriverCall
  <2> HIDE DEF x, b
  <2>6. b \in DriverCall /\ b.op = op /\ b.answer = "none" /\ b.sector = sector /\ b.data = data
        /\ b.todo = T
    BY <2>1, <2>5
  <2> QED BY <2>6 DEF b, T
<1> QED BY <1>1, <1>2

-----------------------------------------------------------------------------
(* The driver. *)

\* Which step comes next tells where the call stands.
LEMMA WhereItStands ==
  ASSUME CallInv
  PROVE  /\ AtStep("sample") => Sent \/ (Fresh /\ call.op \in {"read", "flush"})
         /\ AtStep("publish") => Sampled \/ (Fresh /\ call.op = "write")
         /\ AtStep("poll") => Waiting
PROOF
<1>1. \A t \in {"sample", "publish", "poll"} : AtStep(t) => ~Resting /\ ~Answered
  BY DEF AtStep, Resting, Answered
<1>2. ASSUME Fresh
      PROVE  /\ ~AtStep("poll") /\ (AtStep("sample") => call.op \in {"read", "flush"})
             /\ AtStep("publish") => call.op = "write"
  BY <1>2, TodoIs, HeadsAndTails DEF Fresh, AtStep, Op
<1>3. ASSUME Sampled PROVE ~AtStep("sample") /\ ~AtStep("poll")
  BY <1>3, HeadsAndTails DEF Sampled, AtStep
<1>4. ASSUME Sent PROVE ~AtStep("publish") /\ ~AtStep("poll")
  BY <1>4, HeadsAndTails DEF Sent, AtStep
<1>5. ASSUME Waiting PROVE ~AtStep("publish") /\ ~AtStep("sample")
  BY <1>5, HeadsAndTails DEF Waiting, AtStep
<1> QED BY <1>1, <1>2, <1>3, <1>4, <1>5 DEF CallInv

\* A call that has begun its steps is not about to begin.
LEMMA BegunIsNotFresh ==
  ASSUME Sampled' \/ Sent' \/ Waiting' \/ Answered'
  PROVE  ~Fresh'
PROOF
<1>1. Fresh' => Len(call'.todo) = 3
  BY TodoIs, HeadsAndTails DEF Fresh, Op
<1>2. /\ Len(<<"publish", "poll">>) # 3 /\ Len(<<"sample", "poll">>) # 3
      /\ Len(<<"poll">>) # 3 /\ Len(<< >>) # 3
  OBVIOUS
<1>3. Len(call'.todo) # 3
  BY <1>2 DEF Sampled, Sent, Waiting, Answered
<1> QED BY <1>1, <1>3

\* A call's first step finds the ring quiet, or is an overrun.
LEMMA FreshIsQuiet ==
  ASSUME DriverInv, Fresh, ~Overruns
  PROVE  Quiet
PROOF
<1>1. Len(call.todo) = 3
  BY TodoIs, HeadsAndTails DEF Fresh, Op
<1>2. avail = used /\ used \in Index
  BY <1>1 DEF Overruns, DriverInv, DriverType
<1> QED BY <1>2, IndexMoves DEF DriverInv, Pending

\* Sampling the index leaves the call waiting, or about to publish.
LEMMA SampleKeeps ==
  ASSUME DriverInv, Sample, ~overran'
  PROVE  /\ DriverInv' /\ (Sampled' \/ Waiting') /\ call.op # "none"
         /\ call'.op = call.op /\ call'.sector = call.sector /\ call'.data = call.data
PROOF
<1> DEFINE e == IndexAfter(used)
           T == Tail(call.todo)
           u == [call EXCEPT !.expected = e]
           v == [u EXCEPT !.todo = T]
<1>1. /\ AtStep("sample") /\ ~Overruns
      /\ medium' = medium /\ cache' = cache /\ avail' = avail /\ taken' = taken /\ used' = used
      /\ page' = page /\ flight' = flight
      /\ call' = [call EXCEPT !.expected = e, !.todo = T]
  BY DEF Sample, deviceVars
<1>2. call \in DriverCall /\ used \in Index /\ e \in Index /\ e # used
  BY IndexMoves DEF DriverInv, DriverType
<1>3. v = call'
  <2> HIDE DEF e, T
  <2> QED BY <1>1, <1>2 DEF DriverCall
<1>4. Sent \/ (Fresh /\ call.op \in {"read", "flush"})
  BY <1>1, WhereItStands DEF DriverInv
<1>5. T = IF Sent THEN <<"poll">> ELSE <<"publish", "poll">>
  <2>1. CASE Sent
    BY <2>1, HeadsAndTails DEF Sent
  <2>2. CASE ~Sent
    BY <1>4, <2>2, TodoIs, HeadsAndTails DEF Fresh
  <2> QED BY <2>1, <2>2
<1>6. T \in Todo
  BY <1>5 DEF Todo
<1> HIDE DEF T, e
<1>7. u \in DriverCall /\ u.op = call.op /\ u.sector = call.sector /\ u.data = call.data
      /\ u.answer = call.answer /\ u.out = call.out /\ u.expected = e
  BY <1>2 DEF DriverCall
<1> HIDE DEF u
<1>8. v \in DriverCall /\ v.op = call.op /\ v.sector = call.sector /\ v.data = call.data
      /\ v.answer = call.answer /\ v.out = call.out /\ v.expected = e /\ v.todo = T
  BY <1>6, <1>7 DEF DriverCall
<1> HIDE DEF v
<1>9. DriverType' /\ (Quiet \/ Pending)' /\ (Quiet => Quiet') /\ (Pending => Pending')
  BY <1>1, <1>3, <1>8 DEF DriverInv, DriverType, Quiet, Pending, Request
<1>10. (Ours => Ours') /\ (Completed => Completed')
  BY <1>1, <1>3, <1>8 DEF Ours, Completed, Quiet, Done
<1>11. CASE Sent
  <2>1. Pending => avail = e
    BY DEF Pending, e
  <2>2. Waiting'
    BY <1>1, <1>2, <1>3, <1>5, <1>8, <1>9, <1>10, <1>11, <2>1 DEF Sent, Waiting, Op, Completed, Quiet
  <2> QED BY <1>3, <1>8, <1>9, <1>11, <2>2 DEF DriverInv, CallInv, Sent
<1>12. CASE Fresh /\ call.op \in {"read", "flush"}
  <2>1. Quiet
    BY <1>1, <1>12, FreshIsQuiet
  <2>2. ~Sent
    BY <1>12 DEF Sent
  <2>3. Sampled'
    BY <1>1, <1>3, <1>5, <1>8, <1>9, <1>12, <2>1, <2>2 DEF Fresh, Sampled, e
  <2> QED BY <1>3, <1>8, <1>9, <1>12, <2>3 DEF DriverInv, CallInv, Op
<1> QED BY <1>4, <1>11, <1>12

\* Publishing makes the call's request the one that is pending.
LEMMA PublishKeeps ==
  ASSUME DriverInv, Publish, ~overran'
  PROVE  DriverInv' /\ Pending' /\ Ours' /\ (Sent' \/ Waiting') /\ call.op # "none"
         /\ call'.op = call.op /\ call'.sector = call.sector /\ call'.data = call.data
PROOF
<1> DEFINE T == Tail(call.todo)
           v == [call EXCEPT !.todo = T]
<1>1. /\ AtStep("publish") /\ ~Overruns
      /\ medium' = medium /\ cache' = cache /\ avail' = IndexAfter(avail) /\ taken' = taken
      /\ used' = used /\ page' = Filled /\ flight' = flight /\ call' = v
  BY DEF Publish
<1>2. call \in DriverCall /\ page \in Page /\ avail \in Index /\ IndexAfter(avail) \in Index
  BY IndexMoves DEF DriverInv, DriverType
<1>3. Sampled \/ (Fresh /\ call.op = "write")
  BY <1>1, WhereItStands DEF DriverInv
<1>4. Quiet /\ call.op \in Op
  BY <1>1, <1>3, FreshIsQuiet DEF Sampled, Op
<1>5. T = IF Sampled THEN <<"poll">> ELSE <<"sample", "poll">>
  <2>1. CASE Sampled
    BY <2>1, HeadsAndTails DEF Sampled
  <2>2. CASE ~Sampled
    BY <1>3, <2>2, TodoIs, HeadsAndTails DEF Fresh
  <2> QED BY <2>1, <2>2
<1>6. T \in Todo
  BY <1>5 DEF Todo
<1> HIDE DEF T
<1>7. v \in DriverCall /\ v.op = call.op /\ v.sector = call.sector /\ v.data = call.data
      /\ v.answer = call.answer /\ v.out = call.out /\ v.expected = call.expected /\ v.todo = T
  BY <1>2, <1>6 DEF DriverCall
<1> HIDE DEF v
<1>8. page' \in Page /\ page'.type = call.op /\ page'.sector = call.sector
      /\ (call.op = "write" => page'.data = call.data)
  <2> DEFINE d == IF call.op = "write" THEN call.data ELSE Blank
             a == [EmptyPage EXCEPT !.type = call.op]
             b == [a EXCEPT !.sector = call.sector]
             c == [b EXCEPT !.data = d]
  <2>1. c = Filled
    BY <1>2 DEF Filled, EmptyPage, DriverCall
  <2>2. d \in Data /\ call.sector \in Sector
    BY <1>2, VirtioAssumption DEF DriverCall
  <2>3. call.op = "write" => d = call.data
    OBVIOUS
  <2> HIDE DEF d
  <2>4. a \in Page /\ a.type = call.op
    BY <1>4, NothingYet DEF Page
  <2> HIDE DEF a
  <2>5. b \in Page /\ b.type = call.op /\ b.sector = call.sector
    BY <2>2, <2>4 DEF Page
  <2> HIDE DEF b
  <2>6. c \in Page /\ c.type = call.op /\ c.sector = call.sector /\ c.data = d
    BY <2>2, <2>5 DEF Page
  <2> HIDE DEF c
  <2> QED BY <1>1, <2>1, <2>3, <2>6
<1>9. DriverType'
  BY <1>1, <1>2, <1>7, <1>8 DEF DriverInv, DriverType
<1>10. Pending' /\ Ours'
  BY <1>1, <1>4, <1>7, <1>8 DEF Pending, Quiet, Ours
<1>11. Sampled => call.expected = avail' /\ call.answer = "none"
  BY <1>1 DEF Sampled, Quiet
<1>12. Sampled => Waiting'
  BY <1>1, <1>4, <1>5, <1>7, <1>10, <1>11 DEF Waiting
<1>13. ~Sampled => Sent'
  BY <1>1, <1>3, <1>5, <1>7, <1>10 DEF Sent, Fresh
<1> QED BY <1>1, <1>4, <1>7, <1>9, <1>10, <1>12, <1>13 DEF DriverInv, CallInv, Op

\* The index the call waits for has come: its request is done.
LEMMA PollHitsIs ==
  ASSUME DriverInv, PollHits
  PROVE  /\ DriverInv' /\ Answered' /\ Quiet' /\ Quiet /\ call.op \in Op
         /\ call'.op = call.op /\ call'.sector = call.sector /\ call'.data = call.data
         /\ call'.answer = "ok" => Done(call'.out)
PROOF
<1> DEFINE V == Verdict
           o == IF call.op = "read" /\ V = "ok" THEN page.data ELSE call.out
           u == [call EXCEPT !.todo = << >>]
           v == [u EXCEPT !.answer = V]
           w == [v EXCEPT !.out = o]
<1>1. /\ AtStep("poll") /\ used = call.expected
      /\ medium' = medium /\ cache' = cache /\ avail' = avail /\ taken' = taken /\ used' = used
      /\ page' = page /\ flight' = flight
  BY DEF PollHits, deviceVars
<1>2. call \in DriverCall /\ page \in Page /\ V \in {"ok", "failed"}
  BY DEF DriverInv, DriverType, Verdict
<1>3. call' = w
  BY <1>2 DEF PollHits, DriverCall
<1>4. Waiting
  BY <1>1, WhereItStands DEF DriverInv
<1>5. avail # used => ~Completed
  BY DEF Completed, Quiet
<1>6. Completed /\ Ours /\ call.op \in Op
  <2>1. Pending => avail # used
    BY IndexMoves DEF Pending, DriverInv, DriverType
  <2> QED BY <1>1, <1>4, <2>1 DEF Waiting
<1>7. o \in Data /\ (call.op = "read" /\ V = "ok" => o = page.data) /\ (V = "ok" => page.status = "ok")
  BY <1>2 DEF DriverCall, Page, Verdict
<1> HIDE DEF V, o
<1>8. u \in DriverCall /\ u.op = call.op /\ u.sector = call.sector /\ u.data = call.data
      /\ u.todo = << >>
  BY <1>2 DEF DriverCall, Todo
<1> HIDE DEF u
<1>9. v \in DriverCall /\ v.op = call.op /\ v.sector = call.sector /\ v.data = call.data
      /\ v.todo = << >> /\ v.answer = V
  BY <1>2, <1>8 DEF DriverCall
<1> HIDE DEF v
<1>10. w \in DriverCall /\ w.op = call.op /\ w.sector = call.sector /\ w.data = call.data
       /\ w.todo = << >> /\ w.answer = V /\ w.out = o
  BY <1>7, <1>9 DEF DriverCall
<1> HIDE DEF w
<1>11. V = "ok" => Done(o)
  BY <1>6, <1>7 DEF Completed, Done
<1>12. DriverType' /\ Quiet' /\ Quiet
  BY <1>1, <1>3, <1>6, <1>10 DEF DriverInv, DriverType, Completed, Quiet
<1>13. Answered'
  BY <1>1, <1>2, <1>3, <1>6, <1>10, <1>11, <1>12 DEF Answered, Done
<1> QED BY <1>3, <1>6, <1>10, <1>11, <1>12, <1>13 DEF DriverInv, CallInv

\* Giving up leaves the request where it is.
LEMMA PollExpiresKeeps ==
  ASSUME DriverInv, PollExpires
  PROVE  DriverInv' /\ Answered' /\ call'.answer = "failed" /\ call'.op = call.op /\ call.op \in Op
PROOF
<1> DEFINE u == [call EXCEPT !.todo = << >>]
           v == [u EXCEPT !.answer = "failed"]
<1>1. /\ AtStep("poll")
      /\ medium' = medium /\ cache' = cache /\ avail' = avail /\ taken' = taken /\ used' = used
      /\ page' = page /\ flight' = flight
  BY DEF PollExpires, deviceVars
<1>2. call \in DriverCall
  BY DEF DriverInv, DriverType
<1>3. call' = v
  BY <1>2 DEF PollExpires, DriverCall
<1>4. call.op \in Op
  BY <1>1, WhereItStands DEF DriverInv, Waiting
<1>5. u \in DriverCall /\ u.op = call.op /\ u.todo = << >>
  BY <1>2 DEF DriverCall, Todo
<1> HIDE DEF u
<1>6. v \in DriverCall /\ v.op = call.op /\ v.todo = << >> /\ v.answer = "failed"
  BY <1>5 DEF DriverCall
<1> HIDE DEF v
<1>7. DriverType' /\ (Quiet \/ Pending)'
  BY <1>1, <1>3, <1>6 DEF DriverInv, DriverType, Quiet, Pending, Request
<1>8. Answered'
  BY <1>3, <1>4, <1>6 DEF Answered
<1> QED BY <1>3, <1>4, <1>6, <1>7, <1>8 DEF DriverInv, CallInv

-----------------------------------------------------------------------------
(* The device. *)

\* Taking a request leaves it pending.
LEMMA TakeKeeps ==
  ASSUME DriverInv, Take
  PROVE  DriverInv' /\ Pending
PROOF
<1>1. /\ taken # avail /\ taken' = IndexAfter(taken) /\ flight' = Append(flight, Request)
      /\ medium' = medium /\ cache' = cache /\ avail' = avail /\ used' = used
      /\ page' = page /\ call' = call
  BY DEF Take, Request
<1>2. Pending /\ ~Quiet /\ taken = used /\ flight = << >>
  BY <1>1 DEF DriverInv, Quiet, Pending
<1>3. flight' = <<Request>>
  BY <1>1, <1>2
<1>4. Pending'
  BY <1>1, <1>2, <1>3 DEF Pending, Request
<1>5. DriverType'
  BY <1>1, IndexMoves DEF DriverInv, DriverType
<1>6. CallInv'
  <2>1. ~Completed
    BY <1>2 DEF Completed
  <2>2. Resting => Resting'
    BY <1>1 DEF Resting
  <2>3. Answered => Answered'
    BY <1>1, <1>2 DEF Answered
  <2>4. Fresh => Fresh'
    BY <1>1 DEF Fresh
  <2>5. ~Sampled
    BY <1>2 DEF Sampled
  <2>6. Sent => Sent'
    BY <1>1, <1>4 DEF Sent, Ours
  <2>7. Waiting => Waiting'
    BY <1>1, <1>4, <2>1 DEF Waiting, Ours
  <2> QED BY <2>2, <2>3, <2>4, <2>5, <2>6, <2>7 DEF DriverInv, CallInv
<1> QED BY <1>2, <1>4, <1>5, <1>6 DEF DriverInv

\* What a request that ends does to the disk and the page.
Effect(well) ==
  /\ cache' = IF well /\ page.type = "write" THEN [cache EXCEPT ![page.sector] = page.data] ELSE cache
  /\ medium' = IF well /\ page.type = "flush" THEN cache ELSE medium
  /\ page' \in Page /\ page'.type = page.type /\ page'.sector = page.sector
  /\ page'.status = (IF well THEN "ok" ELSE "error")
  /\ page'.data = IF well /\ page.type = "read" THEN cache[page.sector] ELSE page.data

\* The request that ends is the pending one.
LEMMA FinishKeeps ==
  ASSUME DriverInv, NEW i \in 1..Len(flight), NEW well \in BOOLEAN, Finish(i, well)
  PROVE  DriverInv' /\ Pending /\ Quiet' /\ Effect(well) /\ call' = call
PROOF
<1>1. Len(flight) # 0
  OBVIOUS
<1>2. Pending /\ taken = avail /\ flight = <<Request>>
  <2>1. flight # << >>
    BY <1>1
  <2> QED BY <2>1 DEF DriverInv, Quiet, Pending
<1>3. i = 1 /\ flight[i] = Request /\ RemoveAt(flight, i) = << >>
  <2>1. Len(flight) = 1 /\ flight[1] = Request /\ RemoveAt(flight, 1) = << >>
    BY <1>2, OneInFlight
  <2>2. i = 1
    BY <2>1
  <2> QED BY <2>1, <2>2
<1> DEFINE st == IF well THEN "ok" ELSE "error"
           d == IF well /\ page.type = "read" THEN cache[page.sector] ELSE page.data
           u == [page EXCEPT !.status = st]
           v == [u EXCEPT !.data = d]
<1>4. Request.type = page.type /\ Request.sector = page.sector
  BY DEF Request
<1>5. page \in Page /\ cache \in Disk /\ medium \in Disk
  BY DEF DriverInv, DriverType
<1>6. /\ flight' = << >> /\ used' = IndexAfter(used)
      /\ cache' = IF well /\ page.type = "write" THEN [cache EXCEPT ![page.sector] = page.data] ELSE cache
      /\ medium' = IF well /\ page.type = "flush" THEN cache ELSE medium
      /\ avail' = avail /\ taken' = taken /\ call' = call
  BY <1>3, <1>4 DEF Finish
<1>7. page' = v
  <2>1. page' = [page EXCEPT !.status = st, !.data = d]
    BY <1>3, <1>4, <1>5 DEF Finish, Page
  <2> HIDE DEF st, d
  <2> QED BY <1>5, <2>1 DEF Page
<1>8. st \in {"ok", "error"} /\ d \in Data
  BY <1>5 DEF Page, Disk
<1>9. Effect(well)
  <2> HIDE DEF st, d
  <2>1. u \in Page /\ u.type = page.type /\ u.sector = page.sector /\ u.data = page.data /\ u.status = st
    BY <1>5, <1>8 DEF Page
  <2> HIDE DEF u
  <2>2. v \in Page /\ v.type = page.type /\ v.sector = page.sector /\ v.data = d /\ v.status = st
    BY <1>8, <2>1 DEF Page
  <2> HIDE DEF v
  <2> QED BY <1>6, <1>7, <2>2 DEF Effect, st, d
<1>10. Quiet'
  BY <1>2, <1>6 DEF Quiet, Pending
<1>11. DriverType'
  BY <1>5, <1>6, <1>9, IndexMoves DEF DriverInv, DriverType, Effect, Disk, Page
<1>12. ~Quiet
  BY <1>2, QuietOrPending DEF DriverInv
<1>13. CallInv'
  <2>1. Ours => Ours' /\ Completed'
    <3> SUFFICES ASSUME Ours PROVE Ours' /\ Completed'
      OBVIOUS
    <3>1. Ours'
      BY <1>6, <1>9 DEF Effect, Ours
    <3>2. page'.status = "ok" => well
      BY <1>9 DEF Effect
    <3>3. well => Done(page.data)'
      BY <1>5, <1>6, <1>9 DEF Effect, Ours, Done, Disk, Page
    <3> QED BY <1>10, <3>1, <3>2, <3>3 DEF Completed
  <2>2. Resting => Resting'
    BY <1>6 DEF Resting
  <2>3. Answered => Answered'
    BY <1>6, <1>12 DEF Answered
  <2>4. Fresh => Fresh'
    BY <1>6 DEF Fresh
  <2>5. ~Sampled /\ ~Completed
    BY <1>12 DEF Sampled, Completed
  <2>6. Sent => Sent'
    BY <1>6, <2>1 DEF Sent
  <2>7. Waiting => Waiting'
    <3>1. Waiting => call.expected = avail
      BY <2>5 DEF Waiting
    <3>2. avail = used'
      BY <1>2, <1>6 DEF Pending
    <3> QED BY <1>6, <2>1, <3>1, <3>2 DEF Waiting
  <2> QED BY <2>2, <2>3, <2>4, <2>5, <2>6, <2>7 DEF DriverInv, CallInv
<1> QED BY <1>2, <1>6, <1>9, <1>10, <1>11, <1>13 DEF DriverInv

\* Writing a sector back makes nothing undone.
LEMMA WriteBackKeeps ==
  ASSUME DriverInv, NEW s \in Sector, WriteBack(s)
  PROVE  DriverInv' /\ (Quiet => Quiet') /\ (Pending => Pending')
PROOF
<1>1. /\ medium[s] # cache[s] /\ medium' = [medium EXCEPT ![s] = cache[s]]
      /\ cache' = cache /\ avail' = avail /\ taken' = taken /\ used' = used
      /\ page' = page /\ flight' = flight /\ call' = call
  BY DEF WriteBack, ring
<1>2. medium # cache
  BY <1>1
<1>3. DriverType' /\ (Quiet => Quiet') /\ (Pending => Pending')
  BY <1>1 DEF DriverInv, DriverType, Disk, Quiet, Pending, Request
<1>4. \A o \in Data : Done(o) => Done(o)'
  BY <1>1, <1>2 DEF Done
<1>5. page.data \in Data /\ call.out \in Data
  BY DEF DriverInv, DriverType, Page, DriverCall
<1>6. (Ours => Ours') /\ (Completed => Completed')
  BY <1>1, <1>3, <1>4, <1>5 DEF Ours, Completed
<1>7. CallInv'
  <2>1. Resting => Resting'
    BY <1>1 DEF Resting
  <2>2. Answered => Answered'
    BY <1>1, <1>3, <1>4, <1>5 DEF Answered
  <2>3. Fresh => Fresh'
    BY <1>1 DEF Fresh
  <2>4. Sampled => Sampled'
    BY <1>1, <1>3 DEF Sampled
  <2>5. Sent => Sent'
    BY <1>1, <1>3, <1>6 DEF Sent
  <2>6. Waiting => Waiting'
    BY <1>1, <1>3, <1>6 DEF Waiting
  <2> QED BY <2>1, <2>2, <2>3, <2>4, <2>5, <2>6 DEF DriverInv, CallInv
<1> QED BY <1>3, <1>7 DEF DriverInv

-----------------------------------------------------------------------------
(* The journal: what each program knows of the disk before its call k,     *)
(* whatever of the cache has reached the medium.                           *)
Cached(s, d) == cache[s] = d
Both(s, d)   == medium[s] = d /\ cache[s] = d

Known(p, k) ==
  /\ p \in {"prepare", "commit"} =>
       /\ k = 2       => Cached(LogSector, "PREPARE1")
       /\ k \in 3..4  => Both(LogSector, "PREPARE1")
       /\ k = 4       => Cached(PayloadSector, "NEWVAL01")
       /\ k \in 5..7  => Both(PayloadSector, "NEWVAL01")
  /\ p = "prepare" /\ k = 5 => Both(LogSector, "PREPARE1")
  /\ p = "commit" =>
       /\ k = 6       => Cached(LogSector, "COMMIT01")
       /\ k = 7       => Both(LogSector, "COMMIT01")
  /\ p = "recover" =>
       /\ k \in 1..2  => medium = cache
       /\ k \in 2..4  => Both(LogSector, "PREPARE1")
       /\ k = 4       => Cached(PayloadSector, "OLDVAL01")
       /\ k \in 5..7  => Both(PayloadSector, "OLDVAL01")
       /\ k = 6       => Cached(LogSector, "ROLLBK01")
       /\ k = 7       => Both(LogSector, "ROLLBK01")
  /\ p = "commit_recover" =>
       /\ k \in 1..2  => medium = cache
       /\ k \in 3..5  => Both(PayloadSector, "NEWVAL01")
       /\ k = 4       => Cached(LogSector, "APPLIED1")
       /\ k = 5       => Both(LogSector, "APPLIED1")

\* A record and a payload that agree.
Agree(record, payload) ==
  /\ record \in {"COMMIT01", "APPLIED1"} => payload = "NEWVAL01"
  /\ record = "ROLLBK01" => payload = "OLDVAL01"

\* What may be on the medium once some of the cache is written back.
Maybe(s) == {medium[s], cache[s]}

Mixed == \A r \in Maybe(LogSector), q \in Maybe(PayloadSector) : Agree(r, q)

\* Writing d to sector s keeps record and payload in agreement.
Safe(s, d) ==
  /\ s = LogSector => \A q \in Maybe(PayloadSector) : Agree(d, q)
  /\ s = PayloadSector => \A r \in Maybe(LogSector) : Agree(r, d)

PendingWrite == Pending /\ page.type = "write"

Matches(c) == call.op = c.op /\ call.sector = c.sector /\ call.data = c.data

\* Where the image stands.
PlaceInv == program \in DOMAIN Programs /\ pc \in 1..Len(Programs[program])

\* Record and payload agree, and a write that is pending will leave it so.
AgreeInv == Mixed /\ (PendingWrite => Safe(page.sector, page.data))

\* The driver is called by kernel_main's check and by the program only, and
\* nothing is written before the program runs.
PhaseInv ==
  /\ phase \notin {"check", "run"} => call.op = "none"
  /\ phase \in {"off", "check"} => medium = cache
  /\ phase = "check" => pc = 1 /\ call.op = "read"

\* Unless the program has given up, a write that is pending is its own.
OwnInv == phase # "failed" /\ PendingWrite => call.op = "write" /\ ~Fresh

\* The driver's call is the program's, which knows what it has done so far.
RunInv ==
  phase = "run" =>
    /\ call.op # "none" => call.op = Current.op
    /\ call.op # "none" /\ call.answer # "failed" => Matches(Current)
    /\ call.answer # "failed" => Known(program, pc)

\* It is done once all its calls are.
DoneInv == phase = "done" => pc = Len(Programs[program]) /\ Known(program, pc + 1)

JournalInv == PlaceInv /\ AgreeInv /\ PhaseInv /\ OwnInv /\ RunInv /\ DoneInv

Inv == ~overran => DriverInv /\ JournalInv

-----------------------------------------------------------------------------
(* The programs and their calls. *)

Journals == {"prepare", "commit", "recover", "commit_recover"}
Fixtures == {"block_read", "block_write", "block_flush"}

\* Which programs there are.
LEMMA ProgramsAre ==
  /\ DOMAIN Programs = Journals \cup Fixtures /\ DOMAIN Promise = Journals
  /\ Programs["prepare"] = Prepare /\ Programs["commit"] = Commit
  /\ Programs["recover"] = Recover /\ Programs["commit_recover"] = CommitRecover
  /\ Programs["block_read"] = BlockRead /\ Programs["block_write"] = BlockWrite
  /\ Programs["block_flush"] = BlockFlush
  BY DEF Programs, Promise, Journals, Fixtures

\* The calls of the journal programs, in their order.
LEMMA JournalCalls ==
  /\ Len(Prepare) = 4 /\ Len(Commit) = 6 /\ Len(Recover) = 6 /\ Len(CommitRecover) = 4
  /\ Prepare[1] = Write(LogSector, "PREPARE1") /\ Prepare[2] = Flush
  /\ Prepare[3] = Write(PayloadSector, "NEWVAL01") /\ Prepare[4] = Flush
  /\ Commit[1] = Write(LogSector, "PREPARE1") /\ Commit[2] = Flush
  /\ Commit[3] = Write(PayloadSector, "NEWVAL01") /\ Commit[4] = Flush
  /\ Commit[5] = Write(LogSector, "COMMIT01") /\ Commit[6] = Flush
  /\ Recover[1] = Read(LogSector, "PREPARE1") /\ Recover[2] = Read(PayloadSector, "NEWVAL01")
  /\ Recover[3] = Write(PayloadSector, "OLDVAL01") /\ Recover[4] = Flush
  /\ Recover[5] = Write(LogSector, "ROLLBK01") /\ Recover[6] = Flush
  /\ CommitRecover[1] = Read(LogSector, "COMMIT01")
  /\ CommitRecover[2] = Read(PayloadSector, "NEWVAL01")
  /\ CommitRecover[3] = Write(LogSector, "APPLIED1") /\ CommitRecover[4] = Flush
  BY DEF Prepare, Commit, Recover, CommitRecover

\* What a call passes and what it wants.
LEMMA CallFields ==
  ASSUME NEW s, NEW d
  PROVE  /\ Write(s, d).op = "write" /\ Write(s, d).sector = s /\ Write(s, d).data = d
         /\ Read(s, d).op = "read" /\ Read(s, d).sector = s /\ Read(s, d).data = d
         /\ Flush.op = "flush" /\ Flush.sector = 0 /\ Flush.data = Blank
         /\ Write(s, d).want = "done" /\ Read(s, d).want = "done" /\ Flush.want = "done"
  BY DEF Write, Read, Flush, Call

\* A call that can be made and does not count on a failing device.
Sound(c) ==
  c.op \in Op /\ c.sector \in Sector /\ c.data \in Data /\ c.want # "EIO"

\* A call of a fixture: if it writes, then no payload and no record.
Harmless(c) == c.op = "write" => c.data = "FIXTURE" /\ c.sector # PayloadSector

\* The calls of the fixtures.
LEMMA FixtureCalls ==
  /\ Len(BlockRead) = 5 /\ Len(BlockWrite) = 5 /\ Len(BlockFlush) = 3
  /\ \A k \in 1..5 : Sound(BlockRead[k]) /\ Harmless(BlockRead[k])
  /\ \A k \in 1..5 : Sound(BlockWrite[k]) /\ Harmless(BlockWrite[k])
  /\ \A k \in 1..3 : Sound(BlockFlush[k]) /\ Harmless(BlockFlush[k])
PROOF
<1> USE VirtioAssumption, JournalAssumption DEF LogSector, PayloadSector
<1>1. 0 \in Sector /\ 1 \in Sector /\ Blank \in Data /\ "READOK01" \in Data /\ "FIXTURE" \in Data
  OBVIOUS
<1>2. Len(BlockRead) = 5 /\ \A k \in 1..5 : Sound(BlockRead[k]) /\ Harmless(BlockRead[k])
  <2>1. Sound(BlockRead[1]) /\ Harmless(BlockRead[1])
    BY <1>1 DEF BlockRead, Read, Call, Sound, Harmless, Op
  <2>2. Sound(BlockRead[2]) /\ Harmless(BlockRead[2])
    BY <1>1 DEF BlockRead, Read, Call, Sound, Harmless, Op
  <2>3. Sound(BlockRead[3]) /\ Harmless(BlockRead[3])
    BY <1>1 DEF BlockRead, Read, Call, Sound, Harmless, Op
  <2>4. Sound(BlockRead[4]) /\ Harmless(BlockRead[4])
    BY <1>1 DEF BlockRead, Read, Call, Sound, Harmless, Op
  <2>5. Sound(BlockRead[5]) /\ Harmless(BlockRead[5])
    BY <1>1 DEF BlockRead, Read, Call, Sound, Harmless, Op
  <2>6. Len(BlockRead) = 5
    BY DEF BlockRead
  <2> QED BY <2>1, <2>2, <2>3, <2>4, <2>5, <2>6
<1>3. Len(BlockWrite) = 5 /\ \A k \in 1..5 : Sound(BlockWrite[k]) /\ Harmless(BlockWrite[k])
  <2>1. Sound(BlockWrite[1]) /\ Harmless(BlockWrite[1])
    <3>1. /\ BlockWrite[1].op = "write" /\ BlockWrite[1].sector = 1
          /\ BlockWrite[1].data = "FIXTURE" /\ BlockWrite[1].want = "EINVAL"
      BY DEF BlockWrite, Write, Call
    <3> QED BY <1>1, <3>1 DEF Sound, Harmless, Op
  <2>2. Sound(BlockWrite[2]) /\ Harmless(BlockWrite[2])
    <3>1. /\ BlockWrite[2].op = "write" /\ BlockWrite[2].sector = 0
          /\ BlockWrite[2].data = "FIXTURE" /\ BlockWrite[2].want = "EINVAL"
      BY DEF BlockWrite, Write, Call
    <3> QED BY <1>1, <3>1 DEF Sound, Harmless, Op
  <2>3. Sound(BlockWrite[3]) /\ Harmless(BlockWrite[3])
    <3>1. /\ BlockWrite[3].op = "write" /\ BlockWrite[3].sector = 1
          /\ BlockWrite[3].data = "FIXTURE" /\ BlockWrite[3].want = "ECAP"
      BY DEF BlockWrite, Write, Call
    <3> QED BY <1>1, <3>1 DEF Sound, Harmless, Op
  <2>4. Sound(BlockWrite[4]) /\ Harmless(BlockWrite[4])
    <3>1. /\ BlockWrite[4].op = "write" /\ BlockWrite[4].sector = 1
          /\ BlockWrite[4].data = "FIXTURE" /\ BlockWrite[4].want = "EFAULT"
      BY DEF BlockWrite, Write, Call
    <3> QED BY <1>1, <3>1 DEF Sound, Harmless, Op
  <2>5. Sound(BlockWrite[5]) /\ Harmless(BlockWrite[5])
    <3>1. /\ BlockWrite[5].op = "write" /\ BlockWrite[5].sector = 1
          /\ BlockWrite[5].data = "FIXTURE" /\ BlockWrite[5].want = "done"
      BY DEF BlockWrite, Write, Call
    <3> QED BY <1>1, <3>1 DEF Sound, Harmless, Op
  <2>6. Len(BlockWrite) = 5
    BY DEF BlockWrite
  <2> QED BY <2>1, <2>2, <2>3, <2>4, <2>5, <2>6
<1>4. Len(BlockFlush) = 3 /\ \A k \in 1..3 : Sound(BlockFlush[k]) /\ Harmless(BlockFlush[k])
  <2>1. Sound(BlockFlush[1]) /\ Harmless(BlockFlush[1])
    BY <1>1 DEF BlockFlush, Flush, Call, Sound, Harmless, Op
  <2>2. Sound(BlockFlush[2]) /\ Harmless(BlockFlush[2])
    BY <1>1 DEF BlockFlush, Flush, Call, Sound, Harmless, Op
  <2>3. Sound(BlockFlush[3]) /\ Harmless(BlockFlush[3])
    BY <1>1 DEF BlockFlush, Flush, Call, Sound, Harmless, Op
  <2>4. Len(BlockFlush) = 3
    BY DEF BlockFlush
  <2> QED BY <2>1, <2>2, <2>3, <2>4
<1> QED BY <1>2, <1>3, <1>4

\* Every call of every program is sound; the journals' want to be done, the
\* fixtures' are harmless.
LEMMA CallsAre ==
  ASSUME NEW p \in DOMAIN Programs, NEW k \in 1..Len(Programs[p])
  PROVE  /\ Len(Programs[p]) \in Nat /\ Sound(Programs[p][k])
         /\ p \in Journals => Programs[p][k].want = "done"
         /\ p \in Fixtures => Harmless(Programs[p][k])
PROOF
<1> USE ProgramsAre DEF Journals, Fixtures
<1>1. CASE p \in Fixtures
  BY <1>1, FixtureCalls
<1>2. CASE p \in Journals
  <2>1. {0, LogSector, PayloadSector} \subseteq Sector
        /\ {Blank, "PREPARE1", "COMMIT01", "APPLIED1", "ROLLBK01", "OLDVAL01", "NEWVAL01"} \subseteq Data
    BY VirtioAssumption, JournalAssumption
  <2>2. /\ Sound(Flush) /\ Flush.want = "done"
        /\ \A d \in Data : Sound(Write(LogSector, d)) /\ Write(LogSector, d).want = "done"
        /\ \A d \in Data : Sound(Write(PayloadSector, d)) /\ Write(PayloadSector, d).want = "done"
        /\ \A d \in Data : Sound(Read(LogSector, d)) /\ Read(LogSector, d).want = "done"
        /\ \A d \in Data : Sound(Read(PayloadSector, d)) /\ Read(PayloadSector, d).want = "done"
    BY <2>1, CallFields DEF Sound, Op
  <2>3. CASE p = "prepare"
    <3>1. k \in 1..4 /\ Programs[p] = Prepare /\ Len(Prepare) = 4
      BY <2>3, JournalCalls
    <3>2. \A j \in 1..4 : Sound(Prepare[j]) /\ Prepare[j].want = "done"
      BY <2>1, <2>2, JournalCalls
    <3> QED BY <2>3, <3>1, <3>2
  <2>4. CASE p = "commit"
    <3>1. k \in 1..6 /\ Programs[p] = Commit /\ Len(Commit) = 6
      BY <2>4, JournalCalls
    <3>2. \A j \in 1..6 : Sound(Commit[j]) /\ Commit[j].want = "done"
      BY <2>1, <2>2, JournalCalls
    <3> QED BY <2>4, <3>1, <3>2
  <2>5. CASE p = "recover"
    <3>1. k \in 1..6 /\ Programs[p] = Recover /\ Len(Recover) = 6
      BY <2>5, JournalCalls
    <3>2. \A j \in 1..6 : Sound(Recover[j]) /\ Recover[j].want = "done"
      BY <2>1, <2>2, JournalCalls
    <3> QED BY <2>5, <3>1, <3>2
  <2>6. CASE p = "commit_recover"
    <3>1. k \in 1..4 /\ Programs[p] = CommitRecover /\ Len(CommitRecover) = 4
      BY <2>6, JournalCalls
    <3>2. \A j \in 1..4 : Sound(CommitRecover[j]) /\ CommitRecover[j].want = "done"
      BY <2>1, <2>2, JournalCalls
    <3> QED BY <2>6, <3>1, <3>2
  <2> QED BY <1>2, <2>3, <2>4, <2>5, <2>6
<1> QED BY <1>1, <1>2

-----------------------------------------------------------------------------
(* Knowledge. *)

\* The call c was done, and a read found what it looks for.
CallDone(c) ==
  /\ c.op = "write" => cache[c.sector] = c.data
  /\ c.op = "flush" => medium = cache
  /\ c.op = "read" => cache[c.sector] = c.data

\* A call that is done adds what it is for.
LEMMA KnowsMore ==
  ASSUME NEW p \in Journals, NEW k \in 1..Len(Programs[p]), Known(p, k), CallDone(Programs[p][k])
  PROVE  Known(p, k + 1)
PROOF
<1> USE ProgramsAre, JournalCalls, CallFields DEF Known, CallDone, Cached, Both
<1>1. CASE p = "prepare"
  <2>1. k \in 1..4
    BY <1>1
  <2>2. CASE k = 1
    BY <1>1, <2>2
  <2>3. CASE k = 2
    BY <1>1, <2>3
  <2>4. CASE k = 3
    BY <1>1, <2>4
  <2>5. CASE k = 4
    BY <1>1, <2>5
  <2> QED BY <2>1, <2>2, <2>3, <2>4, <2>5
<1>2. CASE p = "commit"
  <2>1. k \in 1..6
    BY <1>2
  <2>2. CASE k = 1
    BY <1>2, <2>2
  <2>3. CASE k = 2
    BY <1>2, <2>3
  <2>4. CASE k = 3
    BY <1>2, <2>4
  <2>5. CASE k = 4
    BY <1>2, <2>5
  <2>6. CASE k = 5
    BY <1>2, <2>6
  <2>7. CASE k = 6
    BY <1>2, <2>7
  <2> QED BY <2>1, <2>2, <2>3, <2>4, <2>5, <2>6, <2>7
<1>3. CASE p = "recover"
  <2>1. k \in 1..6
    BY <1>3
  <2>2. CASE k = 1
    BY <1>3, <2>2
  <2>3. CASE k = 2
    BY <1>3, <2>3
  <2>4. CASE k = 3
    BY <1>3, <2>4
  <2>5. CASE k = 4
    BY <1>3, <2>5
  <2>6. CASE k = 5
    BY <1>3, <2>6
  <2>7. CASE k = 6
    BY <1>3, <2>7
  <2> QED BY <2>1, <2>2, <2>3, <2>4, <2>5, <2>6, <2>7
<1>4. CASE p = "commit_recover"
  <2>1. k \in 1..4
    BY <1>4
  <2>2. CASE k = 1
    BY <1>4, <2>2
  <2>3. CASE k = 2
    BY <1>4, <2>3
  <2>4. CASE k = 3
    BY <1>4, <2>4
  <2>5. CASE k = 4
    BY <1>4, <2>5
  <2> QED BY <2>1, <2>2, <2>3, <2>4, <2>5
<1> QED BY <1>1, <1>2, <1>3, <1>4 DEF Journals

\* What a program writes keeps record and payload in agreement.
LEMMA WritesAreSafe ==
  ASSUME NEW p \in DOMAIN Programs, NEW k \in 1..Len(Programs[p]), Known(p, k),
         Programs[p][k].op = "write"
  PROVE  Safe(Programs[p][k].sector, Programs[p][k].data)
PROOF
<1> USE ProgramsAre, JournalCalls, CallFields DEF Known, Both
<1>1. CASE p \in Fixtures
  <2>1. Programs[p][k].data = "FIXTURE" /\ Programs[p][k].sector # PayloadSector
    BY <1>1, CallsAre DEF Harmless
  <2>2. \A q : Agree("FIXTURE", q)
    BY DEF Agree
  <2> QED BY <2>1, <2>2 DEF Safe
<1>2. CASE p \in Journals
  <2>1. /\ \A q : Agree("PREPARE1", q)
        /\ Agree("COMMIT01", "NEWVAL01") /\ Agree("APPLIED1", "NEWVAL01")
        /\ Agree("ROLLBK01", "OLDVAL01") /\ Agree("PREPARE1", "NEWVAL01")
        /\ Agree("PREPARE1", "OLDVAL01")
    BY DEF Agree
  <2>2. LogSector # PayloadSector
    BY DEF LogSector, PayloadSector
  <2>3. CASE p = "prepare"
    <3>1. k \in {1, 3}
      <4>1. k \in 1..4 /\ Programs[p] = Prepare
        BY <2>3
      <4>2. Prepare[2].op # "write" /\ Prepare[4].op # "write"
        OBVIOUS
      <4> QED BY <4>1, <4>2
    <3>2. CASE k = 1
      BY <2>1, <2>2, <2>3, <3>2 DEF Safe, Maybe
    <3>3. CASE k = 3
      BY <2>1, <2>2, <2>3, <3>3 DEF Safe, Maybe
    <3> QED BY <3>1, <3>2, <3>3
  <2>4. CASE p = "commit"
    <3>1. k \in {1, 3, 5}
      <4>1. k \in 1..6 /\ Programs[p] = Commit
        BY <2>4
      <4>2. Commit[2].op # "write" /\ Commit[4].op # "write" /\ Commit[6].op # "write"
        OBVIOUS
      <4> QED BY <4>1, <4>2
    <3>2. CASE k = 1
      BY <2>1, <2>2, <2>4, <3>2 DEF Safe, Maybe
    <3>3. CASE k = 3
      BY <2>1, <2>2, <2>4, <3>3 DEF Safe, Maybe
    <3>4. CASE k = 5
      BY <2>1, <2>2, <2>4, <3>4 DEF Safe, Maybe
    <3> QED BY <3>1, <3>2, <3>3, <3>4
  <2>5. CASE p = "recover"
    <3>1. k \in {3, 5}
      <4>1. k \in 1..6 /\ Programs[p] = Recover
        BY <2>5
      <4>2. Recover[1].op # "write" /\ Recover[2].op # "write" /\ Recover[4].op # "write" /\ Recover[6].op # "write"
        OBVIOUS
      <4> QED BY <4>1, <4>2
    <3>2. CASE k = 3
      BY <2>1, <2>2, <2>5, <3>2 DEF Safe, Maybe
    <3>3. CASE k = 5
      BY <2>1, <2>2, <2>5, <3>3 DEF Safe, Maybe
    <3> QED BY <3>1, <3>2, <3>3
  <2>6. CASE p = "commit_recover"
    <3>1. k \in {3}
      <4>1. k \in 1..4 /\ Programs[p] = CommitRecover
        BY <2>6
      <4>2. CommitRecover[1].op # "write" /\ CommitRecover[2].op # "write" /\ CommitRecover[4].op # "write"
        OBVIOUS
      <4> QED BY <4>1, <4>2
    <3>2. CASE k = 3
      BY <2>1, <2>2, <2>6, <3>2 DEF Safe, Maybe
    <3> QED BY <3>1, <3>2
  <2> QED BY <1>2, <2>3, <2>4, <2>5, <2>6 DEF Journals
<1> QED BY <1>1, <1>2

\* Doing what a call writes takes no knowledge away.
LEMMA WritesKeepKnown ==
  ASSUME NEW p \in DOMAIN Programs, NEW k \in 1..Len(Programs[p]), Known(p, k),
         cache \in Disk, NEW c, c = Programs[p][k], c.op = "write",
         cache' = [cache EXCEPT ![c.sector] = c.data], medium' = medium
  PROVE  Known(p, k)'
PROOF
<1> USE ProgramsAre, JournalCalls, CallFields DEF Known, Both, Cached
<1>1. CASE p \in Fixtures
  BY <1>1 DEF Fixtures
<1>2. CASE p \in Journals
  <2>1. \A s \in Sector : cache'[s] = (IF s = c.sector THEN c.data ELSE cache[s])
    BY DEF Disk
  <2>2. LogSector \in Sector /\ PayloadSector \in Sector /\ LogSector # PayloadSector
    BY JournalAssumption DEF LogSector, PayloadSector
  <2>3. CASE p = "prepare"
    BY <2>1, <2>2, <2>3
  <2>4. CASE p = "commit"
    BY <2>1, <2>2, <2>4
  <2>5. CASE p = "recover"
    BY <2>1, <2>2, <2>5
  <2>6. CASE p = "commit_recover"
    BY <2>1, <2>2, <2>6
  <2> QED BY <1>2, <2>3, <2>4, <2>5, <2>6 DEF Journals
<1> QED BY <1>1, <1>2

\* Some of the cache reaches the medium.
Settles ==
  /\ cache' = cache /\ medium' \in Disk
  /\ \A s \in Sector : medium'[s] \in {medium[s], cache[s]}

\* That takes no knowledge away either.
LEMMA SettlingKeepsKnown ==
  ASSUME NEW p, NEW k, Known(p, k), medium \in Disk, cache \in Disk, Settles
  PROVE  Known(p, k)'
PROOF
<1>1. medium = cache => medium' = cache'
  BY DEF Settles, Disk
<1>2. LogSector \in Sector /\ PayloadSector \in Sector
  BY JournalAssumption
<1>3. \A s \in Sector, d \in Data : (Both(s, d) => Both(s, d)') /\ (Cached(s, d) => Cached(s, d)')
  BY DEF Settles, Both, Cached
<1>4. {"PREPARE1", "COMMIT01", "APPLIED1", "ROLLBK01", "OLDVAL01", "NEWVAL01"} \subseteq Data
  BY JournalAssumption
<1>5. \A d \in {"PREPARE1", "COMMIT01", "APPLIED1", "ROLLBK01", "OLDVAL01", "NEWVAL01"} :
        /\ Both(LogSector, d) => Both(LogSector, d)'
        /\ Both(PayloadSector, d) => Both(PayloadSector, d)'
        /\ Cached(LogSector, d) => Cached(LogSector, d)'
        /\ Cached(PayloadSector, d) => Cached(PayloadSector, d)'
  BY <1>2, <1>3, <1>4
<1> QED BY <1>1, <1>5 DEF Known

\* Nor does it break the agreement, or make a write unsafe.
LEMMA SettlingKeepsAgreement ==
  ASSUME Settles
  PROVE  /\ Mixed => Mixed'
         /\ \A s \in Sector, d \in Data : Safe(s, d) => Safe(s, d)'
PROOF
<1>1. LogSector \in Sector /\ PayloadSector \in Sector
  BY JournalAssumption
<1>2. Maybe(LogSector)' \subseteq Maybe(LogSector) /\ Maybe(PayloadSector)' \subseteq Maybe(PayloadSector)
  BY <1>1 DEF Settles, Maybe, LogSector, PayloadSector
<1>3. Mixed => Mixed'
  BY <1>2 DEF Mixed
<1>4. \A s \in Sector, d \in Data : Safe(s, d) => Safe(s, d)'
  BY <1>2 DEF Safe, LogSector, PayloadSector
<1> QED BY <1>3, <1>4

\* A safe write keeps it.
LEMMA SafeWritesAgree ==
  ASSUME cache \in Disk, NEW s \in Sector, NEW d \in Data, Mixed, Safe(s, d),
         medium' = medium, cache' = [cache EXCEPT ![s] = d]
  PROVE  Mixed'
PROOF
<1>1. LogSector \in Sector /\ PayloadSector \in Sector /\ LogSector # PayloadSector
  BY JournalAssumption DEF LogSector, PayloadSector
<1>2. \A t \in Sector : t # s => Maybe(t)' = Maybe(t)
  BY DEF Maybe, Disk
<1>3. Maybe(s)' = {medium[s], d}
  BY DEF Maybe, Disk
<1>4. medium[s] \in Maybe(s)
  BY DEF Maybe
<1>5. CASE s = LogSector
  <2>1. Maybe(PayloadSector)' = Maybe(PayloadSector)
    BY <1>1, <1>2, <1>5
  <2> QED BY <1>3, <1>4, <1>5, <2>1 DEF Mixed, Safe
<1>6. CASE s = PayloadSector
  <2>1. Maybe(LogSector)' = Maybe(LogSector)
    BY <1>1, <1>2, <1>6
  <2> QED BY <1>3, <1>4, <1>6, <2>1 DEF Mixed, Safe
<1>7. CASE s # LogSector /\ s # PayloadSector
  <2>1. Maybe(PayloadSector)' = Maybe(PayloadSector) /\ Maybe(LogSector)' = Maybe(LogSector)
    BY <1>1, <1>2, <1>7
  <2> QED BY <2>1 DEF Mixed
<1> QED BY <1>5, <1>6, <1>7

-----------------------------------------------------------------------------
(* The power, the programs and the kernel's own read. *)

\* A call that is over leaves the ring as it is.
LEMMA CallEnds ==
  ASSUME DriverInv, deviceVars' = deviceVars, call' = NoCall
  PROVE  DriverInv' /\ call'.op = "none" /\ call'.answer = "none"
PROOF
<1>1. NoCall.op = "none" /\ NoCall.todo = << >> /\ NoCall.answer = "none" /\ NoCall \in DriverCall
  BY NothingYet DEF NoCall
<1>2. /\ medium' = medium /\ cache' = cache /\ avail' = avail /\ taken' = taken /\ used' = used
      /\ page' = page /\ flight' = flight
  BY DEF deviceVars
<1> HIDE DEF NoCall
<1>3. DriverType' /\ (Quiet \/ Pending)'
  BY <1>1, <1>2 DEF DriverInv, DriverType, Quiet, Pending, Request
<1>4. Resting'
  BY <1>1 DEF Resting
<1> QED BY <1>1, <1>3, <1>4 DEF DriverInv, CallInv

\* A call that begins, too.
LEMMA CallBegins ==
  ASSUME DriverInv, deviceVars' = deviceVars, NEW op \in Op, NEW sector \in Sector, NEW data \in Data,
         call' = Begun(op, sector, data)
  PROVE  /\ DriverInv' /\ call'.op = op
         /\ call'.answer # "failed" => call'.sector = sector /\ call'.data = data
PROOF
<1>1. /\ call' \in DriverCall /\ call'.op = op
      /\ \/ call'.todo = << >> /\ call'.answer = "failed"
         \/ call'.todo = Steps(op) /\ call'.answer = "none" /\ call'.sector = sector /\ call'.data = data
  BY BegunIs
<1>2. /\ medium' = medium /\ cache' = cache /\ avail' = avail /\ taken' = taken /\ used' = used
      /\ page' = page /\ flight' = flight
  BY DEF deviceVars
<1>3. DriverType' /\ (Quiet \/ Pending)'
  BY <1>1, <1>2 DEF DriverInv, DriverType, Quiet, Pending, Request
<1>4. Answered' \/ Fresh'
  BY <1>1 DEF Answered, Fresh
<1> QED BY <1>1, <1>3, <1>4 DEF DriverInv, CallInv

\* An empty ring is quiet.
LEMMA EmptyRing ==
  ASSUME avail' = 0, taken' = 0, used' = 0, flight' = << >>, page' = EmptyPage
  PROVE  /\ Quiet' /\ avail' \in Index /\ taken' \in Index /\ used' \in Index
         /\ page' \in Page /\ ~PendingWrite'
PROOF
<1>1. 0 \in Index /\ EmptyPage \in Page /\ EmptyPage.type = "read"
  BY VirtioAssumption, NothingYet DEF Index, EmptyPage
<1> QED BY <1>1 DEF Quiet, PendingWrite

\* The driver is in order when the system begins.
LEMMA DriverBegins == Init => DriverInv
PROOF
<1> SUFFICES ASSUME Init PROVE DriverInv
  OBVIOUS
<1>1. PICK log \in {Blank, "READOK01"} :
        BlockInit([s \in Sector |-> CASE s = LogSector -> log
                                      [] s = PayloadSector -> "OLDVAL01"
                                      [] OTHER -> Blank])
  BY DEF Init
<1>2. log \in Data /\ Blank \in Data /\ "OLDVAL01" \in Data
  BY VirtioAssumption, JournalAssumption
<1>3. medium \in Disk /\ cache \in Disk
  BY <1>1, <1>2 DEF BlockInit, Disk
<1>4. 0 \in Index /\ NoCall \in DriverCall /\ EmptyPage \in Page
  BY VirtioAssumption, NothingYet DEF Index
<1>5. DriverType /\ Quiet
  BY <1>1, <1>3, <1>4 DEF BlockInit, DriverType, Quiet
<1>6. Resting
  BY <1>1 DEF BlockInit, Resting, NoCall
<1> QED BY <1>5, <1>6 DEF DriverInv, CallInv

\* The power goes.
LEMMA DriverLosesPower ==
  ASSUME DriverInv, LosePower
  PROVE  DriverInv' /\ ~PendingWrite' /\ call'.op = "none"
PROOF
<1>1. Quiet' /\ avail' \in Index /\ taken' \in Index /\ used' \in Index /\ page' \in Page /\ ~PendingWrite'
  BY EmptyRing DEF LosePower
<1>2. call' \in DriverCall /\ Resting'
  BY NothingYet DEF LosePower, Resting, NoCall
<1>3. medium' \in Disk /\ cache' \in Disk
  BY DEF LosePower, DriverInv, DriverType
<1> QED BY <1>1, <1>2, <1>3 DEF DriverInv, DriverType, CallInv, Resting

\* The machine boots and kernel_main starts its read.
LEMMA DriverBoots ==
  ASSUME DriverInv, NEW p \in DOMAIN Programs, Boot(p)
  PROVE  DriverInv' /\ ~PendingWrite' /\ call'.op = "read"
PROOF
<1>1. Quiet' /\ avail' \in Index /\ taken' \in Index /\ used' \in Index /\ page' \in Page /\ ~PendingWrite'
  BY EmptyRing DEF Boot, Reset
<1>2. call' = Begun("read", 0, Blank) /\ medium' = medium /\ cache' = cache
  BY DEF Boot
<1>3. /\ call' \in DriverCall /\ call'.op = "read"
      /\ \/ call'.todo = << >> /\ call'.answer = "failed"
         \/ call'.todo = Steps("read") /\ call'.answer = "none"
  BY <1>2, BegunIs, VirtioAssumption DEF Op
<1>4. Answered' \/ Fresh'
  BY <1>3 DEF Answered, Fresh, Op
<1> QED BY <1>1, <1>2, <1>3, <1>4 DEF DriverInv, DriverType, CallInv

-----------------------------------------------------------------------------
(* What each step keeps of the journal. *)

\* The image and its place in it, and the disk, are left alone.
SamePlace == phase' = phase /\ program' = program /\ pc' = pc
SameDisk  == medium' = medium /\ cache' = cache

\* While the disk is left alone, so are the agreement and what is known of it.
LEMMA NothingMoves ==
  ASSUME SameDisk
  PROVE  /\ Mixed => Mixed'
         /\ \A s, d : Safe(s, d) => Safe(s, d)'
         /\ program' = program /\ pc' = pc /\ Known(program, pc) => Known(program, pc)'
         /\ program' = program /\ pc' = pc /\ Known(program, pc + 1) => Known(program, pc + 1)'
PROOF
<1>1. Maybe(LogSector)' = Maybe(LogSector) /\ Maybe(PayloadSector)' = Maybe(PayloadSector)
  BY DEF SameDisk, Maybe, LogSector, PayloadSector
<1>2. (Mixed => Mixed') /\ \A s, d : Safe(s, d) => Safe(s, d)'
  BY <1>1 DEF Mixed, Safe, LogSector, PayloadSector
<1>3. program' = program /\ pc' = pc /\ Known(program, pc) => Known(program, pc)'
  BY DEF SameDisk, Known, Both, Cached, LogSector, PayloadSector
<1>4. program' = program /\ pc' = pc /\ Known(program, pc + 1) => Known(program, pc + 1)'
  BY DEF SameDisk, Known, Both, Cached, LogSector, PayloadSector
<1> QED BY <1>2, <1>3, <1>4

\* Neither is a request that is pending, if the page is.
LEMMA SamePageAgrees ==
  ASSUME AgreeInv, SameDisk, page' = page, PendingWrite' => PendingWrite
  PROVE  AgreeInv'
PROOF
<1>1. PICK s, d : s = page.sector /\ d = page.data
  OBVIOUS
<1>2. Mixed' /\ (PendingWrite' => Safe(s, d)')
  BY <1>1, NothingMoves DEF AgreeInv
<1>3. Safe(s, d)' => Safe(page.sector, page.data)'
  BY <1>1 DEF Safe, Maybe, LogSector, PayloadSector
<1> QED BY <1>2, <1>3 DEF AgreeInv

\* A step of the driver that does not publish.
LEMMA DriverStepKeeps ==
  ASSUME JournalInv, SamePlace, SameDisk,
         page' = page, PendingWrite' => PendingWrite, ~Fresh', call.op # "none",
         call'.op = call.op,
         call'.answer # "failed" =>
           call.answer # "failed" /\ call'.sector = call.sector /\ call'.data = call.data
  PROVE  JournalInv'
PROOF
<1>1. phase \in {"check", "run"}
  BY DEF JournalInv, PhaseInv
<1>2. PlaceInv'
  BY DEF JournalInv, PlaceInv, SamePlace
<1>3. AgreeInv'
  BY SamePageAgrees DEF JournalInv
<1>4. PhaseInv' /\ DoneInv'
  BY <1>1 DEF JournalInv, PhaseInv, DoneInv, SamePlace, SameDisk
<1>5. OwnInv'
  BY DEF JournalInv, OwnInv, SamePlace
<1>6. RunInv'
  BY NothingMoves DEF JournalInv, RunInv, SamePlace, Matches, Current
<1> QED BY <1>2, <1>3, <1>4, <1>5, <1>6 DEF JournalInv

\* Publishing a request for what the program does next.
LEMMA PublishKeepsJournal ==
  ASSUME DriverInv, JournalInv, Publish, ~overran', SamePlace
  PROVE  JournalInv'
PROOF
<1>1. /\ DriverInv' /\ Pending' /\ Ours' /\ (Sent' \/ Waiting') /\ call.op # "none"
      /\ call'.op = call.op /\ call'.sector = call.sector /\ call'.data = call.data
  BY PublishKeeps
<1>2. SameDisk
  BY DEF Publish, SameDisk
<1>3. ~Fresh' /\ call'.answer = "none"
  BY <1>1, BegunIsNotFresh DEF Sent, Waiting
<1>4. phase \in {"check", "run"} /\ call.answer = "none"
  <2>1. AtStep("publish")
    BY DEF Publish
  <2>2. Sampled \/ Fresh
    BY <2>1, WhereItStands DEF DriverInv
  <2> QED BY <1>1, <2>2 DEF JournalInv, PhaseInv, Sampled, Fresh
<1>5. PlaceInv'
  BY DEF JournalInv, PlaceInv, SamePlace
<1>6. PhaseInv' /\ DoneInv'
  BY <1>1, <1>2, <1>4 DEF JournalInv, PhaseInv, DoneInv, SamePlace, SameDisk
<1>7. PendingWrite' => call'.op = "write"
  BY <1>1 DEF PendingWrite, Ours
<1>8. OwnInv'
  BY <1>3, <1>7 DEF OwnInv
<1>9. RunInv'
  BY <1>1, <1>2, <1>4, NothingMoves DEF JournalInv, RunInv, SamePlace, Matches, Current
<1>10. AgreeInv'
  <2>1. Mixed'
    BY <1>2, NothingMoves DEF JournalInv, AgreeInv
  <2>2. ASSUME PendingWrite' PROVE Safe(page.sector, page.data)'
    <3>1. phase = "run" /\ call.op = "write"
      BY <1>1, <1>4, <1>7, <2>2 DEF JournalInv, PhaseInv
    <3>2. Current.op = "write" /\ Current.sector = call.sector /\ Current.data = call.data
          /\ Known(program, pc)
      BY <1>4, <3>1 DEF JournalInv, RunInv, Matches
    <3>3. Safe(Current.sector, Current.data)
      BY <3>2, WritesAreSafe DEF JournalInv, PlaceInv, Current
    <3>4. PICK s, d : s = call.sector /\ d = call.data
      OBVIOUS
    <3>5. Safe(s, d)'
      BY <1>2, <3>2, <3>3, <3>4, NothingMoves
    <3>6. page'.sector = s /\ page'.data = d
      BY <1>1, <1>7, <2>2, <3>4 DEF Ours
    <3> QED BY <3>5, <3>6 DEF Safe, Maybe, LogSector, PayloadSector
  <2> QED BY <2>1, <2>2 DEF AgreeInv
<1> QED BY <1>5, <1>6, <1>8, <1>9, <1>10 DEF JournalInv

\* The other steps of the driver.
LEMMA DriverKeepsJournal ==
  ASSUME DriverInv, JournalInv, Driver, ~overran', SamePlace
  PROVE  DriverInv' /\ JournalInv'
PROOF
<1>1. CASE Sample
  <2>1. /\ DriverInv' /\ (Sampled' \/ Waiting') /\ call.op # "none"
        /\ call'.op = call.op /\ call'.sector = call.sector /\ call'.data = call.data
    BY <1>1, SampleKeeps
  <2>2. SameDisk /\ page' = page /\ (PendingWrite' => PendingWrite)
    BY <1>1 DEF Sample, deviceVars, SameDisk, PendingWrite, Pending, Request
  <2>3. ~Fresh'
    BY <2>1, BegunIsNotFresh
  <2>4. call.answer = "none"
    <3>1. AtStep("sample")
      BY <1>1 DEF Sample
    <3> QED BY <3>1, WhereItStands DEF DriverInv, Sent, Fresh
  <2> QED BY <2>1, <2>2, <2>3, <2>4, DriverStepKeeps
<1>2. CASE Publish
  BY <1>2, PublishKeeps, PublishKeepsJournal
<1>3. CASE PollHits
  <2>1. /\ DriverInv' /\ Answered' /\ call.op # "none"
        /\ call'.op = call.op /\ call'.sector = call.sector /\ call'.data = call.data
    BY <1>3, PollHitsIs DEF Op
  <2>2. SameDisk /\ page' = page /\ (PendingWrite' => PendingWrite)
    BY <1>3 DEF PollHits, deviceVars, SameDisk, PendingWrite, Pending, Request
  <2>3. ~Fresh'
    BY <2>1, BegunIsNotFresh
  <2>4. call.answer = "none"
    <3>1. AtStep("poll")
      BY <1>3 DEF PollHits
    <3> QED BY <3>1, WhereItStands DEF DriverInv, Waiting
  <2> QED BY <2>1, <2>2, <2>3, <2>4, DriverStepKeeps
<1>4. CASE PollExpires
  <2>1. /\ DriverInv' /\ Answered' /\ call.op # "none" /\ call'.op = call.op /\ call'.answer = "failed"
    BY <1>4, PollExpiresKeeps DEF Op
  <2>2. SameDisk /\ page' = page /\ (PendingWrite' => PendingWrite)
    BY <1>4 DEF PollExpires, deviceVars, SameDisk, PendingWrite, Pending, Request
  <2>3. ~Fresh'
    BY <2>1, BegunIsNotFresh
  <2> QED BY <2>1, <2>2, <2>3, DriverStepKeeps
<1> QED BY <1>1, <1>2, <1>3, <1>4 DEF Driver

\* What the device writes back, or flushes, leaves the journal in order.
LEMMA SettlingKeepsJournal ==
  ASSUME DriverInv, JournalInv, SamePlace, Settles, call' = call,
         page'.sector = page.sector, page'.data = page.data, PendingWrite' => PendingWrite
  PROVE  JournalInv'
PROOF
<1>1. medium \in Disk /\ cache \in Disk /\ page \in Page
  BY DEF DriverInv, DriverType
<1>2. PlaceInv'
  BY DEF JournalInv, PlaceInv, SamePlace
<1>3. AgreeInv'
  <2>1. PICK s, d : s = page.sector /\ d = page.data
    OBVIOUS
  <2>2. s \in Sector /\ d \in Data
    BY <1>1, <2>1 DEF Page
  <2>3. Mixed' /\ (PendingWrite' => Safe(s, d)')
    BY <2>1, <2>2, SettlingKeepsAgreement DEF JournalInv, AgreeInv
  <2>4. Safe(s, d)' => Safe(page.sector, page.data)'
    BY <2>1 DEF Safe, Maybe, LogSector, PayloadSector
  <2> QED BY <2>3, <2>4 DEF AgreeInv
<1>4. PhaseInv'
  <2>1. medium = cache => medium' = cache'
    BY <1>1 DEF Settles, Disk
  <2> QED BY <2>1 DEF JournalInv, PhaseInv, SamePlace
<1>5. OwnInv'
  BY DEF JournalInv, OwnInv, SamePlace, Fresh
<1>6. PICK p, k : p = program /\ k = pc
  OBVIOUS
<1>7. RunInv'
  <2>1. Known(program, pc) => Known(program, pc)'
    <3>1. Known(p, k) => Known(p, k)'
      BY <1>1, SettlingKeepsKnown
    <3> QED BY <1>6, <3>1 DEF SamePlace, Known, Both, Cached, LogSector, PayloadSector
  <2> QED BY <2>1 DEF JournalInv, RunInv, SamePlace, Matches, Current
<1>8. DoneInv'
  <2>1. Known(program, pc + 1) => Known(program, pc + 1)'
    <3>1. Known(p, k + 1) => Known(p, k + 1)'
      BY <1>1, SettlingKeepsKnown
    <3> QED BY <1>6, <3>1 DEF SamePlace, Known, Both, Cached, LogSector, PayloadSector
  <2> QED BY <2>1 DEF JournalInv, DoneInv, SamePlace
<1> QED BY <1>2, <1>3, <1>4, <1>5, <1>7, <1>8 DEF JournalInv

\* The device does what the pending request asks, or refuses it.
LEMMA FinishKeepsJournal ==
  ASSUME DriverInv, JournalInv, SamePlace,
         NEW i \in 1..Len(flight), NEW well \in BOOLEAN, Finish(i, well)
  PROVE  DriverInv' /\ JournalInv'
PROOF
<1>1. DriverInv' /\ Pending /\ Quiet' /\ Effect(well) /\ call' = call
  BY FinishKeeps
<1>2. medium \in Disk /\ cache \in Disk /\ page \in Page
  BY DEF DriverInv, DriverType
<1>3. ~PendingWrite'
  <2>1. ~(Quiet' /\ Pending')
    BY <1>1, IndexMoves DEF DriverInv, DriverType, Quiet, Pending
  <2> QED BY <1>1, <2>1 DEF PendingWrite
<1>4. CASE ~(well /\ page.type = "write")
  <2>1. Settles
    BY <1>1, <1>2, <1>4 DEF Effect, Settles
  <2>2. PlaceInv'
    BY DEF JournalInv, PlaceInv, SamePlace
  <2>3. Mixed'
    BY <2>1, SettlingKeepsAgreement DEF JournalInv, AgreeInv
  <2>4. PhaseInv'
    <3>1. medium = cache => medium' = cache'
      BY <1>2, <2>1 DEF Settles, Disk
    <3> QED BY <1>1, <3>1 DEF JournalInv, PhaseInv, SamePlace
  <2>5. PICK p, k : p = program /\ k = pc
    OBVIOUS
  <2>6. (Known(p, k) => Known(p, k)') /\ (Known(p, k + 1) => Known(p, k + 1)')
    BY <1>2, <2>1, SettlingKeepsKnown
  <2>7. Known(program, pc) => Known(program, pc)'
    BY <2>5, <2>6 DEF SamePlace, Known, Both, Cached, LogSector, PayloadSector
  <2>8. Known(program, pc + 1) => Known(program, pc + 1)'
    BY <2>5, <2>6 DEF SamePlace, Known, Both, Cached, LogSector, PayloadSector
  <2>9. RunInv' /\ DoneInv'
    BY <1>1, <2>7, <2>8 DEF JournalInv, RunInv, DoneInv, SamePlace, Matches, Current
  <2> QED BY <1>1, <1>3, <2>2, <2>3, <2>4, <2>9 DEF JournalInv, AgreeInv, OwnInv
<1>5. CASE well /\ page.type = "write"
  <2>1. PendingWrite /\ medium' = medium /\ cache' = [cache EXCEPT ![page.sector] = page.data]
    BY <1>1, <1>5 DEF Effect, PendingWrite
  <2>2. page.sector \in Sector /\ page.data \in Data
    BY <1>2 DEF Page
  <2>3. Mixed'
    BY <1>2, <2>1, <2>2, SafeWritesAgree DEF JournalInv, AgreeInv
  <2>4. PlaceInv'
    BY DEF JournalInv, PlaceInv, SamePlace
  <2>5. phase \notin {"off", "check", "done"}
    BY <2>1 DEF JournalInv, PhaseInv, OwnInv
  <2>6. PhaseInv' /\ DoneInv'
    BY <1>1, <2>5 DEF JournalInv, PhaseInv, DoneInv, SamePlace
  <2>7. ASSUME phase = "run", call.answer # "failed"
        PROVE  Known(program, pc)'
    <3>1. call.op = "write" /\ ~Fresh
      BY <2>1, <2>7 DEF JournalInv, OwnInv
    <3>2. ~Quiet
      BY <1>1, QuietOrPending DEF DriverInv
    <3>3. Sent \/ Waiting
      BY <2>7, <3>1, <3>2 DEF DriverInv, CallInv, Resting, Answered, Sampled
    <3>4. Ours
      BY <3>3 DEF Sent, Waiting
    <3>5. Current.op = "write" /\ Current.sector = page.sector /\ Current.data = page.data
          /\ Known(program, pc)
      BY <2>7, <3>1, <3>4 DEF JournalInv, RunInv, Matches, Ours
    <3>6. PICK p \in DOMAIN Programs, k \in 1..Len(Programs[program]) : p = program /\ k = pc
      BY DEF JournalInv, PlaceInv
    <3>7. PICK c : c = Current
      OBVIOUS
    <3>8. Known(p, k)'
      <4>1. c = Programs[p][k] /\ c.op = "write" /\ cache' = [cache EXCEPT ![c.sector] = c.data]
        BY <2>1, <3>5, <3>6, <3>7 DEF Current
      <4>2. Known(p, k) /\ k \in 1..Len(Programs[p])
        BY <3>5, <3>6
      <4> QED BY <1>2, <2>1, <4>1, <4>2, WritesKeepKnown
    <3> QED BY <3>6, <3>8 DEF SamePlace, Known, Both, Cached, LogSector, PayloadSector
  <2>8. RunInv'
    BY <1>1, <2>7 DEF JournalInv, RunInv, SamePlace, Matches, Current
  <2> QED BY <1>1, <1>3, <2>3, <2>4, <2>6, <2>8 DEF JournalInv, AgreeInv, OwnInv
<1> QED BY <1>4, <1>5

\* Every step of the device leaves the journal in order.
LEMMA DeviceKeepsJournal ==
  ASSUME DriverInv, JournalInv, Device, SamePlace
  PROVE  DriverInv' /\ JournalInv'
PROOF
<1>1. medium \in Disk /\ cache \in Disk /\ page \in Page
  BY DEF DriverInv, DriverType
<1>2. CASE Take
  <2>1. DriverInv' /\ Pending
    BY <1>2, TakeKeeps
  <2>2. /\ medium' = medium /\ cache' = cache /\ page' = page /\ call' = call
    BY <1>2 DEF Take
  <2>3. PendingWrite' => PendingWrite
    BY <2>1, <2>2 DEF PendingWrite
  <2>4. Settles
    BY <1>1, <2>2 DEF Settles
  <2> QED BY <2>1, <2>2, <2>3, <2>4, SettlingKeepsJournal
<1>3. ASSUME NEW i \in 1..Len(flight), NEW well \in BOOLEAN, Finish(i, well)
      PROVE  DriverInv' /\ JournalInv'
  BY <1>3, FinishKeepsJournal
<1>4. ASSUME NEW s \in Sector, WriteBack(s)
      PROVE  DriverInv' /\ JournalInv'
  <2>1. DriverInv'
    BY <1>4, WriteBackKeeps
  <2>2. /\ medium' = [medium EXCEPT ![s] = cache[s]] /\ cache' = cache
        /\ page' = page /\ call' = call
    BY <1>4 DEF WriteBack
  <2>3. PendingWrite' => PendingWrite
    BY <1>4 DEF WriteBack, ring, PendingWrite, Pending, Request
  <2>4. Settles
    BY <1>1, <2>2 DEF Settles, Disk
  <2> QED BY <2>1, <2>2, <2>3, <2>4, SettlingKeepsJournal
<1> QED BY <1>2, <1>3, <1>4 DEF Device

\* A fixture claims no knowledge.
LEMMA FixturesKnowNothing == ASSUME NEW p \in Fixtures, NEW k PROVE Known(p, k)
  BY DEF Fixtures, Known

\* The program looks at its answer, and goes on only if it knows what it did.
LEMMA ResumeKeeps ==
  ASSUME JournalInv, phase = "run", NEW rax, NEW out, Resume(rax, out), program' = program,
         SameDisk, page' = page, PendingWrite' => PendingWrite,
         call'.op = "none", call'.answer = "none",
         GoesOn(rax, out) => Known(program, pc + 1) /\ ~PendingWrite
  PROVE  JournalInv'
PROOF
<1>1. AgreeInv'
  BY SamePageAgrees DEF JournalInv
<1>2. PlaceInv
  BY DEF JournalInv
<1>3. Len(Programs[program]) \in Nat
  BY <1>2, CallsAre DEF PlaceInv
<1>4. CASE ~GoesOn(rax, out)
  <2>1. phase' = "failed" /\ pc' = pc
    BY <1>4 DEF Resume
  <2> QED BY <1>1, <1>2, <2>1 DEF JournalInv, PlaceInv, PhaseInv, OwnInv, RunInv, DoneInv
<1>5. CASE GoesOn(rax, out) /\ pc = Len(Programs[program])
  <2>1. phase' = "done" /\ pc' = pc
    BY <1>5 DEF Resume
  <2>2. Known(program, pc + 1)'
    BY <1>5, <2>1, NothingMoves
  <2> QED BY <1>1, <1>2, <1>5, <2>1, <2>2 DEF JournalInv, PlaceInv, PhaseInv, OwnInv, RunInv, DoneInv
<1>6. CASE GoesOn(rax, out) /\ pc # Len(Programs[program])
  <2>1. phase' = "run" /\ pc' = pc + 1
    BY <1>6 DEF Resume
  <2>2. Known(program, pc)'
    BY <1>6, <2>1 DEF SameDisk, Known, Both, Cached, LogSector, PayloadSector
  <2>3. PlaceInv'
    BY <1>2, <1>3, <1>6, <2>1 DEF PlaceInv
  <2> QED BY <1>1, <1>6, <2>1, <2>2, <2>3 DEF JournalInv, PhaseInv, OwnInv, RunInv, DoneInv
<1> QED BY <1>4, <1>5, <1>6

\* A call the kernel refuses.
LEMMA RefusedKeeps ==
  ASSUME DriverInv, JournalInv, Refused
  PROVE  DriverInv' /\ JournalInv'
PROOF
<1>1. /\ phase = "run" /\ call.op = "none" /\ Refusal(Current) # "none"
      /\ Resume(Refusal(Current), Blank) /\ program' = program
      /\ medium' = medium /\ cache' = cache /\ avail' = avail /\ taken' = taken /\ used' = used
      /\ page' = page /\ flight' = flight /\ call' = call
  BY DEF Refused, Running, blockVars
<1>2. DriverInv'
  BY <1>1 DEF DriverInv, DriverType, Quiet, Pending, Request, CallInv, Resting, Answered, Fresh,
              Sampled, Sent, Waiting, Ours, Completed, Done
<1>3. call.answer = "none"
  BY <1>1 DEF DriverInv, CallInv, Resting, Answered, Fresh, Sampled, Sent, Waiting, Op
<1>4. PendingWrite' => PendingWrite
  BY <1>1 DEF PendingWrite, Pending, Request
<1>5. ~PendingWrite
  BY <1>1 DEF JournalInv, OwnInv
<1>6. Refusal(Current) # "done"
  BY DEF Refusal, FlushRefusal, TransferRefusal
<1>7. GoesOn(Refusal(Current), Blank) => Known(program, pc + 1)
  <2>1. program \in DOMAIN Programs /\ pc \in 1..Len(Programs[program])
    BY DEF JournalInv, PlaceInv
  <2>2. program \in Journals => Current.want = "done"
    BY <2>1, CallsAre DEF Current
  <2>3. program \in Journals \cup Fixtures
    BY <2>1, ProgramsAre
  <2> QED BY <1>6, <2>2, <2>3, FixturesKnowNothing DEF GoesOn
<1> QED BY <1>1, <1>2, <1>3, <1>4, <1>5, <1>7, ResumeKeeps DEF SameDisk

\* A call the kernel passes to the driver.
LEMMA TrapKeeps ==
  ASSUME DriverInv, JournalInv, Trap
  PROVE  DriverInv' /\ JournalInv'
PROOF
<1>1. /\ phase = "run" /\ call.op = "none" /\ deviceVars' = deviceVars /\ SamePlace
      /\ call' = Begun(Current.op, Current.sector, Current.data)
  BY DEF Trap, Running, SamePlace
<1>2. Current.op \in Op /\ Current.sector \in Sector /\ Current.data \in Data
  BY CallsAre DEF JournalInv, PlaceInv, Current, Sound
<1>3. /\ DriverInv' /\ call'.op = Current.op
      /\ call'.answer # "failed" => call'.sector = Current.sector /\ call'.data = Current.data
  BY <1>1, <1>2, CallBegins
<1>4. SameDisk /\ page' = page /\ (PendingWrite' => PendingWrite)
  BY <1>1 DEF deviceVars, SameDisk, PendingWrite, Pending, Request
<1>5. ~PendingWrite'
  BY <1>1, <1>4 DEF JournalInv, OwnInv
<1>6. AgreeInv'
  BY <1>4, SamePageAgrees DEF JournalInv
<1>7. call.answer = "none"
  BY <1>1 DEF DriverInv, CallInv, Resting, Answered, Fresh, Sampled, Sent, Waiting, Op
<1>8. Known(program, pc)'
  BY <1>1, <1>4, <1>7, NothingMoves DEF JournalInv, RunInv, SamePlace
<1>9. RunInv'
  BY <1>1, <1>3, <1>8 DEF RunInv, Matches, Current, SamePlace
<1> QED BY <1>1, <1>3, <1>5, <1>6, <1>9 DEF JournalInv, PlaceInv, PhaseInv, OwnInv, DoneInv, SamePlace

\* The answer of the driver reaches the program.
LEMMA ReturnKeeps ==
  ASSUME DriverInv, JournalInv, Return
  PROVE  DriverInv' /\ JournalInv'
PROOF
<1>1. /\ phase = "run" /\ call.answer # "none" /\ deviceVars' = deviceVars
      /\ Resume(Returned(Current), call.out) /\ program' = program /\ call' = NoCall
  BY DEF Return
<1>2. DriverInv' /\ call'.op = "none" /\ call'.answer = "none"
  BY <1>1, CallEnds
<1>3. SameDisk /\ page' = page /\ (PendingWrite' => PendingWrite)
  BY <1>1 DEF deviceVars, SameDisk, PendingWrite, Pending, Request
<1>4. Answered /\ call.op # "none"
  BY <1>1 DEF DriverInv, CallInv, Resting, Answered, Fresh, Sampled, Sent, Waiting, Op
<1>5. program \in DOMAIN Programs /\ pc \in 1..Len(Programs[program]) /\ call.op = Current.op
  BY <1>1, <1>4 DEF JournalInv, PlaceInv, RunInv
<1>6. /\ Current.want # "EIO" /\ (program \in Journals => Current.want = "done")
      /\ program \in Journals \cup Fixtures
  BY <1>5, CallsAre, ProgramsAre DEF Current, Sound
<1>7. CASE call.answer = "ok"
  <2>1. Quiet /\ Done(call.out)
    BY <1>4, <1>7 DEF Answered
  <2>2. ~PendingWrite
    BY <2>1, QuietOrPending DEF PendingWrite, DriverInv
  <2>3. Matches(Current) /\ Known(program, pc)
    BY <1>1, <1>4, <1>7 DEF JournalInv, RunInv
  <2>4. ASSUME GoesOn(Returned(Current), call.out), program \in Journals
        PROVE  Known(program, pc + 1)
    <3>1. Returned(Current) = "done"
      BY <1>7 DEF Returned
    <3>2. Current.op = "read" => call.out = Current.data
      BY <2>4, <3>1 DEF GoesOn
    <3>3. CallDone(Current)
      BY <2>1, <2>3, <3>2 DEF Done, CallDone, Matches
    <3> QED BY <1>5, <2>3, <2>4, <3>3, KnowsMore DEF Current
  <2>5. GoesOn(Returned(Current), call.out) => Known(program, pc + 1)
    BY <1>6, <2>4, FixturesKnowNothing
  <2> QED BY <1>1, <1>2, <1>3, <2>2, <2>5, ResumeKeeps
<1>8. CASE call.answer = "failed"
  <2>1. Returned(Current) = (IF Current.op = "flush" THEN "EOPNOTSUPP" ELSE "EIO")
    BY <1>8 DEF Returned
  <2>2. GoesOn(Returned(Current), call.out) => Current.op = "flush" /\ Current.want = "EOPNOTSUPP"
    BY <1>6, <2>1 DEF GoesOn
  <2>3. Current.op = "flush" => ~PendingWrite
    BY <1>1, <1>5 DEF JournalInv, OwnInv
  <2>4. Current.want = "EOPNOTSUPP" => Known(program, pc + 1)
    BY <1>6, FixturesKnowNothing
  <2> QED BY <1>1, <1>2, <1>3, <2>2, <2>3, <2>4, ResumeKeeps
<1> QED BY <1>4, <1>7, <1>8 DEF Answered

\* The kernel's own read is over and the program starts.
LEMMA CheckedKeeps ==
  ASSUME DriverInv, JournalInv, Checked
  PROVE  DriverInv' /\ JournalInv'
PROOF
<1>1. /\ phase = "check" /\ deviceVars' = deviceVars /\ phase' = "run" /\ program' = program /\ pc' = pc
      /\ call' = NoCall
  BY DEF Checked
<1>2. DriverInv' /\ call'.op = "none" /\ call'.answer = "none"
  BY <1>1, CallEnds
<1>3. SameDisk /\ page' = page /\ (PendingWrite' => PendingWrite)
  BY <1>1 DEF deviceVars, SameDisk, PendingWrite, Pending, Request
<1>4. ~PendingWrite /\ pc = 1 /\ medium = cache
  BY <1>1 DEF JournalInv, PhaseInv, OwnInv
<1>5. AgreeInv'
  BY <1>3, SamePageAgrees DEF JournalInv
<1>6. Known(program, pc)'
  BY <1>1, <1>3, <1>4 DEF SameDisk, Known
<1> QED BY <1>1, <1>2, <1>3, <1>4, <1>5, <1>6
    DEF JournalInv, PlaceInv, PhaseInv, OwnInv, RunInv, DoneInv

\* A disk that is as it was, or as the medium was, is in agreement.
LEMMA MediumAgrees ==
  ASSUME Mixed, medium' = medium, cache' = medium \/ cache' = cache
  PROVE  Mixed'
PROOF
<1>1. Maybe(LogSector)' \subseteq Maybe(LogSector) /\ Maybe(PayloadSector)' \subseteq Maybe(PayloadSector)
  BY DEF Maybe, LogSector, PayloadSector
<1> QED BY <1>1 DEF Mixed

\* The power goes.
LEMMA PowerFailsKeeps ==
  ASSUME DriverInv, JournalInv, PowerFails
  PROVE  DriverInv' /\ JournalInv'
PROOF
<1>1. /\ LosePower /\ phase' = "off" /\ program' = program /\ pc' = pc
      /\ medium' = medium /\ cache' = medium
  BY DEF PowerFails, LosePower
<1>2. DriverInv' /\ ~PendingWrite' /\ call'.op = "none"
  BY <1>1, DriverLosesPower
<1>3. Mixed'
  BY <1>1, MediumAgrees DEF JournalInv, AgreeInv
<1> QED BY <1>1, <1>2, <1>3 DEF JournalInv, PlaceInv, AgreeInv, PhaseInv, OwnInv, RunInv, DoneInv

\* The machine boots, with a device or without one.
LEMMA BootKeeps ==
  ASSUME DriverInv, JournalInv, NEW p \in DOMAIN Programs, Boot(p) \/ BootWithout(p)
  PROVE  DriverInv' /\ JournalInv'
PROOF
<1>0. Len(Programs[p]) \in Nat /\ 1 \in 1..Len(Programs[p])
  <2>1. CASE p = "prepare"
    BY <2>1, ProgramsAre, JournalCalls
  <2>2. CASE p = "commit"
    BY <2>2, ProgramsAre, JournalCalls
  <2>3. CASE p = "recover"
    BY <2>3, ProgramsAre, JournalCalls
  <2>4. CASE p = "commit_recover"
    BY <2>4, ProgramsAre, JournalCalls
  <2>5. CASE p = "block_read"
    BY <2>5, ProgramsAre, FixtureCalls
  <2>6. CASE p = "block_write"
    BY <2>6, ProgramsAre, FixtureCalls
  <2>7. CASE p = "block_flush"
    BY <2>7, ProgramsAre, FixtureCalls
  <2> QED BY <2>1, <2>2, <2>3, <2>4, <2>5, <2>6, <2>7, ProgramsAre DEF Journals, Fixtures
<1>1. CASE Boot(p)
  <2>1. DriverInv' /\ ~PendingWrite' /\ call'.op = "read"
    BY <1>1, DriverBoots
  <2>2. /\ phase = "off" /\ phase' = "check" /\ program' = p /\ pc' = 1
        /\ medium' = medium /\ cache' = cache
    BY <1>1 DEF Boot
  <2>3. Mixed'
    BY <2>2, MediumAgrees DEF JournalInv, AgreeInv
  <2> QED BY <1>0, <2>1, <2>2, <2>3
      DEF JournalInv, PlaceInv, AgreeInv, PhaseInv, OwnInv, RunInv, DoneInv
<1>2. CASE BootWithout(p)
  <2>1. /\ phase = "off" /\ phase' = "halted" /\ program' = p /\ pc' = 1
        /\ medium' = medium /\ cache' = cache /\ avail' = avail /\ taken' = taken /\ used' = used
        /\ page' = page /\ flight' = flight /\ call' = call
    BY <1>2 DEF BootWithout, blockVars
  <2>2. DriverInv'
    BY <2>1 DEF DriverInv, DriverType, Quiet, Pending, Request, CallInv, Resting, Answered, Fresh,
                Sampled, Sent, Waiting, Ours, Completed, Done
  <2>3. PendingWrite' => PendingWrite
    BY <2>1 DEF PendingWrite, Pending, Request
  <2>4. AgreeInv'
    BY <2>1, <2>3, SamePageAgrees DEF JournalInv, SameDisk
  <2> QED BY <1>0, <2>1, <2>2, <2>3, <2>4
      DEF JournalInv, PlaceInv, PhaseInv, OwnInv, RunInv, DoneInv, Fresh
<1> QED BY <1>1, <1>2

\* A disk without a record is in agreement.
LEMMA JournalBegins == Init => JournalInv
PROOF
<1> SUFFICES ASSUME Init PROVE JournalInv
  OBVIOUS
<1>1. DriverInv
  BY DriverBegins
<1>2. PICK log \in {Blank, "READOK01"} :
        BlockInit([s \in Sector |-> CASE s = LogSector -> log
                                      [] s = PayloadSector -> "OLDVAL01"
                                      [] OTHER -> Blank])
  BY DEF Init
<1>3. LogSector \in Sector /\ PayloadSector \in Sector /\ LogSector # PayloadSector
      /\ log \notin {"COMMIT01", "APPLIED1", "ROLLBK01"}
  BY JournalAssumption DEF LogSector, PayloadSector
<1>4. medium = cache /\ medium[LogSector] = log
  BY <1>2, <1>3 DEF BlockInit
<1>5. Mixed
  BY <1>3, <1>4 DEF Mixed, Maybe, Agree
<1>6. call.op = "none" /\ ~PendingWrite
  BY <1>2 DEF BlockInit, NoCall, PendingWrite, EmptyPage
<1>7. PlaceInv
  BY ProgramsAre, JournalCalls, FixtureCalls DEF Init, PlaceInv, Journals, Fixtures
<1> QED BY <1>4, <1>5, <1>6, <1>7 DEF Init, JournalInv, AgreeInv, PhaseInv, OwnInv, RunInv, DoneInv

-----------------------------------------------------------------------------
(* The invariant. *)

\* An overrun is never taken back.
LEMMA OverranStays == ASSUME [Next]_vars, ~overran' PROVE ~overran
  BY DEF Next, Driver, Device, Sample, Publish, PollHits, PollExpires, Take, Finish, WriteBack,
         Refused, Trap, Return, Checked, PowerFails, LosePower, Boot, BootWithout, vars, blockVars

\* Every step keeps the driver and the journal in order.
LEMMA InvStep ==
  ASSUME Inv, [Next]_vars
  PROVE  Inv'
PROOF
<1> SUFFICES ASSUME ~overran' PROVE DriverInv' /\ JournalInv'
  BY DEF Inv
<1>1. DriverInv /\ JournalInv
  BY OverranStays DEF Inv
<1>2. CASE Driver /\ UNCHANGED <<phase, program, pc>>
  BY <1>1, <1>2, DriverKeepsJournal DEF SamePlace
<1>3. CASE Device /\ UNCHANGED <<phase, program, pc>>
  BY <1>1, <1>3, DeviceKeepsJournal DEF SamePlace
<1>4. CASE Refused
  BY <1>1, <1>4, RefusedKeeps
<1>5. CASE Trap
  BY <1>1, <1>5, TrapKeeps
<1>6. CASE Return
  BY <1>1, <1>6, ReturnKeeps
<1>7. CASE Checked
  BY <1>1, <1>7, CheckedKeeps
<1>8. CASE PowerFails
  BY <1>1, <1>8, PowerFailsKeeps
<1>9. ASSUME NEW p \in DOMAIN Programs, Boot(p) \/ BootWithout(p)
      PROVE  DriverInv' /\ JournalInv'
  BY <1>1, <1>9, BootKeeps
<1>10. CASE UNCHANGED vars
  <2>1. DriverInv'
    BY <1>1, <1>10 DEF vars, blockVars, DriverInv, DriverType, Quiet, Pending, Request, CallInv,
                       Resting, Answered, Fresh, Sampled, Sent, Waiting, Ours, Completed, Done
  <2>2. JournalInv'
    BY <1>1, <1>10 DEF vars, blockVars, JournalInv, PlaceInv, AgreeInv, Mixed, Maybe, Safe,
                       PendingWrite, Pending, Request, PhaseInv, OwnInv, Fresh, RunInv, Matches,
                       Current, DoneInv, Known, Both, Cached, LogSector, PayloadSector
  <2> QED BY <2>1, <2>2
<1> QED BY <1>2, <1>3, <1>4, <1>5, <1>6, <1>7, <1>8, <1>9, <1>10 DEF Next

\* In every behaviour.
LEMMA InvHolds == Spec => []Inv
PROOF
<1>1. Init => Inv
  BY DriverBegins, JournalBegins DEF Inv
<1> QED BY <1>1, InvStep, PTL DEF Spec

(* The log tells the truth about the payload whenever the power goes, for   *)
(* any disk, any width of the ring indices and any order of images, as long *)
(* as no call began before an earlier request was finished.                 *)
THEOREM LogTellsTheTruth == Spec => []LogIsTrue
PROOF
<1>1. Inv => LogIsTrue
  BY DEF Inv, JournalInv, AgreeInv, Mixed, Maybe, Agree, LogIsTrue
<1> QED BY <1>1, InvHolds, PTL

(* A journal program that says it is done is done for good (the durable     *)
(* messages of user_program.asm).                                           *)
THEOREM SayingIsDurable == Spec => []SaidMeansDurable
PROOF
<1>1. Inv => SaidMeansDurable
  <2> SUFFICES ASSUME Inv, phase = "done", program \in DOMAIN Promise, ~overran
               PROVE  Kept = Promise[program]
    BY DEF SaidMeansDurable
  <2>1. Known(program, Len(Programs[program]) + 1)
    BY DEF Inv, JournalInv, DoneInv
  <2>2. program \in Journals
    BY ProgramsAre
  <2>3. CASE program = "prepare"
    BY <2>1, <2>3, ProgramsAre, JournalCalls DEF Known, Both, Kept, Promise
  <2>4. CASE program = "commit"
    BY <2>1, <2>4, ProgramsAre, JournalCalls DEF Known, Both, Kept, Promise
  <2>5. CASE program = "recover"
    BY <2>1, <2>5, ProgramsAre, JournalCalls DEF Known, Both, Kept, Promise
  <2>6. CASE program = "commit_recover"
    BY <2>1, <2>6, ProgramsAre, JournalCalls DEF Known, Both, Kept, Promise
  <2> QED BY <2>2, <2>3, <2>4, <2>5, <2>6 DEF Journals
<1> QED BY <1>1, InvHolds, PTL

\* Only a poll that finds its index makes a call succeed.
LEMMA OnlyPollSucceeds ==
  ASSUME Inv, Next, ~overran, call.answer = "none", call'.answer = "ok"
  PROVE  PollHits
PROOF
<1>1. call \in DriverCall
  BY DEF Inv, DriverInv, DriverType
<1>2. ~Sample
  BY <1>1 DEF Sample, DriverCall
<1>3. ~Publish
  BY <1>1 DEF Publish, DriverCall
<1>4. ~PollExpires
  BY <1>1 DEF PollExpires, DriverCall
<1>5. ~Device
  BY DEF Device, Take, Finish, WriteBack
<1>6. ~Refused
  BY DEF Refused, blockVars
<1>7. ~Return /\ ~Checked /\ ~PowerFails
  BY DEF Return, Checked, PowerFails, LosePower, NoCall
<1>8. ~Trap
  <2> SUFFICES ASSUME Trap PROVE FALSE
    OBVIOUS
  <2>1. Current.op \in Op /\ Current.sector \in Sector /\ Current.data \in Data
    BY CallsAre DEF Inv, JournalInv, PlaceInv, Current, Sound
  <2>2. call' = Begun(Current.op, Current.sector, Current.data)
    BY DEF Trap
  <2> QED BY <2>1, <2>2, BegunIs
<1>9. ASSUME NEW p \in DOMAIN Programs PROVE ~Boot(p) /\ ~BootWithout(p)
  <2>1. Boot(p) => call'.answer # "ok"
    BY BegunIs, VirtioAssumption DEF Boot, Op
  <2>2. BootWithout(p) => call' = call
    BY DEF BootWithout, blockVars
  <2> QED BY <2>1, <2>2
<1> QED BY <1>2, <1>3, <1>4, <1>5, <1>6, <1>7, <1>8, <1>9 DEF Next, Driver

(* A call that the driver reports done was done: the device holds nothing   *)
(* else, a write is what it now reads, a flush has left nothing behind, a   *)
(* read returns what is there.                                              *)
THEOREM OkIsDone == Spec => OkMeansDone
PROOF
<1>1. ASSUME Inv, [Next]_vars
      PROVE  [call'.answer = "ok" /\ call.answer = "none" /\ ~overran =>
                /\ flight = << >> /\ taken = avail
                /\ call.op = "write" => cache[call.sector] = call.data
                /\ call.op = "flush" => medium = cache
                /\ call.op = "read"  => call'.out = cache[call.sector]]_vars
  <2> SUFFICES ASSUME Next, call'.answer = "ok", call.answer = "none", ~overran
               PROVE  /\ flight = << >> /\ taken = avail
                      /\ call.op = "write" => cache[call.sector] = call.data
                      /\ call.op = "flush" => medium = cache
                      /\ call.op = "read"  => call'.out = cache[call.sector]
    BY <1>1
  <2>1. PollHits /\ DriverInv
    BY <1>1, OnlyPollSucceeds DEF Inv
  <2>2. Quiet /\ Done(call'.out)
    BY <2>1, PollHitsIs
  <2> QED BY <2>2 DEF Quiet, Done
<1>2. Spec => [][call'.answer = "ok" /\ call.answer = "none" /\ ~overran =>
                   /\ flight = << >> /\ taken = avail
                   /\ call.op = "write" => cache[call.sector] = call.data
                   /\ call.op = "flush" => medium = cache
                   /\ call.op = "read"  => call'.out = cache[call.sector]]_vars
  BY <1>1, InvHolds, PTL DEF Spec
<1> QED BY <1>2 DEF OkMeansDone

(* A read or a flush gives up only on a request the device has not          *)
(* finished: it samples the index before the device is told.                *)
THEOREM GivingUpIsOnUnfinished == Spec => GivesUpOnUnfinished
PROOF
<1>1. ASSUME Inv
      PROVE  [AtStep("poll") /\ used # call.expected /\ call'.answer = "failed"
              /\ call.op # "write" /\ ~overran => avail # used]_vars
  <2> SUFFICES ASSUME AtStep("poll"), used # call.expected, call.op # "write", ~overran
               PROVE  avail # used
    OBVIOUS
  <2>1. DriverInv
    BY <1>1 DEF Inv
  <2>2. Waiting
    BY <2>1, WhereItStands DEF DriverInv
  <2>3. Pending
    BY <2>2 DEF Waiting
  <2> QED BY <2>1, <2>3, IndexMoves DEF Pending, DriverInv, DriverType
<1>2. Spec => [][AtStep("poll") /\ used # call.expected /\ call'.answer = "failed"
                 /\ call.op # "write" /\ ~overran => avail # used]_vars
  BY <1>1, InvHolds, PTL DEF Spec
<1> QED BY <1>2 DEF GivesUpOnUnfinished
=============================================================================
