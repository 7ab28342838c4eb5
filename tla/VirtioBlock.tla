----------------------------- MODULE VirtioBlock -----------------------------
(***************************************************************************)
(* The block driver of the kernel (kernel/src/virtio_pci.c) and the device *)
(* it drives.  The driver owns one request page and one ring, always uses  *)
(* descriptor 0, and waits for a request by polling the used index a       *)
(* bounded number of times: the device may answer before the poll begins,  *)
(* during it, or after it has given up.                                    *)
(*                                                                         *)
(* The device is external.  It takes what the ring publishes in order,     *)
(* copies the header when it takes it, moves the data and writes the       *)
(* status when it finishes, finishes in any order, and may refuse.  It     *)
(* keeps a write cache: a sector reaches the medium when the device        *)
(* pleases, and all of them do when a flush finishes.                      *)
(*                                                                         *)
(* Filling the page is one step: the device reads it only once the ring is *)
(* published.  A request of an earlier call that is still unfinished then  *)
(* sees the page before or after, never in between.                        *)
(***************************************************************************)
EXTENDS Integers, Sequences, SequencesExt

CONSTANTS
  Sector,      \* the sectors in use
  Data,        \* what a sector may hold
  Blank,       \* the contents of a zeroed page
  IndexSpan    \* ring indices count modulo this (2^16 in the code)

ASSUME VirtioAssumption ==
  /\ 0 \in Sector /\ Sector \subseteq Nat
  /\ Blank \in Data
  /\ IndexSpan \in Nat /\ IndexSpan > 1

VARIABLES
  medium,      \* sector -> what survives a loss of power
  cache,       \* sector -> what the device answers reads with
  avail,       \* index of the next entry the driver publishes
  taken,       \* index of the next entry the device takes
  used,        \* index of the next entry the device finishes
  page,        \* request_page: header, data and status
  flight,      \* the headers of the requests taken and not finished
  canFlush,    \* flush_supported: VIRTIO_BLK_F_FLUSH was negotiated
  call,        \* the driver call in progress, or its answer
  overran      \* history: a call began before an earlier request finished

ring == <<avail, taken, used>>
deviceVars == <<medium, cache, avail, taken, used, page, flight, canFlush>>
blockVars == <<medium, cache, avail, taken, used, page, flight, canFlush,
               call, overran>>

IndexAfter(i) == (i + 1) % IndexSpan

EmptyPage == [type |-> "read", sector |-> 0, data |-> Blank, status |-> "ok"]

NoCall == [op |-> "none", sector |-> 0, data |-> Blank, todo |-> << >>,
           expected |-> 0, answer |-> "none", out |-> Blank]

-----------------------------------------------------------------------------
(* The driver.  read_sector and flush sample the used index, then publish  *)
(* and notify; write_sector publishes and notifies first (lines 372-376).  *)
\* Slip: every request is published before the index is sampled.
StepsPublishFirst(op) == <<"publish", "sample", "poll">>

Steps(op) == IF op = "write" THEN <<"publish", "sample", "poll">>
                             ELSE <<"sample", "publish", "poll">>

\* A driver call starts, or is refused because the device cannot flush.
Begun(op, sector, data) ==
  IF op = "flush" /\ ~canFlush
    THEN [NoCall EXCEPT !.op = op, !.answer = "failed"]
    ELSE [NoCall EXCEPT !.op = op, !.sector = sector, !.data = data,
                        !.todo = Steps(op)]

AtStep(s) == call.todo # << >> /\ Head(call.todo) = s

\* The first step of a call finds an earlier request unfinished.
Overruns == Len(call.todo) = 3 /\ avail # used

\* previous_used + 1: the index the poll will wait for.
Sample ==
  /\ AtStep("sample")
  /\ call' = [call EXCEPT !.expected = IndexAfter(used), !.todo = Tail(@)]
  /\ overran' = (overran \/ Overruns)
  /\ UNCHANGED deviceVars

\* The page is cleared, filled and published; its status byte is zero, which
\* is also the code for success.
Filled == [EmptyPage EXCEPT !.type = call.op, !.sector = call.sector,
                            !.data = IF call.op = "write" THEN call.data ELSE @]

Publish ==
  /\ AtStep("publish")
  /\ page' = Filled
  /\ avail' = IndexAfter(avail)
  /\ overran' = (overran \/ Overruns)
  /\ call' = [call EXCEPT !.todo = Tail(@)]
  /\ UNCHANGED <<medium, cache, taken, used, flight, canFlush>>

\* Slip: the status byte is not looked at.
VerdictByIndex == "ok"

\* What a completed request means to the caller.
Verdict == IF page.status = "ok" THEN "ok" ELSE "failed"

PollHits ==
  /\ AtStep("poll")
  /\ used = call.expected
  /\ call' = [call EXCEPT !.todo = << >>, !.answer = Verdict,
                          !.out = IF call.op = "read" /\ Verdict = "ok"
                                    THEN page.data ELSE @]
  /\ UNCHANGED <<deviceVars, overran>>

\* The spin count runs out; nothing cancels the request.
PollExpires ==
  /\ AtStep("poll")
  /\ used # call.expected
  /\ call' = [call EXCEPT !.todo = << >>, !.answer = "failed"]
  /\ UNCHANGED <<deviceVars, overran>>

Driver == Sample \/ Publish \/ PollHits \/ PollExpires

-----------------------------------------------------------------------------
(* The device.                                                             *)
Take ==
  /\ taken # avail
  /\ flight' = Append(flight, [type |-> page.type, sector |-> page.sector])
  /\ taken' = IndexAfter(taken)
  /\ UNCHANGED <<medium, cache, avail, used, page, canFlush, call, overran>>

\* Request i of those in flight ends, well or not.
Finish(i, well) ==
  LET r == flight[i] IN
  /\ flight' = RemoveAt(flight, i)
  /\ used' = IndexAfter(used)
  /\ cache' = IF well /\ r.type = "write"
                THEN [cache EXCEPT ![r.sector] = page.data] ELSE cache
  /\ medium' = IF well /\ r.type = "flush" THEN cache ELSE medium
  /\ page' = [page EXCEPT !.status = IF well THEN "ok" ELSE "error",
                          !.data = IF well /\ r.type = "read"
                                     THEN cache[r.sector] ELSE @]
  /\ UNCHANGED <<avail, taken, canFlush, call, overran>>

WriteBack(s) ==
  /\ medium[s] # cache[s]
  /\ medium' = [medium EXCEPT ![s] = cache[s]]
  /\ UNCHANGED <<cache, ring, page, flight, canFlush, call, overran>>

Device ==
  \/ Take
  \/ \E i \in 1..Len(flight), well \in BOOLEAN : Finish(i, well)
  \/ \E s \in Sector : WriteBack(s)

-----------------------------------------------------------------------------
\* probe_products resets the device, negotiates the flush and clears the ring.
Reset ==
  /\ avail' = 0 /\ taken' = 0 /\ used' = 0
  /\ page' = EmptyPage /\ flight' = << >>
  /\ canFlush' \in BOOLEAN

\* The power goes: what the device had not written back is lost.
LosePower ==
  /\ cache' = medium
  /\ avail' = 0 /\ taken' = 0 /\ used' = 0
  /\ page' = EmptyPage /\ flight' = << >>
  /\ canFlush' = FALSE /\ call' = NoCall
  /\ UNCHANGED <<medium, overran>>

BlockInit(contents) ==
  /\ medium = contents /\ cache = contents
  /\ avail = 0 /\ taken = 0 /\ used = 0
  /\ page = EmptyPage /\ flight = << >>
  /\ canFlush = FALSE /\ call = NoCall /\ overran = FALSE
=============================================================================
