---------------------------- MODULE BlockJournal -----------------------------
(***************************************************************************)
(* A machine with a block device and one Ring 3 program that uses it       *)
(* through SYS_VIRTIO_BLOCK_READ, WRITE and FLUSH: the journal programs    *)
(* and the fixtures of arch/x86_64/user_program.asm, of which every image  *)
(* holds one.  The power may go at any moment and any of the images may be *)
(* booted next on the same disk: that is what the recovery tests do.       *)
(*                                                                         *)
(* Sector 1 holds the log record and sector 3 the payload.                 *)
(***************************************************************************)
EXTENDS VirtioBlock

VARIABLES
  phase,       \* off, check (kernel_main reads sector 0), run, done, failed, halted
  program,     \* the program of the image that runs, or last ran
  pc           \* the number of its next call

vars == <<blockVars, phase, program, pc>>

LogSector == 1
PayloadSector == 3

ASSUME JournalAssumption ==
  /\ LogSector \in Sector /\ PayloadSector \in Sector
  /\ {"PREPARE1", "COMMIT01", "APPLIED1", "ROLLBK01", "OLDVAL01", "NEWVAL01",
      "READOK01", "FIXTURE"} \subseteq Data \ {Blank}

-----------------------------------------------------------------------------
(* The programs: what each call passes and the answer that lets the        *)
(* program go on; any other answer ends it (the _fail labels).             *)
Call(op, sector, data) ==
  [op |-> op, sector |-> sector, data |-> data, abi |-> TRUE, own |-> TRUE,
   mapped |-> TRUE, want |-> "done"]

Write(sector, data) == Call("write", sector, data)
Read(sector, data)  == Call("read", sector, data)
Flush               == Call("flush", 0, Blank)

Prepare ==
  <<Write(LogSector, "PREPARE1"), Flush, Write(PayloadSector, "NEWVAL01"), Flush>>

Commit == Prepare \o <<Write(LogSector, "COMMIT01"), Flush>>

\* Slip: the payload and its record share one barrier.
RecoverOneBarrier ==
  <<Read(LogSector, "PREPARE1"), Read(PayloadSector, "NEWVAL01"),
    Write(PayloadSector, "OLDVAL01"), Write(LogSector, "ROLLBK01"), Flush>>

Recover ==
  <<Read(LogSector, "PREPARE1"), Read(PayloadSector, "NEWVAL01"),
    Write(PayloadSector, "OLDVAL01"), Flush, Write(LogSector, "ROLLBK01"), Flush>>

CommitRecover ==
  <<Read(LogSector, "COMMIT01"), Read(PayloadSector, "NEWVAL01"),
    Write(LogSector, "APPLIED1"), Flush>>

BlockRead ==
  <<[Read(1, Blank) EXCEPT !.abi = FALSE, !.want = "EINVAL"],
    [Read(0, Blank) EXCEPT !.want = "EINVAL"],
    [Read(1, Blank) EXCEPT !.own = FALSE, !.want = "ECAP"],
    [Read(1, Blank) EXCEPT !.mapped = FALSE, !.want = "EFAULT"],
    Read(1, "READOK01")>>

BlockWrite ==
  <<[Write(1, "FIXTURE") EXCEPT !.abi = FALSE, !.want = "EINVAL"],
    [Write(0, "FIXTURE") EXCEPT !.want = "EINVAL"],
    [Write(1, "FIXTURE") EXCEPT !.own = FALSE, !.want = "ECAP"],
    [Write(1, "FIXTURE") EXCEPT !.mapped = FALSE, !.want = "EFAULT"],
    Write(1, "FIXTURE")>>

BlockFlush ==
  <<[Flush EXCEPT !.own = FALSE, !.want = "EOPNOTSUPP"],
    [Flush EXCEPT !.abi = FALSE, !.want = "EOPNOTSUPP"],
    Flush>>

Programs ==
  [prepare |-> Prepare, commit |-> Commit, recover |-> Recover,
   commit_recover |-> CommitRecover,
   block_read |-> BlockRead, block_write |-> BlockWrite, block_flush |-> BlockFlush]

\* The rights of the one capability kernel_main grants the program.
Rights(p) == CASE p = "block_read" -> {"read"}
               [] p \in {"block_write", "block_flush"} -> {"write"}
               [] OTHER -> {"read", "write"}

-----------------------------------------------------------------------------
(* The system calls: the tests of each, in its order.                      *)
Granted(c) == c.own /\ (IF c.op = "read" THEN "read" ELSE "write") \in Rights(program)

TransferRefusal(c) ==
  CASE ~c.abi \/ c.sector = 0 -> "EINVAL"
    [] c.abi /\ c.sector # 0 /\ ~c.mapped -> "EFAULT"
    [] c.abi /\ c.sector # 0 /\ c.mapped /\ ~Granted(c) -> "ECAP"
    [] OTHER -> "none"

FlushRefusal(c) ==
  IF ~c.abi \/ ~Granted(c) \/ ~canFlush THEN "EOPNOTSUPP" ELSE "none"

Refusal(c) == IF c.op = "flush" THEN FlushRefusal(c) ELSE TransferRefusal(c)

\* The value the driver's answer to c becomes in rax.
Returned(c) == IF call.answer = "ok" THEN "done"
               ELSE IF c.op = "flush" THEN "EOPNOTSUPP" ELSE "EIO"

Current == Programs[program][pc]
Running == phase = "run" /\ call.op = "none"

\* Slip: the answer of a flush is not looked at.
GoesOnAnyFlush(rax, out) ==
  /\ Current.op = "flush" \/ rax = Current.want
  /\ Current.op = "read" /\ rax = "done" => out = Current.data

\* The program looks at its answer: go on, say it is done, or give up.
GoesOn(rax, out) ==
  /\ rax = Current.want
  /\ Current.op = "read" /\ rax = "done" => out = Current.data

Resume(rax, out) ==
  IF ~GoesOn(rax, out) THEN phase' = "failed" /\ pc' = pc
  ELSE IF pc = Len(Programs[program]) THEN phase' = "done" /\ pc' = pc
  ELSE phase' = phase /\ pc' = pc + 1

Refused ==
  /\ Running
  /\ Refusal(Current) # "none"
  /\ Resume(Refusal(Current), Blank)
  /\ UNCHANGED <<blockVars, program>>

Trap ==
  /\ Running
  /\ Refusal(Current) = "none"
  /\ call' = Begun(Current.op, Current.sector, Current.data)
  /\ UNCHANGED <<deviceVars, overran, phase, program, pc>>

Return ==
  /\ phase = "run"
  /\ call.answer # "none"
  /\ Resume(Returned(Current), call.out)
  /\ call' = NoCall
  /\ UNCHANGED <<deviceVars, overran, program>>

-----------------------------------------------------------------------------
(* Boot and loss of power.                                                 *)
\* The probe succeeds and kernel_main starts its read of sector 0.
Boot(p) ==
  /\ phase = "off"
  /\ Reset
  /\ call' = Begun("read", 0, Blank)
  /\ phase' = "check" /\ program' = p /\ pc' = 1
  /\ UNCHANGED <<medium, cache, overran>>

\* No usable device: the images above halt before their program starts.
BootWithout(p) ==
  /\ phase = "off"
  /\ phase' = "halted" /\ program' = p /\ pc' = 1
  /\ UNCHANGED blockVars

\* Whatever the answer to the first read is, it is only printed.
Checked ==
  /\ phase = "check"
  /\ call.answer # "none"
  /\ call' = NoCall
  /\ phase' = "run"
  /\ UNCHANGED <<deviceVars, overran, program, pc>>

PowerFails ==
  /\ phase # "off"
  /\ LosePower
  /\ phase' = "off"
  /\ UNCHANGED <<program, pc>>

Init ==
  /\ \E log \in {Blank, "READOK01"} :
       BlockInit([s \in Sector |-> CASE s = LogSector -> log
                                     [] s = PayloadSector -> "OLDVAL01"
                                     [] OTHER -> Blank])
  /\ phase = "off" /\ program \in DOMAIN Programs /\ pc = 1

Next ==
  \/ (Driver \/ Device) /\ UNCHANGED <<phase, program, pc>>
  \/ Refused \/ Trap \/ Return \/ Checked \/ PowerFails
  \/ \E p \in DOMAIN Programs : Boot(p) \/ BootWithout(p)

Spec == Init /\ [][Next]_vars

-----------------------------------------------------------------------------
(* A call that the driver reports done was done: the device has finished it *)
(* and holds nothing else, a write is what the device now reads, a flush has *)
(* left nothing behind in the cache, a read returns what is there.  The     *)
(* completion that tells is a single index, shared by all requests, so this *)
(* is claimed only of boots in which no request was left behind.            *)
OkMeansDone ==
  [][call'.answer = "ok" /\ call.answer = "none" /\ ~overran =>
       /\ flight = << >> /\ taken = avail
       /\ call.op = "write" => cache[call.sector] = call.data
       /\ call.op = "flush" => medium = cache
       /\ call.op = "read"  => call'.out = cache[call.sector]]_vars

(* A read or a flush gives up only on a request the device has not finished. *)
(* A write does not have this: it samples the index after the device was    *)
(* told, so an answer that comes first is missed and the write is reported  *)
(* failed although it was done (virtio_pci.c:376).                          *)
GivesUpOnUnfinished ==
  [][AtStep("poll") /\ used # call.expected /\ call'.answer = "failed"
     /\ call.op # "write" /\ ~overran => avail # used]_vars

(* The log tells the truth about the payload whenever the power goes: a     *)
(* durable COMMIT01 or APPLIED1 means the new payload is durable, a durable *)
(* ROLLBK01 that the old one is back, through lost writes, refused and late *)
(* requests and any order of images.                                        *)
LogIsTrue ==
  ~overran =>
    /\ medium[LogSector] \in {"COMMIT01", "APPLIED1"} => medium[PayloadSector] = "NEWVAL01"
    /\ medium[LogSector] = "ROLLBK01" => medium[PayloadSector] = "OLDVAL01"

\* What the last message of a journal program promises of the medium.
Promise == [prepare        |-> <<"PREPARE1", "NEWVAL01">>,
            commit         |-> <<"COMMIT01", "NEWVAL01">>,
            recover        |-> <<"ROLLBK01", "OLDVAL01">>,
            commit_recover |-> <<"APPLIED1", "NEWVAL01">>]

Kept == <<medium[LogSector], medium[PayloadSector]>>

(* A journal program that says it is done is done for good: its record and  *)
(* its payload would survive a loss of power now.                           *)
SaidMeansDurable ==
  phase = "done" /\ program \in DOMAIN Promise /\ ~overran => Kept = Promise[program]

(* The message JOURNAL COMMIT DURABLE (user_program.asm:94) without the     *)
(* proviso: the kernel's own read of sector 0 may be the request that was   *)
(* left behind.                                                             *)
DurableIsDurable ==
  phase = "done" /\ program = "commit" => Kept = Promise["commit"]
=============================================================================
