------------------------- MODULE MscBotServiceProofs -------------------------
(***************************************************************************)
(* What the host gets from MscBot: that the device waits for it whenever   *)
(* it may send a command, that a status reported PASSED is the truth about *)
(* the blocks and the residue, and that the whole implements BlockService. *)
(* All of it is proved under HostCommands.                                 *)
(***************************************************************************)
EXTENDS MscBotMoves, MscBotService

-----------------------------------------------------------------------------
(* The inductive invariant: how the handle d, the queue q of completions   *)
(* and the host (in phase p of command c, with rem units to move, recv     *)
(* received and result res) go together in the course of a command.        *)

Moving == {"dataIn", "dataOut", "status", "status2"}

\* A WRITE10 in progress: the host is about to send the next blocks, or they
\* have arrived and wait for the handler.
Writing(d, q, p, c, rem, res) ==
  d.state = "DATA_OUT" =>
    /\ p \in {"dataOut", "status", "status2", "reset"}
    /\ p \in {"status", "status2"} => rem = 0
    /\ res = "none" /\ ~d.halt_out
    /\ \E m \in 0 .. c.nblk :
         /\ At(d, c, m)
         /\ d.written = WrittenTo(c, c.nblk - m)
         /\ \/ d.rx = "data" /\ d.rx_len = Packet(d) /\ rem = d.blk_len
            \/ OutQ(q) /\ Holds(d, c, m) /\ rem = d.blk_len - Packet(d)

\* A READ10 in progress: the next n blocks wait for the host, ...
Offered(d, p, c, rem, recv) ==
  /\ p # "dataOut" /\ c.op = "READ10"
  /\ \E m \in 0 .. c.nblk : \E n \in 0 .. c.nblk - m :
       /\ InFlight(d, c, m, n)
       /\ p # "reset" => /\ recv = ReadTo(c, c.nblk - m - n)
                         /\ rem = (m + n) * BlkSize

\* ... or it has taken them and the handler that goes on is due.
Taken(d, p, c, rem, recv) ==
  /\ p \in {"dataIn", "status", "reset"} /\ c.op = "READ10"
  /\ \E m \in 0 .. c.nblk :
       /\ At(d, c, m)
       /\ d.state = "DATA_IN" <=> m # 0
       /\ p # "reset" => /\ p = "dataIn" <=> m # 0
                         /\ recv = ReadTo(c, c.nblk - m)
                         /\ rem = m * BlkSize

Reading(d, q, p, c, rem, recv) ==
  /\ d.state \in {"DATA_IN", "LAST_DATA_IN"} /\ p \in Moving \cup {"reset"} =>
       /\ d.tx # NoXfer => Offered(d, p, c, rem, recv)
       /\ InQ(q) => Taken(d, p, c, rem, recv)
  /\ d.tx.kind = "blocks" /\ p \in Moving =>
       d.state \in {"DATA_IN", "LAST_DATA_IN"}
  /\ d.state = "LAST_DATA_IN" => d.rx = "none" /\ d.csw.residue = d.blk_len

\* A short reply on its way: the residue is what it does not fill.
Replying(d, q, p, c, rem) ==
  /\ d.state = "SEND_DATA" /\ p \in Moving =>
       /\ d.tx # NoXfer \/ InQ(q) =>
            c.op \notin BlockOps /\ d.written = {} /\ d.csw.tag = c.tag
       /\ d.tx # NoXfer =>
            d.tx.kind = "info" /\ d.csw.residue = rem - d.tx.len
       /\ InQ(q) => p = "status" /\ d.csw.residue = rem
  /\ d.state = "SEND_DATA" /\ InQ(q) => p \in {"status", "reset"}

\* A good wrapper that waits for the handler is the host's last one.
Fresh(d, q, p, c, rem, recv, res) ==
  OutQ(q) /\ d.state = "IDLE" /\ d.cbw.ok =>
    /\ d.cbw = c /\ p \in {DataPhase(c), "reset"} /\ res = "none"
    /\ rem = c.dlen /\ recv = << >> /\ d.written = {} /\ ~d.halt_out

\* All that c asks for has moved.
AllMoved(d, c, recv) ==
  /\ c.op = "READ10" => recv = ReadTo(c, c.nblk)
  /\ c.op = "WRITE10" => d.written = WrittenTo(c, c.nblk)
  /\ c.op \notin BlockOps => d.written = {}

\* A status that waits for the host.
Passed(d, p, c, rem, recv) ==
  p \in Moving /\ d.tx.kind = "csw" =>
    /\ d.tx.csw.status \in {"PASSED", "FAILED"}
    /\ d.tx.csw.status = "PASSED" /\ d.tx.csw.tag = c.tag =>
         p # "dataOut" /\ d.tx.csw.residue = rem /\ AllMoved(d, c, recv)

\* A wrapper is awaited as soon as the host may send one.
Armed(d, q, p, c, rem) ==
  /\ p \in {"idle", "clear_in", "clear_out"} => d.rx = "cbw"
  /\ p \in {"status", "status2"} /\ d.tx.kind = "csw" /\ d.tx.csw.tag = c.tag
       /\ ~d.halt_in => d.rx = "cbw"
  /\ p = "dataOut" =>
       /\ rem >= 1
       /\ d.halt_out => d.halt_in
       /\ d.tx.kind = "csw" /\ d.rx = "cbw" /\ ~d.halt_in => rem >= 2

\* The host, and what the capacity command leaves.
Known(d, p, c, recv, res) ==
  /\ Sane(c)
  /\ p \in Moving => c.tag # JunkTag /\ res = "none"
  /\ d.blk_size = 0 => d.blk_nbr = 0
  /\ p = "idle" /\ res # "RESET" => res # "JUNK"
  /\ p = "idle" /\ res = "none" => ~d.halt_out
  /\ p = "idle" /\ res = "PASSED" => AllMoved(d, c, recv)

Course(d, q, p, c, rem, recv, res) ==
  /\ Writing(d, q, p, c, rem, res)
  /\ Reading(d, q, p, c, rem, recv)
  /\ Replying(d, q, p, c, rem)
  /\ Fresh(d, q, p, c, rem, recv, res)
  /\ Passed(d, p, c, rem, recv)
  /\ Armed(d, q, p, c, rem)
  /\ Known(d, p, c, recv, res)

OnCourse == Course(dev, irq, hphase, hcmd, hrem, hrecv, hres)

\* No endpoint stays halted for the next command.
Unhalted(d, p) ==
  /\ p = "idle" => ~d.halt_in /\ ~d.halt_out
  /\ d.halt_out => p \in {"dataOut", "reset", "clear_in", "clear_out"}
  /\ p = "clear_out" => ~d.halt_in

-----------------------------------------------------------------------------
(* What the parts of the invariant need of the other modules.              *)

\* The invariant of this state and the next, in the terms of the lemmas.
LEMMA CourseForm ==
  /\ OnCourse <=> Course(dev, irq, hphase, hcmd, hrem, hrecv, hres)
  /\ OnCourse' <=> Course(dev', irq', hphase', hcmd', hrem', hrecv', hres')
BY DEF OnCourse

LEMMA States0 ==
  Inv => /\ dev \in DevType /\ irq \in Irqs /\ hphase \in Phases
         /\ hcmd \in CBWType /\ hrem \in Int /\ hrecv \in Seq(Slot)
         /\ hres \in Results /\ Disciplined(dev, irq, hphase)
BY DisciplineForm DEF Inv, TypeOK, Irqs, Phases, Results

LEMMA Kinds ==
  ASSUME NEW d \in DevType
  PROVE  /\ d.tx.kind \in {"none", "info", "blocks", "csw"}
         /\ d.tx.kind = "none" <=> d.tx = NoXfer
<1>1. d.tx \in XferType
  BY Fields
<1> QED
  BY <1>1 DEF XferType, NoXfer

\* Nothing is in progress in the handle.
LEMMA StillCourse ==
  ASSUME NEW e \in DevType, NEW q, NEW p, NEW c, NEW rem, NEW recv, NEW res,
         e.state \notin {"DATA_OUT", "DATA_IN", "LAST_DATA_IN", "SEND_DATA"},
         p \in Moving => e.tx.kind # "blocks"
  PROVE  /\ Writing(e, q, p, c, rem, res) /\ Reading(e, q, p, c, rem, recv)
         /\ Replying(e, q, p, c, rem)
BY DEF Writing, Reading, Replying

-----------------------------------------------------------------------------
(* The host gives up, and recovers.                                        *)

\* Reset recovery begins.
LEMMA ToReset ==
  ASSUME NEW d \in DevType, NEW q \in Irqs, NEW p \in Moving \cup {"idle"},
         NEW c \in CBWType, NEW rem \in Int, NEW recv, NEW res,
         Disciplined(d, q, p), Course(d, q, p, c, rem, recv, res)
  PROVE  Course(d, q, "reset", c, rem, recv, res)
<1>1. CASE p \in Moving
  <2>1. Writing(d, q, "reset", c, rem, res)
    BY <1>1 DEF Course, Writing
  <2>2. Reading(d, q, "reset", c, rem, recv)
    <3>1. Offered(d, p, c, rem, recv) => Offered(d, "reset", c, rem, recv)
      BY DEF Offered
    <3>2. Taken(d, p, c, rem, recv) => Taken(d, "reset", c, rem, recv)
      BY DEF Taken
    <3>3. Reading(d, q, p, c, rem, recv)
      BY DEF Course
    <3> QED
      BY <1>1, <3>1, <3>2, <3>3 DEF Reading, Moving
  <2>3. Replying(d, q, "reset", c, rem)
    BY DEF Replying, Moving
  <2>4. Fresh(d, q, "reset", c, rem, recv, res)
    BY DEF Course, Fresh
  <2>5. Passed(d, "reset", c, rem, recv) /\ Armed(d, q, "reset", c, rem)
    BY DEF Passed, Armed, Moving
  <2>6. Known(d, "reset", c, recv, res)
    BY DEF Course, Known, Moving
  <2> QED
    BY <2>1, <2>2, <2>3, <2>4, <2>5, <2>6 DEF Course
<1>2. CASE p = "idle"
  <2>1. d.state = "IDLE" /\ d.tx = NoXfer /\ d.rx = "cbw" /\ ~OutQ(q)
    BY <1>2 DEF Disciplined, Course, Armed
  <2>2. d.tx.kind = "none"
    BY <2>1, Kinds
  <2>3. /\ Writing(d, q, "reset", c, rem, res)
        /\ Reading(d, q, "reset", c, rem, recv)
        /\ Replying(d, q, "reset", c, rem)
    BY <2>1, <2>2, StillCourse
  <2>4. Fresh(d, q, "reset", c, rem, recv, res)
    BY <2>1 DEF Fresh
  <2>5. Passed(d, "reset", c, rem, recv) /\ Armed(d, q, "reset", c, rem)
    BY DEF Passed, Armed, Moving
  <2>6. Known(d, "reset", c, recv, res)
    BY DEF Course, Known, Moving
  <2> QED
    BY <2>3, <2>4, <2>5, <2>6 DEF Course
<1> QED
  BY <1>1, <1>2

LEMMA HostGivesUpCourse ==
  ASSUME Inv, OnCourse, HostTimeout \/ HostStalledAgain
  PROVE  OnCourse'
<1>1. /\ hphase \in Moving \cup {"idle"} /\ hphase' = "reset"
      /\ UNCHANGED <<dev, irq, hcmd, hrem, hrecv, hres>>
  BY DEF HostTimeout, HostStalledAgain, Moving
<1>2. Course(dev, irq, "reset", hcmd, hrem, hrecv, hres)
  BY <1>1, States0, CourseForm, ToReset
<1> QED
  BY <1>1, <1>2, CourseForm

\* A handle that waits for a wrapper, in a phase of recovery or after it.
LEMMA WaitingCourse ==
  ASSUME NEW e \in DevType, NEW p \in {"clear_in", "clear_out", "idle"},
         NEW c \in CBWType, NEW rem, NEW recv, NEW res,
         e.state = "IDLE", e.rx = "cbw", Sane(c), SizeKnown(e), p = "idle" => res = "RESET"
  PROVE  Course(e, << >>, p, c, rem, recv, res)
<1>1. /\ Writing(e, << >>, p, c, rem, res)
      /\ Reading(e, << >>, p, c, rem, recv)
      /\ Replying(e, << >>, p, c, rem)
  BY StillCourse DEF Moving
<1>2. Fresh(e, << >>, p, c, rem, recv, res)
  BY QueueKinds DEF Fresh
<1>3. /\ Passed(e, p, c, rem, recv) /\ Armed(e, << >>, p, c, rem)
      /\ Known(e, p, c, recv, res)
  BY DEF Passed, Armed, Known, Moving, SizeKnown
<1> QED
  BY <1>1, <1>2, <1>3 DEF Course

LEMMA HostPortResetCourse ==
  ASSUME Inv, OnCourse, HostPortReset
  PROVE  OnCourse'
<1> DEFINE d == [dev EXCEPT !.state = "IDLE"]
<1>1. /\ dev \in DevType /\ hcmd \in CBWType
      /\ Sane(hcmd) /\ SizeKnown(dev)
  BY States0, CourseForm DEF Course, Known, SizeKnown
<1>2. d \in DevType /\ d.blk_size = dev.blk_size /\ d.blk_nbr = dev.blk_nbr
  BY <1>1 DEF DevType, States
<1>3. /\ dev' = MSC_BOT_Init(d) /\ irq' = << >> /\ hphase' = "idle"
      /\ hres' = "RESET" /\ UNCHANGED <<hcmd, hrem, hrecv>>
  BY DEF HostPortReset
<1> HIDE DEF d
<1>4. /\ dev' \in DevType /\ dev'.state = "IDLE" /\ dev'.rx = "cbw"
      /\ dev'.tx = NoXfer /\ SizeKnown(dev')
  BY <1>1, <1>2, <1>3, InitType, InitKeeps DEF SizeKnown
<1>5. Course(dev', << >>, "idle", hcmd, hrem, hrecv, "RESET")
  BY <1>1, <1>4, WaitingCourse
<1> QED
  BY <1>3, <1>5, CourseForm

LEMMA HostResetRecoveryCourse ==
  ASSUME Inv, OnCourse, HostResetRecovery
  PROVE  OnCourse'
<1>1. /\ dev \in DevType /\ hcmd \in CBWType
      /\ Disciplined(dev, irq, hphase) /\ Sane(hcmd) /\ SizeKnown(dev)
      /\ hphase \in {"clear_in", "clear_out"} => dev.rx = "cbw"
  BY States0, CourseForm DEF Course, Known, SizeKnown, Armed
<1>2. irq' = << >> /\ UNCHANGED <<hcmd, hrem, hrecv>>
  BY DEF HostResetRecovery, Setup
<1>3. dev' \in DevType
  BY HostResetRecoveryInv, InvForm DEF Inv, TypeOK
<1>4. /\ dev'.state = "IDLE" /\ dev'.rx = "cbw" /\ SizeKnown(dev')
      /\ hphase' \in {"clear_in", "clear_out", "idle"}
      /\ hphase' = "idle" => hres' = "RESET"
  <2>1. CASE hphase = "reset"
    <3>1. dev' = MSC_BOT_Reset(dev) /\ hphase' = "clear_in"
      BY <2>1 DEF HostResetRecovery, Setup
    <3> QED
      BY <1>1, <3>1, ResetKeeps DEF SizeKnown
  <2>2. CASE hphase \in {"clear_in", "clear_out"}
    <3>1. PICK ep \in {"in", "out"} :
            /\ dev' = ClearFeature(dev, ep)
            /\ hphase' \in {"clear_out", "idle"}
            /\ hphase' = "idle" => hres' = "RESET"
      BY <2>2 DEF HostResetRecovery, Setup
    <3>2. dev.state = "IDLE" /\ dev.rx = "cbw" /\ dev.status = "RECOVERY"
      BY <1>1, <2>2 DEF Disciplined
    <3>3. /\ Stands(dev', dev)
          /\ dev'.blk_size = dev.blk_size /\ dev'.blk_nbr = dev.blk_nbr
      BY <1>1, <3>1, <3>2, ClearFeatureKeeps
    <3> QED
      BY <1>1, <3>1, <3>2, <3>3 DEF Stands, SizeKnown
  <2> QED
    BY <2>1, <2>2 DEF HostResetRecovery
<1>5. Course(dev', << >>, hphase', hcmd, hrem, hrecv, hres')
  BY <1>1, <1>3, <1>4, WaitingCourse
<1> QED
  BY <1>2, <1>5, CourseForm


-----------------------------------------------------------------------------
(* The host clears a halt, and takes what waits on the IN endpoint.        *)

\* A status that reports failure waits for the host.
LEMMA FailedCourse ==
  ASSUME NEW e \in DevType, NEW p \in Moving \cup {"reset"}, NEW c \in CBWType,
         NEW rem \in Int, NEW recv, NEW res,
         e.state = "IDLE", e.rx = "cbw", e.tx.kind = "csw",
         e.tx.csw.status = "FAILED", Sane(c), SizeKnown(e),
         p # "reset" => c.tag # JunkTag /\ res = "none",
         p = "dataOut" => rem >= 2 /\ ~e.halt_out
  PROVE  Course(e, << >>, p, c, rem, recv, res)
<1>1. /\ Writing(e, << >>, p, c, rem, res)
      /\ Reading(e, << >>, p, c, rem, recv)
      /\ Replying(e, << >>, p, c, rem)
  BY StillCourse
<1>2. Fresh(e, << >>, p, c, rem, recv, res)
  BY QueueKinds DEF Fresh
<1>3. Passed(e, p, c, rem, recv)
  BY DEF Passed
<1>4. Armed(e, << >>, p, c, rem)
  BY DEF Armed, Moving
<1>5. Known(e, p, c, recv, res)
  BY DEF Known, Moving, SizeKnown
<1> QED
  BY <1>1, <1>2, <1>3, <1>4, <1>5 DEF Course

LEMMA HostClearHaltCourse ==
  ASSUME Inv, OnCourse, HostClearHalt
  PROVE  OnCourse'
<1>1. /\ dev \in DevType /\ irq \in Irqs /\ hcmd \in CBWType /\ hrem \in Int
      /\ Disciplined(dev, irq, hphase) /\ Sane(hcmd) /\ SizeKnown(dev)
      /\ Course(dev, irq, hphase, hcmd, hrem, hrecv, hres)
  BY States0, CourseForm DEF Course, Known, SizeKnown
<1>2. irq = << >> /\ irq' = << >> /\ UNCHANGED <<hcmd, hrem, hrecv, hres>>
  BY DEF HostClearHalt, Setup
<1>3. dev' \in DevType
  BY HostClearHaltInv, InvForm DEF Inv, TypeOK
<1>4. hphase \in Moving => hcmd.tag # JunkTag /\ hres = "none"
  BY <1>1 DEF Course, Known
<1>5. CASE hphase = "dataOut" /\ dev.halt_out
  <2>1. dev' = ClearFeature(dev, "out") /\ hphase' = "status"
    BY <1>5 DEF HostClearHalt, Setup
  <2>2. /\ Stands(dev', dev) /\ dev'.tx = dev.tx /\ dev'.written = dev.written
        /\ dev'.blk_size = dev.blk_size /\ dev'.blk_nbr = dev.blk_nbr
        /\ dev.halt_in => dev'.halt_in
    BY <1>1, <2>1, ClearFeatureKeeps
  <2> DEFINE e == dev'
  <2> HIDE DEF e
  <2>3. Writing(e, << >>, "status", hcmd, hrem, hres)
    BY <1>1, <1>5, <2>2 DEF Course, Writing, Stands, e
  <2>4. Reading(e, << >>, "status", hcmd, hrem, hrecv)
    <3>1. Reading(dev, irq, "dataOut", hcmd, hrem, hrecv)
      BY <1>1, <1>5 DEF Course
    <3>2. dev.tx # NoXfer => dev.state \notin {"DATA_IN", "LAST_DATA_IN"}
      BY <3>1 DEF Reading, Offered, Moving
    <3>3. dev.tx.kind = "blocks" => dev.tx # NoXfer
      BY <1>1, Kinds
    <3> QED
      BY <2>2, <3>1, <3>2, <3>3, QueueKinds DEF Reading, Stands, Moving, e
  <2>5. Replying(e, << >>, "status", hcmd, hrem)
    BY <1>1, <1>5, <2>2, QueueKinds DEF Course, Replying, Stands, Moving, e
  <2>6. Fresh(e, << >>, "status", hcmd, hrem, hrecv, hres)
    BY QueueKinds DEF Fresh
  <2>7. Passed(e, "status", hcmd, hrem, hrecv)
    BY <1>1, <1>5, <2>2 DEF Course, Passed, Moving, e
  <2>8. Armed(e, << >>, "status", hcmd, hrem)
    <3>1. dev.halt_in
      BY <1>1, <1>5 DEF Course, Armed
    <3> QED
      BY <2>2, <3>1 DEF Armed, e
  <2>9. Known(e, "status", hcmd, hrecv, hres)
    BY <1>1, <1>4, <1>5, <2>2 DEF Known, SizeKnown, Moving, e
  <2>10. Course(e, << >>, "status", hcmd, hrem, hrecv, hres)
    BY <2>3, <2>4, <2>5, <2>6, <2>7, <2>8, <2>9 DEF Course
  <2> QED
    BY <1>2, <2>1, <2>10, CourseForm DEF e
<1>6. CASE hphase \in {"dataIn", "status"} /\ dev.halt_in
  <2>1. /\ dev' = ClearFeature(dev, "in") /\ hphase' \in {"status", "status2"}
        /\ hphase = "status" => hphase' = "status2"
    BY <1>6 DEF HostClearHalt, Setup
  <2>2. /\ dev'.written = dev.written /\ dev'.halt_out = dev.halt_out
        /\ dev'.blk_size = dev.blk_size /\ dev'.blk_nbr = dev.blk_nbr
        /\ \/ Stands(dev', dev) /\ dev'.tx = NoXfer
           \/ Fails(dev', [dev EXCEPT !.halt_in = FALSE])
    BY <1>1, <2>1, ClearFeatureKeeps
  <2>3. SizeKnown(dev') /\ hphase' \in Moving
    BY <1>1, <2>1, <2>2 DEF SizeKnown, Moving
  <2>4. CASE Fails(dev', [dev EXCEPT !.halt_in = FALSE])
    <3>1. Course(dev', << >>, hphase', hcmd, hrem, hrecv, hres)
      BY <1>1, <1>3, <1>4, <1>6, <2>1, <2>3, <2>4, FailedCourse DEF Fails, Moving
    <3> QED
      BY <1>2, <3>1, CourseForm
  <2>5. CASE Stands(dev', dev) /\ dev'.tx = NoXfer
    <3> DEFINE e == dev'
               p == hphase'
    <3>0. e \in DevType /\ e.tx = NoXfer /\ e.tx.kind = "none"
      BY <1>3, <2>5, Kinds
    <3> HIDE DEF e, p
    <3>1. Writing(e, << >>, p, hcmd, hrem, hres)
      <4>1. Writing(dev, << >>, hphase, hcmd, hrem, hres)
        BY <1>1, <1>2 DEF Course
      <4>2. SUFFICES ASSUME e.state = "DATA_OUT"
                     PROVE  Writing(e, << >>, p, hcmd, hrem, hres)
        BY DEF Writing
      <4>3. dev.state = "DATA_OUT" /\ hphase = "status" /\ p = "status2"
        BY <1>6, <2>1, <2>5, <4>1, <4>2 DEF Writing, Stands, e, p
      <4>4. PICK m \in 0 .. hcmd.nblk :
              /\ At(dev, hcmd, m)
              /\ dev.written = WrittenTo(hcmd, hcmd.nblk - m)
              /\ dev.rx = "data" /\ dev.rx_len = Packet(dev)
              /\ hrem = dev.blk_len
        BY <4>1, <4>3, QueueKinds DEF Writing
      <4>5. At(e, hcmd, m) /\ Packet(e) = Packet(dev)
        BY <2>2, <2>5, <4>4 DEF At, Stands, Packet, e
      <4>6. /\ e.written = WrittenTo(hcmd, hcmd.nblk - m)
            /\ e.rx = "data" /\ e.rx_len = Packet(e) /\ hrem = e.blk_len
        BY <2>2, <2>5, <4>4, <4>5 DEF Stands, e
      <4>7. hrem = 0 /\ hres = "none" /\ ~e.halt_out
        BY <2>2, <4>1, <4>3 DEF Writing, e
      <4> QED
        BY <4>3, <4>5, <4>6, <4>7 DEF Writing
    <3>2. Reading(e, << >>, p, hcmd, hrem, hrecv)
      BY <1>1, <2>5, <3>0, QueueKinds DEF Course, Reading, Stands, e
    <3>3. /\ Replying(e, << >>, p, hcmd, hrem)
          /\ Fresh(e, << >>, p, hcmd, hrem, hrecv, hres)
          /\ Passed(e, p, hcmd, hrem, hrecv)
      BY <3>0, QueueKinds DEF Replying, Fresh, Passed
    <3>4. Armed(e, << >>, p, hcmd, hrem)
      BY <2>1, <3>0 DEF Armed, p
    <3>5. Known(e, p, hcmd, hrecv, hres)
      BY <1>1, <1>4, <1>6, <2>1, <2>3 DEF Known, SizeKnown, Moving, e, p
    <3>6. Course(e, << >>, p, hcmd, hrem, hrecv, hres)
      BY <3>1, <3>2, <3>3, <3>4, <3>5 DEF Course
    <3> QED
      BY <1>2, <3>6, CourseForm DEF e, p
  <2> QED
    BY <2>2, <2>4, <2>5
<1> QED
  BY <1>5, <1>6 DEF HostClearHalt

\* The packet is gone, its completion is queued.
LEMMA TakesFacts ==
  ASSUME Inv, NEW x, HostTakes(x), x # NoXfer
  PROVE  /\ dev.tx = x /\ ~dev.halt_in /\ UNCHANGED hcmd
         /\ dev' \in DevType /\ dev'.tx = NoXfer /\ dev'.tx.kind = "none"
         /\ Stands(dev', dev) /\ SameUnit(dev', dev)
         /\ dev'.written = dev.written
         /\ ~InQ(irq) /\ InQ(irq') /\ (OutQ(irq') <=> OutQ(irq))
         /\ irq' \in Irqs
<1>1. dev \in DevType /\ irq \in Irqs /\ Disciplined(dev, irq, hphase)
  BY States0
<1>2. dev.tx = x /\ ~dev.halt_in /\ UNCHANGED hcmd
      /\ dev' = [dev EXCEPT !.tx = NoXfer] /\ irq' = Append(irq, "in")
  BY DEF HostTakes
<1>3. /\ dev' \in DevType /\ dev'.tx = NoXfer /\ dev'.tx.kind = "none"
      /\ Stands(dev', dev) /\ SameUnit(dev', dev)
      /\ dev'.written = dev.written
  <2>1. dev'.tx = NoXfer /\ Stands(dev', dev) /\ SameUnit(dev', dev)
        /\ dev'.written = dev.written
    BY <1>1, <1>2 DEF DevType, Stands, SameUnit
  <2>2. dev' \in DevType
    BY <1>1, <1>2 DEF DevType, XferType
  <2> QED
    BY <2>1, <2>2, Kinds
<1>4. ~InQ(irq)
  BY <1>1, <1>2 DEF Disciplined
<1>5. InQ(irq') /\ (OutQ(irq') <=> OutQ(irq)) /\ irq' \in Irqs
  BY <1>1, <1>2, <1>4, QueueFacts, QueueKinds DEF Irqs
<1> QED
  BY <1>2, <1>3, <1>4, <1>5


LEMMA HostReceiveInvalidCourse ==
  ASSUME Inv, OnCourse, HostReceiveInvalid
  PROVE  OnCourse'
<1> DEFINE e == dev'
           q == irq'
<1>1. /\ dev \in DevType /\ hcmd \in CBWType
      /\ Disciplined(dev, irq, hphase) /\ Sane(hcmd) /\ SizeKnown(dev)
      /\ Course(dev, irq, hphase, hcmd, hrem, hrecv, hres)
  BY States0, CourseForm DEF Course, Known, SizeKnown
<1>2. /\ hphase \in {"status", "status2"} /\ dev.tx.kind # "none"
      /\ HostTakes(dev.tx) /\ hphase' = "reset"
      /\ UNCHANGED <<hcmd, hrem, hrecv, hres>>
  BY DEF HostReceiveInvalid, HostTakes
<1>3. dev.tx # NoXfer
  BY <1>1, <1>2, Kinds
<1>4. /\ e \in DevType /\ e.tx = NoXfer /\ e.tx.kind = "none"
      /\ Stands(e, dev) /\ SameUnit(e, dev) /\ e.written = dev.written
      /\ ~InQ(irq) /\ InQ(q) /\ (OutQ(q) <=> OutQ(irq)) /\ ~dev.halt_in
  BY <1>2, <1>3, TakesFacts
<1> HIDE DEF e, q
<1>5. Writing(e, q, "reset", hcmd, hrem, hres)
  BY <1>1, <1>3, <1>4 DEF Disciplined, Writing, Stands
<1>6. Reading(e, q, "reset", hcmd, hrem, hrecv)
  <2>1. Reading(dev, irq, hphase, hcmd, hrem, hrecv)
    BY <1>1 DEF Course
  <2>2. ASSUME e.state \in {"DATA_IN", "LAST_DATA_IN"}
        PROVE  Taken(e, "reset", hcmd, hrem, hrecv)
    <3>1. Offered(dev, hphase, hcmd, hrem, hrecv)
      BY <1>2, <1>3, <1>4, <2>1, <2>2 DEF Reading, Stands, Moving
    <3>2. PICK m \in 0 .. hcmd.nblk, n \in 0 .. hcmd.nblk :
            n <= hcmd.nblk - m /\ InFlight(dev, hcmd, m, n)
      BY <1>1, <3>1, CBWFields DEF Offered
    <3>3. At(e, hcmd, m) /\ (e.state = "DATA_IN" <=> m # 0)
      BY <1>4, <3>2 DEF InFlight, At, Stands, SameUnit
    <3> QED
      BY <3>1, <3>3 DEF Taken, Offered
  <2> QED
    BY <1>4, <2>1, <2>2 DEF Reading, Stands, Moving
<1>7. Replying(e, q, "reset", hcmd, hrem)
  BY DEF Replying, Moving
<1>8. Fresh(e, q, "reset", hcmd, hrem, hrecv, hres)
  BY <1>1, <1>3, <1>4 DEF Fresh, Disciplined, Stands
<1>9. /\ Passed(e, "reset", hcmd, hrem, hrecv) /\ Armed(e, q, "reset", hcmd, hrem)
      /\ Known(e, "reset", hcmd, hrecv, hres)
  BY <1>1, <1>4 DEF Passed, Armed, Known, Moving, SizeKnown, SameUnit
<1>10. Course(e, q, "reset", hcmd, hrem, hrecv, hres)
  BY <1>5, <1>6, <1>7, <1>8, <1>9 DEF Course
<1> QED
  BY <1>2, <1>10, CourseForm DEF e, q

LEMMA HostReceiveCSWCourse ==
  ASSUME Inv, OnCourse, HostReceiveCSW
  PROVE  OnCourse'
<1> DEFINE e == dev'
           q == irq'
           r == hres'
<1>1. /\ dev \in DevType /\ hcmd \in CBWType
      /\ Disciplined(dev, irq, hphase) /\ Sane(hcmd) /\ SizeKnown(dev)
      /\ Course(dev, irq, hphase, hcmd, hrem, hrecv, hres)
  BY States0, CourseForm DEF Course, Known, SizeKnown
<1>2. /\ hphase \in {"status", "status2"} /\ dev.tx.kind = "csw"
      /\ dev.tx.csw.tag = hcmd.tag
      /\ HostTakes(dev.tx) /\ hphase' = "idle" /\ hres' = dev.tx.csw.status
      /\ UNCHANGED <<hcmd, hrem, hrecv>>
  BY DEF HostReceiveCSW, HostTakes
<1>3. dev.tx # NoXfer
  BY <1>1, <1>2, Kinds
<1>4. /\ e \in DevType /\ e.tx = NoXfer /\ e.tx.kind = "none"
      /\ Stands(e, dev) /\ SameUnit(e, dev) /\ e.written = dev.written
      /\ InQ(q) /\ (OutQ(q) <=> OutQ(irq)) /\ ~dev.halt_in
  BY <1>2, <1>3, TakesFacts
<1>5. dev.state = "IDLE"
  BY <1>1, <1>2 DEF Disciplined
<1>6. dev.rx = "cbw"
  BY <1>1, <1>2, <1>4 DEF Course, Armed
<1>7. ~OutQ(q)
  BY <1>1, <1>4, <1>6 DEF Disciplined
<1>8. /\ r \in {"PASSED", "FAILED"}
      /\ r = "PASSED" => AllMoved(dev, hcmd, hrecv)
  BY <1>1, <1>2 DEF Course, Passed, Moving
<1> HIDE DEF e, q, r
<1>9. /\ Writing(e, q, "idle", hcmd, hrem, r)
      /\ Reading(e, q, "idle", hcmd, hrem, hrecv)
      /\ Replying(e, q, "idle", hcmd, hrem)
  BY <1>4, <1>5, StillCourse DEF Stands
<1>10. /\ Fresh(e, q, "idle", hcmd, hrem, hrecv, r)
       /\ Passed(e, "idle", hcmd, hrem, hrecv)
       /\ Armed(e, q, "idle", hcmd, hrem)
  BY <1>4, <1>6, <1>7 DEF Fresh, Passed, Armed, Moving, Stands
<1>11. Known(e, "idle", hcmd, hrecv, r)
  BY <1>1, <1>4, <1>8 DEF Known, Moving, SizeKnown, SameUnit, AllMoved
<1>12. Course(e, q, "idle", hcmd, hrem, hrecv, r)
  BY <1>9, <1>10, <1>11 DEF Course
<1> QED
  BY <1>2, <1>12, CourseForm DEF e, q, r


\* The next n blocks after the first a.
LEMMA ReadGrows ==
  ASSUME NEW c \in CBWType, NEW a \in Nat, NEW n \in Nat
  PROVE  LET g == [i \in 1 .. n |-> Block(c.lba + a + i - 1)]
         IN  /\ ReadTo(c, a) \o g = ReadTo(c, a + n)
             /\ g = << >> <=> n = 0
<1> DEFINE g == [i \in 1 .. n |-> Block(c.lba + a + i - 1)]
           f == ReadTo(c, a)
           h == ReadTo(c, a + n)
           x == f \o g
<1>1. c.lba \in Nat
  BY CBWFields
<1>2. f \in Seq(Blocks) /\ Len(f) = a /\ \A i \in 1 .. a : f[i] = Block(c.lba + i - 1)
  <2>1. \A i \in 1 .. a : Block(c.lba + i - 1) \in Blocks
    BY <1>1 DEF Block, Blocks
  <2> HIDE DEF Block, Blocks
  <2> QED
    BY <2>1 DEF ReadTo, f
<1>3. g \in Seq(Blocks) /\ Len(g) = n
      /\ \A i \in 1 .. n : g[i] = Block(c.lba + a + i - 1)
  <2>1. \A i \in 1 .. n : Block(c.lba + a + i - 1) \in Blocks
    BY <1>1 DEF Block, Blocks
  <2> HIDE DEF Block, Blocks
  <2> QED
    BY <2>1
<1>4. h \in Seq(Blocks) /\ Len(h) = a + n
      /\ \A i \in 1 .. a + n : h[i] = Block(c.lba + i - 1)
  <2>1. \A i \in 1 .. a + n : Block(c.lba + i - 1) \in Blocks
    BY <1>1 DEF Block, Blocks
  <2> HIDE DEF Block, Blocks
  <2> QED
    BY <2>1 DEF ReadTo, h
<1> HIDE DEF f, g, h
<1>5. /\ x \in Seq(Blocks) /\ Len(x) = a + n
      /\ \A i \in 1 .. a + n : x[i] = IF i <= a THEN f[i] ELSE g[i - a]
  BY <1>2, <1>3, ConcatProperties
<1> HIDE DEF x
<1>6. ASSUME NEW i \in 1 .. a + n PROVE x[i] = h[i]
  <2>1. CASE i <= a
    BY <1>2, <1>4, <1>5, <2>1
  <2>2. CASE ~(i <= a)
    <3>1. i - a \in 1 .. n /\ c.lba + a + (i - a) - 1 = c.lba + i - 1
      BY <1>1, <2>2
    <3>2. g[i - a] = Block(c.lba + a + (i - a) - 1)
      BY <1>3, <3>1
    <3> QED
      BY <1>4, <1>5, <2>2, <3>1, <3>2
  <2> QED
    BY <2>1, <2>2
<1>7. x = h
  BY <1>4, <1>5, <1>6, SeqEqual
<1>8. g = << >> <=> n = 0
  BY <1>3, EmptySeq
<1> QED
  BY <1>7, <1>8 DEF x, f, g, h

LEMMA HostReceiveDataCourse ==
  ASSUME Inv, OnCourse, HostReceiveData
  PROVE  OnCourse'
<1> DEFINE e   == dev'
           q   == irq'
           p   == hphase'
           len == IF dev.tx.kind = "csw" THEN 0 ELSE dev.tx.len
           got == IF dev.tx.kind = "blocks" THEN dev.tx.blks ELSE << >>
           rem == hrem - len
           recv == hrecv \o got
<1>1. /\ dev \in DevType /\ hcmd \in CBWType /\ hrem \in Int
      /\ hrecv \in Seq(Slot)
      /\ Disciplined(dev, irq, hphase) /\ Sane(hcmd) /\ SizeKnown(dev)
      /\ Course(dev, irq, hphase, hcmd, hrem, hrecv, hres)
  BY States0, CourseForm DEF Course, Known, SizeKnown
<1>2. /\ hphase = "dataIn" /\ dev.tx.kind # "none" /\ HostTakes(dev.tx)
      /\ hrem' = rem /\ hrecv' = recv
      /\ p = (IF got # << >> /\ rem # 0 THEN "dataIn" ELSE "status")
      /\ UNCHANGED <<hcmd, hres>>
  BY DEF HostReceiveData, HostTakes
<1>3. dev.tx # NoXfer
  BY <1>1, <1>2, Kinds
<1>4. /\ e \in DevType /\ e.tx = NoXfer /\ e.tx.kind = "none"
      /\ Stands(e, dev) /\ SameUnit(e, dev) /\ e.written = dev.written
      /\ InQ(q) /\ (OutQ(q) <=> OutQ(irq)) /\ ~dev.halt_in
  BY <1>2, <1>3, TakesFacts
<1>5. p \in {"dataIn", "status"}
  BY <1>2
<1>6. hcmd.tag # JunkTag /\ hres = "none"
  BY <1>1, <1>2 DEF Course, Known, Moving
<1> HIDE DEF e, q, p, len, got, rem, recv
<1>7. Writing(e, q, p, hcmd, rem, hres)
  BY <1>1, <1>3, <1>4 DEF Disciplined, Writing, Stands
<1>8. Reading(e, q, p, hcmd, rem, recv)
  <2>1. Reading(dev, irq, hphase, hcmd, hrem, hrecv)
    BY <1>1 DEF Course
  <2>2. ASSUME e.state \in {"DATA_IN", "LAST_DATA_IN"}
        PROVE  Taken(e, p, hcmd, rem, recv)
    <3>1. Offered(dev, hphase, hcmd, hrem, hrecv)
      BY <1>2, <1>3, <1>4, <2>1, <2>2 DEF Reading, Stands, Moving
    <3>2. PICK m \in 0 .. hcmd.nblk : \E n \in 0 .. hcmd.nblk - m :
            /\ InFlight(dev, hcmd, m, n)
            /\ hrecv = ReadTo(hcmd, hcmd.nblk - m - n)
            /\ hrem = (m + n) * BlkSize
      BY <1>2, <3>1 DEF Offered
    <3>12. PICK n \in 0 .. hcmd.nblk - m :
            /\ InFlight(dev, hcmd, m, n)
            /\ hrecv = ReadTo(hcmd, hcmd.nblk - m - n)
            /\ hrem = (m + n) * BlkSize
      BY <3>2
    <3>3. /\ hcmd.nblk \in Nat /\ hcmd.lba \in Nat /\ m \in Nat /\ n \in Nat
          /\ hcmd.nblk - m - n \in Nat /\ BlkSize \in Nat \ {0}
      BY <1>1, <3>12, CBWFields, Sizes
    <3>4. At(e, hcmd, m) /\ (e.state = "DATA_IN" <=> m # 0) /\ (n = 0 => m = 0)
      BY <1>4, <3>12 DEF InFlight, At, Stands, SameUnit
    <3>5. dev.tx = BlocksSent(hcmd, m, n)
      BY <3>12 DEF InFlight
    <3>6. /\ dev.tx.kind = "blocks" /\ dev.tx.len = n * BlkSize
          /\ dev.tx.blks = [i \in 1 .. n |->
               Block(hcmd.lba + (hcmd.nblk - m - n) + i - 1)]
      BY <3>5 DEF BlocksSent
    <3>7. recv = ReadTo(hcmd, hcmd.nblk - m) /\ (got = << >> <=> n = 0)
      <4> DEFINE a == hcmd.nblk - m - n
                 g == [i \in 1 .. n |-> Block(hcmd.lba + a + i - 1)]
      <4>1. a \in Nat /\ a + n = hcmd.nblk - m /\ got = g
        BY <3>3, <3>6 DEF got
      <4>2. recv = ReadTo(hcmd, a) \o got
        BY <3>12 DEF recv
      <4> HIDE DEF a
      <4>3. ReadTo(hcmd, a) \o g = ReadTo(hcmd, a + n) /\ (g = << >> <=> n = 0)
        BY <1>1, <3>3, <4>1, ReadGrows
      <4> HIDE DEF g
      <4> QED
        BY <4>1, <4>2, <4>3
    <3>8. rem = m * BlkSize
      <4>1. rem = (m + n) * BlkSize - n * BlkSize
        BY <3>12, <3>6 DEF rem, len
      <4>2. (m + n) * BlkSize = m * BlkSize + n * BlkSize
        BY <3>3
      <4>3. m * BlkSize \in Nat /\ n * BlkSize \in Nat
        BY <3>3, TimesLeq
      <4> QED
        BY <4>1, <4>2, <4>3
    <3>9. rem = 0 <=> m = 0
      BY <3>3, <3>8, TimesLeq
    <3>10. p = "dataIn" <=> m # 0
      BY <1>2, <3>4, <3>7, <3>9
    <3>11. hcmd.op = "READ10"
      BY <3>1 DEF Offered
    <3> QED
      BY <1>5, <3>4, <3>7, <3>8, <3>10, <3>11 DEF Taken
  <2> QED
    BY <1>4, <2>1, <2>2 DEF Reading, Stands
<1>9. Replying(e, q, p, hcmd, rem)
  <2>1. SUFFICES ASSUME e.state = "SEND_DATA"
                 PROVE  Replying(e, q, p, hcmd, rem)
    BY DEF Replying
  <2>2. /\ hcmd.op \notin BlockOps /\ dev.written = {}
        /\ dev.csw.tag = hcmd.tag /\ dev.tx.kind = "info"
        /\ dev.csw.residue = hrem - dev.tx.len
    BY <1>1, <1>2, <1>3, <1>4, <2>1 DEF Course, Replying, Stands, Moving
  <2>3. rem = hrem - dev.tx.len /\ p = "status"
    BY <1>2, <2>2 DEF len, rem, got
  <2> QED
    BY <1>4, <2>2, <2>3 DEF Replying, Stands
<1>10. Fresh(e, q, p, hcmd, rem, recv, hres)
  BY <1>1, <1>3, <1>4 DEF Fresh, Disciplined, Stands
<1>11. /\ Passed(e, p, hcmd, rem, recv) /\ Armed(e, q, p, hcmd, rem)
  BY <1>4, <1>5 DEF Passed, Armed
<1>12. Known(e, p, hcmd, recv, hres)
  BY <1>1, <1>4, <1>5, <1>6 DEF Known, Moving, SizeKnown, SameUnit
<1>13. Course(e, q, p, hcmd, rem, recv, hres)
  BY <1>7, <1>8, <1>9, <1>10, <1>11, <1>12 DEF Course
<1> QED
  BY <1>2, <1>13, CourseForm DEF e, q, p


-----------------------------------------------------------------------------
(* The host sends a command, and data.                                     *)

LEMMA HostSendCBWCourse ==
  ASSUME HostCommands, Inv, OnCourse, NEW k \in Commands, HostSendCBW(k)
  PROVE  OnCourse'
<1> DEFINE e == dev'
           q == irq'
           p == hphase'
           c == hcmd'
           t == (hcmd.tag + 1) % 2
<1>1. /\ dev \in DevType /\ irq \in Irqs /\ hcmd \in CBWType
      /\ Disciplined(dev, irq, hphase) /\ SizeKnown(dev)
  BY States0, CourseForm DEF Course, Known, SizeKnown
<1>2. /\ hphase = "idle" /\ ~dev.halt_out
      /\ c = Tagged(k, t)
      /\ e = [dev EXCEPT !.cbw = c, !.rx = "none", !.written = {}]
      /\ p = DataPhase(k) /\ hrem' = k.dlen /\ hrecv' = << >> /\ hres' = "none"
  BY DEF HostSendCBW
<1>3. t \in {0, 1}
  BY <1>1, CBWFields, ModType DEF Tags, JunkTag
<1> HIDE DEF t
<1>4. /\ c \in CBWType /\ c.tag = t /\ c.dlen = k.dlen
      /\ DataPhase(c) = DataPhase(k) /\ (Sane(k) => Sane(c))
  <2>1. hcmd.tag \in Int
    BY <1>1, CBWFields DEF Tags, JunkTag
  <2>2. c \in CBWType
    BY <1>2, <2>1, TaggedType DEF t
  <2>3. /\ c.tag = t /\ c.dlen = k.dlen /\ c.dir = k.dir /\ c.op = k.op
        /\ c.ok = k.ok /\ c.nblk = k.nblk /\ c.lba = k.lba
    BY <1>2 DEF Tagged
  <2> HIDE DEF c
  <2> QED
    BY <2>2, <2>3 DEF DataPhase, Sane, Addressable, TakesItsData
<1>5. /\ dev.state = "IDLE" /\ dev.tx = NoXfer
  BY <1>1, <1>2 DEF Disciplined
<1> HIDE DEF c
<1>6. /\ e \in DevType /\ e.state = "IDLE" /\ e.tx = NoXfer /\ e.rx = "none"
      /\ e.cbw = c /\ e.written = {} /\ e.halt_out = dev.halt_out
      /\ e.blk_size = dev.blk_size /\ e.blk_nbr = dev.blk_nbr
  BY <1>1, <1>2, <1>4, <1>5 DEF DevType
<1> HIDE DEF e, p
<1>7. e.tx.kind = "none"
  BY <1>6, Kinds
<1>8. p \in {"dataIn", "dataOut", "status"} /\ (p = "dataOut" => c.dlen # 0)
  BY <1>2, <1>4 DEF DataPhase
<1>9. c.dlen \in Nat
  BY <1>4, CBWFields
<1>10. /\ Writing(e, q, p, c, c.dlen, "none")
       /\ Reading(e, q, p, c, c.dlen, << >>)
       /\ Replying(e, q, p, c, c.dlen)
  BY <1>6, <1>7, StillCourse
<1>11. Fresh(e, q, p, c, c.dlen, << >>, "none")
  BY <1>2, <1>4, <1>6 DEF Fresh
<1>12. Passed(e, p, c, c.dlen, << >>)
  BY <1>7 DEF Passed
<1>13. Armed(e, q, p, c, c.dlen)
  BY <1>2, <1>6, <1>7, <1>8, <1>9 DEF Armed
<1>14. Known(e, p, c, << >>, "none")
  <2>1. Sane(c)
    BY <1>4 DEF HostCommands
  <2>2. c.tag # JunkTag
    BY <1>3, <1>4 DEF JunkTag
  <2> QED
    BY <1>1, <1>6, <1>8, <2>1, <2>2 DEF Known, SizeKnown
<1>15. Course(e, q, p, c, c.dlen, << >>, "none")
  BY <1>10, <1>11, <1>12, <1>13, <1>14 DEF Course
<1> QED
  BY <1>2, <1>4, <1>15, CourseForm DEF e, q, p, c

LEMMA HostSendDataCourse ==
  ASSUME Inv, OnCourse, HostSendData
  PROVE  OnCourse'
<1> DEFINE e   == dev'
           q   == irq'
           p   == hphase'
           len == IF dev.rx = "data" THEN Min2(hrem, dev.rx_len) ELSE 1
           rem == hrem - len
<1>1. /\ dev \in DevType /\ irq \in Irqs /\ hcmd \in CBWType /\ hrem \in Int
      /\ Disciplined(dev, irq, hphase) /\ Sane(hcmd) /\ SizeKnown(dev)
      /\ Course(dev, irq, hphase, hcmd, hrem, hrecv, hres)
  BY States0, CourseForm DEF Course, Known, SizeKnown
<1>2. /\ hphase = "dataOut" /\ dev.rx # "none" /\ ~dev.halt_out
      /\ hrem' = rem /\ p = (IF rem = 0 THEN "status" ELSE "dataOut")
      /\ q = Append(irq, "out") /\ UNCHANGED <<hcmd, hrecv, hres>>
  BY DEF HostSendData
<1>3. e \in DevType
  BY HostSendDataInv, InvForm DEF Inv, TypeOK
<1>4. /\ hrem >= 1 /\ hcmd.tag # JunkTag /\ hres = "none"
      /\ dev.tx.kind = "csw" /\ dev.rx = "cbw" /\ ~dev.halt_in => hrem >= 2
  BY <1>1, <1>2 DEF Course, Armed, Known, Moving
<1>5. ~OutQ(irq) /\ OutQ(q) /\ (InQ(q) => InQ(irq))
  <2>1. ~OutQ(irq)
    BY <1>1, <1>2 DEF Disciplined
  <2>2. irq \in {<< >>, <<"in">>}
        /\ q = IF irq = << >> THEN <<"out">> ELSE <<"in", "out">>
    BY <1>1, <1>2, <2>1, QueueFacts
  <2> QED
    BY <2>1, <2>2, QueueKinds
<1>6. CASE dev.rx = "data"
  <2> DEFINE g == HostBlocks(hcmd.dlen - hrem, len)
  <2>1. dev.state = "DATA_OUT" /\ dev.tx = NoXfer /\ ~InQ(irq)
    BY <1>1, <1>6 DEF Disciplined
  <2>2. PICK m \in 0 .. hcmd.nblk :
          /\ At(dev, hcmd, m) /\ dev.written = WrittenTo(hcmd, hcmd.nblk - m)
          /\ dev.rx_len = Packet(dev) /\ hrem = dev.blk_len
    <3>1. Writing(dev, irq, hphase, hcmd, hrem, hres)
      BY <1>1 DEF Course
    <3> QED
      BY <1>5, <2>1, <3>1 DEF Writing
  <2> DEFINE k == Min2(m, Slots)
  <2>3. /\ k \in Nat /\ k <= m /\ k <= Slots /\ Packet(dev) = k * BlkSize
        /\ Packet(dev) \div BlkSize = k /\ m \in Nat /\ hcmd.nblk \in Nat
        /\ m <= hcmd.nblk /\ BlkSize \in Nat \ {0} /\ Slots \in Nat \ {0}
    BY <1>1, <2>2, PacketBlocks, CBWFields, Sizes DEF At
  <2>4. len = Packet(dev) /\ Packet(dev) <= dev.blk_len
        /\ Packet(dev) \in Int
    <3>1. dev.blk_len = m * BlkSize
      BY <2>2 DEF At
    <3> HIDE DEF k
    <3>2. k * BlkSize \in Nat /\ m * BlkSize \in Nat /\ k * BlkSize <= m * BlkSize
      BY <2>3, TimesLeq
    <3> QED
      BY <1>6, <2>2, <2>3, <3>1, <3>2 DEF Min2
  <2>5. dev' = [dev EXCEPT !.data = g, !.rx = "none"]
    BY <1>1, <1>6 DEF HostSendData, DevType
  <2>6. /\ e.state = "DATA_OUT" /\ e.tx = NoXfer /\ e.rx = "none"
        /\ e.cbw = dev.cbw /\ e.blk_len = dev.blk_len /\ e.csw = dev.csw
        /\ e.blk_addr = dev.blk_addr /\ e.blk_size = dev.blk_size
        /\ e.blk_nbr = dev.blk_nbr /\ e.written = dev.written
        /\ e.halt_out = dev.halt_out /\ e.data = g
    <3> HIDE DEF g
    <3> QED
      BY <1>1, <2>1, <2>5 DEF DevType
  <2>7. Holds(e, hcmd, m)
    <3>1. Packet(e) = Packet(dev)
      BY <2>6 DEF Packet
    <3>2. (hcmd.dlen - hrem) \div BlkSize = hcmd.nblk - m
      <4> DEFINE a == hcmd.nblk - m
      <4>1. a \in Nat /\ hcmd.nblk = a + m
        BY <2>3
      <4>2. hcmd.dlen = (a + m) * BlkSize /\ hrem = m * BlkSize
        BY <2>2, <4>1 DEF At
      <4> HIDE DEF a
      <4>3. (a + m) * BlkSize = a * BlkSize + m * BlkSize
        BY <2>3, <4>1
      <4>4. a * BlkSize \in Nat /\ m * BlkSize \in Nat
        BY <2>3, <4>1, TimesLeq
      <4>5. hcmd.dlen - hrem = a * BlkSize
        BY <4>2, <4>3, <4>4
      <4>6. (a * BlkSize) \div BlkSize = a
        BY <2>3, <4>1, Quotient
      <4> QED
        BY <4>5, <4>6 DEF a
    <3> HIDE DEF k
    <3>3. ASSUME NEW i \in 1 .. k PROVE g[i] = Block(hcmd.nblk - m + i - 1)
      <4>1. i \in 1 .. Slots /\ i <= len \div BlkSize
        BY <2>3, <2>4
      <4> QED
        BY <3>2, <4>1 DEF HostBlocks
    <3> HIDE DEF g
    <3> QED
      BY <2>3, <2>6, <3>1, <3>3 DEF Holds
  <2> HIDE DEF e, q, p, len, g
  <2>8. At(e, hcmd, m) /\ Packet(e) = Packet(dev)
    BY <2>2, <2>6 DEF At, Packet
  <2>9. rem = e.blk_len - Packet(e) /\ rem >= 0 /\ rem \in Int
    <3>1. dev.blk_len \in Int
      BY <1>1, Fields
    <3> QED
      BY <2>2, <2>4, <2>6, <2>8, <3>1
  <2> HIDE DEF rem
  <2>10. Writing(e, q, p, hcmd, rem, hres)
    BY <1>2, <1>4, <1>5, <2>2, <2>6, <2>7, <2>8, <2>9 DEF Writing
  <2>11. /\ Reading(e, q, p, hcmd, rem, hrecv) /\ Replying(e, q, p, hcmd, rem)
         /\ Fresh(e, q, p, hcmd, rem, hrecv, hres)
         /\ Passed(e, p, hcmd, rem, hrecv)
    <3>1. e.tx.kind = "none"
      BY <1>3, <2>6, Kinds
    <3> QED
      BY <2>6, <3>1 DEF Reading, Replying, Fresh, Passed
  <2>12. Armed(e, q, p, hcmd, rem)
    <3>1. e.tx.kind = "none"
      BY <1>3, <2>6, Kinds
    <3> QED
      BY <1>2, <2>6, <2>9, <3>1 DEF Armed
  <2>13. Known(e, p, hcmd, hrecv, hres)
    BY <1>1, <1>2, <1>4, <2>6 DEF Known, SizeKnown
  <2>14. Course(e, q, p, hcmd, rem, hrecv, hres)
    BY <2>10, <2>11, <2>12, <2>13 DEF Course
  <2> QED
    BY <1>2, <2>14, CourseForm DEF e, q, p, rem
<1>7. CASE dev.rx # "data"
  <2>1. dev.rx = "cbw"
    BY <1>1, <1>2, <1>7, Fields
  <2>2. dev' = [OverCBW(dev) EXCEPT !.rx = "none"]
    BY <1>7 DEF HostSendData
  <2>3. /\ e.state = dev.state /\ e.rx = "none" /\ e.tx = dev.tx
        /\ ~e.cbw.ok /\ e.written = dev.written
        /\ e.halt_in = dev.halt_in /\ e.halt_out = dev.halt_out
        /\ e.blk_size = dev.blk_size /\ e.blk_nbr = dev.blk_nbr
    BY <1>1, <2>2, OverCBWKeeps
  <2>4. /\ dev.state # "DATA_OUT"
        /\ dev.state \in InStates => dev.tx = NoXfer /\ ~InQ(irq)
    BY <1>1, <2>1 DEF Disciplined
  <2>5. /\ len = 1 /\ rem = hrem - 1 /\ rem \in Int /\ rem >= 0
        /\ rem # 0 => rem >= 1
        /\ hrem >= 2 => rem >= 1
    BY <1>1, <1>4, <1>7
  <2> HIDE DEF e, q, p, len, rem
  <2>6. Writing(e, q, p, hcmd, rem, hres)
    BY <2>3, <2>4 DEF Writing
  <2>7. Reading(e, q, p, hcmd, rem, hrecv)
    <3>1. Reading(dev, irq, hphase, hcmd, hrem, hrecv)
      BY <1>1 DEF Course
    <3>2. dev.tx.kind = "blocks" => dev.state \in {"DATA_IN", "LAST_DATA_IN"}
      BY <1>2, <3>1 DEF Reading, Moving
    <3>3. dev.state # "LAST_DATA_IN"
      BY <2>1, <3>1 DEF Reading
    <3>4. dev.state = "DATA_IN" => dev.tx = NoXfer /\ ~InQ(irq)
      BY <2>4 DEF InStates
    <3>5. dev.tx.kind # "blocks"
      BY <1>1, <3>2, <3>3, <3>4, Kinds
    <3> QED
      BY <1>5, <2>3, <3>3, <3>4, <3>5 DEF Reading
  <2>8. Replying(e, q, p, hcmd, rem)
    BY <1>5, <2>3, <2>4 DEF Replying, InStates
  <2>9. Fresh(e, q, p, hcmd, rem, hrecv, hres)
    BY <2>3 DEF Fresh
  <2>10. Passed(e, p, hcmd, rem, hrecv)
    BY <1>1, <1>2, <2>3 DEF Course, Passed, Moving
  <2>11. Armed(e, q, p, hcmd, rem)
    <3>1. p \in {"status", "dataOut"} /\ (p = "dataOut" <=> rem # 0)
      BY <1>2
    <3>2. e.tx.kind = "csw" /\ ~e.halt_in => rem >= 1
      BY <1>1, <1>4, <2>1, <2>3, <2>5
    <3>3. rem = 0 => ~(e.tx.kind = "csw" /\ ~e.halt_in)
      BY <3>2
    <3> QED
      BY <1>2, <2>3, <2>5, <3>1, <3>3 DEF Armed
  <2>12. Known(e, p, hcmd, hrecv, hres)
    BY <1>1, <1>2, <1>4, <2>3 DEF Known, SizeKnown
  <2>13. Course(e, q, p, hcmd, rem, hrecv, hres)
    BY <2>6, <2>7, <2>8, <2>9, <2>10, <2>11, <2>12 DEF Course
  <2> QED
    BY <1>2, <2>13, CourseForm DEF e, q, p, rem
<1> QED
  BY <1>6, <1>7


-----------------------------------------------------------------------------
(* The IN completion.                                                      *)

\* A status that reports success waits for the host.
LEMMA PassedCourse ==
  ASSUME NEW e \in DevType, NEW p \in {"dataIn", "status", "status2", "reset"},
         NEW c \in CBWType, NEW rem, NEW recv, NEW res,
         e.state = "IDLE", e.rx = "cbw", e.tx.kind = "csw",
         e.tx.csw.status = "PASSED", Sane(c), SizeKnown(e),
         p # "reset" => /\ c.tag # JunkTag /\ res = "none"
                        /\ e.tx.csw.residue = rem /\ AllMoved(e, c, recv)
  PROVE  Course(e, << >>, p, c, rem, recv, res)
<1>1. /\ Writing(e, << >>, p, c, rem, res)
      /\ Reading(e, << >>, p, c, rem, recv)
      /\ Replying(e, << >>, p, c, rem)
  BY StillCourse
<1>2. Fresh(e, << >>, p, c, rem, recv, res)
  BY QueueKinds DEF Fresh
<1>3. Passed(e, p, c, rem, recv)
  BY DEF Passed, Moving
<1>4. Armed(e, << >>, p, c, rem)
  BY DEF Armed
<1>5. Known(e, p, c, recv, res)
  BY DEF Known, Moving, SizeKnown
<1> QED
  BY <1>1, <1>2, <1>3, <1>4, <1>5 DEF Course

\* The next n blocks are on their way, with k more behind them.
LEMMA OfferedCourse ==
  ASSUME NEW e \in DevType, NEW p \in {"dataIn", "status", "reset"},
         NEW c \in CBWType, NEW rem, NEW recv, NEW res,
         NEW k \in Nat, NEW n \in Nat, k + n <= c.nblk,
         InFlight(e, c, k, n), e.rx = "none", c.op = "READ10", Sane(c),
         SizeKnown(e),
         p # "reset" => /\ c.tag # JunkTag /\ res = "none"
                        /\ recv = ReadTo(c, c.nblk - k - n)
                        /\ rem = (k + n) * BlkSize
  PROVE  Course(e, << >>, p, c, rem, recv, res)
<1>1. /\ e.state \in {"DATA_IN", "LAST_DATA_IN"} /\ e.tx.kind = "blocks"
      /\ e.csw.residue = e.blk_len
  BY DEF InFlight, BlocksSent, At
<1>2. k \in 0 .. c.nblk /\ n \in 0 .. c.nblk - k
  BY CBWFields
<1>3. Offered(e, p, c, rem, recv)
  BY <1>2 DEF Offered
<1>4. Reading(e, << >>, p, c, rem, recv)
  BY <1>1, <1>3, QueueKinds DEF Reading
<1>5. /\ Writing(e, << >>, p, c, rem, res) /\ Replying(e, << >>, p, c, rem)
      /\ Passed(e, p, c, rem, recv) /\ Armed(e, << >>, p, c, rem)
  BY <1>1 DEF Writing, Replying, Passed, Armed
<1>6. Fresh(e, << >>, p, c, rem, recv, res)
  BY QueueKinds DEF Fresh
<1>7. Known(e, p, c, recv, res)
  BY DEF Known, Moving, SizeKnown
<1> QED
  BY <1>4, <1>5, <1>6, <1>7 DEF Course

\* A completion that no one waits for leaves no trace.
LEMMA IgnoredCourse ==
  ASSUME NEW d \in DevType, NEW q, NEW r, NEW p, NEW c, NEW rem, NEW recv,
         NEW res, Course(d, q, p, c, rem, recv, res), InQ(r) => InQ(q),
         OutQ(r) => OutQ(q), d.state = "DATA_OUT" => (OutQ(q) => OutQ(r))
  PROVE  Course(d, r, p, c, rem, recv, res)
<1>1. Writing(d, r, p, c, rem, res)
  BY DEF Course, Writing
<1>2. Reading(d, r, p, c, rem, recv) /\ Replying(d, r, p, c, rem)
  BY DEF Course, Reading, Replying
<1>3. /\ Fresh(d, r, p, c, rem, recv, res) /\ Armed(d, r, p, c, rem)
      /\ Passed(d, p, c, rem, recv) /\ Known(d, p, c, recv, res)
  BY DEF Course, Fresh, Armed
<1> QED
  BY <1>1, <1>2, <1>3 DEF Course

LEMMA DevDataInCourse ==
  ASSUME Inv, OnCourse, DevDataIn
  PROVE  OnCourse'
<1> DEFINE e == dev'
<1>1. /\ dev \in DevType /\ irq \in Irqs /\ hphase \in Phases
      /\ hcmd \in CBWType /\ hrem \in Int
      /\ Disciplined(dev, irq, hphase) /\ Sane(hcmd) /\ SizeKnown(dev)
      /\ Course(dev, irq, hphase, hcmd, hrem, hrecv, hres)
  BY States0, CourseForm DEF Course, Known, SizeKnown
<1>2. /\ InQ(irq) /\ UNCHANGED <<hphase, hcmd, hrem, hrecv, hres>>
      /\ irq' = IF Head(irq) = "in" THEN Tail(irq) ELSE <<"out">>
  BY DEF DevDataIn, InPending, InQ, host
<1>3. PICK ok \in BOOLEAN : e = MSC_BOT_DataIn(dev, ok)
  BY DEF DevDataIn, StorageOutcomes
<1>4. irq' \in {<< >>, <<"out">>} /\ (OutQ(irq') <=> OutQ(irq)) /\ ~InQ(irq')
  BY <1>1, <1>2, QueueFacts, QueueKinds
<1>5. e \in DevType
  BY DevDataInInv, InvForm DEF Inv, TypeOK
<1>6. dev.state = "DATA_IN" => dev.cbw.op = "READ10"
  BY <1>1, <1>2 DEF Disciplined, InStates
<1> HIDE DEF e
<1>7. CASE dev.state \notin InStates
  <2>1. e = dev
    BY <1>1, <1>3, <1>6, <1>7, DataInShape
  <2>2. Course(dev, irq', hphase, hcmd, hrem, hrecv, hres)
    BY <1>1, <1>4, IgnoredCourse
  <2> QED
    BY <1>2, <2>1, <2>2, CourseForm DEF e
<1>8. CASE dev.state \in InStates
  <2>1. dev.rx = "none" /\ irq' = << >>
    BY <1>1, <1>2, <1>4, <1>8, QueueKinds DEF Disciplined
  <2>2. hphase \in Moving \cup {"reset"}
    BY <1>1, <1>8 DEF Disciplined, InStates, Moving, Phases
  <2>3. hphase # "reset" => hcmd.tag # JunkTag /\ hres = "none"
    BY <1>1, <2>2 DEF Course, Known
  <2>4. Course(e, << >>, hphase, hcmd, hrem, hrecv, hres)
    <3>1. CASE dev.state = "SEND_DATA"
      <4>1. e = MSC_BOT_SendCSW(dev, "PASSED")
        BY <1>3, <3>1 DEF MSC_BOT_DataIn
      <4>2. /\ e.state = "IDLE" /\ e.rx = "cbw" /\ e.written = dev.written
            /\ e.tx = StatusSent(dev, "PASSED") /\ SameUnit(e, dev)
        BY <1>1, <4>1, SendCSWKeeps DEF SameTransfer
      <4>3. /\ hphase \in {"status", "reset"}
            /\ hphase # "reset" => /\ hcmd.op \notin BlockOps
                                   /\ dev.written = {}
                                   /\ dev.csw.residue = hrem
        BY <1>1, <1>2, <2>2, <3>1 DEF Course, Replying
      <4>4. /\ e.tx.kind = "csw" /\ e.tx.csw.status = "PASSED"
            /\ e.tx.csw.residue = dev.csw.residue
        BY <4>2 DEF StatusSent
      <4>5. hphase # "reset" => AllMoved(e, hcmd, hrecv)
        BY <4>2, <4>3 DEF AllMoved, BlockOps
      <4>6. SizeKnown(e)
        BY <1>1, <4>2 DEF SizeKnown, SameUnit
      <4> QED
        BY <1>1, <1>5, <2>3, <4>2, <4>3, <4>4, <4>5, <4>6, PassedCourse
    <3>2. CASE dev.state \in {"DATA_IN", "LAST_DATA_IN"}
      <4>1. Taken(dev, hphase, hcmd, hrem, hrecv)
        BY <1>1, <1>2, <2>2, <3>2 DEF Course, Reading
      <4>2. hphase \in {"dataIn", "status", "reset"} /\ hcmd.op = "READ10"
        BY <4>1 DEF Taken
      <4>3. PICK m \in 0 .. hcmd.nblk :
              /\ At(dev, hcmd, m)
              /\ dev.state = "DATA_IN" <=> m # 0
              /\ hphase # "reset" => /\ hphase = "dataIn" <=> m # 0
                                     /\ hrecv = ReadTo(hcmd, hcmd.nblk - m)
                                     /\ hrem = m * BlkSize
        BY <4>1 DEF Taken
      <4>4. hcmd.nblk \in Nat /\ m \in Nat /\ m <= hcmd.nblk
        BY <1>1, CBWFields
      <4>5. CASE dev.state = "LAST_DATA_IN"
        <5>1. m = 0 /\ 0 * BlkSize = 0
          BY <4>3, <4>5, Sizes
        <5>2. e = MSC_BOT_SendCSW(dev, "PASSED")
          BY <1>3, <4>5 DEF MSC_BOT_DataIn
        <5>3. /\ e.state = "IDLE" /\ e.rx = "cbw" /\ SameUnit(e, dev)
              /\ e.tx = StatusSent(dev, "PASSED")
          BY <1>1, <5>2, SendCSWKeeps
        <5>4. /\ e.tx.kind = "csw" /\ e.tx.csw.status = "PASSED"
              /\ e.tx.csw.residue = dev.csw.residue
          BY <5>3 DEF StatusSent
        <5>5. dev.csw.residue = 0
          BY <4>3, <5>1 DEF At
        <5>6. hphase # "reset" => hrem = 0 /\ hrecv = ReadTo(hcmd, hcmd.nblk)
          BY <4>3, <4>4, <5>1
        <5>7. hphase # "reset" => AllMoved(e, hcmd, hrecv)
          BY <4>2, <5>6 DEF AllMoved, BlockOps
        <5>8. SizeKnown(e)
          BY <1>1, <5>3 DEF SizeKnown, SameUnit
        <5> QED
          BY <1>1, <1>5, <2>3, <4>2, <5>3, <5>4, <5>5, <5>6, <5>7, <5>8,
             PassedCourse
      <4>6. CASE dev.state = "DATA_IN"
        <5>1. \/ Fails(e, dev)
              \/ /\ \E n \in 0 .. m : InFlight(e, hcmd, m - n, n)
                 /\ e.rx = dev.rx /\ e.written = dev.written
                 /\ SameUnit(e, dev)
          BY <1>1, <1>3, <4>2, <4>3, <4>6, DataInMoves
        <5>2. SizeKnown(e)
          BY <1>1, <5>1 DEF SizeKnown, SameUnit, Fails
        <5>3. CASE Fails(e, dev)
          BY <1>1, <1>5, <2>2, <2>3, <4>2, <5>2, <5>3, FailedCourse DEF Fails
        <5>4. CASE /\ \E n \in 0 .. m : InFlight(e, hcmd, m - n, n)
                   /\ e.rx = dev.rx
          <6>1. PICK n \in 0 .. m : InFlight(e, hcmd, m - n, n)
            BY <5>4
          <6> DEFINE k == m - n
          <6>2. /\ k \in Nat /\ n \in Nat /\ k + n = m /\ k + n <= hcmd.nblk
                /\ hcmd.nblk - k - n = hcmd.nblk - m
            BY <4>4
          <6>3. InFlight(e, hcmd, k, n)
            BY <6>1
          <6> HIDE DEF k
          <6>4. hphase # "reset" => /\ hrecv = ReadTo(hcmd, hcmd.nblk - k - n)
                                    /\ hrem = (k + n) * BlkSize
            BY <4>3, <6>2
          <6> QED
            BY <1>1, <1>5, <2>1, <2>3, <4>2, <5>2, <5>4, <6>2, <6>3, <6>4,
               OfferedCourse
        <5> QED
          BY <5>1, <5>3, <5>4
      <4> QED
        BY <3>2, <4>5, <4>6
    <3> QED
      BY <1>8, <3>1, <3>2 DEF InStates
  <2> QED
    BY <1>2, <2>1, <2>4, CourseForm DEF e
<1> QED
  BY <1>7, <1>8


-----------------------------------------------------------------------------
(* The OUT completion.                                                     *)

LEMMA NothingMoved ==
  ASSUME NEW c
  PROVE  ReadTo(c, 0) = << >> /\ WrittenTo(c, 0) = {}
<1> DEFINE g == ReadTo(c, 0)
<1>1. g = [i \in 1 .. 0 |-> Block(c.lba + i - 1)]
  BY DEF ReadTo
<1> HIDE DEF g
<1>2. g \in Seq(Blocks) /\ Len(g) = 0
  <2>1. 1 .. 0 = {}
    OBVIOUS
  <2>2. g \in [1 .. 0 -> Blocks]
    BY <1>1, <2>1
  <2> QED
    BY <2>2
<1>3. WrittenTo(c, 0) = {}
  <2>1. \A i \in 0 .. 0 - 1 : FALSE
    OBVIOUS
  <2> QED
    BY <2>1 DEF WrittenTo
<1> QED
  BY <1>2, <1>3, EmptySeq DEF g

\* The next k blocks of a WRITE10 are awaited.
LEMMA AwaitedCourse ==
  ASSUME NEW e \in DevType, NEW p \in {"dataOut", "status", "status2", "reset"},
         NEW c \in CBWType, NEW rem \in Int, NEW recv, NEW res,
         NEW k \in 0 .. c.nblk, Awaits(e, c, k), e.tx = NoXfer,
         e.written = WrittenTo(c, c.nblk - k), rem = e.blk_len, res = "none",
         ~e.halt_out, Sane(c), SizeKnown(e),
         p \in {"status", "status2"} => rem = 0, p = "dataOut" => rem >= 1,
         p # "reset" => c.tag # JunkTag
  PROVE  Course(e, << >>, p, c, rem, recv, res)
<1>1. e.tx.kind = "none" /\ e.state = "DATA_OUT"
  BY Kinds DEF Awaits
<1>2. Writing(e, << >>, p, c, rem, res)
  BY DEF Writing, Awaits
<1>3. /\ Reading(e, << >>, p, c, rem, recv) /\ Replying(e, << >>, p, c, rem)
      /\ Fresh(e, << >>, p, c, rem, recv, res) /\ Passed(e, p, c, rem, recv)
      /\ Armed(e, << >>, p, c, rem)
  BY <1>1 DEF Reading, Replying, Fresh, Passed, Armed
<1>4. Known(e, p, c, recv, res)
  BY DEF Known, Moving, SizeKnown
<1> QED
  BY <1>2, <1>3, <1>4 DEF Course

\* A good wrapper is decoded.
LEMMA DecodeCourse ==
  ASSUME NEW d \in DevType, NEW ok \in BOOLEAN, NEW c \in CBWType,
         NEW p \in {DataPhase(c), "reset"}, d.cbw = c, c.ok, Sane(c),
         d.state = "IDLE", d.tx = NoXfer, d.rx = "none", ~d.halt_out,
         d.written = {}, SizeKnown(d), p # "reset" => c.tag # JunkTag
  PROVE  Course(MSC_BOT_CBW_Decode(d, ok), << >>, p, c, c.dlen, << >>, "none")
<1> DEFINE e == MSC_BOT_CBW_Decode(d, ok)
<1>1. e \in DevType
  BY DecodeType
<1>2. /\ e.cbw = c /\ e.written = {} /\ SizeKnown(e)
      /\ \/ Refused(e, d) \/ Concluded(e, d, c) \/ Informs(e, d, c)
         \/ StartsRead(e, d, c) \/ StartsWrite(e, d, c)
  BY DecodeMoves
<1>3. /\ p \in {"dataIn", "dataOut", "status", "reset"}
      /\ p = "dataOut" => c.dlen # 0 /\ c.dir = "out"
      /\ p = "dataIn" => c.dir = "in"
      /\ p = "status" => c.dlen = 0
      /\ p # "reset" => p = DataPhase(c)
  <2>1. c.dir \in {"in", "out"}
    BY DEF CBWType
  <2>2. p # "reset" => p = DataPhase(c)
    OBVIOUS
  <2> QED
    BY <2>1, <2>2 DEF DataPhase
<1>4. c.dlen \in Nat /\ c.nblk \in Nat /\ (p = "dataOut" => c.dlen >= 1)
  BY <1>3, CBWFields
<1>5. Known(e, p, c, << >>, "none")
  BY <1>2, <1>3 DEF Known, Moving, SizeKnown
<1> HIDE DEF e
<1>6. CASE Refused(e, d)
  <2>1. e.tx = NoXfer /\ e.tx.kind = "none" /\ e.halt_in
        /\ e.state \in {"IDLE", "DATA_IN"}
    BY <1>1, <1>6, Kinds DEF Refused
  <2>2. /\ Writing(e, << >>, p, c, c.dlen, "none")
        /\ Reading(e, << >>, p, c, c.dlen, << >>)
        /\ Replying(e, << >>, p, c, c.dlen)
        /\ Fresh(e, << >>, p, c, c.dlen, << >>, "none")
    BY <2>1, QueueKinds DEF Writing, Reading, Replying, Fresh
  <2>3. Passed(e, p, c, c.dlen, << >>) /\ Armed(e, << >>, p, c, c.dlen)
    BY <1>3, <1>4, <2>1 DEF Passed, Armed
  <2> QED
    BY <1>5, <2>2, <2>3 DEF Course, e
<1>7. CASE Concluded(e, d, c)
  <2>1. /\ e.state = "IDLE" /\ e.rx = "cbw" /\ e.tx.kind = "csw"
        /\ p \in {"dataIn", "status", "reset"}
    BY <1>3, <1>7 DEF Concluded
  <2>2. CASE e.tx.csw.status = "FAILED"
    BY <1>1, <1>2, <1>4, <2>1, <2>2, FailedCourse DEF e, Moving
  <2>3. CASE /\ e.tx.csw.status = "PASSED"
             /\ e.tx.csw.residue = c.dlen /\ c.op \notin BlockOps
    <3>1. AllMoved(e, c, << >>)
      BY <1>2, <2>3 DEF AllMoved, BlockOps
    <3> QED
      BY <1>1, <1>2, <2>1, <2>3, <3>1, PassedCourse DEF e
  <2> QED
    BY <1>7, <2>2, <2>3 DEF Concluded
<1>8. CASE Informs(e, d, c)
  <2>1. /\ Writing(e, << >>, p, c, c.dlen, "none")
        /\ Reading(e, << >>, p, c, c.dlen, << >>)
        /\ Fresh(e, << >>, p, c, c.dlen, << >>, "none")
    BY <1>8, QueueKinds DEF Writing, Reading, Fresh, Informs
  <2>2. Replying(e, << >>, p, c, c.dlen)
    BY <1>2, <1>8, QueueKinds DEF Replying, Informs
  <2>3. Passed(e, p, c, c.dlen, << >>) /\ Armed(e, << >>, p, c, c.dlen)
    BY <1>3, <1>4, <1>8 DEF Passed, Armed, Informs
  <2> QED
    BY <1>5, <2>1, <2>2, <2>3 DEF Course, e
<1>9. CASE StartsRead(e, d, c)
  <2>1. PICK n \in 0 .. c.nblk : InFlight(e, c, c.nblk - n, n)
    BY <1>9 DEF StartsRead
  <2> DEFINE k == c.nblk - n
  <2>2. /\ k \in Nat /\ n \in Nat /\ k + n = c.nblk /\ k + n <= c.nblk
        /\ c.nblk - k - n = 0
    BY <1>4
  <2>3. InFlight(e, c, k, n)
    BY <2>1
  <2> HIDE DEF k
  <2>4. c.dlen = (k + n) * BlkSize
    BY <2>2, <2>3 DEF InFlight, At
  <2>5. << >> = ReadTo(c, c.nblk - k - n)
    BY <2>2, NothingMoved
  <2>6. /\ e.rx = "none" /\ c.op = "READ10"
        /\ p \in {"dataIn", "status", "reset"}
    BY <1>3, <1>9 DEF StartsRead
  <2> QED
    BY <1>1, <1>2, <2>2, <2>3, <2>4, <2>5, <2>6, OfferedCourse DEF e
<1>10. CASE StartsWrite(e, d, c)
  <2>1. /\ Awaits(e, c, c.nblk) /\ e.tx = NoXfer /\ ~e.halt_out
        /\ p \in {"dataOut", "status", "reset"}
    BY <1>3, <1>10 DEF StartsWrite
  <2>2. c.dlen = e.blk_len /\ c.nblk \in 0 .. c.nblk
    BY <1>4, <2>1 DEF Awaits, At
  <2>3. e.written = WrittenTo(c, c.nblk - c.nblk)
    <3>1. c.nblk - c.nblk = 0
      BY <1>4
    <3> QED
      BY <1>2, <3>1, NothingMoved
  <2> QED
    BY <1>1, <1>2, <1>3, <1>4, <2>1, <2>2, <2>3, AwaitedCourse DEF e
<1> QED
  BY <1>2, <1>6, <1>7, <1>8, <1>9, <1>10

LEMMA DevDataOutCourse ==
  ASSUME Inv, OnCourse, DevDataOut
  PROVE  OnCourse'
<1> DEFINE e == dev'
<1>1. /\ dev \in DevType /\ irq \in Irqs /\ hphase \in Phases
      /\ hcmd \in CBWType /\ hrem \in Int
      /\ Disciplined(dev, irq, hphase) /\ Sane(hcmd) /\ SizeKnown(dev)
      /\ Course(dev, irq, hphase, hcmd, hrem, hrecv, hres)
  BY States0, CourseForm DEF Course, Known, SizeKnown
<1>2. /\ irq # << >> /\ Head(irq) = "out" /\ irq' = Tail(irq)
      /\ UNCHANGED <<hphase, hcmd, hrem, hrecv, hres>>
  BY DEF DevDataOut, host
<1>3. PICK ok \in BOOLEAN : e = MSC_BOT_DataOut(dev, ok)
  BY DEF DevDataOut, StorageOutcomes
<1>4. /\ irq \in {<<"out">>, <<"out", "in">>}
      /\ irq' = IF irq = <<"out">> THEN << >> ELSE <<"in">>
  BY <1>1, <1>2, QueueFacts
<1>5. OutQ(irq) /\ ~OutQ(irq') /\ (InQ(irq') <=> InQ(irq)) /\ dev.rx = "none"
  BY <1>1, <1>4, QueueKinds DEF Disciplined
<1>6. e \in DevType
  BY DevDataOutInv, InvForm DEF Inv, TypeOK
<1>7. hphase \in Moving \cup {"reset"}
  BY <1>1, <1>5 DEF Course, Armed, Moving, Phases
<1>8. hphase # "reset" => hcmd.tag # JunkTag /\ hres = "none"
  BY <1>1, <1>7 DEF Course, Known
<1> HIDE DEF e
<1>9. CASE dev.state \notin {"IDLE", "DATA_OUT"}
  <2>1. e = dev
    BY <1>3, <1>9 DEF MSC_BOT_DataOut
  <2>2. Course(dev, irq', hphase, hcmd, hrem, hrecv, hres)
    BY <1>1, <1>5, <1>9, IgnoredCourse
  <2> QED
    BY <1>2, <2>1, <2>2, CourseForm DEF e
<1>10. CASE dev.state = "IDLE" /\ dev.cbw.ok
  <2>1. /\ dev.cbw = hcmd /\ hphase \in {DataPhase(hcmd), "reset"}
        /\ hres = "none" /\ hrem = hcmd.dlen /\ hrecv = << >>
        /\ dev.written = {} /\ ~dev.halt_out
    BY <1>1, <1>5, <1>10 DEF Course, Fresh
  <2>2. dev.tx = NoXfer /\ irq' = << >>
    BY <1>1, <1>4, <1>5, <1>10 DEF Disciplined
  <2>3. e = MSC_BOT_CBW_Decode(dev, ok)
    BY <1>3, <1>10 DEF MSC_BOT_DataOut
  <2>4. Course(e, << >>, hphase, hcmd, hcmd.dlen, << >>, "none")
    BY <1>1, <1>5, <1>8, <1>10, <2>1, <2>2, <2>3, DecodeCourse
  <2> QED
    BY <1>2, <2>1, <2>2, <2>4, CourseForm DEF e
<1>11. CASE dev.state = "IDLE" /\ ~dev.cbw.ok
  <2>1. e = MSC_BOT_CBW_Decode(dev, ok)
    BY <1>3, <1>11 DEF MSC_BOT_DataOut
  <2>2. /\ e.state = "IDLE" /\ e.tx = dev.tx /\ e.rx = "cbw" /\ e.halt_in
        /\ e.written = dev.written
        /\ e.blk_size = dev.blk_size /\ e.blk_nbr = dev.blk_nbr
    BY <1>1, <1>11, <2>1, DecodeBadMoves
  <2>3. hphase \in Moving => e.tx.kind # "blocks"
    BY <1>1, <1>11, <2>2 DEF Course, Reading
  <2>4. /\ Writing(e, irq', hphase, hcmd, hrem, hres)
        /\ Reading(e, irq', hphase, hcmd, hrem, hrecv)
        /\ Replying(e, irq', hphase, hcmd, hrem)
    BY <1>6, <2>2, <2>3, StillCourse
  <2>5. Fresh(e, irq', hphase, hcmd, hrem, hrecv, hres)
    BY <1>5 DEF Fresh
  <2>6. Passed(e, hphase, hcmd, hrem, hrecv)
    BY <1>1, <2>2 DEF Course, Passed, AllMoved
  <2>7. Armed(e, irq', hphase, hcmd, hrem)
    BY <1>1, <2>2 DEF Course, Armed
  <2>8. Known(e, hphase, hcmd, hrecv, hres)
    BY <1>1, <1>7, <1>8, <2>2 DEF Known, Moving, SizeKnown
  <2>9. Course(e, irq', hphase, hcmd, hrem, hrecv, hres)
    BY <2>4, <2>5, <2>6, <2>7, <2>8 DEF Course
  <2> QED
    BY <1>2, <2>9, CourseForm DEF e
<1>12. CASE dev.state = "DATA_OUT"
  <2>1. dev.tx = NoXfer /\ irq' = << >> /\ dev.cbw.op = "WRITE10"
    BY <1>1, <1>4, <1>12, QueueKinds DEF Disciplined
  <2>2. Writing(dev, irq, hphase, hcmd, hrem, hres)
    BY <1>1 DEF Course
  <2>3. PICK m \in 0 .. hcmd.nblk :
          /\ At(dev, hcmd, m) /\ Holds(dev, hcmd, m)
          /\ dev.written = WrittenTo(hcmd, hcmd.nblk - m)
          /\ hrem = dev.blk_len - Packet(dev)
    BY <1>5, <1>12, <2>2 DEF Writing
  <2>4. /\ hphase \in {"dataOut", "status", "status2", "reset"}
        /\ hphase \in {"status", "status2"} => hrem = 0
        /\ hres = "none" /\ ~dev.halt_out
    BY <1>12, <2>2 DEF Writing
  <2>5. hcmd.op = "WRITE10"
    BY <2>1, <2>3 DEF At
  <2> DEFINE k == Min2(m, Slots)
             n == m - k
  <2>6. /\ k \in Nat /\ k <= m /\ m \in Nat /\ hcmd.nblk \in Nat
        /\ Packet(dev) = k * BlkSize /\ BlkSize \in Nat \ {0, 1}
        /\ n \in 0 .. hcmd.nblk /\ n \in Nat /\ (m = k <=> n = 0)
    BY <1>1, <2>3, PacketBlocks, CBWFields, Sizes DEF At
  <2>7. /\ hrem = n * BlkSize /\ n * BlkSize \in Nat
        /\ n = 0 => hrem = 0
        /\ hrem >= 1 => hrem >= 2
    <3>1. dev.blk_len = m * BlkSize /\ m = n + k
      BY <2>3, <2>6 DEF At
    <3> HIDE DEF k, n
    <3>2. m * BlkSize = n * BlkSize + k * BlkSize
      BY <2>6, <3>1
    <3>3. n * BlkSize \in Nat /\ k * BlkSize \in Nat
      BY <2>6, TimesLeq
    <3>4. hrem = n * BlkSize
      BY <2>3, <2>6, <3>1, <3>2, <3>3
    <3>5. 0 < n => 0 * BlkSize + BlkSize <= n * BlkSize
      BY <2>6, Times
    <3>6. n = 0 => n * BlkSize = 0
      BY <2>6
    <3> QED
      BY <2>6, <3>3, <3>4, <3>5, <3>6
  <2>8. hphase = "dataOut" => hrem >= 1
    BY <1>1 DEF Course, Armed
  <2>9. \/ Fails(e, dev)
        \/ /\ e.written = WrittenTo(hcmd, hcmd.nblk - n) /\ SameUnit(e, dev)
           /\ \/ m = k /\ e.state = "IDLE" /\ e.rx = "cbw"
                 /\ e.tx = StatusSent(e, "PASSED")
                 /\ e.csw.residue = 0 /\ e.csw.tag = hcmd.tag
              \/ m # k /\ Awaits(e, hcmd, n) /\ e.tx = dev.tx
    BY <1>1, <1>3, <1>12, <2>3, <2>5, DataOutMoves
  <2> HIDE DEF k, n
  <2>10. SizeKnown(e) /\ ~e.halt_out
    BY <1>1, <2>4, <2>9 DEF SizeKnown, SameUnit, Fails
  <2>11. Course(e, << >>, hphase, hcmd, hrem, hrecv, hres)
    <3>1. CASE Fails(e, dev)
      BY <1>1, <1>6, <1>7, <1>8, <2>7, <2>8, <2>10, <3>1, FailedCourse DEF Fails
    <3>2. CASE /\ e.written = WrittenTo(hcmd, hcmd.nblk - n)
               /\ m = k /\ e.state = "IDLE" /\ e.rx = "cbw"
               /\ e.tx = StatusSent(e, "PASSED") /\ e.csw.residue = 0
      <4>1. /\ e.tx.kind = "csw" /\ e.tx.csw.status = "PASSED"
            /\ e.tx.csw.residue = 0 /\ hrem = 0
        BY <2>6, <2>7, <3>2 DEF StatusSent
      <4>2. hphase \in {"dataIn", "status", "status2", "reset"}
        BY <2>4, <2>8, <4>1
      <4>3. e.written = WrittenTo(hcmd, hcmd.nblk)
        BY <2>6, <3>2
      <4>4. AllMoved(e, hcmd, hrecv)
        BY <2>5, <4>3 DEF AllMoved, BlockOps
      <4> QED
        BY <1>1, <1>6, <1>8, <2>10, <3>2, <4>1, <4>2, <4>4, PassedCourse
    <3>3. CASE /\ e.written = WrittenTo(hcmd, hcmd.nblk - n)
               /\ Awaits(e, hcmd, n) /\ e.tx = dev.tx
      <4>1. hrem = e.blk_len
        BY <2>7, <3>3 DEF Awaits, At
      <4> QED
        BY <1>1, <1>6, <1>8, <2>1, <2>4, <2>6, <2>8, <2>10, <3>3, <4>1,
           AwaitedCourse
    <3> QED
      BY <2>9, <3>1, <3>2, <3>3
  <2> QED
    BY <1>2, <2>1, <2>11, CourseForm DEF e
<1> QED
  BY <1>9, <1>10, <1>11, <1>12


-----------------------------------------------------------------------------
(* The invariant is inductive.                                             *)

LEMMA CourseInit == Init => OnCourse
<1> SUFFICES ASSUME Init PROVE OnCourse
  OBVIOUS
<1>1. /\ dev = MSC_BOT_Init(ColdDev) /\ irq = << >> /\ hphase = "idle"
      /\ hcmd = JunkCBW /\ hrecv = << >> /\ hres = "none"
  BY DEF Init
<1>2. dev \in DevType
  BY <1>1, ColdType, InitType
<1>3. /\ dev.state = "IDLE" /\ dev.rx = "cbw" /\ dev.tx = NoXfer
      /\ dev.blk_nbr = 0 /\ ~dev.halt_out
  <2>1. ColdDev.blk_nbr = 0 /\ ~ColdDev.halt_out
    BY DEF ColdDev
  <2> HIDE DEF ColdDev
  <2> QED
    BY <1>1, <2>1, ColdType, InitKeeps
<1>4. dev.tx.kind = "none"
  BY <1>2, <1>3, Kinds
<1>5. Sane(hcmd)
  BY <1>1, JunkType DEF Sane
<1>6. /\ Writing(dev, irq, hphase, hcmd, hrem, hres)
      /\ Reading(dev, irq, hphase, hcmd, hrem, hrecv)
      /\ Replying(dev, irq, hphase, hcmd, hrem)
  BY <1>2, <1>3, <1>4, StillCourse
<1>7. /\ Fresh(dev, irq, hphase, hcmd, hrem, hrecv, hres)
      /\ Passed(dev, hphase, hcmd, hrem, hrecv)
      /\ Armed(dev, irq, hphase, hcmd, hrem)
  BY <1>1, <1>3, <1>4, QueueKinds DEF Fresh, Passed, Armed
<1>8. Known(dev, hphase, hcmd, hrecv, hres)
  BY <1>1, <1>3, <1>5 DEF Known, Moving
<1> QED
  BY <1>6, <1>7, <1>8 DEF OnCourse, Course

LEMMA CourseNext ==
  ASSUME HostCommands
  PROVE  Inv /\ OnCourse /\ [Next]_vars => OnCourse'
<1> SUFFICES ASSUME Inv, OnCourse, [Next]_vars PROVE OnCourse'
  OBVIOUS
<1>1. CASE DevDataIn
  BY <1>1, DevDataInCourse
<1>2. CASE DevDataOut
  BY <1>2, DevDataOutCourse
<1>3. ASSUME NEW c \in Commands, HostSendCBW(c) PROVE OnCourse'
  BY <1>3, HostSendCBWCourse
<1>4. CASE HostStep
  BY <1>4, HostSendDataCourse, HostReceiveDataCourse, HostReceiveCSWCourse,
     HostReceiveInvalidCourse, HostClearHaltCourse, HostGivesUpCourse,
     HostResetRecoveryCourse DEF HostStep
<1>5. CASE HostTimeout \/ HostPortReset
  BY <1>5, HostGivesUpCourse, HostPortResetCourse
<1>6. CASE UNCHANGED vars
  BY <1>6, CourseForm DEF vars
<1> QED
  BY <1>1, <1>2, <1>3, <1>4, <1>5, <1>6 DEF Next


-----------------------------------------------------------------------------
(* Which endpoints are halted, when the port is not reset.                 *)

\* The IN completion halts nothing and writes nothing.
LEMMA DataInLeaves ==
  ASSUME Inv, OnCourse, DevDataIn
  PROVE  /\ dev'.halt_in = dev.halt_in /\ dev'.halt_out = dev.halt_out
         /\ dev'.written = dev.written
<1>1. /\ dev \in DevType /\ irq \in Irqs /\ hphase \in Phases
      /\ hcmd \in CBWType /\ Disciplined(dev, irq, hphase)
      /\ Reading(dev, irq, hphase, hcmd, hrem, hrecv)
  BY States0, CourseForm DEF Course
<1>2. InQ(irq)
  BY DEF DevDataIn, InPending, InQ
<1>3. PICK ok \in BOOLEAN : dev' = MSC_BOT_DataIn(dev, ok)
  BY DEF DevDataIn, StorageOutcomes
<1>4. CASE dev.state \notin InStates
  BY <1>3, <1>4 DEF MSC_BOT_DataIn, InStates
<1>5. CASE dev.state \in {"SEND_DATA", "LAST_DATA_IN"}
  <2>1. dev' = MSC_BOT_SendCSW(dev, "PASSED")
    BY <1>3, <1>5 DEF MSC_BOT_DataIn
  <2> QED
    BY <1>1, <2>1, SendCSWKeeps DEF SameUnit, SameTransfer
<1>6. CASE dev.state = "DATA_IN"
  <2>1. hphase \in Moving \cup {"reset"}
    BY <1>1, <1>6 DEF Disciplined, Moving, Phases
  <2>2. Taken(dev, hphase, hcmd, hrem, hrecv)
    BY <1>1, <1>2, <1>6, <2>1 DEF Reading
  <2>3. PICK m \in 0 .. hcmd.nblk : At(dev, hcmd, m)
    BY <2>2 DEF Taken
  <2>4. hcmd.op = "READ10"
    BY <2>2 DEF Taken
  <2>5. \/ Fails(dev', dev)
        \/ SameUnit(dev', dev) /\ dev'.written = dev.written
    BY <1>1, <1>3, <1>6, <2>3, <2>4, DataInMoves
  <2> QED
    BY <2>5 DEF Fails, SameUnit
<1> QED
  BY <1>4, <1>5, <1>6 DEF InStates

\* The OUT endpoint is only halted while the host sends data.
LEMMA DataOutHalts ==
  ASSUME Inv, OnCourse, DevDataOut
  PROVE  /\ hphase \in Moving \cup {"reset"}
         /\ dev'.halt_out => dev.halt_out \/ hphase \in {"dataOut", "reset"}
<1>1. /\ dev \in DevType /\ irq \in Irqs /\ hphase \in Phases
      /\ hcmd \in CBWType /\ Disciplined(dev, irq, hphase)
      /\ Sane(hcmd) /\ SizeKnown(dev)
      /\ Course(dev, irq, hphase, hcmd, hrem, hrecv, hres)
  BY States0, CourseForm DEF Course, Known, SizeKnown
<1>2. PICK ok \in BOOLEAN : dev' = MSC_BOT_DataOut(dev, ok)
  BY DEF DevDataOut, StorageOutcomes
<1>3. OutQ(irq) /\ dev.rx = "none"
  <2>1. irq \in {<<"out">>, <<"out", "in">>}
    BY <1>1, QueueFacts DEF DevDataOut
  <2>2. OutQ(irq)
    BY <2>1, QueueKinds
  <2> QED
    BY <1>1, <2>2 DEF Disciplined
<1>4. hphase \in Moving \cup {"reset"}
  BY <1>1, <1>3 DEF Course, Armed, Moving, Phases
<1>5. dev'.halt_out => dev.halt_out \/ hphase \in {"dataOut", "reset"}
  <2>1. CASE dev.state \notin {"IDLE", "DATA_OUT"}
    BY <1>2, <2>1 DEF MSC_BOT_DataOut
  <2>2. CASE dev.state = "IDLE"
    <3>1. dev' = MSC_BOT_CBW_Decode(dev, ok)
      BY <1>2, <2>2 DEF MSC_BOT_DataOut
    <3>2. CASE dev.cbw.ok
      <4>1. dev.cbw = hcmd /\ hphase \in {DataPhase(hcmd), "reset"}
        BY <1>1, <1>3, <2>2, <3>2 DEF Course, Fresh
      <4>2. dev'.halt_out => dev.halt_out \/ DataPhase(hcmd) = "dataOut"
        BY <1>1, <2>2, <3>1, <3>2, <4>1, DecodeMoves
           DEF Refused, Concluded, Informs, StartsRead, StartsWrite
      <4> QED
        BY <4>1, <4>2
    <3>3. CASE ~dev.cbw.ok
      BY <1>1, <3>1, <3>3, DecodeBadMoves
    <3> QED
      BY <3>2, <3>3
  <2>3. CASE dev.state = "DATA_OUT"
    <3>1. PICK m \in 0 .. hcmd.nblk :
            /\ At(dev, hcmd, m) /\ Holds(dev, hcmd, m)
            /\ dev.written = WrittenTo(hcmd, hcmd.nblk - m)
      BY <1>1, <1>3, <2>3 DEF Course, Writing
    <3>2. hcmd.op = "WRITE10"
      BY <1>1, <2>3, <3>1 DEF Disciplined, At
    <3>3. Fails(dev', dev) \/ SameUnit(dev', dev)
      BY <1>1, <1>2, <2>3, <3>1, <3>2, DataOutMoves
    <3> QED
      BY <3>3 DEF Fails, SameUnit
  <2> QED
    BY <2>1, <2>2, <2>3
<1> QED
  BY <1>4, <1>5

LEMMA UnhaltedInit == Init => Unhalted(dev, hphase)
<1> SUFFICES ASSUME Init PROVE Unhalted(dev, hphase)
  OBVIOUS
<1>1. ~ColdDev.halt_in /\ ~ColdDev.halt_out
  BY DEF ColdDev
<1>2. dev = MSC_BOT_Init(ColdDev)
  BY DEF Init
<1> HIDE DEF ColdDev
<1>3. ~dev.halt_in /\ ~dev.halt_out
  BY <1>1, <1>2, ColdType, InitKeeps
<1> QED
  BY <1>3 DEF Unhalted, Init

LEMMA UnhaltedNext ==
  ASSUME PortResets = FALSE, Inv, OnCourse, Unhalted(dev, hphase), [Next]_vars
  PROVE  Unhalted(dev', hphase')
<1>1. dev \in DevType /\ hphase \in Phases /\ Disciplined(dev, irq, hphase)
  BY States0
<1>2. CASE DevDataIn
  BY <1>2, DataInLeaves DEF Unhalted, DevDataIn, host
<1>3. CASE DevDataOut
  BY <1>3, DataOutHalts DEF Unhalted, DevDataOut, host, Moving
<1>4. ASSUME NEW c \in Commands, HostSendCBW(c)
      PROVE  Unhalted(dev', hphase')
  <2> DEFINE k == hcmd'
  <2>1. /\ hphase = "idle" /\ hphase' = DataPhase(c)
        /\ dev' = [dev EXCEPT !.cbw = k, !.rx = "none", !.written = {}]
    BY <1>4 DEF HostSendCBW
  <2> HIDE DEF k
  <2>2. dev'.halt_in = dev.halt_in /\ dev'.halt_out = dev.halt_out
    BY <1>1, <2>1 DEF DevType
  <2> QED
    BY <2>1, <2>2 DEF Unhalted, DataPhase
<1>5. CASE HostSendData
  <2>1. dev'.halt_out = dev.halt_out /\ ~dev.halt_out
    <3>1. CASE dev.rx = "data"
      BY <1>1, <1>5, <3>1 DEF HostSendData, DevType
    <3>2. CASE dev.rx # "data"
      BY <1>1, <1>5, <3>2, OverCBWKeeps DEF HostSendData
    <3> QED
      BY <3>1, <3>2
  <2>2. hphase' \in {"status", "dataOut"}
    BY <1>5 DEF HostSendData
  <2> QED
    BY <2>1, <2>2 DEF Unhalted
<1>6. CASE HostReceiveData \/ HostReceiveCSW \/ HostReceiveInvalid
  <2>1. /\ dev' = [dev EXCEPT !.tx = NoXfer] /\ ~dev.halt_in
        /\ hphase \in {"dataIn", "status", "status2"}
        /\ hphase' \in {"dataIn", "status", "idle", "reset"}
    BY <1>6 DEF HostReceiveData, HostReceiveCSW, HostReceiveInvalid, HostTakes
  <2>2. dev'.halt_in = dev.halt_in /\ dev'.halt_out = dev.halt_out
    BY <1>1, <2>1 DEF DevType
  <2> QED
    BY <2>1, <2>2 DEF Unhalted
<1>7. CASE HostClearHalt
  <2>1. \/ hphase = "dataOut" /\ dev' = ClearFeature(dev, "out")
        \/ hphase \in {"dataIn", "status"} /\ dev' = ClearFeature(dev, "in")
    BY <1>7 DEF HostClearHalt, Setup
  <2>2. hphase' \in {"status", "status2"}
    BY <1>7 DEF HostClearHalt
  <2>3. ~dev'.halt_out
    <3>1. CASE hphase = "dataOut" /\ dev' = ClearFeature(dev, "out")
      BY <1>1, <3>1, ClearFeatureKeeps
    <3>2. CASE /\ hphase \in {"dataIn", "status"}
               /\ dev' = ClearFeature(dev, "in")
      <4>1. dev'.halt_out = dev.halt_out
        BY <1>1, <3>2, ClearFeatureKeeps
      <4> QED
        BY <3>2, <4>1 DEF Unhalted
    <3> QED
      BY <2>1, <3>1, <3>2
  <2> QED
    BY <2>2, <2>3 DEF Unhalted
<1>8. CASE HostStalledAgain \/ HostTimeout
  <2>1. hphase' = "reset" /\ dev' = dev
    BY <1>8 DEF HostStalledAgain, HostTimeout
  <2> QED
    BY <2>1 DEF Unhalted
<1>9. CASE HostResetRecovery
  <2>1. CASE hphase = "reset"
    <3>1. hphase' = "clear_in"
      BY <1>9, <2>1 DEF HostResetRecovery
    <3> QED
      BY <3>1 DEF Unhalted
  <2>2. CASE hphase = "clear_in"
    <3>1. hphase' = "clear_out" /\ dev' = ClearFeature(dev, "in")
      BY <1>9, <2>2 DEF HostResetRecovery, Setup
    <3>2. dev.status = "RECOVERY"
      BY <1>1, <2>2 DEF Disciplined
    <3>3. ~dev'.halt_in
      BY <1>1, <3>1, <3>2, ClearFeatureKeeps
    <3> QED
      BY <3>1, <3>3 DEF Unhalted
  <2>3. CASE hphase = "clear_out"
    <3>1. hphase' = "idle" /\ dev' = ClearFeature(dev, "out")
      BY <1>9, <2>3 DEF HostResetRecovery, Setup
    <3>2. dev.status = "RECOVERY" /\ ~dev.halt_in
      BY <1>1, <2>3 DEF Disciplined, Unhalted
    <3>3. ~dev'.halt_in /\ ~dev'.halt_out
      BY <1>1, <3>1, <3>2, ClearFeatureKeeps
    <3> QED
      BY <3>1, <3>3 DEF Unhalted
  <2> QED
    BY <1>9, <2>1, <2>2, <2>3 DEF HostResetRecovery
<1>10. CASE UNCHANGED vars
  BY <1>10 DEF vars
<1> QED
  BY <1>2, <1>3, <1>4, <1>5, <1>6, <1>7, <1>8, <1>9, <1>10
     DEF Next, HostStep, HostPortReset


-----------------------------------------------------------------------------
(* What the steps are to the abstract service.                             *)

\* The refinement mapping.
Open == hphase # "idle" /\ hres = "none"
DeliveredOf(c, r, w) ==
  IF c.op = "READ10"
  THEN {<<c.lun, c.lba + i - 1, r[i]>> : i \in DOMAIN r} ELSE w
Delivered == DeliveredOf(hcmd, hrecv, dev.written)

\* The actions of BlockService in these terms.
LEMMA ServiceForm ==
  /\ Service!Begin <=> /\ ~Open /\ Open' /\ hcmd' \in CBWType
                       /\ Delivered' = {} /\ hres' = "none"
  /\ Service!Move <=>
       /\ Open
       /\ \E n \in 1 .. Service!Length(hcmd) :
            /\ hcmd.lba + n <= Capacity[hcmd.lun]
            /\ Delivered \subseteq Service!Prefix(hcmd, n)
            /\ Delivered' = Service!Prefix(hcmd, n)
       /\ Open' = Open /\ hcmd' = hcmd /\ hres' = hres
  /\ Service!Finish <=>
       /\ Open /\ ~Open' /\ hres' \in {"PASSED", "FAILED", "RESET"}
       /\ hres' = "PASSED" =>
            Delivered = Service!Prefix(hcmd, Service!Length(hcmd))
       /\ hcmd' = hcmd /\ Delivered' = Delivered
  /\ Service!Reset <=> /\ ~Open /\ hres' = "RESET" /\ Open' = Open
                       /\ hcmd' = hcmd /\ Delivered' = Delivered
  /\ UNCHANGED Service!svars <=>
       Open' = Open /\ hcmd' = hcmd /\ Delivered' = Delivered /\ hres' = hres
BY DEF Service!Begin, Service!Move, Service!Finish, Service!Reset,
       Service!svars, Open, Delivered, DeliveredOf, Received

\* What has reached a medium, and what the host has received, as the service
\* names it.
LEMMA WrittenPrefix ==
  ASSUME NEW c \in CBWType, NEW n, c.op # "READ10"
  PROVE  WrittenTo(c, n) = Service!Prefix(c, n)
BY DEF WrittenTo, Service!Prefix, Service!Content, Block

LEMMA ReceivedPrefix ==
  ASSUME NEW c \in CBWType, NEW n \in Nat, c.op = "READ10", NEW r,
         r = ReadTo(c, n)
  PROVE  {<<c.lun, c.lba + i - 1, r[i]>> : i \in DOMAIN r}
           = Service!Prefix(c, n)
<1> DEFINE S == {<<c.lun, c.lba + i - 1, r[i]>> : i \in DOMAIN r}
           T == {<<c.lun, c.lba + i, Service!Content(c, i)>> : i \in 0 .. n - 1}
<1>1. c.lba \in Nat
  BY CBWFields
<1>2. DOMAIN r = 1 .. n /\ \A i \in 1 .. n : r[i] = Block(c.lba + i - 1)
  BY DEF ReadTo
<1>3. \A i : Service!Content(c, i) = Block(c.lba + i)
  BY DEF Service!Content, Block
<1> HIDE DEF Block
<1>4. ASSUME NEW i \in 1 .. n
      PROVE  <<c.lun, c.lba + i - 1, r[i]>> \in T
  <2>1. i - 1 \in 0 .. n - 1 /\ c.lba + (i - 1) = c.lba + i - 1
    BY <1>1
  <2>2. r[i] = Service!Content(c, i - 1)
    BY <1>2, <1>3, <2>1
  <2> QED
    BY <2>1, <2>2
<1>5. ASSUME NEW i \in 0 .. n - 1
      PROVE  <<c.lun, c.lba + i, Service!Content(c, i)>> \in S
  <2>1. i + 1 \in 1 .. n /\ c.lba + (i + 1) - 1 = c.lba + i
    BY <1>1
  <2>2. r[i + 1] = Service!Content(c, i)
    BY <1>2, <1>3, <2>1
  <2> QED
    BY <1>2, <2>1, <2>2
<1>6. S = T
  <2>1. S \subseteq T
    BY <1>2, <1>4
  <2>2. T \subseteq S
    BY <1>5
  <2> QED
    BY <2>1, <2>2
<1> QED
  BY <1>6 DEF Service!Prefix

LEMMA PrefixGrows ==
  ASSUME NEW c \in CBWType, NEW a \in Int, NEW n \in Int, a <= n
  PROVE  Service!Prefix(c, a) \subseteq Service!Prefix(c, n)
<1>1. 0 .. a - 1 \subseteq 0 .. n - 1
  OBVIOUS
<1> QED
  BY <1>1 DEF Service!Prefix

LEMMA PrefixNone ==
  ASSUME NEW c PROVE Service!Prefix(c, 0) = {}
<1>1. \A i \in 0 .. 0 - 1 : FALSE
  OBVIOUS
<1> QED
  BY <1>1 DEF Service!Prefix

\* The OUT completion writes the next blocks of a WRITE10, or nothing.
LEMMA DataOutWrites ==
  ASSUME Inv, OnCourse, DevDataOut
  PROVE  \/ dev'.written = dev.written
         \/ /\ hcmd.op = "WRITE10" /\ Open
            /\ \E a \in 0 .. hcmd.nblk : \E n \in a + 1 .. hcmd.nblk :
                 /\ dev.written = WrittenTo(hcmd, a)
                 /\ dev'.written = WrittenTo(hcmd, n)
                 /\ hcmd.lba + n <= Capacity[hcmd.lun]
<1>1. /\ dev \in DevType /\ irq \in Irqs /\ hcmd \in CBWType
      /\ Disciplined(dev, irq, hphase) /\ Sane(hcmd) /\ SizeKnown(dev)
      /\ Course(dev, irq, hphase, hcmd, hrem, hrecv, hres)
  BY States0, CourseForm DEF Course, Known, SizeKnown
<1>2. PICK ok \in BOOLEAN : dev' = MSC_BOT_DataOut(dev, ok)
  BY DEF DevDataOut, StorageOutcomes
<1>3. OutQ(irq) /\ dev.rx = "none"
  <2>1. irq \in {<<"out">>, <<"out", "in">>}
    BY <1>1, QueueFacts DEF DevDataOut
  <2>2. OutQ(irq)
    BY <2>1, QueueKinds
  <2> QED
    BY <1>1, <2>2 DEF Disciplined
<1>4. CASE dev.state \notin {"IDLE", "DATA_OUT"}
  BY <1>2, <1>4 DEF MSC_BOT_DataOut
<1>5. CASE dev.state = "IDLE"
  <2>1. dev' = MSC_BOT_CBW_Decode(dev, ok)
    BY <1>2, <1>5 DEF MSC_BOT_DataOut
  <2>2. CASE dev.cbw.ok
    <3>1. dev.cbw = hcmd
      BY <1>1, <1>3, <1>5, <2>2 DEF Course, Fresh
    <3> QED
      BY <1>1, <1>5, <2>1, <2>2, <3>1, DecodeMoves
  <2>3. CASE ~dev.cbw.ok
    BY <1>1, <2>1, <2>3, DecodeBadMoves
  <2> QED
    BY <2>2, <2>3
<1>6. CASE dev.state = "DATA_OUT"
  <2>1. PICK m \in 0 .. hcmd.nblk :
          /\ At(dev, hcmd, m) /\ Holds(dev, hcmd, m)
          /\ dev.written = WrittenTo(hcmd, hcmd.nblk - m)
    BY <1>1, <1>3, <1>6 DEF Course, Writing
  <2>2. hcmd.op = "WRITE10"
    BY <1>1, <1>6, <2>1 DEF Disciplined, At
  <2>3. Open
    BY <1>1, <1>6 DEF Course, Writing, Open
  <2> DEFINE k == Min2(m, Slots)
             n == hcmd.nblk - (m - k)
             a == hcmd.nblk - m
  <2>4. k \in Nat /\ k <= m /\ m \in Nat /\ hcmd.nblk \in Nat /\ hcmd.lba \in Nat
    BY <1>1, <2>1, PacketBlocks, CBWFields DEF At
  <2>5. \/ Fails(dev', dev)
        \/ /\ k # 0 => hcmd.lba + hcmd.nblk - (m - k) <= Capacity[hcmd.lun]
           /\ dev'.written = WrittenTo(hcmd, hcmd.nblk - (m - k))
    BY <1>1, <1>2, <1>6, <2>1, <2>2, DataOutMoves
  <2> HIDE DEF k
  <2>6. CASE Fails(dev', dev)
    BY <2>6 DEF Fails
  <2>7. CASE /\ k # 0 => hcmd.lba + hcmd.nblk - (m - k) <= Capacity[hcmd.lun]
             /\ dev'.written = WrittenTo(hcmd, hcmd.nblk - (m - k))
    <3>1. CASE k = 0
      <4>1. hcmd.nblk - (m - k) = hcmd.nblk - m
        BY <2>4, <3>1
      <4> QED
        BY <2>1, <2>7, <4>1
    <3>2. CASE k # 0
      <4>1. /\ a \in 0 .. hcmd.nblk /\ n \in a + 1 .. hcmd.nblk
            /\ hcmd.lba + n = hcmd.lba + hcmd.nblk - (m - k)
        BY <2>4, <3>2
      <4>2. /\ dev.written = WrittenTo(hcmd, a)
            /\ dev'.written = WrittenTo(hcmd, n)
        BY <2>1, <2>7
      <4>3. hcmd.lba + n <= Capacity[hcmd.lun]
        BY <2>7, <3>2, <4>1
      <4> HIDE DEF a, n
      <4> QED
        BY <2>2, <2>3, <4>1, <4>2, <4>3
    <3> QED
      BY <3>1, <3>2
  <2> QED
    BY <2>5, <2>6, <2>7
<1> QED
  BY <1>4, <1>5, <1>6


\* A packet the host takes in the data phase brings the next blocks of a
\* READ10, or no block.
LEMMA ReceiveBrings ==
  ASSUME Inv, OnCourse, HostReceiveData
  PROVE  \/ hrecv' = hrecv
         \/ /\ hcmd.op = "READ10"
            /\ \E a \in 0 .. hcmd.nblk : \E n \in a + 1 .. hcmd.nblk :
                 /\ hrecv = ReadTo(hcmd, a) /\ hrecv' = ReadTo(hcmd, n)
                 /\ hcmd.lba + n <= Capacity[hcmd.lun]
<1>1. /\ dev \in DevType /\ hcmd \in CBWType /\ hrecv \in Seq(Slot)
      /\ Course(dev, irq, hphase, hcmd, hrem, hrecv, hres)
  BY States0, CourseForm
<1>2. /\ hphase = "dataIn"
      /\ hrecv' = hrecv \o (IF dev.tx.kind = "blocks" THEN dev.tx.blks ELSE << >>)
  BY DEF HostReceiveData
<1>3. CASE dev.tx.kind # "blocks"
  <2>1. hrecv' = hrecv \o << >>
    BY <1>2, <1>3
  <2> QED
    BY <1>1, <2>1
<1>4. CASE dev.tx.kind = "blocks"
  <2>1. dev.tx # NoXfer
    BY <1>1, <1>4, Kinds
  <2>2. Offered(dev, hphase, hcmd, hrem, hrecv)
    BY <1>1, <1>2, <1>4, <2>1 DEF Course, Reading, Moving
  <2>3. hcmd.op = "READ10"
    BY <2>2 DEF Offered
  <2>4. PICK m \in 0 .. hcmd.nblk : \E n \in 0 .. hcmd.nblk - m :
          InFlight(dev, hcmd, m, n) /\ hrecv = ReadTo(hcmd, hcmd.nblk - m - n)
    BY <1>2, <2>2 DEF Offered
  <2>5. PICK n \in 0 .. hcmd.nblk - m :
          InFlight(dev, hcmd, m, n) /\ hrecv = ReadTo(hcmd, hcmd.nblk - m - n)
    BY <2>4
  <2> DEFINE a == hcmd.nblk - m - n
             g == [i \in 1 .. n |-> Block(hcmd.lba + a + i - 1)]
  <2>6. /\ hcmd.nblk \in Nat /\ hcmd.lba \in Nat /\ m \in Nat /\ n \in Nat
        /\ a \in Nat /\ a + n = hcmd.nblk - m
    BY <1>1, CBWFields
  <2>7. dev.tx.blks = g /\ hrecv = ReadTo(hcmd, a)
    BY <2>5 DEF InFlight, BlocksSent
  <2>8. n # 0 => hcmd.lba + hcmd.nblk - m <= Capacity[hcmd.lun]
    BY <2>5 DEF InFlight
  <2>9. /\ a \in 0 .. hcmd.nblk /\ a + n <= hcmd.nblk
        /\ hcmd.lba + (a + n) = hcmd.lba + hcmd.nblk - m
    BY <2>6
  <2> HIDE DEF a
  <2>10. ReadTo(hcmd, a) \o g = ReadTo(hcmd, a + n)
    BY <1>1, <2>6, ReadGrows
  <2> HIDE DEF g
  <2>11. hrecv' = ReadTo(hcmd, a + n)
    BY <1>2, <1>4, <2>7, <2>10
  <2>12. CASE n = 0
    <3>1. a + n = a
      BY <2>6, <2>12
    <3> QED
      BY <2>7, <2>11, <3>1
  <2>13. CASE n # 0
    <3>1. a + n \in a + 1 .. hcmd.nblk /\ hcmd.lba + (a + n) <= Capacity[hcmd.lun]
      BY <2>6, <2>8, <2>9, <2>13
    <3> QED
      BY <2>3, <2>7, <2>9, <2>11, <3>1
  <2> QED
    BY <2>12, <2>13
<1> QED
  BY <1>3, <1>4

\* What has moved for a command, of which a prefix or all has.
LEMMA DeliveredForms ==
  ASSUME NEW c \in CBWType, NEW r, NEW w
  PROVE  /\ c.op = "READ10" => \A n \in Nat :
              r = ReadTo(c, n) => DeliveredOf(c, r, w) = Service!Prefix(c, n)
         /\ c.op # "READ10" => \A n :
              w = WrittenTo(c, n) => DeliveredOf(c, r, w) = Service!Prefix(c, n)
         /\ r = << >> /\ w = {} => DeliveredOf(c, r, w) = {}
         /\ \A d : d.written = w /\ AllMoved(d, c, r) =>
              DeliveredOf(c, r, w) = Service!Prefix(c, Service!Length(c))
<1>1. c.op = "READ10" => \A n \in Nat :
        r = ReadTo(c, n) => DeliveredOf(c, r, w) = Service!Prefix(c, n)
  BY ReceivedPrefix DEF DeliveredOf
<1>2. c.op # "READ10" => \A n :
        w = WrittenTo(c, n) => DeliveredOf(c, r, w) = Service!Prefix(c, n)
  BY WrittenPrefix DEF DeliveredOf
<1>3. r = << >> /\ w = {} => DeliveredOf(c, r, w) = {}
  BY DEF DeliveredOf
<1>4. ASSUME NEW d, d.written = w, AllMoved(d, c, r)
      PROVE  DeliveredOf(c, r, w) = Service!Prefix(c, Service!Length(c))
  <2>1. CASE c.op = "READ10"
    <3>1. Service!Length(c) = c.nblk /\ c.nblk \in Nat
      BY <2>1, CBWFields DEF Service!Length
    <3> QED
      BY <1>1, <1>4, <2>1, <3>1 DEF AllMoved
  <2>2. CASE c.op = "WRITE10"
    <3>1. Service!Length(c) = c.nblk
      BY <2>2 DEF Service!Length
    <3> QED
      BY <1>2, <1>4, <2>2, <3>1 DEF AllMoved
  <2>3. CASE c.op \notin BlockOps
    <3>1. Service!Length(c) = 0 /\ w = {} /\ c.op # "READ10"
      BY <1>4, <2>3 DEF Service!Length, AllMoved, BlockOps
    <3> QED
      BY <3>1, PrefixNone DEF DeliveredOf
  <2> QED
    BY <2>1, <2>2, <2>3 DEF BlockOps
<1> QED
  BY <1>1, <1>2, <1>3, <1>4


LEMMA DeliveredForm ==
  /\ Delivered = DeliveredOf(hcmd, hrecv, dev.written)
  /\ Delivered' = DeliveredOf(hcmd', hrecv', dev'.written)
BY DEF Delivered

\* A step that moves nothing and neither opens nor closes a command.
LEMMA Stutters ==
  ASSUME Open' = Open, UNCHANGED <<hcmd, hrecv, hres>>,
         dev'.written = dev.written
  PROVE  UNCHANGED Service!svars
BY ServiceForm, DeliveredForm

\* Blocks move: from the first a of the command to the first n.
LEMMA MovesOn ==
  ASSUME Inv, Open, Open', UNCHANGED <<hcmd, hres>>,
         NEW a \in 0 .. hcmd.nblk, NEW n \in a + 1 .. hcmd.nblk,
         hcmd.op \in BlockOps, hcmd.lba + n <= Capacity[hcmd.lun],
         Delivered = Service!Prefix(hcmd, a),
         Delivered' = Service!Prefix(hcmd, n)
  PROVE  Service!Move
<1>1. hcmd \in CBWType
  BY States0
<1>2. hcmd.nblk \in Nat /\ Service!Length(hcmd) = hcmd.nblk
  BY <1>1, CBWFields DEF Service!Length, BlockOps
<1>3. n \in 1 .. hcmd.nblk /\ a \in Int /\ n \in Int /\ a <= n
  BY <1>2
<1>4. Delivered \subseteq Service!Prefix(hcmd, n)
  BY <1>1, <1>3, PrefixGrows
<1> QED
  BY <1>2, <1>3, <1>4, ServiceForm

\* The end of a reset closes the command, if one is open.
LEMMA ResetCloses ==
  ASSUME hphase' = "idle", hres' = "RESET", UNCHANGED <<hcmd, hrecv>>,
         dev'.written = dev.written
  PROVE  Service!Finish \/ Service!Reset
<1>1. ~Open' /\ Delivered' = Delivered
  BY DeliveredForm DEF Open
<1>2. Open \in BOOLEAN /\ Open' \in BOOLEAN /\ hcmd' = hcmd
  BY DEF Open
<1> QED
  BY <1>1, <1>2, ServiceForm

\* Every step of the system is one of the service, or none.
LEMMA ServiceStep ==
  ASSUME HostCommands, Inv, OnCourse, [Next]_vars
  PROVE  [Service!ServiceNext]_(Service!svars)
<1> DEFINE Step == [Service!ServiceNext]_(Service!svars)
<1>0. Service!Begin \/ Service!Move \/ Service!Finish \/ Service!Reset
        \/ UNCHANGED Service!svars => Step
  BY DEF Service!ServiceNext
<1> SUFFICES Step
  OBVIOUS
<1> HIDE DEF Step
<1>1. /\ dev \in DevType /\ hcmd \in CBWType /\ hphase \in Phases
      /\ Disciplined(dev, irq, hphase)
      /\ Course(dev, irq, hphase, hcmd, hrem, hrecv, hres)
  BY States0, CourseForm
<1>2. hphase \in Moving => Open
  BY <1>1 DEF Course, Known, Open, Moving
<1>3. CASE DevDataIn
  <2>1. UNCHANGED <<hphase, hcmd, hrecv, hres>>
    BY <1>3 DEF DevDataIn, host
  <2> QED
    BY <1>0, <1>3, <2>1, DataInLeaves, Stutters DEF Open
<1>4. CASE DevDataOut
  <2>1. UNCHANGED <<hphase, hcmd, hrecv, hres>> /\ Open' = Open
    BY <1>4 DEF DevDataOut, host, Open
  <2>2. CASE dev'.written = dev.written
    BY <1>0, <2>1, <2>2, Stutters
  <2>3. ASSUME hcmd.op = "WRITE10", Open,
               NEW a \in 0 .. hcmd.nblk, NEW n \in a + 1 .. hcmd.nblk,
               dev.written = WrittenTo(hcmd, a),
               dev'.written = WrittenTo(hcmd, n),
               hcmd.lba + n <= Capacity[hcmd.lun]
        PROVE  Step
    <3>1. hcmd.op \in BlockOps /\ hcmd.op # "READ10" /\ hcmd' = hcmd
      BY <2>1, <2>3 DEF BlockOps
    <3>2. Delivered = Service!Prefix(hcmd, a)
      BY <1>1, <2>3, <3>1, DeliveredForm, DeliveredForms
    <3>3. Delivered' = Service!Prefix(hcmd, n)
      BY <1>1, <2>3, <3>1, DeliveredForm, DeliveredForms
    <3> QED
      BY <1>0, <2>1, <2>3, <3>1, <3>2, <3>3, MovesOn
  <2> QED
    BY <1>4, <2>2, <2>3, DataOutWrites
<1>5. ASSUME NEW c \in Commands, HostSendCBW(c) PROVE Step
  <2> DEFINE k == hcmd'
  <2>1. /\ hphase = "idle" /\ hphase' = DataPhase(c)
        /\ dev' = [dev EXCEPT !.cbw = k, !.rx = "none", !.written = {}]
        /\ hrecv' = << >> /\ hres' = "none"
    BY <1>5 DEF HostSendCBW
  <2>2. k \in CBWType
    BY <1>5, HostSendCBWInv, InvForm DEF Inv, TypeOK
  <2> HIDE DEF k
  <2>3. dev'.written = {}
    BY <1>1, <2>1 DEF DevType
  <2>4. ~Open /\ Open'
    BY <2>1 DEF Open, DataPhase
  <2>5. Delivered' = {}
    BY <2>1, <2>2, <2>3, DeliveredForm, DeliveredForms DEF k
  <2> QED
    BY <1>0, <2>1, <2>2, <2>4, <2>5, ServiceForm DEF k
<1>6. CASE HostSendData
  <2>1. /\ hphase = "dataOut" /\ hphase' \in {"status", "dataOut"}
        /\ UNCHANGED <<hcmd, hrecv, hres>>
    BY <1>6 DEF HostSendData
  <2>2. dev'.written = dev.written
    <3>1. CASE dev.rx = "data"
      BY <1>1, <1>6, <3>1 DEF HostSendData, DevType
    <3>2. CASE dev.rx # "data"
      BY <1>1, <1>6, <3>2, OverCBWKeeps DEF HostSendData
    <3> QED
      BY <3>1, <3>2
  <2> QED
    BY <1>0, <2>1, <2>2, Stutters DEF Open
<1>7. CASE HostReceiveData
  <2>1. /\ hphase = "dataIn" /\ hphase' \in {"status", "dataIn"}
        /\ UNCHANGED <<hcmd, hres>> /\ dev' = [dev EXCEPT !.tx = NoXfer]
    BY <1>7 DEF HostReceiveData, HostTakes
  <2>2. dev'.written = dev.written /\ Open' = Open /\ Open
    BY <1>1, <1>2, <2>1 DEF DevType, Open, Moving
  <2>3. CASE hrecv' = hrecv
    BY <1>0, <2>1, <2>2, <2>3, Stutters
  <2>4. ASSUME hcmd.op = "READ10",
               NEW a \in 0 .. hcmd.nblk, NEW n \in a + 1 .. hcmd.nblk,
               hrecv = ReadTo(hcmd, a), hrecv' = ReadTo(hcmd, n),
               hcmd.lba + n <= Capacity[hcmd.lun]
        PROVE  Step
    <3>1. hcmd.op \in BlockOps /\ hcmd' = hcmd /\ a \in Nat /\ n \in Nat
      BY <2>1, <2>4 DEF BlockOps
    <3>2. Delivered = Service!Prefix(hcmd, a)
      BY <1>1, <2>4, <3>1, DeliveredForm, DeliveredForms
    <3>3. Delivered' = Service!Prefix(hcmd, n)
      BY <1>1, <2>4, <3>1, DeliveredForm, DeliveredForms
    <3> QED
      BY <1>0, <2>1, <2>2, <2>4, <3>1, <3>2, <3>3, MovesOn
  <2> QED
    BY <1>7, <2>3, <2>4, ReceiveBrings
<1>8. CASE HostReceiveCSW
  <2>1. /\ hphase \in {"status", "status2"} /\ hphase' = "idle"
        /\ dev.tx.kind = "csw" /\ dev.tx.csw.tag = hcmd.tag
        /\ hres' = dev.tx.csw.status /\ UNCHANGED <<hcmd, hrecv>>
        /\ dev' = [dev EXCEPT !.tx = NoXfer]
    BY <1>8 DEF HostReceiveCSW, HostTakes
  <2>2. dev'.written = dev.written
    BY <1>1, <2>1 DEF DevType
  <2>3. Open /\ ~Open' /\ Delivered' = Delivered
    BY <1>2, <2>1, <2>2, DeliveredForm DEF Open, Moving
  <2>4. /\ hres' \in {"PASSED", "FAILED"}
        /\ hres' = "PASSED" => AllMoved(dev, hcmd, hrecv)
    BY <1>1, <2>1 DEF Course, Passed, Moving
  <2>5. hres' = "PASSED" =>
          Delivered = Service!Prefix(hcmd, Service!Length(hcmd))
    BY <1>1, <2>4, DeliveredForm, DeliveredForms
  <2> QED
    BY <1>0, <2>1, <2>3, <2>4, <2>5, ServiceForm
<1>9. CASE HostReceiveInvalid \/ HostStalledAgain \/ HostTimeout
  <2>1. /\ hphase' = "reset" /\ UNCHANGED <<hcmd, hrecv, hres>>
        /\ \/ hphase \in Moving
           \/ hphase = "idle" /\ dev.halt_out
        /\ dev' \in {dev, [dev EXCEPT !.tx = NoXfer]}
    BY <1>9 DEF HostReceiveInvalid, HostStalledAgain, HostTimeout, HostTakes,
                Moving
  <2>2. dev'.written = dev.written
    BY <1>1, <2>1 DEF DevType
  <2>3. Open' = Open
    <3>1. hphase = "idle" /\ dev.halt_out => hres # "none"
      BY <1>1 DEF Course, Known
    <3> QED
      BY <1>2, <2>1, <3>1 DEF Open
  <2> QED
    BY <1>0, <2>1, <2>2, <2>3, Stutters
<1>10. CASE HostClearHalt
  <2>1. /\ hphase \in Moving /\ hphase' \in {"status", "status2"}
        /\ UNCHANGED <<hcmd, hrecv, hres>>
        /\ dev' \in {ClearFeature(dev, "in"), ClearFeature(dev, "out")}
    BY <1>10 DEF HostClearHalt, Setup, Moving
  <2>2. dev'.written = dev.written
    BY <1>1, <2>1, ClearFeatureKeeps
  <2> QED
    BY <1>0, <2>1, <2>2, Stutters DEF Open, Moving
<1>11. CASE HostResetRecovery
  <2>1. /\ UNCHANGED <<hcmd, hrecv>>
        /\ dev' \in {MSC_BOT_Reset(dev), ClearFeature(dev, "in"),
                     ClearFeature(dev, "out")}
    BY <1>11 DEF HostResetRecovery, Setup
  <2>2. dev'.written = dev.written
    <3>1. MSC_BOT_Reset(dev).written = dev.written
      BY <1>1, ResetKeeps
    <3>2. /\ ClearFeature(dev, "in").written = dev.written
          /\ ClearFeature(dev, "out").written = dev.written
      BY <1>1, ClearFeatureKeeps
    <3> QED
      BY <2>1, <3>1, <3>2
  <2>3. \/ hphase' = "idle" /\ hres' = "RESET"
        \/ hphase # "idle" /\ hphase' # "idle" /\ hres' = hres
    BY <1>11 DEF HostResetRecovery
  <2>4. CASE hphase' = "idle" /\ hres' = "RESET"
    BY <1>0, <2>1, <2>2, <2>4, ResetCloses
  <2>5. CASE hphase # "idle" /\ hphase' # "idle" /\ hres' = hres
    BY <1>0, <2>1, <2>2, <2>5, Stutters DEF Open
  <2> QED
    BY <2>3, <2>4, <2>5
<1>12. CASE HostPortReset
  <2> DEFINE d == [dev EXCEPT !.state = "IDLE"]
  <2>1. d \in DevType /\ d.written = dev.written
    BY <1>1 DEF DevType, States
  <2>2. dev' = MSC_BOT_Init(d) /\ hphase' = "idle" /\ hres' = "RESET"
        /\ UNCHANGED <<hcmd, hrecv>>
    BY <1>12 DEF HostPortReset
  <2> HIDE DEF d
  <2>3. dev'.written = dev.written
    BY <2>1, <2>2, InitKeeps
  <2> QED
    BY <1>0, <2>2, <2>3, ResetCloses
<1>13. CASE UNCHANGED vars
  <2>1. UNCHANGED <<dev, hphase, hcmd, hrecv, hres>>
    BY <1>13 DEF vars
  <2> QED
    BY <1>0, <2>1, Stutters DEF Open
<1> QED
  BY <1>3, <1>4, <1>5, <1>6, <1>7, <1>8, <1>9, <1>10, <1>11, <1>12, <1>13
     DEF Next, HostStep

LEMMA ServiceStart == Init => Service!ServiceInit
<1> SUFFICES ASSUME Init PROVE Service!ServiceInit
  OBVIOUS
<1>1. /\ dev = MSC_BOT_Init(ColdDev) /\ hphase = "idle"
      /\ hcmd = JunkCBW /\ hres = "none"
  BY DEF Init
<1>2. ColdDev.written = {}
  BY DEF ColdDev
<1> HIDE DEF ColdDev
<1>3. dev.written = {}
  BY <1>1, <1>2, ColdType, InitKeeps
<1>4. hcmd.op # "READ10"
  BY <1>1 DEF JunkCBW
<1> QED
  BY <1>1, <1>3, <1>4 DEF Service!ServiceInit

-----------------------------------------------------------------------------
(* The theorems.                                                           *)

LEMMA CourseAlways ==
  ASSUME HostCommands
  PROVE  Spec => [](Inv /\ OnCourse)
<1>1. Inv /\ OnCourse /\ [Next]_vars => (Inv /\ OnCourse)'
  BY CourseNext, InvNext
<1> QED
  BY <1>1, CourseInit, InvInit, PTL DEF Spec

\* Whenever the host may send a command the device waits for one: its state
\* machine is idle, a wrapper is awaited and no answer is left over, whatever
\* failed, was stalled, timed out or was reset before (MSC_BOT_SendCSW,
\* MSC_BOT_Reset, MSC_BOT_Init, MSC_BOT_CplClrFeature).
THEOREM IdleArmedAlways ==
  ASSUME HostCommands
  PROVE  Spec => []IdleArmed
<1>1. Inv /\ OnCourse => IdleArmed
  BY States0 DEF IdleArmed, OnCourse, Course, Armed, Disciplined
<1> QED
  BY <1>1, CourseAlways, PTL

\* The residue of a transfer in progress is what is left of it
\* (SCSI_ProcessRead, SCSI_ProcessWrite).
THEOREM ResidueIsRestAlways ==
  ASSUME HostCommands
  PROVE  Spec => []ResidueIsRest
<1>1. Inv /\ OnCourse => ResidueIsRest
  <2> SUFFICES ASSUME Inv, OnCourse PROVE ResidueIsRest
    OBVIOUS
  <2>1. /\ dev \in DevType /\ hphase \in Phases
        /\ Disciplined(dev, irq, hphase)
        /\ Writing(dev, irq, hphase, hcmd, hrem, hres)
        /\ Reading(dev, irq, hphase, hcmd, hrem, hrecv)
    BY States0, CourseForm DEF Course
  <2>2. dev.state = "DATA_OUT" => dev.csw.residue = dev.blk_len
    BY <2>1 DEF Writing, At
  <2>3. dev.state = "LAST_DATA_IN" => dev.csw.residue = dev.blk_len
    BY <2>1 DEF Reading
  <2>4. ASSUME dev.state = "DATA_IN", dev.tx.kind = "blocks"
        PROVE  dev.csw.residue = dev.blk_len
    <3>1. hphase \in Moving \cup {"reset"} /\ dev.tx # NoXfer
      BY <2>1, <2>4, Kinds DEF Disciplined, Moving, Phases
    <3>2. Offered(dev, hphase, hcmd, hrem, hrecv)
      BY <2>1, <2>4, <3>1 DEF Reading
    <3> QED
      BY <3>2 DEF Offered, InFlight, At
  <2> QED
    BY <2>2, <2>3, <2>4 DEF ResidueIsRest
<1> QED
  BY <1>1, CourseAlways, PTL

\* A status that reports success reports as its residue exactly what the
\* host asked for and did not get, or did not send (MSC_BOT_SendData,
\* MSC_BOT_SendCSW).
THEOREM ResidueReportedAlways ==
  ASSUME HostCommands
  PROVE  Spec => []ResidueReported
<1>1. Inv /\ OnCourse => ResidueReported
  BY DEF ResidueReported, OnCourse, Course, Passed, Moving
<1> QED
  BY <1>1, CourseAlways, PTL

\* A READ10 or WRITE10 the host sees PASSED moved exactly the blocks its
\* command block names, in order, and each to its own place: for every
\* buffer, block and medium size, and every way the bus can interleave.
THEOREM PassedMovedAllAlways ==
  ASSUME HostCommands
  PROVE  Spec => []PassedMovedAll
<1>1. Inv /\ OnCourse => PassedMovedAll
  BY DEF PassedMovedAll, OnCourse, Course, Known, AllMoved, ReadTo, WrittenTo
<1> QED
  BY <1>1, CourseAlways, PTL

\* ... and when the port is not reset no endpoint is halted either, so the
\* host's next command always gets through (MSC_BOT_Abort, ClearFeature).
THEOREM IdleReadyAlways ==
  ASSUME HostCommands, PortResets = FALSE
  PROVE  Spec => []IdleReady
<1>1. Unhalted(dev, hphase) /\ Inv /\ OnCourse /\ [Next]_vars
        => Unhalted(dev, hphase)'
  BY UnhaltedNext
<1>2. Unhalted(dev, hphase) /\ IdleArmed => IdleReady
  BY DEF Unhalted, IdleReady
<1> QED
  BY <1>1, <1>2, UnhaltedInit, CourseAlways, IdleArmedAlways, PTL DEF Spec

\* The system implements BlockService: whatever fails, is late or is reset
\* in the transport, each block moves at most once, in order, inside the
\* medium and only while its command is open, and a command is reported
\* PASSED only when all of its blocks have moved.
THEOREM ServiceRefinement ==
  ASSUME HostCommands
  PROVE  Spec => ImplementsService
<1>1. Inv /\ OnCourse /\ [Next]_vars
        => [Service!ServiceNext]_(Service!svars)
  BY ServiceStep
<1> QED
  BY <1>1, ServiceStart, CourseAlways, PTL
     DEF Spec, ImplementsService, Service!ServiceSpec
=============================================================================
