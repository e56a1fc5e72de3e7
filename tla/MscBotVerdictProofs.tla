------------------------- MODULE MscBotVerdictProofs -------------------------
(***************************************************************************)
(* What a status of MscBot means: that a command is accepted or refused    *)
(* for reasons of its own and that the sense data after a refusal is the   *)
(* reason of that refusal (WellFormed commands, a medium that works); and  *)
(* that a transfer stays below the limit of the range check, which with    *)
(* units of one capacity is the end of its unit.                           *)
(***************************************************************************)
EXTENDS MscBotServiceProofs

-----------------------------------------------------------------------------
(* The verdict of a handler, and what it does to the sense list.           *)

\* The host has last asked for the capacity of the unit c is for.
Due(d, c) == d.blk_nbr = Capacity[c.lun]

Accepted(d, c) == Due(d, c) => Refusal(c) = "NONE"
Rejected(d, c) == Due(d, c) => Refusal(c) # "NONE"

SameSense(e, d) ==
  /\ e.head = d.head /\ e.tail = d.tail /\ e.sense = d.sense
  /\ e.started = d.started

Beside(e, d) ==
  /\ e.tx = d.tx /\ e.rx = d.rx /\ e.status = d.status
  /\ e.halt_in = d.halt_in /\ e.blk_nbr = d.blk_nbr

\* One entry more, or one entry less.
Noted(e, d, asc) ==
  /\ e.head = d.head /\ e.tail = (d.tail + 1) % SenseDepth
  /\ e.sense = [d.sense EXCEPT ![d.tail] = asc]
  /\ e.started = d.started
Popped(e, d) ==
  /\ e.tail = d.tail /\ e.sense = d.sense /\ e.started = d.started
  /\ e.head = IF d.head = d.tail THEN d.head ELSE (d.head + 1) % SenseDepth

\* The outcomes of a SCSI command: refused for its reason, or carried out.
Denied(r, d) ==
  /\ d.cbw.op # "REQUEST_SENSE"
  /\ r.ret = -1 /\ r.dev.state \in {"IDLE", "DATA_IN"}
  /\ r.dev.tx = d.tx /\ r.dev.rx = d.rx /\ r.dev.status = d.status
  /\ \E asc \in SenseCodes :
       /\ Noted(r.dev, d, asc)
       /\ Due(r.dev, d.cbw) => Refusal(d.cbw) = asc /\ asc # "NONE"
Granted(r, d) ==
  /\ r.ret = 0 /\ Accepted(r.dev, d.cbw)
  /\ r.dev.status = d.status /\ r.dev.halt_in = d.halt_in
  /\ IF d.cbw.op = "REQUEST_SENSE" THEN Popped(r.dev, d) ELSE SameSense(r.dev, d)

LEMMA BadNotes ==
  ASSUME NEW d \in DevType, NEW asc \in SenseCodes
  PROVE  LET r == Bad(d, asc)
         IN  /\ r.ret = -1 /\ r.dev.state = d.state /\ r.dev.tx = d.tx
             /\ r.dev.rx = d.rx /\ r.dev.blk_nbr = d.blk_nbr /\ r.dev.status = d.status
             /\ Noted(r.dev, d, asc)
BY DEF Bad, SCSI_SenseCode, DevType, Noted

LEMMA InfoReplySense ==
  ASSUME NEW d \in DevType, NEW w, NEW n
  PROVE  LET r == InfoReply(d, w, n)
         IN  /\ r.ret = 0 /\ SameSense(r.dev, d)
             /\ r.dev.status = d.status /\ r.dev.halt_in = d.halt_in
             /\ r.dev.blk_nbr = d.blk_nbr
BY DEF InfoReply, Good, DevType, SameSense

\* A command without a data transfer of blocks.
LEMMA ControlVerdict ==
  ASSUME NEW d \in DevType, d.state = "IDLE", d.started,
         d.cbw.op \notin BlockOps, d.cbw.op = "VERIFY10" => d.cbw.flag
  PROVE  LET r == SCSI_ProcessCmd(d, TRUE)
         IN  Denied(r, d) \/ Granted(r, d)
<1> DEFINE c == d.cbw
           r == SCSI_ProcessCmd(d, TRUE)
<1> SUFFICES Denied(r, d) \/ Granted(r, d)
  OBVIOUS
<1>1. c.op \in BlockOps \cup InfoOps \cup ControlOps \cup {"UNKNOWN"}
  BY Fields, CBWFields
<1>2. {"INVALID_CDB", "INVALID_FIELED_IN_COMMAND"} \subseteq SenseCodes
  BY DEF SenseCodes
<1>3. ASSUME NEW asc \in SenseCodes, asc # "NONE", Refusal(c) = asc,
             r = Bad(d, asc), c.op # "REQUEST_SENSE"
      PROVE  Denied(r, d)
  <2> HIDE DEF r
  <2> QED
    BY <1>3, BadNotes DEF Denied
<1>4. CASE c.op = "TEST_UNIT_READY" /\ c.dlen # 0
  <2>1. r = Bad(d, "INVALID_CDB")
    BY <1>4 DEF SCSI_ProcessCmd, SCSI_TestUnitReady
  <2>2. Refusal(c) = "INVALID_CDB"
    BY <1>4 DEF Refusal
  <2> QED
    BY <1>2, <1>3, <1>4, <2>1, <2>2
<1>5. CASE c.op = "VERIFY10"
  <2>1. r = Bad(d, "INVALID_FIELED_IN_COMMAND")
    BY <1>5 DEF SCSI_ProcessCmd, SCSI_Verify10
  <2>2. Refusal(c) = "INVALID_FIELED_IN_COMMAND"
    BY <1>5 DEF Refusal
  <2> QED
    BY <1>2, <1>3, <1>5, <2>1, <2>2
<1>6. CASE c.op = "UNKNOWN"
  <2>1. r = Bad(d, "INVALID_CDB")
    BY <1>6 DEF SCSI_ProcessCmd
  <2>2. Refusal(c) = "INVALID_CDB"
    BY <1>6 DEF Refusal, BlockOps
  <2> QED
    BY <1>2, <1>3, <1>6, <2>1, <2>2
<1>7. CASE \/ c.op = "TEST_UNIT_READY" /\ c.dlen = 0
           \/ c.op = "START_STOP_UNIT"
  <2> DEFINE g == Good([d EXCEPT !.data_length = 0])
  <2>1. r = g
    BY <1>7 DEF SCSI_ProcessCmd, SCSI_TestUnitReady, SCSI_StartStopUnit, IsReady
  <2>2. g.ret = 0 /\ SameSense(g.dev, d) /\ g.dev.status = d.status
        /\ g.dev.halt_in = d.halt_in
    BY DEF Good, DevType, SameSense
  <2> HIDE DEF r, g
  <2>3. Refusal(c) = "NONE"
    BY <1>7 DEF Refusal, BlockOps
  <2> QED
    BY <1>7, <2>1, <2>2, <2>3 DEF Granted, Accepted
<1>8. CASE c.op \in InfoOps
  <2>1. Refusal(c) = "NONE"
    BY <1>8 DEF Refusal, InfoOps, BlockOps
  <2>2. CASE c.op = "REQUEST_SENSE"
    <3> DEFINE h == [d EXCEPT !.head = (d.head + 1) % SenseDepth]
               a == InfoReply(h, d.sense[d.head], d.cbw.alloc)
               b == InfoReply(d, "NONE", d.cbw.alloc)
    <3>1. r = IF d.head = d.tail THEN b ELSE a
      BY <2>2 DEF SCSI_ProcessCmd, SCSI_RequestSense
    <3>2. h \in DevType
      <4>1. d.head + 1 \in Int /\ SenseDepth \in Nat \ {0}
        BY Fields, ConstantsAssumption
      <4>2. (d.head + 1) % SenseDepth \in 0 .. SenseDepth - 1
        BY <4>1, ModType
      <4> QED
        BY <4>2 DEF DevType
    <3>3. /\ h.head = (d.head + 1) % SenseDepth /\ h.tail = d.tail
          /\ h.sense = d.sense /\ h.started = d.started
          /\ h.status = d.status /\ h.halt_in = d.halt_in
      BY DEF DevType
    <3> HIDE DEF h
    <3>4. a.ret = 0 /\ SameSense(a.dev, h) /\ a.dev.status = h.status
          /\ a.dev.halt_in = h.halt_in
      BY <3>2, InfoReplySense
    <3>5. b.ret = 0 /\ SameSense(b.dev, d) /\ b.dev.status = d.status
          /\ b.dev.halt_in = d.halt_in
      BY InfoReplySense
    <3> HIDE DEF a, b, r
    <3>6. Popped(r.dev, d)
      BY <3>1, <3>3, <3>4, <3>5 DEF Popped, SameSense
    <3> QED
      BY <2>1, <2>2, <3>1, <3>3, <3>4, <3>5, <3>6 DEF Granted, Accepted
  <2>3. CASE c.op = "READ_CAPACITY10"
    <3> DEFINE h == [d EXCEPT !.blk_nbr = Capacity[d.cbw.lun],
                              !.blk_size = BlkSize]
               a == InfoReply(h, d.cbw.op, 1)
    <3>1. r = a
      BY <2>3 DEF SCSI_ProcessCmd, SCSI_ReadCapacity10
    <3>2. Capacity[d.cbw.lun] \in Nat
      BY Fields, CBWFields, ConstantsAssumption
    <3>3. h \in DevType /\ SameSense(h, d) /\ h.status = d.status
          /\ h.halt_in = d.halt_in
      BY <3>2, Sizes DEF DevType, SameSense
    <3> HIDE DEF h
    <3>4. a.ret = 0 /\ SameSense(a.dev, h) /\ a.dev.status = h.status
          /\ a.dev.halt_in = h.halt_in
      BY <3>3, InfoReplySense
    <3> HIDE DEF a, r
    <3> QED
      BY <2>1, <2>3, <3>1, <3>3, <3>4 DEF Granted, Accepted, SameSense
  <2>4. CASE c.op \notin {"REQUEST_SENSE", "READ_CAPACITY10"}
    <3>1. \E n : r = InfoReply(d, d.cbw.op, n)
      BY <1>8, <2>4
      DEF SCSI_ProcessCmd, SCSI_Inquiry, SCSI_ModeSense, SCSI_ReadFormatCapacity,
          InfoOps
    <3> HIDE DEF r
    <3> QED
      BY <2>1, <2>4, <3>1, InfoReplySense DEF Granted, Accepted
  <2> QED
    BY <2>2, <2>3, <2>4
<1> HIDE DEF r
<1> QED
  BY <1>1, <1>4, <1>5, <1>6, <1>7, <1>8 DEF InfoOps, ControlOps
-----------------------------------------------------------------------------
(* The medium takes what is inside it.                                     *)

LEMMA WithinMedium ==
  ASSUME NEW d \in DevType, NEW c \in CBWType, NEW m \in 0 .. c.nblk,
         At(d, c, m), c.lba + c.nblk <= Capacity[c.lun]
  PROVE  MediumDone(d, Packet(d), TRUE)
<1> DEFINE k == Min2(m, Slots)
           at == Blk(d, d.blk_addr)
<1>1. k \in Nat /\ k <= m /\ (k = 0 => m = 0)
  BY PacketBlocks DEF At
<1>2. Blk(d, Packet(d)) = k /\ (k # 0 => at = c.lba + c.nblk - m)
  BY MediumRange
<1>3. c.lba \in Nat /\ c.nblk \in Nat /\ m \in Nat /\ c.lun \in Luns
      /\ Capacity[c.lun] \in Nat /\ d.cbw = c
  BY CBWFields, ConstantsAssumption DEF At
<1>4. k = 0 => at \in Nat /\ at <= c.lba + c.nblk
  <2> SUFFICES ASSUME k = 0 PROVE at \in Nat /\ at <= c.lba + c.nblk
    OBVIOUS
  <2>1. c.lba + c.nblk - m = c.lba + c.nblk /\ c.lba + c.nblk \in Nat
    BY <1>1, <1>3
  <2>2. d.blk_addr = (c.lba + c.nblk) * BlkSize
    BY <2>1 DEF At
  <2>3. d.blk_addr \div BlkSize = c.lba + c.nblk
    BY <2>1, <2>2, Quotient, Sizes
  <2>4. d.blk_size \in {0, BlkSize}
    BY Fields
  <2>5. at \in {0, c.lba + c.nblk}
    BY <2>3, <2>4 DEF Blk
  <2> QED
    BY <2>1, <2>5
<1> HIDE DEF k, at
<1>5. at + k <= Capacity[c.lun]
  BY <1>1, <1>2, <1>3, <1>4
<1> QED
  BY <1>2, <1>3, <1>5 DEF MediumDone, at

LEMMA MovedSense ==
  ASSUME NEW d \in DevType, NEW len
  PROVE  SameSense(Moved(d, len), d)
BY DEF Moved, DevType, SameSense

LEMMA SendCSWSense ==
  ASSUME NEW d \in DevType, NEW st
  PROVE  SameSense(MSC_BOT_SendCSW(d, st), d)
BY DEF MSC_BOT_SendCSW, USBD_LL_Transmit, USBD_LL_PrepareReceive, DevType,
       SameSense

\* A read that finds its blocks leaves the sense list alone.
LEMMA ProcessReadSense ==
  ASSUME NEW d \in DevType, NEW ok \in BOOLEAN
  PROVE  LET r == SCSI_ProcessRead(d, ok)
         IN  IF MediumDone(d, Packet(d), ok)
             THEN r.ret = 0 /\ SameSense(r.dev, d)
             ELSE r = Bad(d, "UNRECOVERED_READ_ERROR")
<1> DEFINE len  == Packet(d)
           n    == Blk(d, len)
           at   == Blk(d, d.blk_addr)
           data == [i \in 1 .. Slots |->
                      IF i <= n THEN Block(at + i - 1) ELSE d.data[i]]
           full == [d EXCEPT !.data = data]
           x    == [kind |-> "blocks", len |-> len,
                    blks |-> [i \in 1 .. n |-> full.data[i]]]
           put  == USBD_LL_Transmit(full, x)
           sent == Moved(put, len)
           last == [sent EXCEPT
                      !.state = IF sent.blk_len = 0 THEN "LAST_DATA_IN" ELSE @]
<1>1. len \in Nat /\ len <= d.blk_len /\ len <= MediaPacket
  BY PieceType DEF Packet
<1>2. SCSI_ProcessRead(d, ok) =
        IF ~MediumDone(d, len, ok) THEN Bad(d, "UNRECOVERED_READ_ERROR")
        ELSE Good(last)
  BY DEF SCSI_ProcessRead, Packet
<1> HIDE DEF len
<1>3. n \in Nat /\ n <= Slots
  BY <1>1, BlkType
<1>4. at \in Nat
  BY BlkType, Fields
<1> HIDE DEF n, at
<1>5. data \in [1 .. Slots -> Slot]
  <2>1. ASSUME NEW i \in 1 .. Slots PROVE data[i] \in Slot
    <3>1. at + i - 1 \in Int /\ d.data[i] \in Slot
      BY <1>4, Fields, ConstantsAssumption
    <3> QED
      BY <3>1 DEF Block, Slot, Blocks
  <2> QED
    BY <2>1
<1> HIDE DEF data
<1>6. full \in DevType /\ SameSense(full, d) /\ full.data = data
      /\ full.blk_len = d.blk_len
  BY <1>5 DEF DevType, SameSense
<1>7. x \in XferType
  <2>1. [i \in 1 .. n |-> full.data[i]] \in Seq(Slot)
    BY <1>3, <1>5, <1>6, ConstantsAssumption
  <2> QED
    BY <1>1, <2>1 DEF XferType
<1> HIDE DEF full, x
<1>8. put \in DevType /\ SameSense(put, full) /\ put.blk_len = full.blk_len
  BY <1>6, <1>7, TransmitType DEF USBD_LL_Transmit, DevType, SameSense
<1> HIDE DEF put
<1>9. sent \in DevType /\ SameSense(sent, put)
  BY <1>1, <1>6, <1>8, MovedType, MovedSense
<1> HIDE DEF sent
<1>10. SameSense(last, sent)
  BY <1>9 DEF DevType, SameSense
<1> HIDE DEF last
<1>11. SameSense(last, d)
  BY <1>6, <1>8, <1>9, <1>10 DEF SameSense
<1> QED
  BY <1>2, <1>11 DEF Good, len

\* ... and so does a write.
LEMMA ProcessWriteSense ==
  ASSUME NEW d \in DevType, NEW ok \in BOOLEAN
  PROVE  LET r == SCSI_ProcessWrite(d, ok)
         IN  IF MediumDone(d, Packet(d), ok)
             THEN r.ret = 0 /\ SameSense(r.dev, d)
             ELSE r = Bad(d, "WRITE_FAULT")
<1> DEFINE len  == Packet(d)
           n    == Blk(d, len)
           at   == Blk(d, d.blk_addr)
           new  == {<<d.cbw.lun, at + i - 1, d.data[i]>> : i \in 1 .. n}
           w    == [d EXCEPT !.written = @ \cup new]
           done == Moved(w, len)
           csw  == MSC_BOT_SendCSW(done, "PASSED")
           more == USBD_LL_PrepareReceive(done, "data",
                                          Min2(done.blk_len, MediaPacket))
<1>1. len \in Nat /\ len <= d.blk_len /\ len <= MediaPacket
  BY PieceType DEF Packet
<1>2. SCSI_ProcessWrite(d, ok) =
        IF ~MediumDone(d, len, ok) THEN Bad(d, "WRITE_FAULT")
        ELSE Good(IF done.blk_len = 0 THEN csw ELSE more)
  BY DEF SCSI_ProcessWrite, Packet
<1> HIDE DEF len
<1>3. n \in Nat /\ n <= Slots
  BY <1>1, BlkType
<1>4. at \in Nat
  BY BlkType, Fields
<1> HIDE DEF n, at
<1>5. new \subseteq Luns \X Int \X Slot
  <2>1. ASSUME NEW i \in 1 .. n
        PROVE  <<d.cbw.lun, at + i - 1, d.data[i]>> \in Luns \X Int \X Slot
    BY <1>3, <1>4, Fields, CBWFields, ConstantsAssumption
  <2> QED
    BY <2>1
<1> HIDE DEF new
<1>6. w \in DevType /\ SameSense(w, d) /\ w.blk_len = d.blk_len
  BY <1>5 DEF DevType, SameSense
<1> HIDE DEF w
<1>7. done \in DevType /\ SameSense(done, w)
  BY <1>1, <1>6, MovedType, MovedSense
<1> HIDE DEF done
<1>8. SameSense(csw, done)
  BY <1>7, SendCSWSense
<1>9. SameSense(more, done)
  BY <1>7 DEF USBD_LL_PrepareReceive, DevType, SameSense
<1> HIDE DEF csw, more
<1>10. SameSense(IF done.blk_len = 0 THEN csw ELSE more, d)
  BY <1>6, <1>7, <1>8, <1>9 DEF SameSense
<1> QED
  BY <1>2, <1>10 DEF Good, len

\* The first call of READ10 and of WRITE10.
LEMMA Read10Verdict ==
  ASSUME NEW d \in DevType, d.state = "IDLE", d.started,
         d.cbw.op = "READ10", Addressable(d.cbw), SizeKnown(d),
         d.csw.tag = d.cbw.tag, d.csw.residue = d.cbw.dlen
  PROVE  LET r == SCSI_Read10(d, TRUE)
         IN  Denied(r, d) \/ Granted(r, d)
<1> DEFINE c == d.cbw
           r == SCSI_Read10(d, TRUE)
           r10 == CdbRange(d)
           v == InUnits(r10)
           u == [v EXCEPT !.state = "DATA_IN"]
           f == [u EXCEPT !.data_length = MediaPacket]
           in == SCSI_CheckAddressRange(r10, r10.blk_addr, r10.blk_len)
           fit == d.cbw.dlen = u.blk_len
<1> SUFFICES Denied(r, d) \/ Granted(r, d)
  OBVIOUS
<1>1. {"INVALID_CDB", "ADDRESS_OUT_OF_RANGE", "UNRECOVERED_READ_ERROR"}
        \subseteq SenseCodes
  BY DEF SenseCodes
<1>2. /\ c \in CBWType /\ c.lba \in Nat /\ c.nblk \in Nat
      /\ c.lun \in Luns /\ c.dir \in {"in", "out"} /\ d.blk_nbr \in Nat
  BY Fields, CBWFields DEF CBWType
<1>3. r = CASE c.dir # "in" -> Bad(d, "INVALID_CDB")
            [] c.dir = "in" /\ ~IsReady(d) -> Bad(d, "MEDIUM_NOT_PRESENT")
            [] OTHER -> IF ~in THEN Bad(r10, "ADDRESS_OUT_OF_RANGE")
                        ELSE IF ~fit THEN Bad(u, "INVALID_CDB")
                        ELSE SCSI_ProcessRead(f, TRUE)
  BY DEF SCSI_Read10
<1>4. r10 \in DevType /\ v \in DevType
  BY RangeType
<1>5. /\ SameSense(r10, d) /\ SameSense(v, d)
      /\ r10.state = "IDLE" /\ Beside(r10, d) /\ Beside(v, d)
      /\ v.blk_len = u.blk_len
      /\ in <=> SCSI_CheckAddressRange(d, c.lba, c.nblk)
  BY DEF CdbRange, InUnits, SameSense, Beside, DevType,
         SCSI_CheckAddressRange
<1>6. in <=> c.lba + c.nblk <= d.blk_nbr
  BY <1>5, RangeExact DEF BlockOps
<1>7. in => v.blk_len = c.nblk * BlkSize
  BY <1>5, UnitsExact DEF BlockOps
<1>8. in /\ fit => At(v, c, c.nblk)
  BY <1>5, StartsAt DEF BlockOps
<1> HIDE DEF r, r10, v, in
<1>9. /\ u \in DevType /\ u.state = "DATA_IN" /\ SameSense(u, v)
      /\ Beside(u, v)
      /\ At(v, c, c.nblk) => At(u, c, c.nblk)
  BY <1>4 DEF DevType, States, SameSense, Beside, At
<1> HIDE DEF u, fit
<1>10. MediaPacket \in Nat
  BY ConstantsAssumption DEF MediaPacket
<1>11. /\ f \in DevType /\ f.state = "DATA_IN" /\ SameSense(f, u)
       /\ Beside(f, u)
       /\ At(u, c, c.nblk) => At(f, c, c.nblk)
  BY <1>9, <1>10 DEF DevType, SameSense, Beside, At
<1> HIDE DEF f
<1>12. ASSUME NEW e \in DevType, SameSense(e, d), Beside(e, d),
              e.state \in {"IDLE", "DATA_IN"},
              NEW asc \in SenseCodes \ {"NONE"}, r = Bad(e, asc),
              d.blk_nbr = Capacity[c.lun] => Refusal(c) = asc
       PROVE  Denied(r, d)
  <2>1. /\ r.ret = -1 /\ r.dev.state = e.state /\ r.dev.tx = e.tx
        /\ r.dev.rx = e.rx /\ r.dev.status = e.status
        /\ r.dev.blk_nbr = e.blk_nbr /\ Noted(r.dev, e, asc)
    BY <1>12, BadNotes
  <2>2. Noted(r.dev, d, asc)
    BY <1>12, <2>1 DEF Noted, SameSense
  <2> QED
    BY <1>12, <2>1, <2>2 DEF Denied, Due, Beside
<1>13. CASE c.dir # "in"
  <2>1. r = Bad(d, "INVALID_CDB")
    BY <1>3, <1>13
  <2>2. Refusal(c) = "INVALID_CDB"
    BY <1>13 DEF Refusal, BlockOps
  <2>3. SameSense(d, d) /\ Beside(d, d)
    BY DEF SameSense, Beside
  <2> QED
    BY <1>1, <1>12, <2>1, <2>2, <2>3
<1>14. CASE c.dir = "in" /\ ~in
  <2>1. r = Bad(r10, "ADDRESS_OUT_OF_RANGE")
    BY <1>3, <1>14 DEF IsReady
  <2>2. d.blk_nbr = Capacity[c.lun] => Refusal(c) = "ADDRESS_OUT_OF_RANGE"
    BY <1>2, <1>6, <1>14 DEF Refusal, BlockOps
  <2> QED
    BY <1>1, <1>4, <1>5, <1>12, <2>1, <2>2
<1>15. CASE c.dir = "in" /\ in /\ ~fit
  <2>1. r = Bad(u, "INVALID_CDB")
    BY <1>3, <1>15 DEF IsReady
  <2>2. d.blk_nbr = Capacity[c.lun] => Refusal(c) = "INVALID_CDB"
    BY <1>2, <1>5, <1>6, <1>7, <1>15 DEF Refusal, BlockOps, fit
  <2>3. SameSense(u, d) /\ Beside(u, d)
    BY <1>5, <1>9 DEF SameSense, Beside
  <2> QED
    BY <1>1, <1>9, <1>12, <2>1, <2>2, <2>3
<1>16. CASE c.dir = "in" /\ in /\ fit
  <2>1. r = SCSI_ProcessRead(f, TRUE)
    BY <1>3, <1>16 DEF IsReady
  <2>2. At(f, c, c.nblk) /\ c.nblk \in 0 .. c.nblk
    BY <1>2, <1>8, <1>9, <1>11, <1>16
  <2>3. SameSense(f, d) /\ Beside(f, d)
    BY <1>5, <1>9, <1>11 DEF SameSense, Beside
  <2>4. CASE c.lba + c.nblk <= Capacity[c.lun]
    <3>1. MediumDone(f, Packet(f), TRUE)
      BY <1>2, <1>11, <2>2, <2>4, WithinMedium
    <3>2. r.ret = 0 /\ SameSense(r.dev, f)
      BY <1>11, <2>1, <3>1, ProcessReadSense
    <3>3. r = Bad(f, "UNRECOVERED_READ_ERROR") \/ SameUnit(r.dev, f)
      BY <1>2, <1>11, <2>1, <2>2, ProcessReadMoves
    <3>4. Bad(f, "UNRECOVERED_READ_ERROR").ret # 0
      BY DEF Bad
    <3>5. SameUnit(r.dev, f)
      BY <3>2, <3>3, <3>4
    <3>6. c.dlen = c.nblk * BlkSize
      BY <2>2 DEF At
    <3>7. Refusal(c) = "NONE"
      <4>1. ~(c.lba + c.nblk > Capacity[c.lun])
        BY <1>2, <2>4, ConstantsAssumption
      <4>2. c.op = "READ10" /\ c.dir = "in"
        BY <1>16
      <4> HIDE DEF c
      <4> QED
        BY <3>6, <4>1, <4>2 DEF Refusal, BlockOps
    <3>8. SameSense(r.dev, d)
      BY <2>3, <3>2 DEF SameSense
    <3> QED
      BY <2>3, <3>2, <3>5, <3>7, <3>8 DEF Granted, Accepted, SameUnit, Beside
  <2>5. CASE ~(c.lba + c.nblk <= Capacity[c.lun])
    <3>1. d.blk_nbr # Capacity[c.lun]
      BY <1>6, <1>16, <2>5
    <3>2. CASE MediumDone(f, Packet(f), TRUE)
      <4>1. r.ret = 0 /\ SameSense(r.dev, f)
        BY <1>11, <2>1, <3>2, ProcessReadSense
      <4>2. r = Bad(f, "UNRECOVERED_READ_ERROR") \/ SameUnit(r.dev, f)
        BY <1>2, <1>11, <2>1, <2>2, ProcessReadMoves
      <4>3. Bad(f, "UNRECOVERED_READ_ERROR").ret # 0
        BY DEF Bad
      <4>4. SameUnit(r.dev, f)
        BY <4>1, <4>2, <4>3
      <4>5. SameSense(r.dev, d)
        BY <2>3, <4>1 DEF SameSense
      <4> QED
        BY <2>3, <3>1, <4>1, <4>4, <4>5
        DEF Granted, Accepted, SameUnit, Due, Beside
    <3>3. CASE ~MediumDone(f, Packet(f), TRUE)
      <4>1. r = Bad(f, "UNRECOVERED_READ_ERROR")
        BY <1>11, <2>1, <3>3, ProcessReadSense
      <4> QED
        BY <1>1, <1>11, <1>12, <2>3, <3>1, <4>1
    <3> QED
      BY <3>2, <3>3
  <2> QED
    BY <2>4, <2>5
<1> QED
  BY <1>13, <1>14, <1>15, <1>16

LEMMA Write10Verdict ==
  ASSUME NEW d \in DevType, d.state = "IDLE", d.started,
         d.cbw.op = "WRITE10", Addressable(d.cbw), SizeKnown(d),
         d.csw.tag = d.cbw.tag, d.csw.residue = d.cbw.dlen
  PROVE  LET r == SCSI_Write10(d, TRUE)
         IN  Denied(r, d) \/ Granted(r, d)
<1> DEFINE c == d.cbw
           r == SCSI_Write10(d, TRUE)
           r10 == CdbRange(d)
           u == InUnits(r10)
           o == [u EXCEPT !.state = "DATA_OUT"]
           w == USBD_LL_PrepareReceive(o, "data", Min2(u.blk_len, MediaPacket))
           in == SCSI_CheckAddressRange(r10, r10.blk_addr, r10.blk_len)
           fit == d.cbw.dlen = u.blk_len
<1> SUFFICES Denied(r, d) \/ Granted(r, d)
  OBVIOUS
<1>1. {"INVALID_CDB", "ADDRESS_OUT_OF_RANGE"} \subseteq SenseCodes
  BY DEF SenseCodes
<1>2. /\ c \in CBWType /\ c.lba \in Nat /\ c.nblk \in Nat
      /\ c.lun \in Luns /\ c.dir \in {"in", "out"} /\ d.blk_nbr \in Nat
  BY Fields, CBWFields DEF CBWType
<1>3. r = CASE c.dir = "in" -> Bad(d, "INVALID_CDB")
            [] c.dir # "in" /\ ~IsReady(d) -> Bad(d, "MEDIUM_NOT_PRESENT")
            [] OTHER -> IF ~in THEN Bad(r10, "ADDRESS_OUT_OF_RANGE")
                        ELSE IF ~fit THEN Bad(u, "INVALID_CDB")
                        ELSE Good(w)
  BY DEF SCSI_Write10
<1>4. r10 \in DevType /\ u \in DevType
  BY RangeType
<1>5. /\ SameSense(r10, d) /\ SameSense(u, d)
      /\ r10.state = "IDLE" /\ u.state = "IDLE"
      /\ Beside(r10, d) /\ Beside(u, d)
      /\ in <=> SCSI_CheckAddressRange(d, c.lba, c.nblk)
  BY DEF CdbRange, InUnits, SameSense, Beside, DevType,
         SCSI_CheckAddressRange
<1>6. in <=> c.lba + c.nblk <= d.blk_nbr
  BY <1>5, RangeExact DEF BlockOps
<1>7. in => u.blk_len = c.nblk * BlkSize
  BY <1>5, UnitsExact DEF BlockOps
<1> HIDE DEF r, r10, u, in
<1>8. SameSense(w, u) /\ w.status = u.status /\ w.halt_in = u.halt_in
      /\ w.blk_nbr = u.blk_nbr
  BY <1>4 DEF USBD_LL_PrepareReceive, DevType, SameSense
<1> HIDE DEF o, w
<1>9. ASSUME NEW e \in DevType, SameSense(e, d), Beside(e, d),
             e.state = "IDLE",
             NEW asc \in SenseCodes \ {"NONE"}, r = Bad(e, asc),
             d.blk_nbr = Capacity[c.lun] => Refusal(c) = asc
      PROVE  Denied(r, d)
  <2>1. /\ r.ret = -1 /\ r.dev.state = e.state /\ r.dev.tx = e.tx
        /\ r.dev.rx = e.rx /\ r.dev.status = e.status
        /\ r.dev.blk_nbr = e.blk_nbr /\ Noted(r.dev, e, asc)
    BY <1>9, BadNotes
  <2>2. Noted(r.dev, d, asc)
    BY <1>9, <2>1 DEF Noted, SameSense
  <2> QED
    BY <1>9, <2>1, <2>2 DEF Denied, Due, Beside
<1>10. CASE c.dir = "in"
  <2>1. r = Bad(d, "INVALID_CDB")
    BY <1>3, <1>10
  <2>2. Refusal(c) = "INVALID_CDB"
    BY <1>10 DEF Refusal, BlockOps
  <2>3. SameSense(d, d) /\ Beside(d, d)
    BY DEF SameSense, Beside
  <2> QED
    BY <1>1, <1>9, <2>1, <2>2, <2>3
<1>11. CASE c.dir # "in" /\ ~in
  <2>1. r = Bad(r10, "ADDRESS_OUT_OF_RANGE")
    BY <1>3, <1>11 DEF IsReady
  <2>2. d.blk_nbr = Capacity[c.lun] => Refusal(c) = "ADDRESS_OUT_OF_RANGE"
    BY <1>2, <1>6, <1>11 DEF Refusal, BlockOps
  <2> QED
    BY <1>1, <1>4, <1>5, <1>9, <2>1, <2>2
<1>12. CASE c.dir # "in" /\ in /\ ~fit
  <2>1. r = Bad(u, "INVALID_CDB")
    BY <1>3, <1>12 DEF IsReady
  <2>2. d.blk_nbr = Capacity[c.lun] => Refusal(c) = "INVALID_CDB"
    BY <1>2, <1>6, <1>7, <1>12 DEF Refusal, BlockOps
  <2> QED
    BY <1>1, <1>4, <1>5, <1>9, <2>1, <2>2
<1>13. CASE c.dir # "in" /\ in /\ fit
  <2>1. r = Good(w)
    BY <1>3, <1>13 DEF IsReady
  <2>2. c.dlen = c.nblk * BlkSize
    BY <1>7, <1>13
  <2>3. d.blk_nbr = Capacity[c.lun] => Refusal(c) = "NONE"
    BY <1>2, <1>6, <1>13, <2>2 DEF Refusal, BlockOps
  <2>4. SameSense(w, d) /\ w.status = d.status /\ w.halt_in = d.halt_in
        /\ w.blk_nbr = d.blk_nbr
    BY <1>5, <1>8 DEF SameSense, Beside
  <2> QED
    BY <2>1, <2>3, <2>4 DEF Granted, Accepted, Due, Good
<1> QED
  BY <1>10, <1>11, <1>12, <1>13

-----------------------------------------------------------------------------
(* A good wrapper is refused for its reason or admitted.                   *)

Dismissed(e, d, c) ==
  /\ c.op # "REQUEST_SENSE"
  /\ d.status # "ERROR" => e.rx = d.rx
  /\ e.halt_in /\ e.state \in {"IDLE", "DATA_IN"} /\ e.tx = d.tx
  /\ e.status = d.status
  /\ \E asc \in SenseCodes :
       /\ Noted(e, d, asc)
       /\ Due(e, c) => Refusal(c) = asc /\ asc # "NONE"
Admitted(e, d, c) ==
  /\ Accepted(e, c) /\ e.halt_in = d.halt_in /\ e.status = d.status
  /\ e.state = "IDLE" => e.tx.csw.status = "PASSED"
  /\ IF c.op = "REQUEST_SENSE" THEN Popped(e, d) ELSE SameSense(e, d)

LEMMA AbortSense ==
  ASSUME NEW d \in DevType
  PROVE  LET e == MSC_BOT_Abort(d)
         IN  SameSense(e, d) /\ e.status = d.status
BY DEF MSC_BOT_Abort, USBD_LL_PrepareReceive, DevType, SameSense

LEMMA SendDataSense ==
  ASSUME NEW d \in DevType
  PROVE  SameSense(MSC_BOT_SendData(d), d)
BY DEF MSC_BOT_SendData, USBD_LL_Transmit, DevType, SameSense

LEMMA DecodeVerdict ==
  ASSUME NEW d0 \in DevType, d0.cbw.ok, d0.state = "IDLE", d0.started,
         Sane(d0.cbw), d0.cbw.op = "VERIFY10" => d0.cbw.flag, SizeKnown(d0)
  PROVE  LET e == MSC_BOT_CBW_Decode(d0, TRUE)
         IN  Dismissed(e, d0, d0.cbw) \/ Admitted(e, d0, d0.cbw)
<1> DEFINE d == [d0 EXCEPT !.csw.tag = d0.cbw.tag, !.csw.residue = d0.cbw.dlen]
           r == SCSI_ProcessCmd(d, TRUE)
           e == r.dev
           x == MSC_BOT_CBW_Decode(d0, TRUE)
           c == d0.cbw
<1> SUFFICES Dismissed(x, d0, c) \/ Admitted(x, d0, c)
  OBVIOUS
<1>1. d \in DevType
  <2>1. d0.csw \in CSWType /\ d0.cbw.tag \in Tags \cup {JunkTag}
        /\ d0.cbw.dlen \in Int
    BY Fields, CBWFields
  <2>2. [d0.csw EXCEPT !.tag = d0.cbw.tag, !.residue = d0.cbw.dlen] \in CSWType
    BY <2>1 DEF CSWType
  <2> QED
    BY <2>2 DEF DevType
<1>2. /\ d.state = "IDLE" /\ d.cbw = c /\ d.tx = d0.tx /\ d.rx = d0.rx
      /\ d.status = d0.status /\ d.halt_in = d0.halt_in /\ SameSense(d, d0) /\ SizeKnown(d)
      /\ d.csw.tag = c.tag /\ d.csw.residue = c.dlen
  <2>1. d.csw = [d0.csw EXCEPT !.tag = d0.cbw.tag, !.residue = d0.cbw.dlen]
    BY DEF DevType
  <2>2. d.csw.tag = c.tag /\ d.csw.residue = c.dlen
    <3> DEFINE s == d0.csw
    <3>1. s \in CSWType
      BY Fields
    <3> HIDE DEF s, d
    <3>2. d.csw = [s EXCEPT !.tag = d0.cbw.tag, !.residue = d0.cbw.dlen]
      BY <2>1 DEF s
    <3> QED
      BY <3>1, <3>2 DEF CSWType
  <2> QED
    BY <2>2 DEF DevType, SameSense, SizeKnown
<1>3. x = IF r.ret < 0
          THEN IF e.state = "NO_DATA" THEN MSC_BOT_SendCSW(e, "FAILED")
               ELSE MSC_BOT_Abort(e)
          ELSE IF e.state \in {"DATA_IN", "DATA_OUT", "LAST_DATA_IN"} THEN e
          ELSE IF e.data_length > 0 THEN MSC_BOT_SendData(e)
          ELSE MSC_BOT_SendCSW(e, "PASSED")
  <2> HIDE DEF d
  <2>1. d.cbw.ok
    BY <1>2
  <2>2. CASE r.ret < 0
    BY <2>1, <2>2 DEF MSC_BOT_CBW_Decode, d
  <2>3. CASE ~(r.ret < 0)
    BY <2>1, <2>3 DEF MSC_BOT_CBW_Decode, d
  <2> QED
    BY <2>2, <2>3
<1> HIDE DEF d, x
<1>4. e \in DevType
  BY <1>1, ProcessCmdType
<1>5. Denied(r, d) \/ Granted(r, d)
  <2>1. d.started /\ (d.cbw.op \in BlockOps => Addressable(d.cbw))
    BY <1>2 DEF SameSense, Sane
  <2>2. CASE c.op = "READ10"
    <3>1. r = SCSI_Read10(d, TRUE)
      BY <1>2, <2>2 DEF SCSI_ProcessCmd
    <3> QED
      BY <1>1, <1>2, <2>1, <2>2, <3>1, Read10Verdict DEF BlockOps
  <2>3. CASE c.op = "WRITE10"
    <3>1. r = SCSI_Write10(d, TRUE)
      BY <1>2, <2>3 DEF SCSI_ProcessCmd
    <3> QED
      BY <1>1, <1>2, <2>1, <2>3, <3>1, Write10Verdict DEF BlockOps
  <2>4. CASE c.op \notin BlockOps
    <3>1. d.cbw.op \notin BlockOps /\ (d.cbw.op = "VERIFY10" => d.cbw.flag)
      BY <1>2, <2>4
    <3> QED
      BY <1>1, <1>2, <2>1, <3>1, ControlVerdict
  <2> QED
    BY <2>2, <2>3, <2>4 DEF BlockOps
<1> HIDE DEF r
<1>6. CASE Denied(r, d)
  <2>1. x = MSC_BOT_Abort(e)
    BY <1>3, <1>6 DEF Denied
  <2>2. /\ x.state = e.state /\ x.tx = e.tx /\ x.halt_in
        /\ e.status # "ERROR" => x.rx = e.rx
        /\ x.blk_nbr = e.blk_nbr /\ SameSense(x, e) /\ x.status = e.status
    BY <1>4, <2>1, AbortKeeps, AbortSense
  <2>3. PICK asc \in SenseCodes :
          /\ Noted(e, d, asc)
          /\ Due(e, c) => Refusal(c) = asc /\ asc # "NONE"
    BY <1>2, <1>6 DEF Denied
  <2>4. Noted(x, d0, asc)
    BY <1>2, <2>2, <2>3 DEF Noted, SameSense
  <2>5. e.tx = d.tx /\ e.rx = d.rx /\ e.status = d.status
    BY <1>6 DEF Denied
  <2> QED
    BY <1>2, <1>6, <2>2, <2>3, <2>4, <2>5 DEF Dismissed, Denied, Due, x
<1>7. CASE Granted(r, d)
  <2>1. x \in {e, MSC_BOT_SendData(e), MSC_BOT_SendCSW(e, "PASSED")}
        /\ (x = e => e.state \in {"DATA_IN", "DATA_OUT", "LAST_DATA_IN"}
                     \/ x \in {MSC_BOT_SendData(e), MSC_BOT_SendCSW(e, "PASSED")})
    BY <1>3, <1>7 DEF Granted
  <2>2. CASE x = MSC_BOT_SendData(e)
    <3>1. x.state = "SEND_DATA" /\ SameUnit(x, e) /\ SameSense(x, e)
      BY <1>4, <2>2, SendDataKeeps, SendDataSense
    <3> QED
      BY <1>2, <1>7, <3>1
      DEF Granted, Admitted, Accepted, Due, SameUnit, SameSense, Popped, x
  <2>3. CASE x = MSC_BOT_SendCSW(e, "PASSED")
    <3>1. /\ x.tx = StatusSent(e, "PASSED") /\ SameUnit(x, e)
          /\ SameSense(x, e)
      BY <1>4, <2>3, SendCSWKeeps, SendCSWSense
    <3>2. x.tx.csw.status = "PASSED"
      BY <3>1 DEF StatusSent
    <3> QED
      BY <1>2, <1>7, <3>1, <3>2
      DEF Granted, Admitted, Accepted, Due, SameUnit, SameSense, Popped, x
  <2>4. CASE x = e /\ e.state \in {"DATA_IN", "DATA_OUT", "LAST_DATA_IN"}
    BY <1>2, <1>7, <2>4
    DEF Granted, Admitted, Accepted, Due, SameSense, Popped, x
  <2> QED
    BY <2>1, <2>2, <2>3, <2>4
<1> QED
  BY <1>5, <1>6, <1>7

-----------------------------------------------------------------------------
(* The inductive invariants, in the terms of the lemmas: the handle d, the *)
(* queue q of completions, and the host in phase p of command c, whose     *)
(* last result is res.                                                     *)

\* What both rest on: the medium is started, the command is well formed, no
\* wrapper waits behind a halted endpoint, and a wrapper that data ran over
\* takes the tag of the status with it.
Steady(d, q, p, c) ==
  /\ d.started
  /\ c.op = "VERIFY10" => c.flag
  /\ p \in Moving => c.ok
  /\ OutQ(q) /\ d.state = "IDLE" /\ d.cbw.ok => ~d.halt_in
  /\ p \in Moving /\ ~d.cbw.ok => d.cbw.tag = JunkTag /\ d.csw.tag = JunkTag

\* A transfer in progress, and a status PASSED, belong to a command that was
\* accepted; a status FAILED, a halt, and data that finds a wrapper awaited,
\* to one that was rejected.
Judged(d, q, p, c, res) ==
  /\ p \in Moving =>
       /\ d.state = "DATA_OUT" => Accepted(d, c)
       /\ d.state \in InStates /\ (d.tx # NoXfer \/ InQ(q)) => Accepted(d, c)
       /\ d.tx.kind = "csw" /\ d.tx.csw.tag = c.tag =>
            /\ d.tx.csw.status = "PASSED" => Accepted(d, c)
            /\ d.tx.csw.status = "FAILED" => Rejected(d, c)
       /\ d.halt_in => Rejected(d, c)
       /\ p = "dataOut" /\ d.rx = "cbw" => Rejected(d, c)
       /\ OutQ(q) /\ d.state = "IDLE" /\ ~d.cbw.ok => Rejected(d, c)
  /\ p = "idle" =>
       /\ res = "PASSED" => Accepted(d, c)
       /\ res = "FAILED" => Rejected(d, c)

\* The sense list is empty, or holds one entry: the reason of the refusal.
Empty(d) == d.head = d.tail
One(d) == d.tail = (d.head + 1) % SenseDepth
Lone(d, c) == One(d) /\ (Due(d, c) => d.sense[d.head] = Refusal(c))

\* No data of the host has run over the wrapper, or is about to.
Clean(d, p) == d.cbw.ok /\ ~(p = "dataOut" /\ d.rx = "cbw")

\* Where the list is empty and where it holds the reason.  After a class reset
\* (RECOVERY) nothing is known of it, but no refusal is reported either: the
\* status FAILED then follows a medium that failed past its end.
Listed(d, q, c) ==
  /\ d.status = "NORMAL"
  /\ OutQ(q) /\ d.state = "IDLE" =>
       Empty(d) \/ (c.op = "REQUEST_SENSE" /\ One(d))
  /\ d.halt_in => Lone(d, c)
  /\ d.tx.kind = "csw" =>
       IF d.tx.csw.status = "FAILED" THEN Lone(d, c) ELSE Empty(d)
  /\ d.state \in InStates /\ (d.tx # NoXfer \/ InQ(q)) => Empty(d)
  /\ d.state = "DATA_OUT" => Empty(d)

Sensed(d, q, p, c, res) ==
  /\ p \in Moving /\ Clean(d, p) /\ d.status # "RECOVERY" => Listed(d, q, c)
  /\ p \in Moving /\ d.cbw.ok /\ d.status = "RECOVERY" /\ d.tx.kind = "csw"
       /\ d.tx.csw.tag = c.tag /\ d.tx.csw.status = "FAILED" => ~Due(d, c)
  /\ p \in Moving /\ ~d.cbw.ok /\ d.tx.kind = "csw" /\ d.tx.csw.tag = c.tag =>
       d.halt_in \/ (p = "dataOut" /\ OutQ(q))
  /\ p = "dataOut" /\ (~d.cbw.ok \/ d.rx = "cbw") => ~d.halt_out
  /\ p = "idle" /\ d.status # "RECOVERY" =>
       d.status = "NORMAL" /\ IF res = "FAILED" THEN Lone(d, c) ELSE Empty(d)
  /\ p = "idle" /\ d.status = "RECOVERY" /\ res = "FAILED" => ~Due(d, c)

-----------------------------------------------------------------------------
(* The data stages, and the requests of recovery.                          *)

\* A stage that fails with a medium that works has passed its end.
Overrun(e, d, c) ==
  /\ Fails(e, d) /\ c.lba + c.nblk > Capacity[c.lun]
  /\ \E asc \in SenseCodes : Noted(e, d, asc)

LEMMA OverrunNotes ==
  ASSUME NEW f \in DevType, NEW d \in DevType, NEW asc \in SenseCodes,
         SameUnit(f, d), f.written = d.written, SameSense(f, d),
         NEW c \in CBWType, NEW m \in 0 .. c.nblk, At(f, c, m),
         ~MediumDone(f, Packet(f), TRUE)
  PROVE  Overrun(MSC_BOT_SendCSW(Bad(f, asc).dev, "FAILED"), d, c)
<1> DEFINE s == Bad(f, asc).dev
           e == MSC_BOT_SendCSW(s, "FAILED")
<1>1. Fails(e, d)
  BY FailsKeeps
<1>2. s \in DevType /\ Noted(s, f, asc)
  BY BadType, BadNotes
<1>3. SameSense(e, s)
  BY <1>2, SendCSWSense
<1>4. Noted(e, d, asc)
  BY <1>2, <1>3 DEF Noted, SameSense
<1>5. ~(c.lba + c.nblk <= Capacity[c.lun])
  BY WithinMedium
<1>6. c.lba + c.nblk > Capacity[c.lun]
  BY <1>5, CBWFields, ConstantsAssumption
<1> QED
  BY <1>1, <1>4, <1>6 DEF Overrun

LEMMA ReadStage ==
  ASSUME NEW d \in DevType, NEW c \in CBWType, NEW m \in 0 .. c.nblk,
         At(d, c, m), d.state = "DATA_IN", c.op = "READ10"
  PROVE  LET e == MSC_BOT_DataIn(d, TRUE)
         IN  \/ Overrun(e, d, c)
             \/ /\ \E n \in 0 .. m : InFlight(e, c, m - n, n)
                /\ e.rx = d.rx /\ SameUnit(e, d) /\ SameSense(e, d)
<1> DEFINE f == [d EXCEPT !.data_length = MediaPacket]
           r == SCSI_ProcessRead(f, TRUE)
           e == MSC_BOT_DataIn(d, TRUE)
<1> SUFFICES \/ Overrun(e, d, c)
             \/ /\ \E n \in 0 .. m : InFlight(e, c, m - n, n)
                /\ e.rx = d.rx /\ SameUnit(e, d) /\ SameSense(e, d)
  OBVIOUS
<1>1. MediaPacket \in Nat
  BY ConstantsAssumption DEF MediaPacket
<1>2. /\ f \in DevType /\ SameUnit(f, d) /\ SameSense(f, d)
      /\ f.written = d.written /\ At(f, c, m)
  BY <1>1 DEF DevType, SameUnit, SameSense, At
<1>3. SCSI_ProcessCmd(d, TRUE) = r
  BY DEF SCSI_ProcessCmd, SCSI_Read10, At
<1> HIDE DEF f
<1>4. IF MediumDone(f, Packet(f), TRUE)
      THEN r.ret = 0 /\ SameSense(r.dev, f)
      ELSE r = Bad(f, "UNRECOVERED_READ_ERROR")
  BY <1>2, ProcessReadSense
<1>5. e = IF r.ret < 0 THEN MSC_BOT_SendCSW(r.dev, "FAILED") ELSE r.dev
  BY <1>3 DEF MSC_BOT_DataIn, ContinueOrFail
<1>6. \/ Fails(e, d)
      \/ /\ \E n \in 0 .. m : InFlight(e, c, m - n, n)
         /\ e.rx = d.rx /\ SameUnit(e, d)
  BY DataInMoves
<1>7. r = Bad(f, "UNRECOVERED_READ_ERROR") \/
        \E n \in 0 .. m : InFlight(r.dev, c, m - n, n)
  <2>1. f.state = "DATA_IN"
    BY DEF f, DevType
  <2> QED
    BY <1>2, <2>1, ProcessReadMoves
<1> HIDE DEF r, e
<1>8. CASE MediumDone(f, Packet(f), TRUE)
  <2>1. e = r.dev /\ r.ret = 0
    BY <1>4, <1>5, <1>8
  <2>2. SameSense(e, d)
    BY <1>2, <1>4, <1>8, <2>1 DEF SameSense
  <2>3. r # Bad(f, "UNRECOVERED_READ_ERROR")
    BY <2>1 DEF Bad
  <2>4. e.state # "IDLE"
    BY <1>7, <2>1, <2>3 DEF InFlight
  <2>5. ~Fails(e, d)
    BY <2>4 DEF Fails
  <2> QED
    BY <1>6, <2>2, <2>5
<1>9. CASE ~MediumDone(f, Packet(f), TRUE)
  <2> DEFINE b == Bad(f, "UNRECOVERED_READ_ERROR")
  <2>1. b.ret = -1
    BY DEF Bad
  <2>2. r = b
    BY <1>4, <1>9
  <2>3. e = MSC_BOT_SendCSW(b.dev, "FAILED")
    BY <1>5, <2>1, <2>2
  <2>4. "UNRECOVERED_READ_ERROR" \in SenseCodes
    BY DEF SenseCodes
  <2> QED
    BY <1>2, <1>9, <2>3, <2>4, OverrunNotes
<1> QED
  BY <1>8, <1>9

LEMMA WriteStage ==
  ASSUME NEW d \in DevType, NEW c \in CBWType, NEW m \in 0 .. c.nblk,
         At(d, c, m), Holds(d, c, m), d.state = "DATA_OUT", c.op = "WRITE10",
         d.written = WrittenTo(c, c.nblk - m)
  PROVE  LET e == MSC_BOT_DataOut(d, TRUE)
         IN  \/ Overrun(e, d, c)
             \/ /\ SameUnit(e, d) /\ SameSense(e, d)
                /\ \/ /\ m = Min2(m, Slots)
                      /\ e.state = "IDLE" /\ e.rx = "cbw" /\ e.tx.kind = "csw"
                      /\ e.tx.csw.status = "PASSED"
                   \/ e.state = "DATA_OUT" /\ e.rx = "data" /\ e.tx = d.tx
<1> DEFINE r == SCSI_ProcessWrite(d, TRUE)
           e == MSC_BOT_DataOut(d, TRUE)
<1> SUFFICES \/ Overrun(e, d, c)
             \/ /\ SameUnit(e, d) /\ SameSense(e, d)
                /\ \/ /\ m = Min2(m, Slots)
                      /\ e.state = "IDLE" /\ e.rx = "cbw" /\ e.tx.kind = "csw"
                      /\ e.tx.csw.status = "PASSED"
                   \/ e.state = "DATA_OUT" /\ e.rx = "data" /\ e.tx = d.tx
  OBVIOUS
<1>1. SCSI_ProcessCmd(d, TRUE) = r
  BY DEF SCSI_ProcessCmd, SCSI_Write10, At
<1>2. IF MediumDone(d, Packet(d), TRUE)
      THEN r.ret = 0 /\ SameSense(r.dev, d) ELSE r = Bad(d, "WRITE_FAULT")
  BY ProcessWriteSense
<1>3. e = IF r.ret < 0 THEN MSC_BOT_SendCSW(r.dev, "FAILED") ELSE r.dev
  BY <1>1 DEF MSC_BOT_DataOut, ContinueOrFail
<1>4. \/ r = Bad(d, "WRITE_FAULT")
      \/ /\ SameUnit(r.dev, d)
         /\ \/ /\ m = Min2(m, Slots) /\ r.dev.state = "IDLE"
               /\ r.dev.rx = "cbw" /\ r.dev.tx = StatusSent(r.dev, "PASSED")
            \/ Awaits(r.dev, c, m - Min2(m, Slots)) /\ r.dev.tx = d.tx
  BY ProcessWriteMoves
<1> HIDE DEF r, e
<1>5. CASE MediumDone(d, Packet(d), TRUE)
  <2>1. e = r.dev /\ r.ret = 0 /\ SameSense(e, d)
    BY <1>2, <1>3, <1>5
  <2>2. r # Bad(d, "WRITE_FAULT")
    BY <2>1 DEF Bad
  <2>3. e.tx = StatusSent(e, "PASSED") =>
          e.tx.kind = "csw" /\ e.tx.csw.status = "PASSED"
    BY DEF StatusSent
  <2>4. ASSUME Awaits(e, c, m - Min2(m, Slots))
        PROVE  e.state = "DATA_OUT" /\ e.rx = "data"
    BY <2>4 DEF Awaits
  <2> QED
    BY <1>4, <2>1, <2>2, <2>3, <2>4
<1>6. CASE ~MediumDone(d, Packet(d), TRUE)
  <2> DEFINE b == Bad(d, "WRITE_FAULT")
  <2>1. e = MSC_BOT_SendCSW(b.dev, "FAILED")
    <3>1. b.ret = -1
      BY DEF Bad
    <3> QED
      BY <1>2, <1>3, <1>6, <3>1
  <2>2. "WRITE_FAULT" \in SenseCodes /\ SameUnit(d, d) /\ SameSense(d, d)
    BY DEF SenseCodes, SameUnit, SameSense
  <2> QED
    BY <1>6, <2>1, <2>2, OverrunNotes
<1> QED
  BY <1>5, <1>6

\* A wrapper that fails its check leaves its tag in the status.
LEMMA DecodeBadSense ==
  ASSUME NEW d0 \in DevType, ~d0.cbw.ok
  PROVE  LET e == MSC_BOT_CBW_Decode(d0, TRUE)
         IN  e.started = d0.started /\ e.csw.tag = d0.cbw.tag
<1> DEFINE d == [d0 EXCEPT !.csw.tag = d0.cbw.tag, !.csw.residue = d0.cbw.dlen]
           s == SCSI_SenseCode(d, "INVALID_CDB")
           z == [s EXCEPT !.status = "ERROR"]
           e == MSC_BOT_CBW_Decode(d0, TRUE)
<1> SUFFICES e.started = d0.started /\ e.csw.tag = d0.cbw.tag
  OBVIOUS
<1>1. d0.csw \in CSWType /\ d0.cbw.tag \in Tags \cup {JunkTag}
      /\ d0.cbw.dlen \in Int
  BY Fields, CBWFields
<1>2. d \in DevType
  <2>1. [d0.csw EXCEPT !.tag = d0.cbw.tag, !.residue = d0.cbw.dlen] \in CSWType
    BY <1>1 DEF CSWType
  <2> QED
    BY <2>1 DEF DevType
<1>3. d.started = d0.started /\ d.csw.tag = d0.cbw.tag /\ ~d.cbw.ok
  <2>1. d.csw = [d0.csw EXCEPT !.tag = d0.cbw.tag, !.residue = d0.cbw.dlen]
    BY DEF DevType
  <2> DEFINE w == d0.csw
  <2>2. w \in CSWType
    BY <1>1
  <2>3. d.started = d0.started /\ ~d.cbw.ok
    BY DEF DevType
  <2> HIDE DEF w, d
  <2>4. d.csw = [w EXCEPT !.tag = d0.cbw.tag, !.residue = d0.cbw.dlen]
    BY <2>1 DEF w
  <2>5. d.csw.tag = d0.cbw.tag
    BY <2>2, <2>4 DEF CSWType
  <2> QED
    BY <2>3, <2>5
<1>4. e = MSC_BOT_Abort(z)
  BY <1>3 DEF MSC_BOT_CBW_Decode
<1> HIDE DEF d, e
<1>5. s \in DevType /\ s.started = d.started /\ s.csw = d.csw
  <2>1. "INVALID_CDB" \in SenseCodes
    BY DEF SenseCodes
  <2>2. s \in DevType
    BY <1>2, <2>1, SenseCodeType
  <2>3. s.started = d.started /\ s.csw = d.csw
    BY <1>2 DEF SCSI_SenseCode, DevType
  <2> QED
    BY <2>2, <2>3
<1> HIDE DEF s
<1>6. z \in DevType /\ z.started = s.started /\ z.csw = s.csw
  BY <1>5 DEF DevType
<1> HIDE DEF z
<1>7. e.csw = z.csw /\ e.started = z.started
  BY <1>4, <1>6, AbortKeeps, AbortSense DEF SameSense, SameTransfer
<1> QED
  BY <1>3, <1>5, <1>6, <1>7

LEMMA ResetSense ==
  ASSUME NEW d \in DevType
  PROVE  LET e == MSC_BOT_Reset(d)
         IN  SameSense(e, d) /\ e.status = "RECOVERY"
BY DEF MSC_BOT_Reset, USBD_LL_PrepareReceive, DevType, SameSense

\* Clearing a halt leaves the sense list alone; what it sends has the tag of
\* the last status, and ERROR ends as a halt.
LEMMA ClearFeatureSense ==
  ASSUME NEW d \in DevType, NEW ep \in {"in", "out"}
  PROVE  LET e == ClearFeature(d, ep)
         IN  /\ SameSense(e, d) /\ e.csw.tag = d.csw.tag /\ e.cbw = d.cbw
             /\ e.tx \in {d.tx, NoXfer} \/ e.tx.csw.tag = d.csw.tag
             /\ d.status = "ERROR" => e.halt_in /\ e.status = "NORMAL"
             /\ d.status # "ERROR" =>
                  /\ e.status = d.status
                  /\ e.halt_in <=> ep = "out" /\ d.halt_in
             /\ d.status = "NORMAL" /\ ep = "in" =>
                  /\ Fails(e, [d EXCEPT !.halt_in = FALSE])
                  /\ e.tx.csw.tag = d.csw.tag
             /\ d.status # "NORMAL" /\ ep = "in" => e.tx = NoXfer
<1> DEFINE c == IF ep = "in" THEN [d EXCEPT !.halt_in = FALSE]
                             ELSE [d EXCEPT !.halt_out = FALSE]
           f == USBD_LL_FlushEP(c, ep)
           h == [f EXCEPT !.halt_in = TRUE, !.status = "NORMAL"]
           b == MSC_BOT_SendCSW(f, "FAILED")
           e == ClearFeature(d, ep)
<1> SUFFICES /\ SameSense(e, d) /\ e.csw.tag = d.csw.tag /\ e.cbw = d.cbw
             /\ e.tx \in {d.tx, NoXfer} \/ e.tx.csw.tag = d.csw.tag
             /\ d.status = "ERROR" => e.halt_in /\ e.status = "NORMAL"
             /\ d.status # "ERROR" =>
                  /\ e.status = d.status
                  /\ e.halt_in <=> ep = "out" /\ d.halt_in
             /\ d.status = "NORMAL" /\ ep = "in" =>
                  /\ Fails(e, [d EXCEPT !.halt_in = FALSE])
                  /\ e.tx.csw.tag = d.csw.tag
             /\ d.status # "NORMAL" /\ ep = "in" => e.tx = NoXfer
  OBVIOUS
<1>1. /\ f \in DevType /\ SameSense(f, d) /\ f.csw = d.csw /\ f.cbw = d.cbw
      /\ f.status = d.status /\ f.tx \in {d.tx, NoXfer}
      /\ f.halt_in <=> ep = "out" /\ d.halt_in
      /\ ep = "in" => f.tx = NoXfer
  <2>1. c \in DevType
    BY DEF DevType
  <2>2. /\ SameSense(c, d) /\ c.csw = d.csw /\ c.cbw = d.cbw
        /\ c.status = d.status /\ c.tx = d.tx
        /\ c.halt_in <=> ep = "out" /\ d.halt_in
    BY DEF DevType, SameSense
  <2> HIDE DEF c
  <2>3. f \in DevType
    BY <2>1, FlushEPType
  <2>4. /\ SameSense(f, c) /\ f.csw = c.csw /\ f.cbw = c.cbw
        /\ f.status = c.status /\ f.tx \in {c.tx, NoXfer}
        /\ f.halt_in = c.halt_in
        /\ ep = "in" => f.tx = NoXfer
    BY <2>1 DEF USBD_LL_FlushEP, DevType, SameSense
  <2> HIDE DEF f
  <2> QED
    BY <2>2, <2>3, <2>4 DEF SameSense
<1>2. e = CASE f.status = "ERROR" -> h
            [] f.status # "ERROR" /\ ep = "in" /\ f.status # "RECOVERY" -> b
            [] OTHER -> f
  BY DEF ClearFeature, MSC_BOT_CplClrFeature
<1> HIDE DEF f, e
<1>3. /\ h \in DevType /\ SameSense(h, f) /\ h.csw = f.csw /\ h.cbw = f.cbw
      /\ h.tx = f.tx /\ h.halt_in /\ h.status = "NORMAL"
  BY <1>1 DEF DevType, SameSense
<1>4. /\ SameSense(b, f) /\ SameUnit(b, f) /\ b.csw.tag = f.csw.tag
      /\ b.tx.csw.tag = f.csw.tag
  <2>1. b.tx = StatusSent(f, "FAILED") /\ SameUnit(b, f)
        /\ b.csw.tag = f.csw.tag
    BY <1>1, SendCSWKeeps DEF SameTransfer
  <2>2. SameSense(b, f)
    BY <1>1, SendCSWSense
  <2>3. b.tx.csw.tag = f.csw.tag
    BY <2>1 DEF StatusSent
  <2> QED
    BY <2>1, <2>2, <2>3
<1> HIDE DEF h, b
<1>5. CASE f.status = "ERROR"
  <2>1. e = h
    BY <1>2, <1>5
  <2> QED
    BY <1>1, <1>3, <1>5, <2>1 DEF SameSense, e
<1>6. CASE f.status # "ERROR" /\ ep = "in" /\ f.status # "RECOVERY"
  <2>1. e = b
    BY <1>2, <1>6
  <2>2. Fails(e, [d EXCEPT !.halt_in = FALSE])
    <3>1. b.state = "IDLE" /\ b.rx = "cbw" /\ b.tx = StatusSent(f, "FAILED")
          /\ b.written = f.written
      BY <1>1, SendCSWKeeps DEF b, SameTransfer
    <3>2. SameUnit(f, [d EXCEPT !.halt_in = FALSE]) /\ f.written = d.written
      BY <1>6 DEF f, USBD_LL_FlushEP, DevType, SameUnit
    <3>3. [d EXCEPT !.halt_in = FALSE].written = d.written
      BY DEF DevType
    <3>4. b.tx.kind = "csw" /\ b.tx.csw.status = "FAILED"
      BY <3>1 DEF StatusSent
    <3> QED
      BY <1>4, <2>1, <3>1, <3>2, <3>3, <3>4 DEF Fails, SameUnit
  <2>3. d.status = "NORMAL"
    BY <1>1, <1>6 DEF DevType
  <2> QED
    BY <1>1, <1>4, <1>6, <2>1, <2>2, <2>3 DEF SameSense, SameUnit, e
<1>7. CASE ~(f.status = "ERROR")
           /\ ~(f.status # "ERROR" /\ ep = "in" /\ f.status # "RECOVERY")
  <2>1. e = f
    BY <1>2, <1>7
  <2> QED
    BY <1>1, <1>7, <2>1 DEF e
<1> QED
  BY <1>5, <1>6, <1>7

-----------------------------------------------------------------------------
(* What the completion handlers do, in the terms of the invariants.        *)

Finished(e) ==
  e.state = "IDLE" /\ e.tx.kind = "csw" /\ e.tx.csw.status = "PASSED"

\* The IN completion: no one waited for it, the transfer has passed its end,
\* is over, or goes on.
InOutcome(e, d, q, r, p, c) ==
  /\ InQ(q) /\ ~InQ(r) /\ (OutQ(r) <=> OutQ(q))
  /\ \/ e = d
     \/ /\ d.state \in InStates /\ ~OutQ(q) /\ p \in {"dataIn", "status", "reset"}
        /\ \/ Overrun(e, d, c) /\ d.cbw = c /\ c.op \in BlockOps
           \/ /\ SameUnit(e, d) /\ SameSense(e, d)
              /\ \/ /\ Finished(e)
                    /\ e.csw.tag = d.csw.tag /\ e.tx.csw.tag = d.csw.tag
                 \/ /\ e.state \in InStates /\ e.tx.kind # "csw"
                    /\ d.cbw = c

\* A good wrapper is decoded.
Decoded(e, d, p, c) ==
  /\ d.state = "IDLE" /\ d.cbw = c /\ c.ok /\ d.tx = NoXfer /\ ~d.halt_out
  /\ p \in {DataPhase(c), "reset"} /\ e.cbw = c
  /\ \/ Dismissed(e, d, c)
     \/ /\ Admitted(e, d, c)
        /\ \/ Finished(e) /\ p # "dataOut"
           \/ e.state \in InStates /\ e.tx.kind # "csw" /\ e.rx = "none"
           \/ e.state = "DATA_OUT" /\ e.tx = NoXfer /\ e.rx = "data"

\* A wrapper that data ran over is refused, whatever it was.
Unread(e, d) ==
  /\ d.state = "IDLE" /\ ~d.cbw.ok
  /\ e.state = "IDLE" /\ e.tx = d.tx /\ e.cbw = d.cbw /\ e.halt_in
  /\ e.halt_out = d.halt_out /\ e.blk_nbr = d.blk_nbr
  /\ e.csw.tag = d.cbw.tag /\ e.started = d.started

\* The blocks that came are written.
Stored(e, d, p, c) ==
  /\ d.state = "DATA_OUT" /\ d.cbw = c /\ d.tx = NoXfer /\ ~d.halt_out
  /\ \/ Overrun(e, d, c) /\ c.op \in BlockOps
     \/ /\ SameUnit(e, d) /\ SameSense(e, d)
        /\ \/ Finished(e) /\ p # "dataOut"
           \/ e.state = "DATA_OUT" /\ e.tx = NoXfer /\ e.rx = "data"

OutOutcome(e, d, q, r, p, c) ==
  /\ OutQ(q) /\ ~OutQ(r) /\ (InQ(r) => InQ(q)) /\ d.rx = "none"
  /\ p \in Moving \cup {"reset"}
  /\ \/ e = d /\ d.tx.kind # "csw"
     \/ Decoded(e, d, p, c) /\ ~InQ(r)
     \/ Unread(e, d)
     \/ Stored(e, d, p, c) /\ ~InQ(r)

\* An accepted transfer can only pass its end when another unit's capacity
\* was the last one asked for.
LEMMA OverrunNotDue ==
  ASSUME NEW e, NEW d, NEW c \in CBWType, Overrun(e, d, c), c.op \in BlockOps,
         Accepted(d, c)
  PROVE  ~Due(d, c) /\ ~Due(e, c)
<1>1. Refusal(c) # "NONE"
  <2>1. c.lba + c.nblk > Capacity[c.lun]
    BY DEF Overrun
  <2>2. c.dir \in {"in", "out"}
    BY DEF CBWType
  <2> QED
    BY <2>1, <2>2 DEF Refusal, BlockOps
<1>2. ~Due(d, c)
  BY <1>1 DEF Accepted
<1> QED
  BY <1>2 DEF Overrun, Fails, SameUnit, Due

LEMMA InOutcomeVerdicts ==
  ASSUME NEW d \in DevType, NEW e \in DevType, NEW q, NEW r, NEW p,
         NEW c \in CBWType, NEW res, InOutcome(e, d, q, r, p, c),
         Steady(d, q, p, c), Judged(d, q, p, c, res)
  PROVE  Steady(e, r, p, c) /\ Judged(e, r, p, c, res)
<1>1. CASE e = d
  BY <1>1 DEF InOutcome, Steady, Judged
<1>2. CASE e # d
  <2>1. /\ d.state \in InStates /\ ~OutQ(r) /\ p \in {"dataIn", "status", "reset"}
        /\ InQ(q) /\ ~InQ(r)
    BY <1>2 DEF InOutcome
  <2>2. p # "reset" => Accepted(d, c) /\ p \in Moving
    BY <2>1 DEF Judged, Moving
  <2>3. CASE Overrun(e, d, c) /\ d.cbw = c /\ c.op \in BlockOps
    <3>1. /\ e.state = "IDLE" /\ e.tx.kind = "csw" /\ e.tx.csw.status = "FAILED"
          /\ SameUnit(e, d) /\ e.started = d.started
      BY <2>3 DEF Overrun, Fails, Noted
    <3>2. Steady(e, r, p, c)
      BY <2>1, <2>3, <3>1 DEF Steady, SameUnit
    <3>3. p # "reset" => ~Due(e, c)
      BY <2>2, <2>3, OverrunNotDue
    <3>4. Judged(e, r, p, c, res)
      BY <2>1, <3>1, <3>3 DEF Judged, Moving, Rejected, InStates
    <3> QED
      BY <3>2, <3>4
  <2>4. CASE SameUnit(e, d) /\ SameSense(e, d) /\ Finished(e)
             /\ e.csw.tag = d.csw.tag
    <3>1. Steady(e, r, p, c)
      BY <2>1, <2>4 DEF Steady, SameUnit, SameSense
    <3>2. p # "reset" => Accepted(e, c) /\ (e.halt_in => Rejected(e, c))
      BY <2>1, <2>2, <2>4 DEF Judged, Accepted, Rejected, Due, SameUnit
    <3>3. Judged(e, r, p, c, res)
      BY <2>1, <2>4, <3>2 DEF Judged, Moving, InStates, Finished
    <3> QED
      BY <3>1, <3>3
  <2>5. CASE SameUnit(e, d) /\ SameSense(e, d) /\ e.state \in InStates
             /\ e.tx.kind # "csw" /\ d.cbw = c
    <3>1. Steady(e, r, p, c)
      BY <2>1, <2>5 DEF Steady, SameUnit, SameSense
    <3>2. p # "reset" => Accepted(e, c) /\ (e.halt_in => Rejected(e, c))
      BY <2>1, <2>2, <2>5 DEF Judged, Accepted, Rejected, Due, SameUnit
    <3>3. Judged(e, r, p, c, res)
      BY <2>1, <2>5, <3>2 DEF Judged, Moving, InStates
    <3> QED
      BY <3>1, <3>3
  <2> QED
    BY <1>2, <2>3, <2>4, <2>5 DEF InOutcome
<1> QED
  BY <1>1, <1>2

LEMMA InOutcomeSensed ==
  ASSUME NEW d \in DevType, NEW e \in DevType, NEW q, NEW r, NEW p,
         NEW c \in CBWType, NEW res, InOutcome(e, d, q, r, p, c),
         Steady(d, q, p, c), Judged(d, q, p, c, res), Sensed(d, q, p, c, res),
         p \in Moving => c.tag # JunkTag
  PROVE  Sensed(e, r, p, c, res)
<1>1. CASE e = d
  <2>1. Listed(d, q, c) => Listed(d, r, c)
    BY DEF InOutcome, Listed
  <2>2. p = "dataOut" /\ OutQ(q) => OutQ(r)
    BY DEF InOutcome
  <2> QED
    BY <1>1, <2>1, <2>2 DEF Sensed
<1>2. CASE e # d
  <2>1. /\ d.state \in InStates /\ ~OutQ(r) /\ p \in {"dataIn", "status", "reset"}
        /\ InQ(q) /\ ~InQ(r)
    BY <1>2 DEF InOutcome
  <2>2. p # "reset" => Accepted(d, c) /\ p \in Moving
    BY <2>1 DEF Judged, Moving
  <2>3. /\ p # "reset" /\ d.cbw.ok /\ d.status # "RECOVERY" =>
             Listed(d, q, c) /\ Empty(d)
        /\ Clean(e, p) => e.cbw.ok
    BY <2>1, <2>2 DEF Sensed, Clean, Listed
  <2>4. CASE Overrun(e, d, c) /\ d.cbw = c /\ c.op \in BlockOps
    <3>1. /\ e.state = "IDLE" /\ e.tx.kind = "csw" /\ e.tx.csw.status = "FAILED"
          /\ SameUnit(e, d) /\ e.head = d.head
          /\ e.tail = (d.tail + 1) % SenseDepth
      BY <2>4 DEF Overrun, Fails, Noted
    <3>2. p # "reset" => ~Due(e, c)
      BY <2>2, <2>4, OverrunNotDue
    <3>3. p # "reset" => c.ok
      BY <2>2 DEF Steady
    <3>4. p # "reset" /\ e.status # "RECOVERY" => Lone(e, c) /\ Listed(d, q, c)
      BY <2>3, <2>4, <3>1, <3>2, <3>3 DEF Lone, One, Empty, SameUnit
    <3>5. p # "reset" /\ e.status # "RECOVERY" => Listed(e, r, c)
      BY <2>1, <3>1, <3>4 DEF Listed, InStates, SameUnit
    <3> QED
      BY <2>1, <2>4, <3>1, <3>2, <3>3, <3>5 DEF Sensed, Moving, SameUnit
  <2>5. CASE SameUnit(e, d) /\ SameSense(e, d) /\ Finished(e)
             /\ e.tx.csw.tag = d.csw.tag
    <3>1. p # "reset" /\ e.cbw.ok /\ e.status # "RECOVERY" => Listed(e, r, c)
      BY <2>1, <2>3, <2>5
      DEF Listed, InStates, SameUnit, SameSense, Empty, Lone, One, Finished, Due
    <3>2. p # "reset" /\ ~e.cbw.ok => e.tx.csw.tag # c.tag
      BY <2>2, <2>5 DEF Steady, SameUnit
    <3> QED
      BY <2>1, <2>3, <2>5, <3>1, <3>2 DEF Sensed, Moving, Finished
  <2>6. CASE SameUnit(e, d) /\ SameSense(e, d) /\ e.state \in InStates
             /\ e.tx.kind # "csw"
    <3>1. p # "reset" /\ e.cbw.ok /\ e.status # "RECOVERY" => Listed(e, r, c)
      BY <2>1, <2>3, <2>6
      DEF Listed, InStates, SameUnit, SameSense, Empty, Lone, One, Due
    <3> QED
      BY <2>1, <2>3, <2>6, <3>1 DEF Sensed, Moving
  <2> QED
    BY <1>2, <2>4, <2>5, <2>6 DEF InOutcome
<1> QED
  BY <1>1, <1>2

LEMMA OutOutcomeVerdicts ==
  ASSUME NEW d \in DevType, NEW e \in DevType, NEW q, NEW r, NEW p,
         NEW c \in CBWType, NEW res, OutOutcome(e, d, q, r, p, c),
         Steady(d, q, p, c), Judged(d, q, p, c, res)
  PROVE  Steady(e, r, p, c) /\ Judged(e, r, p, c, res)
<1>1. /\ OutQ(q) /\ ~OutQ(r) /\ (InQ(r) => InQ(q)) /\ d.rx = "none"
      /\ p \in Moving \cup {"reset"} /\ p # "idle"
  BY DEF OutOutcome, Moving
<1>2. NoXfer.kind # "csw"
  BY DEF NoXfer
<1>3. CASE e = d
  BY <1>1, <1>3 DEF Steady, Judged
<1>4. CASE Decoded(e, d, p, c) /\ ~InQ(r)
  <2>1. d.state = "IDLE" /\ d.cbw = c /\ c.ok /\ d.tx = NoXfer /\ e.cbw = c
        /\ ~d.halt_in
    BY <1>1, <1>4 DEF Decoded, Steady
  <2>2. CASE Dismissed(e, d, c)
    <3>1. e.started /\ e.halt_in /\ e.state \in {"IDLE", "DATA_IN"}
          /\ e.tx = NoXfer
      BY <2>1, <2>2 DEF Dismissed, Noted, Steady
    <3>2. Rejected(e, c)
      BY <2>2 DEF Dismissed, Rejected
    <3>3. Steady(e, r, p, c)
      BY <1>1, <2>1, <3>1 DEF Steady
    <3>4. Judged(e, r, p, c, res)
      BY <1>1, <1>2, <1>4, <2>1, <3>1, <3>2 DEF Judged, InStates
    <3> QED
      BY <3>3, <3>4
  <2>3. CASE /\ Admitted(e, d, c)
             /\ \/ Finished(e) /\ p # "dataOut"
                \/ e.state \in InStates /\ e.tx.kind # "csw" /\ e.rx = "none"
                \/ e.state = "DATA_OUT" /\ e.tx = NoXfer /\ e.rx = "data"
    <3>1. e.started /\ ~e.halt_in /\ Accepted(e, c)
      BY <2>1, <2>3 DEF Admitted, Popped, SameSense, Steady
    <3>2. Steady(e, r, p, c)
      BY <1>1, <2>1, <3>1 DEF Steady
    <3>3. Judged(e, r, p, c, res)
      BY <1>1, <1>2, <2>1, <2>3, <3>1 DEF Judged, Finished, InStates
    <3> QED
      BY <3>2, <3>3
  <2> QED
    BY <1>4, <2>2, <2>3 DEF Decoded
<1>5. CASE Unread(e, d)
  <2>1. p # "reset" => Rejected(d, c) /\ p \in Moving
    BY <1>1, <1>5 DEF Judged, Unread
  <2>2. p # "reset" => Rejected(e, c)
    BY <1>5, <2>1 DEF Rejected, Due, Unread
  <2>3. p # "reset" => (e.tx.csw.status = "PASSED" /\ e.tx.kind = "csw"
                          /\ e.tx.csw.tag = c.tag => Accepted(e, c))
    BY <1>5, <2>1 DEF Judged, Accepted, Due, Unread
  <2>4. Steady(e, r, p, c)
    BY <1>1, <1>5 DEF Steady, Unread
  <2>5. Judged(e, r, p, c, res)
    BY <1>1, <1>5, <2>2, <2>3 DEF Judged, Unread, InStates, Moving
  <2> QED
    BY <2>4, <2>5
<1>6. CASE Stored(e, d, p, c) /\ ~InQ(r)
  <2>1. d.state = "DATA_OUT" /\ d.cbw = c /\ d.tx = NoXfer
    BY <1>6 DEF Stored
  <2>2. p # "reset" => Accepted(d, c) /\ p \in Moving
    BY <1>1, <2>1 DEF Judged
  <2>3. CASE Overrun(e, d, c) /\ c.op \in BlockOps
    <3>1. /\ e.state = "IDLE" /\ e.tx.kind = "csw" /\ e.tx.csw.status = "FAILED"
          /\ SameUnit(e, d) /\ e.started = d.started
      BY <2>3 DEF Overrun, Fails, Noted
    <3>2. Steady(e, r, p, c)
      BY <1>1, <2>1, <3>1 DEF Steady, SameUnit
    <3>3. p # "reset" => ~Due(e, c)
      BY <2>2, <2>3, OverrunNotDue
    <3>4. Judged(e, r, p, c, res)
      BY <1>1, <3>1, <3>3 DEF Judged, Moving, Rejected, InStates
    <3> QED
      BY <3>2, <3>4
  <2>4. CASE /\ SameUnit(e, d) /\ SameSense(e, d)
             /\ \/ Finished(e) /\ p # "dataOut"
                \/ e.state = "DATA_OUT" /\ e.tx = NoXfer /\ e.rx = "data"
    <3>1. Steady(e, r, p, c)
      BY <1>1, <2>1, <2>4 DEF Steady, SameUnit, SameSense
    <3>2. p # "reset" => Accepted(e, c) /\ (e.halt_in => Rejected(e, c))
      BY <1>1, <2>2, <2>4 DEF Judged, Accepted, Rejected, Due, SameUnit
    <3>3. Judged(e, r, p, c, res)
      BY <1>1, <1>2, <2>4, <3>2 DEF Judged, Moving, InStates, Finished
    <3> QED
      BY <3>1, <3>3
  <2> QED
    BY <1>6, <2>3, <2>4 DEF Stored
<1> QED
  BY <1>3, <1>4, <1>5, <1>6 DEF OutOutcome

\* REQUEST SENSE takes the one entry there is.
LEMMA PoppedEmpties ==
  ASSUME NEW d, NEW e, Popped(e, d), Empty(d) \/ One(d)
  PROVE  Empty(e)
BY DEF Popped, Empty, One

LEMMA OutOutcomeSensed ==
  ASSUME NEW d \in DevType, NEW e \in DevType, NEW q, NEW r, NEW p,
         NEW c \in CBWType, NEW res, OutOutcome(e, d, q, r, p, c),
         Steady(d, q, p, c), Judged(d, q, p, c, res), Sensed(d, q, p, c, res)
  PROVE  Sensed(e, r, p, c, res)
<1>1. /\ OutQ(q) /\ ~OutQ(r) /\ (InQ(r) => InQ(q)) /\ d.rx = "none"
      /\ p \in Moving \cup {"reset"} /\ p # "idle"
      /\ p \in Moving <=> p # "reset"
  BY DEF OutOutcome, Moving
<1>2. NoXfer.kind # "csw"
  BY DEF NoXfer
<1>3. CASE e = d /\ d.tx.kind # "csw"
  <2>1. Listed(d, q, c) => Listed(d, r, c)
    BY <1>1 DEF Listed
  <2> QED
    BY <1>1, <1>3, <2>1 DEF Sensed
<1>4. CASE Decoded(e, d, p, c) /\ ~InQ(r)
  <2>1. d.state = "IDLE" /\ d.cbw = c /\ c.ok /\ d.tx = NoXfer /\ e.cbw = c
        /\ ~d.halt_in /\ Clean(d, p)
    BY <1>1, <1>4 DEF Decoded, Steady, Clean
  <2>2. p # "reset" /\ d.status # "RECOVERY" =>
          /\ d.status = "NORMAL"
          /\ Empty(d) \/ (c.op = "REQUEST_SENSE" /\ One(d))
    BY <1>1, <2>1 DEF Sensed, Listed
  <2>3. CASE Dismissed(e, d, c)
    <3>1. e.halt_in /\ e.state \in {"IDLE", "DATA_IN"} /\ e.tx = NoXfer
          /\ e.status = d.status
      BY <2>1, <2>3 DEF Dismissed
    <3>2. p # "reset" => e.rx = "none"
      BY <1>1, <2>2, <2>3 DEF Dismissed
    <3>3. p # "reset" /\ e.status # "RECOVERY" => Lone(e, c)
      <4> SUFFICES ASSUME p # "reset", e.status # "RECOVERY" PROVE Lone(e, c)
        OBVIOUS
      <4>1. d.head = d.tail
        BY <2>2, <2>3, <3>1 DEF Dismissed, Empty
      <4>2. PICK asc \in SenseCodes :
              /\ Noted(e, d, asc)
              /\ Due(e, c) => Refusal(c) = asc /\ asc # "NONE"
        BY <2>3 DEF Dismissed
      <4>3. d.tail \in 0 .. SenseDepth - 1
            /\ d.sense \in [0 .. SenseDepth - 1 -> SenseCodes]
        BY DEF DevType
      <4>4. e.sense[e.head] = asc /\ One(e)
        BY <4>1, <4>2, <4>3 DEF Noted, One
      <4> QED
        BY <4>2, <4>4 DEF Lone
    <3>4. p # "reset" /\ e.status # "RECOVERY" => Listed(e, r, c)
      BY <1>1, <1>2, <1>4, <2>2, <3>1, <3>3 DEF Listed, InStates
    <3> QED
      BY <1>1, <1>2, <2>1, <3>1, <3>2, <3>4 DEF Sensed
  <2>4. CASE /\ Admitted(e, d, c)
             /\ \/ Finished(e) /\ p # "dataOut"
                \/ e.state \in InStates /\ e.tx.kind # "csw" /\ e.rx = "none"
                \/ e.state = "DATA_OUT" /\ e.tx = NoXfer /\ e.rx = "data"
    <3>1. e.status = d.status /\ ~e.halt_in
      BY <2>1, <2>4 DEF Admitted
    <3>2. p # "reset" /\ e.status # "RECOVERY" => Empty(e)
      BY <2>2, <2>4, <3>1, PoppedEmpties DEF Admitted, SameSense, Empty
    <3>3. e.tx.kind = "csw" => e.tx.csw.status = "PASSED"
      BY <1>2, <2>4 DEF Finished
    <3>4. p # "reset" /\ e.status # "RECOVERY" => Listed(e, r, c)
      BY <1>1, <2>2, <3>1, <3>2, <3>3 DEF Listed
    <3>5. p = "dataOut" => e.rx # "cbw"
      BY <2>4
    <3> QED
      BY <1>1, <2>1, <3>3, <3>4, <3>5 DEF Sensed
  <2> QED
    BY <1>4, <2>3, <2>4 DEF Decoded
<1>5. CASE Unread(e, d)
  <2>1. ~e.cbw.ok /\ e.halt_in /\ e.halt_out = d.halt_out /\ ~d.cbw.ok
    BY <1>5 DEF Unread
  <2> QED
    BY <1>1, <2>1 DEF Sensed, Clean
<1>6. CASE Stored(e, d, p, c) /\ ~InQ(r)
  <2>1. d.state = "DATA_OUT" /\ d.cbw = c /\ d.tx = NoXfer /\ ~d.halt_out
    BY <1>6 DEF Stored
  <2>2. p # "reset" => Accepted(d, c) /\ p \in Moving /\ c.ok
    BY <1>1, <2>1 DEF Judged, Steady
  <2>3. p # "reset" /\ d.status # "RECOVERY" => Listed(d, q, c) /\ Empty(d)
    BY <1>1, <2>1, <2>2 DEF Sensed, Clean, Listed
  <2>4. CASE Overrun(e, d, c) /\ c.op \in BlockOps
    <3>1. /\ e.state = "IDLE" /\ e.tx.kind = "csw" /\ e.tx.csw.status = "FAILED"
          /\ SameUnit(e, d) /\ e.head = d.head
          /\ e.tail = (d.tail + 1) % SenseDepth
      BY <2>4 DEF Overrun, Fails, Noted
    <3>2. p # "reset" => ~Due(e, c)
      BY <2>2, <2>4, OverrunNotDue
    <3>3. p # "reset" /\ e.status # "RECOVERY" => Lone(e, c) /\ Listed(d, q, c)
      BY <2>3, <3>1, <3>2 DEF Lone, One, Empty, SameUnit
    <3>4. p # "reset" /\ e.status # "RECOVERY" => Listed(e, r, c)
      BY <1>1, <3>1, <3>3 DEF Listed, InStates, SameUnit
    <3> QED
      BY <1>1, <2>1, <2>2, <3>1, <3>2, <3>4 DEF Sensed, SameUnit
  <2>5. CASE /\ SameUnit(e, d) /\ SameSense(e, d)
             /\ \/ Finished(e) /\ p # "dataOut"
                \/ e.state = "DATA_OUT" /\ e.tx = NoXfer /\ e.rx = "data"
    <3>1. e.tx.kind = "csw" => e.tx.csw.status = "PASSED"
      BY <1>2, <2>5 DEF Finished
    <3>2. p # "reset" /\ e.status # "RECOVERY" => Listed(e, r, c)
      BY <1>1, <2>3, <2>5, <3>1
      DEF Listed, SameUnit, SameSense, Empty, Lone, One, Due
    <3>3. p = "dataOut" => e.rx # "cbw"
      BY <2>5
    <3> QED
      BY <1>1, <2>1, <2>2, <2>5, <3>1, <3>2, <3>3 DEF Sensed, SameUnit
  <2> QED
    BY <1>6, <2>4, <2>5 DEF Stored
<1> QED
  BY <1>3, <1>4, <1>5, <1>6 DEF OutOutcome

LEMMA DataInEffect ==
  ASSUME Inv, OnCourse, MediaFaults = FALSE, DevDataIn
  PROVE  /\ InOutcome(dev', dev, irq, irq', hphase, hcmd)
         /\ dev' \in DevType /\ UNCHANGED <<hphase, hcmd, hres>>
<1> DEFINE e == dev'
<1>1. /\ dev \in DevType /\ irq \in Irqs /\ hphase \in Phases
      /\ hcmd \in CBWType /\ Disciplined(dev, irq, hphase)
      /\ Reading(dev, irq, hphase, hcmd, hrem, hrecv)
      /\ Replying(dev, irq, hphase, hcmd, hrem)
  BY States0, CourseForm DEF Course
<1>2. /\ InQ(irq) /\ UNCHANGED <<hphase, hcmd, hres>>
      /\ irq' = IF Head(irq) = "in" THEN Tail(irq) ELSE <<"out">>
  BY DEF DevDataIn, InPending, InQ, host
<1>3. e = MSC_BOT_DataIn(dev, TRUE)
  BY DEF DevDataIn, StorageOutcomes
<1>4. (OutQ(irq') <=> OutQ(irq)) /\ ~InQ(irq')
  BY <1>1, <1>2, QueueFacts, QueueKinds
<1>5. e \in DevType
  BY DevDataInInv, InvForm DEF Inv, TypeOK
<1>6. dev.state = "DATA_IN" => dev.cbw.op = "READ10"
  BY <1>1, <1>2 DEF Disciplined, InStates
<1> HIDE DEF e
<1>7. CASE dev.state \notin InStates
  <2>1. e = dev
    BY <1>1, <1>3, <1>6, <1>7, DataInShape
  <2> QED
    BY <1>2, <1>4, <1>5, <2>1 DEF InOutcome, e
<1>8. CASE dev.state \in InStates
  <2>1. ~OutQ(irq) /\ hphase \in Moving \cup {"reset"}
    BY <1>1, <1>2, <1>8 DEF Disciplined, InStates, Moving, Phases
  <2>2. CASE dev.state = "SEND_DATA"
    <3>1. e = MSC_BOT_SendCSW(dev, "PASSED") /\ hphase \in {"status", "reset"}
      BY <1>1, <1>2, <1>3, <2>2 DEF MSC_BOT_DataIn, Replying
    <3>2. /\ e.state = "IDLE" /\ e.tx = StatusSent(dev, "PASSED")
          /\ SameUnit(e, dev) /\ e.csw.tag = dev.csw.tag
      BY <1>1, <3>1, SendCSWKeeps DEF SameTransfer
    <3>3. SameSense(e, dev)
      BY <1>1, <3>1, SendCSWSense
    <3>4. Finished(e) /\ e.tx.csw.tag = dev.csw.tag
      BY <3>2 DEF Finished, StatusSent
    <3> QED
      BY <1>2, <1>4, <1>5, <1>8, <2>1, <3>1, <3>2, <3>3, <3>4 DEF InOutcome, e
  <2>3. CASE dev.state \in {"DATA_IN", "LAST_DATA_IN"}
    <3>1. Taken(dev, hphase, hcmd, hrem, hrecv)
      BY <1>1, <1>2, <2>1, <2>3 DEF Reading
    <3>2. hphase \in {"dataIn", "status", "reset"} /\ hcmd.op = "READ10"
      BY <3>1 DEF Taken
    <3>3. PICK m \in 0 .. hcmd.nblk : At(dev, hcmd, m)
      BY <3>1 DEF Taken
    <3>4. dev.cbw = hcmd
      BY <3>3 DEF At
    <3>5. CASE dev.state = "LAST_DATA_IN"
      <4>1. e = MSC_BOT_SendCSW(dev, "PASSED")
        BY <1>3, <3>5 DEF MSC_BOT_DataIn
      <4>2. /\ e.state = "IDLE" /\ e.tx = StatusSent(dev, "PASSED")
            /\ SameUnit(e, dev) /\ e.csw.tag = dev.csw.tag
        BY <1>1, <4>1, SendCSWKeeps DEF SameTransfer
      <4>3. SameSense(e, dev)
        BY <1>1, <4>1, SendCSWSense
      <4>4. Finished(e) /\ e.tx.csw.tag = dev.csw.tag
        BY <4>2 DEF Finished, StatusSent
      <4> QED
        BY <1>2, <1>4, <1>5, <1>8, <2>1, <3>2, <4>2, <4>3, <4>4
        DEF InOutcome, e
    <3>6. CASE dev.state = "DATA_IN"
      <4>1. \/ Overrun(e, dev, hcmd)
            \/ /\ \E n \in 0 .. m : InFlight(e, hcmd, m - n, n)
               /\ e.rx = dev.rx /\ SameUnit(e, dev) /\ SameSense(e, dev)
        BY <1>1, <1>3, <3>2, <3>3, <3>6, ReadStage
      <4>2. ASSUME NEW n \in 0 .. m, InFlight(e, hcmd, m - n, n)
            PROVE  e.state \in InStates /\ e.tx.kind # "csw"
        <5>1. e.state \in {"DATA_IN", "LAST_DATA_IN"}
              /\ e.tx = BlocksSent(hcmd, m - n, n)
          BY <4>2 DEF InFlight
        <5> QED
          BY <5>1 DEF InStates, BlocksSent
      <4>3. hcmd.op \in BlockOps
        BY <3>2 DEF BlockOps
      <4> QED
        BY <1>2, <1>4, <1>5, <1>8, <2>1, <3>2, <3>4, <4>1, <4>2, <4>3
        DEF InOutcome, e
    <3> QED
      BY <2>3, <3>5, <3>6
  <2> QED
    BY <1>8, <2>2, <2>3 DEF InStates
<1> QED
  BY <1>7, <1>8

\* A good wrapper, decoded with a medium that works.
LEMMA DecodedEffect ==
  ASSUME NEW d \in DevType, NEW c \in CBWType, NEW p \in {DataPhase(c), "reset"},
         d.state = "IDLE", d.cbw = c, c.ok, d.tx = NoXfer, d.rx = "none",
         ~d.halt_out, ~d.halt_in, d.started, Sane(c), SizeKnown(d),
         c.op = "VERIFY10" => c.flag
  PROVE  Decoded(MSC_BOT_CBW_Decode(d, TRUE), d, p, c)
<1> DEFINE e == MSC_BOT_CBW_Decode(d, TRUE)
<1>1. /\ e.cbw = c
      /\ \/ Refused(e, d) \/ Concluded(e, d, c) \/ Informs(e, d, c)
         \/ StartsRead(e, d, c) \/ StartsWrite(e, d, c)
  BY DecodeMoves
<1>2. Dismissed(e, d, c) \/ Admitted(e, d, c)
  BY DecodeVerdict
<1> HIDE DEF e
<1>3. CASE Dismissed(e, d, c)
  BY <1>1, <1>3 DEF Decoded, e
<1>4. CASE Admitted(e, d, c)
  <2>1. ~e.halt_in /\ (e.state = "IDLE" => e.tx.csw.status = "PASSED")
    BY <1>4 DEF Admitted
  <2>2. ~Refused(e, d)
    BY <2>1 DEF Refused
  <2>3. Concluded(e, d, c) => Finished(e) /\ p # "dataOut"
    BY <2>1 DEF Concluded, Finished
  <2>4. Informs(e, d, c) =>
          e.state \in InStates /\ e.tx.kind # "csw" /\ e.rx = "none"
    BY DEF Informs, InStates
  <2>5. StartsRead(e, d, c) =>
          e.state \in InStates /\ e.tx.kind # "csw" /\ e.rx = "none"
    <3> SUFFICES ASSUME StartsRead(e, d, c)
                 PROVE  e.state \in InStates /\ e.tx.kind # "csw" /\ e.rx = "none"
      OBVIOUS
    <3>1. PICK n \in 0 .. c.nblk : InFlight(e, c, c.nblk - n, n)
      BY DEF StartsRead
    <3>2. e.state \in {"DATA_IN", "LAST_DATA_IN"}
          /\ e.tx = BlocksSent(c, c.nblk - n, n)
      BY <3>1 DEF InFlight
    <3> QED
      BY <3>2 DEF StartsRead, InStates, BlocksSent
  <2>6. StartsWrite(e, d, c) =>
          e.state = "DATA_OUT" /\ e.tx = NoXfer /\ e.rx = "data"
    BY DEF StartsWrite, Awaits
  <2> QED
    BY <1>1, <1>4, <2>2, <2>3, <2>4, <2>5, <2>6 DEF Decoded, e
<1> QED
  BY <1>2, <1>3, <1>4

LEMMA DataOutEffect ==
  ASSUME Inv, OnCourse, MediaFaults = FALSE, Steady(dev, irq, hphase, hcmd),
         DevDataOut
  PROVE  /\ OutOutcome(dev', dev, irq, irq', hphase, hcmd)
         /\ dev' \in DevType /\ UNCHANGED <<hphase, hcmd, hres>>
<1> DEFINE e == dev'
<1>1. /\ dev \in DevType /\ irq \in Irqs /\ hphase \in Phases
      /\ hcmd \in CBWType /\ hrem \in Int
      /\ Disciplined(dev, irq, hphase) /\ Sane(hcmd) /\ SizeKnown(dev)
      /\ Course(dev, irq, hphase, hcmd, hrem, hrecv, hres)
  BY States0, CourseForm DEF Course, Known, SizeKnown
<1>2. /\ irq # << >> /\ Head(irq) = "out" /\ irq' = Tail(irq)
      /\ UNCHANGED <<hphase, hcmd, hres>>
  BY DEF DevDataOut, host
<1>3. e = MSC_BOT_DataOut(dev, TRUE)
  BY DEF DevDataOut, StorageOutcomes
<1>4. /\ irq \in {<<"out">>, <<"out", "in">>}
      /\ irq' = IF irq = <<"out">> THEN << >> ELSE <<"in">>
  BY <1>1, <1>2, QueueFacts
<1>5. OutQ(irq) /\ ~OutQ(irq') /\ (InQ(irq') <=> InQ(irq)) /\ dev.rx = "none"
  BY <1>1, <1>4, QueueKinds DEF Disciplined
<1>6. e \in DevType
  BY DevDataOutInv, InvForm DEF Inv, TypeOK
<1>7. hphase \in Moving \cup {"reset"}
  BY <1>1, <1>5 DEF Course, Armed, Moving, Phases
<1> HIDE DEF e
<1>8. SUFFICES \/ e = dev /\ dev.tx.kind # "csw"
               \/ Decoded(e, dev, hphase, hcmd) /\ ~InQ(irq')
               \/ Unread(e, dev)
               \/ Stored(e, dev, hphase, hcmd) /\ ~InQ(irq')
  BY <1>2, <1>5, <1>6, <1>7 DEF OutOutcome, e
<1>9. CASE dev.state \notin {"IDLE", "DATA_OUT"}
  <2>1. e = dev
    BY <1>3, <1>9 DEF MSC_BOT_DataOut
  <2>2. dev.tx.kind # "csw"
    BY <1>1, <1>9 DEF Disciplined
  <2> QED
    BY <2>1, <2>2
<1>10. CASE dev.state = "IDLE" /\ dev.cbw.ok
  <2>1. /\ dev.cbw = hcmd /\ hphase \in {DataPhase(hcmd), "reset"}
        /\ ~dev.halt_out
    BY <1>1, <1>5, <1>10 DEF Course, Fresh
  <2>2. dev.tx = NoXfer /\ ~InQ(irq')
    BY <1>1, <1>4, <1>5, <1>10, QueueKinds DEF Disciplined
  <2>3. e = MSC_BOT_CBW_Decode(dev, TRUE)
    BY <1>3, <1>10 DEF MSC_BOT_DataOut
  <2>4. ~dev.halt_in /\ dev.started /\ (hcmd.op = "VERIFY10" => hcmd.flag)
    BY <1>5, <1>10 DEF Steady
  <2>5. hcmd.ok
    BY <1>10, <2>1
  <2>6. Decoded(e, dev, hphase, hcmd)
    BY <1>1, <1>5, <1>10, <2>1, <2>2, <2>3, <2>4, <2>5, DecodedEffect
  <2> QED
    BY <2>2, <2>6
<1>11. CASE dev.state = "IDLE" /\ ~dev.cbw.ok
  <2>1. e = MSC_BOT_CBW_Decode(dev, TRUE)
    BY <1>3, <1>11 DEF MSC_BOT_DataOut
  <2>2. /\ e.state = "IDLE" /\ e.tx = dev.tx /\ e.cbw = dev.cbw /\ e.halt_in
        /\ e.halt_out = dev.halt_out /\ e.blk_nbr = dev.blk_nbr
    BY <1>1, <1>11, <2>1, DecodeBadMoves
  <2>3. e.started = dev.started /\ e.csw.tag = dev.cbw.tag
    BY <1>1, <1>11, <2>1, DecodeBadSense
  <2> QED
    BY <1>11, <2>2, <2>3 DEF Unread
<1>12. CASE dev.state = "DATA_OUT"
  <2>1. dev.tx = NoXfer /\ ~InQ(irq') /\ dev.cbw.op = "WRITE10"
    BY <1>1, <1>4, <1>5, <1>12 DEF Disciplined
  <2>2. Writing(dev, irq, hphase, hcmd, hrem, hres)
    BY <1>1 DEF Course
  <2>3. PICK m \in 0 .. hcmd.nblk :
          /\ At(dev, hcmd, m) /\ Holds(dev, hcmd, m)
          /\ dev.written = WrittenTo(hcmd, hcmd.nblk - m)
          /\ hrem = dev.blk_len - Packet(dev)
    BY <1>5, <1>12, <2>2 DEF Writing
  <2>4. ~dev.halt_out /\ dev.cbw = hcmd /\ hcmd.op = "WRITE10"
    BY <1>12, <2>1, <2>2, <2>3 DEF Writing, At
  <2>5. \/ Overrun(e, dev, hcmd)
        \/ /\ SameUnit(e, dev) /\ SameSense(e, dev)
           /\ \/ /\ m = Min2(m, Slots)
                 /\ e.state = "IDLE" /\ e.rx = "cbw" /\ e.tx.kind = "csw"
                 /\ e.tx.csw.status = "PASSED"
              \/ e.state = "DATA_OUT" /\ e.rx = "data" /\ e.tx = dev.tx
    BY <1>1, <1>3, <1>12, <2>3, <2>4, WriteStage
  <2>6. m = Min2(m, Slots) => hphase # "dataOut"
    <3> SUFFICES ASSUME m = Min2(m, Slots) PROVE hphase # "dataOut"
      OBVIOUS
    <3>1. Packet(dev) = Min2(m, Slots) * BlkSize /\ dev.blk_len = m * BlkSize
          /\ m \in Nat
      BY <1>1, <2>3, PacketBlocks, CBWFields DEF At
    <3>2. m * BlkSize \in Nat
      BY <3>1, TimesLeq, Sizes
    <3>3. hrem = 0
      BY <2>3, <3>1, <3>2
    <3> QED
      BY <1>1, <3>3 DEF Course, Armed
  <2>7. hcmd.op \in BlockOps
    BY <2>4 DEF BlockOps
  <2> QED
    BY <1>12, <2>1, <2>4, <2>5, <2>6, <2>7 DEF Stored, Finished
<1> QED
  BY <1>9, <1>10, <1>11, <1>12

-----------------------------------------------------------------------------
(* What the host does, in the terms of the invariants.                     *)

Verdicts == /\ Steady(dev, irq, hphase, hcmd)
            /\ Judged(dev, irq, hphase, hcmd, hres)
Reasons == Sensed(dev, irq, hphase, hcmd, hres)

LEMMA VerdictForm ==
  /\ Verdicts <=> /\ Steady(dev, irq, hphase, hcmd)
                  /\ Judged(dev, irq, hphase, hcmd, hres)
  /\ Verdicts' <=> /\ Steady(dev', irq', hphase', hcmd')
                   /\ Judged(dev', irq', hphase', hcmd', hres')
  /\ Reasons <=> Sensed(dev, irq, hphase, hcmd, hres)
  /\ Reasons' <=> Sensed(dev', irq', hphase', hcmd', hres')
BY DEF Verdicts, Reasons

\* A new command finds the sense list empty, or asks for what is in it.
LEMMA HostSendCBWVerdict ==
  ASSUME WellFormed, Inv, OnCourse, Unhalted(dev, hphase), Verdicts,
         NEW k \in Commands, HostSendCBW(k)
  PROVE  /\ Verdicts'
         /\ AutoSense /\ Reasons => Reasons'
<1> DEFINE e == dev'
           q == irq'
           p == hphase'
           c == hcmd'
<1>1. /\ dev \in DevType /\ irq \in Irqs /\ Disciplined(dev, irq, hphase)
      /\ Steady(dev, irq, hphase, hcmd)
  BY States0, VerdictForm
<1>2. /\ hphase = "idle" /\ p = DataPhase(k) /\ hres' = "none"
      /\ c = Tagged(k, (hcmd.tag + 1) % 2)
      /\ e = [dev EXCEPT !.cbw = c, !.rx = "none", !.written = {}]
      /\ AutoSense /\ hres = "FAILED" => k.op = "REQUEST_SENSE"
  BY DEF HostSendCBW
<1>3. /\ c.ok = k.ok /\ c.flag = k.flag /\ c.op = k.op
  BY <1>2 DEF Tagged
<1>4. c.ok /\ (c.op = "VERIFY10" => c.flag)
  BY <1>3 DEF WellFormed
<1>5. dev.state = "IDLE" /\ dev.tx = NoXfer /\ ~dev.halt_in /\ dev.tx.kind = "none"
  BY <1>1, <1>2, Kinds DEF Disciplined, Unhalted
<1> HIDE DEF c
<1>6. /\ e.state = "IDLE" /\ e.tx = NoXfer /\ e.tx.kind = "none"
      /\ e.rx = "none" /\ e.cbw = c /\ ~e.halt_in
      /\ e.status = dev.status /\ SameSense(e, dev)
  BY <1>1, <1>2, <1>5 DEF DevType, SameSense
<1> HIDE DEF e, q, p
<1>7. p \in {"dataIn", "dataOut", "status"}
  BY <1>2 DEF DataPhase
<1>8. Steady(e, q, p, c)
  BY <1>1, <1>4, <1>6 DEF Steady, SameSense
<1>9. Judged(e, q, p, c, "none")
  BY <1>4, <1>6, <1>7 DEF Judged, InStates
<1>10. ASSUME AutoSense, Reasons
       PROVE  Sensed(e, q, p, c, "none")
  <2>1. Sensed(dev, irq, hphase, hcmd, hres)
    BY <1>10, VerdictForm
  <2>2. e.status # "RECOVERY" =>
          /\ e.status = "NORMAL"
          /\ Empty(e) \/ (c.op = "REQUEST_SENSE" /\ One(e))
    BY <1>2, <1>3, <1>6, <1>10, <2>1
    DEF Sensed, Lone, One, Empty, SameSense
  <2>3. e.status # "RECOVERY" => Listed(e, q, c)
    BY <1>6, <2>2 DEF Listed, InStates
  <2> QED
    BY <1>4, <1>6, <1>7, <2>3 DEF Sensed
<1> QED
  BY <1>2, <1>8, <1>9, <1>10, VerdictForm DEF e, q, p, c

\* Data the device awaits stays its own; data that finds a wrapper awaited
\* belongs to a command that was refused.
LEMMA HostSendDataVerdict ==
  ASSUME Inv, OnCourse, Verdicts, HostSendData
  PROVE  Verdicts' /\ (Reasons => Reasons')
<1> DEFINE e   == dev'
           q   == irq'
           p   == hphase'
           len == IF dev.rx = "data" THEN Min2(hrem, dev.rx_len) ELSE 1
<1>1. /\ dev \in DevType /\ irq \in Irqs /\ hcmd \in CBWType /\ hrem \in Int
      /\ Disciplined(dev, irq, hphase)
      /\ Course(dev, irq, hphase, hcmd, hrem, hrecv, hres)
      /\ Steady(dev, irq, hphase, hcmd)
      /\ Judged(dev, irq, hphase, hcmd, hres)
  BY States0, CourseForm, VerdictForm
<1>2. /\ hphase = "dataOut" /\ dev.rx # "none" /\ ~dev.halt_out
      /\ p = (IF hrem - len = 0 THEN "status" ELSE "dataOut")
      /\ q = Append(irq, "out") /\ UNCHANGED <<hcmd, hres>>
  BY DEF HostSendData
<1>3. dev.tx.kind = "csw" /\ dev.rx = "cbw" /\ ~dev.halt_in => hrem >= 2
  BY <1>1, <1>2 DEF Course, Armed
<1>4. ~OutQ(irq) /\ OutQ(q) /\ (InQ(q) <=> InQ(irq))
  <2>1. ~OutQ(irq)
    BY <1>1, <1>2 DEF Disciplined
  <2>2. irq \in {<< >>, <<"in">>}
        /\ q = IF irq = << >> THEN <<"out">> ELSE <<"in", "out">>
    BY <1>1, <1>2, <2>1, QueueFacts
  <2> QED
    BY <2>1, <2>2, QueueKinds
<1>5. p \in {"dataOut", "status"}
  BY <1>2
<1>6. NoXfer.kind # "csw"
  BY DEF NoXfer
<1>7. CASE dev.rx = "data"
  <2> DEFINE g == HostBlocks(hcmd.dlen - hrem, len)
  <2>1. dev.state = "DATA_OUT" /\ dev.tx = NoXfer
    BY <1>1, <1>7 DEF Disciplined
  <2>2. dev' = [dev EXCEPT !.data = g, !.rx = "none"]
    BY <1>1, <1>7 DEF HostSendData, DevType
  <2> HIDE DEF g
  <2>3. /\ e.state = "DATA_OUT" /\ e.tx = NoXfer /\ e.rx = "none"
        /\ SameUnit(e, dev) /\ SameSense(e, dev) /\ e.csw = dev.csw
    BY <1>1, <2>1, <2>2 DEF DevType, SameUnit, SameSense
  <2> HIDE DEF e, q, p, len
  <2>4. Steady(e, q, p, hcmd)
    BY <1>1, <1>2, <1>5, <2>3 DEF Steady, SameUnit, SameSense, Moving
  <2>5. Accepted(e, hcmd) /\ (e.halt_in => Rejected(e, hcmd))
    BY <1>1, <1>2, <2>1, <2>3
    DEF Judged, Moving, Accepted, Rejected, Due, SameUnit
  <2>6. Judged(e, q, p, hcmd, hres)
    BY <1>5, <1>6, <2>3, <2>5 DEF Judged, InStates
  <2>7. ASSUME Sensed(dev, irq, hphase, hcmd, hres)
        PROVE  Sensed(e, q, p, hcmd, hres)
    <3>1. e.cbw.ok /\ e.status # "RECOVERY" => Listed(dev, irq, hcmd)
      BY <1>2, <1>7, <2>3, <2>7 DEF Sensed, Clean, Moving, SameUnit
    <3>2. e.cbw.ok /\ e.status # "RECOVERY" => Listed(e, q, hcmd)
      BY <1>6, <2>1, <2>3, <3>1
      DEF Listed, InStates, SameUnit, SameSense, Lone, One, Empty, Due
    <3> QED
      BY <1>2, <1>5, <1>6, <2>3, <3>2 DEF Sensed, Clean, SameUnit
  <2> QED
    BY <1>2, <2>4, <2>6, <2>7, VerdictForm DEF e, q, p
<1>8. CASE dev.rx = "cbw"
  <2>1. e = [OverCBW(dev) EXCEPT !.rx = "none"]
    BY <1>8 DEF HostSendData
  <2>2. /\ e.state = dev.state /\ e.rx = "none" /\ e.tx = dev.tx
        /\ ~e.cbw.ok /\ e.halt_in = dev.halt_in /\ e.halt_out = dev.halt_out
        /\ e.blk_nbr = dev.blk_nbr
    BY <1>1, <2>1, OverCBWKeeps
  <2>3. e.cbw.tag = JunkTag /\ e.csw.tag = JunkTag /\ e.started = dev.started
    <3>1. JunkCBW.tag = JunkTag
      BY DEF JunkCBW
    <3>2. /\ e.cbw = JunkCBW /\ e.started = dev.started
          /\ e.csw = [tag |-> JunkTag, residue |-> 0, status |-> "JUNK"]
      BY <1>1, <2>1 DEF OverCBW, DevType
    <3> QED
      BY <3>1, <3>2
  <2>4. ~dev.halt_in /\ dev.tx.kind = "csw" => p = "dataOut"
    BY <1>1, <1>2, <1>3, <1>8
  <2> HIDE DEF e, q, p, len
  <2>5. Steady(e, q, p, hcmd)
    BY <1>1, <1>2, <1>5, <2>2, <2>3 DEF Steady, Moving
  <2>6. Rejected(dev, hcmd) /\ Rejected(e, hcmd)
    BY <1>1, <1>2, <1>8, <2>2 DEF Judged, Moving, Rejected, Due
  <2>7. Accepted(dev, hcmd) => Accepted(e, hcmd)
    BY <2>2 DEF Accepted, Due
  <2>8. Judged(e, q, p, hcmd, hres)
    BY <1>1, <1>2, <1>4, <1>5, <2>2, <2>6, <2>7 DEF Judged, Moving
  <2>9. Sensed(e, q, p, hcmd, hres)
    BY <1>2, <1>4, <1>5, <2>2, <2>4 DEF Sensed, Clean
  <2> QED
    BY <1>2, <2>5, <2>8, <2>9, VerdictForm DEF e, q, p
<1> QED
  BY <1>1, <1>2, <1>7, <1>8 DEF DevType

\* What the host takes leaves the sense list and the verdict alone.
LEMMA TakesSense ==
  ASSUME dev \in DevType, NEW x, HostTakes(x)
  PROVE  SameSense(dev', dev)
BY DEF HostTakes, SameSense, DevType

LEMMA HostReceiveDataVerdict ==
  ASSUME Inv, OnCourse, Verdicts, HostReceiveData
  PROVE  Verdicts' /\ (Reasons => Reasons')
<1> DEFINE e == dev'
           q == irq'
           p == hphase'
<1>1. /\ dev \in DevType /\ Disciplined(dev, irq, hphase)
      /\ Steady(dev, irq, hphase, hcmd)
      /\ Judged(dev, irq, hphase, hcmd, hres)
  BY States0, VerdictForm
<1>2. /\ hphase = "dataIn" /\ dev.tx.kind # "none" /\ HostTakes(dev.tx)
      /\ p \in {"dataIn", "status"} /\ UNCHANGED <<hcmd, hres>>
  BY DEF HostReceiveData, HostTakes
<1>3. dev.tx # NoXfer
  BY <1>1, <1>2, Kinds
<1>4. /\ e.tx = NoXfer /\ e.tx.kind = "none"
      /\ Stands(e, dev) /\ SameUnit(e, dev) /\ SameSense(e, dev)
      /\ InQ(q) /\ (OutQ(q) <=> OutQ(irq)) /\ ~dev.halt_in
  BY <1>1, <1>2, <1>3, TakesFacts, TakesSense
<1> HIDE DEF e, q, p
<1>5. Steady(e, q, p, hcmd)
  BY <1>1, <1>2, <1>4 DEF Steady, Stands, SameUnit, SameSense, Moving
<1>6. Judged(e, q, p, hcmd, hres)
  BY <1>1, <1>2, <1>3, <1>4
  DEF Judged, Moving, Stands, SameUnit, Accepted, Rejected, Due
<1>7. ASSUME Sensed(dev, irq, hphase, hcmd, hres)
      PROVE  Sensed(e, q, p, hcmd, hres)
  <2>1. e.cbw.ok /\ e.status # "RECOVERY" => Listed(dev, irq, hcmd)
    BY <1>2, <1>4, <1>7 DEF Sensed, Clean, Moving, SameUnit
  <2>2. e.cbw.ok /\ e.status # "RECOVERY" => Listed(e, q, hcmd)
    BY <1>3, <1>4, <2>1
    DEF Listed, Stands, SameUnit, SameSense, Lone, One, Empty, Due
  <2> QED
    BY <1>2, <1>4, <2>2 DEF Sensed, Clean
<1> QED
  BY <1>2, <1>5, <1>6, <1>7, VerdictForm DEF e, q, p

\* The status the host takes is the verdict.
LEMMA HostReceiveCSWVerdict ==
  ASSUME Inv, OnCourse, Verdicts, HostReceiveCSW
  PROVE  Verdicts' /\ (Reasons => Reasons')
<1> DEFINE e == dev'
           q == irq'
           r == hres'
<1>1. /\ dev \in DevType /\ Disciplined(dev, irq, hphase)
      /\ Steady(dev, irq, hphase, hcmd)
      /\ Judged(dev, irq, hphase, hcmd, hres)
  BY States0, VerdictForm
<1>2. /\ hphase \in {"status", "status2"} /\ dev.tx.kind = "csw"
      /\ dev.tx.csw.tag = hcmd.tag
      /\ HostTakes(dev.tx) /\ hphase' = "idle" /\ r = dev.tx.csw.status
      /\ UNCHANGED hcmd
  BY DEF HostReceiveCSW, HostTakes
<1>3. dev.tx # NoXfer
  BY <1>1, <1>2, Kinds
<1>4. /\ Stands(e, dev) /\ SameUnit(e, dev) /\ SameSense(e, dev)
      /\ (OutQ(q) <=> OutQ(irq)) /\ ~dev.halt_in
  BY <1>1, <1>2, <1>3, TakesFacts, TakesSense
<1> HIDE DEF e, q, r
<1>5. Steady(e, q, "idle", hcmd)
  BY <1>1, <1>4 DEF Steady, Stands, SameUnit, SameSense, Moving
<1>6. Judged(e, q, "idle", hcmd, r)
  BY <1>1, <1>2, <1>4
  DEF Judged, Moving, SameUnit, Accepted, Rejected, Due
<1>7. ASSUME Sensed(dev, irq, hphase, hcmd, hres)
      PROVE  Sensed(e, q, "idle", hcmd, r)
  <2>1. dev.cbw.ok
    BY <1>2, <1>4, <1>7 DEF Sensed, Moving
  <2>2. dev.status # "RECOVERY" => Listed(dev, irq, hcmd)
    BY <1>2, <1>7, <2>1 DEF Sensed, Clean, Moving
  <2>3. dev.status = "RECOVERY" /\ r = "FAILED" => ~Due(dev, hcmd)
    BY <1>2, <1>7, <2>1 DEF Sensed, Moving
  <2>4. e.status = dev.status /\ (Due(e, hcmd) <=> Due(dev, hcmd))
        /\ (Empty(e) <=> Empty(dev)) /\ (Lone(e, hcmd) <=> Lone(dev, hcmd))
    BY <1>4 DEF SameUnit, SameSense, Due, Empty, Lone, One
  <2> QED
    BY <1>2, <2>2, <2>3, <2>4 DEF Sensed, Listed, Moving
<1> QED
  BY <1>2, <1>5, <1>6, <1>7, VerdictForm DEF e, q, r

\* A command the host gives up reports nothing.
LEMMA HostGivesUpVerdict ==
  ASSUME Inv, OnCourse, Verdicts,
         HostTimeout \/ HostStalledAgain \/ HostReceiveInvalid
  PROVE  Verdicts' /\ (Reasons => Reasons')
<1> DEFINE e == dev'
           q == irq'
<1>1. dev \in DevType /\ Steady(dev, irq, hphase, hcmd)
  BY States0, VerdictForm
<1>2. hphase' = "reset" /\ UNCHANGED <<hcmd, hres>>
  BY DEF HostTimeout, HostStalledAgain, HostReceiveInvalid, HostTakes
<1>3. /\ e.state = dev.state /\ e.cbw = dev.cbw /\ e.halt_in = dev.halt_in
      /\ e.started = dev.started /\ (OutQ(q) <=> OutQ(irq))
  <2>1. CASE HostTimeout \/ HostStalledAgain
    BY <2>1 DEF HostTimeout, HostStalledAgain
  <2>2. CASE HostReceiveInvalid
    <3>1. HostTakes(dev.tx) /\ dev.tx.kind # "none"
      BY <2>2 DEF HostReceiveInvalid, HostTakes
    <3>2. dev.tx # NoXfer
      BY <1>1, <3>1, Kinds
    <3> QED
      BY <1>1, <3>1, <3>2, TakesFacts, TakesSense DEF Stands, SameUnit, SameSense
  <2> QED
    BY <2>1, <2>2
<1> HIDE DEF e, q
<1>4. Steady(e, q, "reset", hcmd)
  BY <1>1, <1>3 DEF Steady, Moving
<1>5. Judged(e, q, "reset", hcmd, hres) /\ Sensed(e, q, "reset", hcmd, hres)
  BY DEF Judged, Sensed, Moving
<1> QED
  BY <1>2, <1>4, <1>5, VerdictForm DEF e, q

\* The halt of the OUT endpoint alone.
LEMMA ClearOutVerdict ==
  ASSUME Inv, OnCourse, Verdicts, HostClearHalt, hphase = "dataOut"
  PROVE  Verdicts' /\ (Reasons => Reasons')
<1> DEFINE e == dev'
<1>1. /\ dev \in DevType /\ hcmd \in CBWType /\ Disciplined(dev, irq, hphase)
      /\ Course(dev, irq, hphase, hcmd, hrem, hrecv, hres)
      /\ Steady(dev, irq, hphase, hcmd)
      /\ Judged(dev, irq, hphase, hcmd, hres)
  BY States0, CourseForm, VerdictForm
<1>2. /\ irq = << >> /\ irq' = << >> /\ UNCHANGED <<hcmd, hres>>
      /\ dev.halt_out /\ e = ClearFeature(dev, "out") /\ hphase' = "status"
  BY DEF HostClearHalt, Setup
<1>3. dev.halt_in
  BY <1>1, <1>2 DEF Course, Armed
<1>4. /\ Stands(e, dev) /\ e.tx = dev.tx /\ e.blk_nbr = dev.blk_nbr
      /\ SameSense(e, dev) /\ e.halt_in
      /\ dev.status # "ERROR" => e.status = dev.status
      /\ dev.status = "ERROR" => e.status = "NORMAL"
  BY <1>1, <1>2, <1>3, ClearFeatureKeeps, ClearFeatureSense
<1>5. ~OutQ(irq) /\ ~InQ(irq)
  BY <1>2, QueueKinds
<1> HIDE DEF e
<1>6. Steady(e, irq, "status", hcmd)
  BY <1>1, <1>2, <1>4, <1>5 DEF Steady, Stands, SameSense, Moving
<1>7. Judged(e, irq, "status", hcmd, hres)
  BY <1>1, <1>3, <1>4, <1>5
  DEF Judged, Stands, Moving, Accepted, Rejected, Due
<1>8. ASSUME Sensed(dev, irq, hphase, hcmd, hres)
      PROVE  Sensed(e, irq, "status", hcmd, hres)
  <2>1. dev.cbw.ok /\ dev.rx # "cbw"
    BY <1>2, <1>8 DEF Sensed
  <2>2. dev.status # "RECOVERY" => Listed(dev, irq, hcmd)
    BY <1>8, <2>1 DEF Sensed, Clean, Moving
  <2>3. e.status = dev.status
    BY <1>4, <2>2 DEF Listed
  <2>4. e.status # "RECOVERY" => Listed(e, irq, hcmd)
    BY <1>3, <1>4, <1>5, <2>2, <2>3
    DEF Listed, Stands, SameSense, Lone, One, Empty, Due
  <2>5. Due(e, hcmd) <=> Due(dev, hcmd)
    BY <1>4 DEF Due
  <2>6. e.cbw.ok
    BY <1>4, <2>1 DEF Stands
  <2> QED
    BY <1>4, <1>8, <2>1, <2>3, <2>4, <2>5, <2>6 DEF Sensed, Moving
<1> QED
  BY <1>2, <1>6, <1>7, <1>8, VerdictForm DEF e

\* The halt of the IN endpoint: the status of the refusal follows, or the
\* endpoint is halted again, or, after a class reset, nothing comes.
LEMMA ClearInVerdict ==
  ASSUME Inv, OnCourse, Verdicts, HostClearHalt, hphase # "dataOut"
  PROVE  Verdicts' /\ (Reasons => Reasons')
<1> DEFINE e == dev'
           p == hphase'
<1>1. /\ dev \in DevType /\ hcmd \in CBWType /\ Disciplined(dev, irq, hphase)
      /\ Course(dev, irq, hphase, hcmd, hrem, hrecv, hres)
      /\ Steady(dev, irq, hphase, hcmd)
      /\ Judged(dev, irq, hphase, hcmd, hres)
  BY States0, CourseForm, VerdictForm
<1>2. /\ irq = << >> /\ irq' = << >> /\ UNCHANGED <<hcmd, hres>>
      /\ dev.halt_in /\ hphase \in {"dataIn", "status"}
      /\ e = ClearFeature(dev, "in") /\ p \in {"status", "status2"}
  BY DEF HostClearHalt, Setup
<1>3. Rejected(dev, hcmd) /\ hcmd.tag # JunkTag
  BY <1>1, <1>2 DEF Judged, Course, Known, Moving
<1> DEFINE f == [dev EXCEPT !.halt_in = FALSE]
<1>4. /\ \/ Stands(e, dev) /\ e.tx = NoXfer
         \/ Fails(e, f)
      /\ e.blk_nbr = dev.blk_nbr
  BY <1>1, <1>2, ClearFeatureKeeps
<1>5. /\ SameSense(e, dev) /\ e.csw.tag = dev.csw.tag /\ e.cbw = dev.cbw
      /\ e.tx \in {dev.tx, NoXfer} \/ e.tx.csw.tag = dev.csw.tag
      /\ dev.status = "ERROR" => e.halt_in /\ e.status = "NORMAL"
      /\ dev.status # "ERROR" => e.status = dev.status /\ ~e.halt_in
      /\ dev.status = "NORMAL" => Fails(e, f) /\ e.tx.csw.tag = dev.csw.tag
      /\ dev.status # "NORMAL" => e.tx = NoXfer
  BY <1>1, <1>2, ClearFeatureSense
<1>6. f.halt_in = FALSE /\ f.status = dev.status
  BY <1>1 DEF DevType
<1> HIDE DEF e, p, f
<1>7. ~OutQ(irq) /\ ~InQ(irq) /\ NoXfer.kind # "csw"
  BY <1>2, QueueKinds DEF NoXfer
<1>8. Rejected(e, hcmd) /\ (Due(e, hcmd) <=> Due(dev, hcmd))
  BY <1>3, <1>4 DEF Rejected, Due
<1>9. Steady(e, irq, p, hcmd)
  BY <1>1, <1>2, <1>5, <1>7 DEF Steady, SameSense, Moving
<1>10. CASE Fails(e, f)
  <2>1. /\ e.state = "IDLE" /\ e.tx.kind = "csw" /\ e.tx.csw.status = "FAILED"
        /\ ~e.halt_in /\ e.status = "NORMAL" /\ e.tx.csw.tag = dev.csw.tag
    BY <1>5, <1>6, <1>7, <1>10 DEF Fails, SameUnit
  <2>2. Judged(e, irq, p, hcmd, hres)
    BY <1>2, <1>7, <1>8, <2>1 DEF Judged, InStates
  <2>3. dev.status = "NORMAL"
    BY <1>5, <1>7, <2>1
  <2>4. ~dev.cbw.ok => dev.csw.tag # hcmd.tag
    BY <1>1, <1>2, <1>3 DEF Steady, Moving
  <2>6. ASSUME Sensed(dev, irq, hphase, hcmd, hres)
        PROVE  Sensed(e, irq, p, hcmd, hres)
    <3>1. dev.cbw.ok /\ dev.status # "RECOVERY" => Lone(dev, hcmd)
      BY <1>2, <2>6 DEF Sensed, Clean, Moving, Listed
    <3>2. e.cbw.ok /\ e.status # "RECOVERY" => Listed(e, irq, hcmd)
      BY <1>5, <1>7, <1>8, <2>1, <2>3, <3>1
      DEF Listed, InStates, Lone, One, SameSense
    <3> QED
      BY <1>2, <1>5, <1>8, <2>1, <2>4, <3>2 DEF Sensed, Clean
  <2> QED
    BY <1>2, <1>9, <2>2, <2>6, VerdictForm DEF e, p
<1>11. CASE Stands(e, dev) /\ e.tx = NoXfer /\ ~Fails(e, f)
  <2>1. dev.status \in {"ERROR", "RECOVERY"} /\ (e.halt_in => dev.halt_in)
    BY <1>1, <1>2, <1>5, <1>11 DEF DevType
  <2>2. Judged(e, irq, p, hcmd, hres)
    BY <1>1, <1>2, <1>4, <1>7, <1>8, <1>11
    DEF Judged, Moving, Stands, Accepted, Due
  <2>3. ASSUME Sensed(dev, irq, hphase, hcmd, hres)
        PROVE  Sensed(e, irq, p, hcmd, hres)
    <3>1. dev.status = "ERROR" => ~dev.cbw.ok
      BY <1>2, <2>3 DEF Sensed, Clean, Moving, Listed
    <3>2. e.status = "RECOVERY" \/ ~e.cbw.ok
      BY <1>5, <2>1, <3>1
    <3> QED
      BY <1>2, <1>7, <1>11, <3>2 DEF Sensed, Clean
  <2> QED
    BY <1>2, <1>9, <2>2, <2>3, VerdictForm DEF e, p
<1> QED
  BY <1>4, <1>10, <1>11

\* After a class reset nothing is known of the sense list.
LEMMA HostResetRecoveryVerdict ==
  ASSUME Inv, OnCourse, Verdicts, HostResetRecovery
  PROVE  Verdicts' /\ Reasons'
<1> DEFINE e == dev'
<1>1. /\ dev \in DevType /\ Disciplined(dev, irq, hphase)
      /\ Steady(dev, irq, hphase, hcmd)
  BY States0, VerdictForm
<1>2. irq' = << >> /\ UNCHANGED hcmd
  BY DEF HostResetRecovery, Setup
<1>3. /\ SameSense(e, dev) /\ e.status = "RECOVERY"
      /\ hphase' \in {"clear_in", "clear_out", "idle"}
      /\ hphase' = "idle" => hres' = "RESET"
  <2>1. CASE hphase = "reset"
    <3>1. e = MSC_BOT_Reset(dev) /\ hphase' = "clear_in"
      BY <2>1 DEF HostResetRecovery, Setup
    <3> QED
      BY <1>1, <3>1, ResetSense
  <2>2. CASE hphase \in {"clear_in", "clear_out"}
    <3>1. PICK ep \in {"in", "out"} :
            /\ e = ClearFeature(dev, ep)
            /\ hphase' \in {"clear_out", "idle"}
            /\ hphase' = "idle" => hres' = "RESET"
      BY <2>2 DEF HostResetRecovery, Setup
    <3>2. dev.status = "RECOVERY"
      BY <1>1, <2>2 DEF Disciplined
    <3>3. SameSense(e, dev) /\ (dev.status # "ERROR" => e.status = dev.status)
      BY <1>1, <3>1, ClearFeatureSense
    <3> QED
      BY <3>1, <3>2, <3>3
  <2> QED
    BY <2>1, <2>2 DEF HostResetRecovery
<1>4. ~OutQ(<< >>)
  BY QueueKinds
<1> HIDE DEF e
<1>5. Steady(e, << >>, hphase', hcmd)
  BY <1>1, <1>3, <1>4 DEF Steady, SameSense, Moving
<1>6. /\ Judged(e, << >>, hphase', hcmd, hres')
      /\ Sensed(e, << >>, hphase', hcmd, hres')
  BY <1>3 DEF Judged, Sensed, Moving
<1> QED
  BY <1>2, <1>5, <1>6, VerdictForm DEF e

-----------------------------------------------------------------------------
(* The invariants are inductive.                                           *)

LEMMA VerdictsInit == Init => Verdicts /\ Reasons
<1> SUFFICES ASSUME Init PROVE Verdicts /\ Reasons
  OBVIOUS
<1>1. /\ dev = MSC_BOT_Init(ColdDev) /\ irq = << >> /\ hphase = "idle"
      /\ hcmd = JunkCBW /\ hres = "none"
  BY DEF Init
<1>2. ColdDev \in DevType
  BY ColdType
<1> DEFINE d == ColdDev
<1> HIDE DEF d
<1>3. /\ dev.started /\ dev.head = 0 /\ dev.tail = 0 /\ dev.status = "NORMAL"
  <2>1. dev = MSC_BOT_Init(d) /\ d \in DevType
    BY <1>1, <1>2 DEF d
  <2> QED
    BY <2>1 DEF MSC_BOT_Init, USBD_LL_FlushEP, USBD_LL_PrepareReceive, DevType
<1>4. ~OutQ(irq) /\ hcmd.op # "VERIFY10"
  BY <1>1, QueueKinds DEF JunkCBW
<1>5. Steady(dev, irq, hphase, hcmd) /\ Judged(dev, irq, hphase, hcmd, hres)
  BY <1>1, <1>3, <1>4 DEF Steady, Judged, Moving
<1>6. Sensed(dev, irq, hphase, hcmd, hres)
  BY <1>1, <1>3 DEF Sensed, Moving, Empty
<1> QED
  BY <1>5, <1>6, VerdictForm

LEMMA VerdictsNext ==
  ASSUME WellFormed, MediaFaults = FALSE, PortResets = FALSE,
         Inv, OnCourse, Unhalted(dev, hphase), Verdicts, [Next]_vars
  PROVE  Verdicts' /\ (AutoSense /\ Reasons => Reasons')
<1>1. CASE DevDataIn
  <2>1. /\ InOutcome(dev', dev, irq, irq', hphase, hcmd)
        /\ dev' \in DevType /\ UNCHANGED <<hphase, hcmd, hres>>
    BY <1>1, DataInEffect
  <2>2. /\ dev \in DevType /\ hcmd \in CBWType
        /\ Steady(dev, irq, hphase, hcmd)
        /\ Judged(dev, irq, hphase, hcmd, hres)
        /\ hphase \in Moving => hcmd.tag # JunkTag
    BY States0, VerdictForm, CourseForm DEF Course, Known
  <2>3. /\ Steady(dev', irq', hphase, hcmd)
        /\ Judged(dev', irq', hphase, hcmd, hres)
    BY <2>1, <2>2, InOutcomeVerdicts
  <2>4. Sensed(dev, irq, hphase, hcmd, hres)
          => Sensed(dev', irq', hphase, hcmd, hres)
    BY <2>1, <2>2, InOutcomeSensed
  <2> QED
    BY <2>1, <2>3, <2>4, VerdictForm
<1>2. CASE DevDataOut
  <2>1. /\ dev \in DevType /\ hcmd \in CBWType
        /\ Steady(dev, irq, hphase, hcmd)
        /\ Judged(dev, irq, hphase, hcmd, hres)
    BY States0, VerdictForm
  <2>2. /\ OutOutcome(dev', dev, irq, irq', hphase, hcmd)
        /\ dev' \in DevType /\ UNCHANGED <<hphase, hcmd, hres>>
    BY <1>2, <2>1, DataOutEffect
  <2>3. /\ Steady(dev', irq', hphase, hcmd)
        /\ Judged(dev', irq', hphase, hcmd, hres)
    BY <2>1, <2>2, OutOutcomeVerdicts
  <2>4. Sensed(dev, irq, hphase, hcmd, hres)
          => Sensed(dev', irq', hphase, hcmd, hres)
    BY <2>1, <2>2, OutOutcomeSensed
  <2> QED
    BY <2>2, <2>3, <2>4, VerdictForm
<1>3. ASSUME NEW c \in Commands, HostSendCBW(c)
      PROVE  Verdicts' /\ (AutoSense /\ Reasons => Reasons')
  BY <1>3, HostSendCBWVerdict
<1>4. CASE HostSendData
  BY <1>4, HostSendDataVerdict
<1>5. CASE HostReceiveData
  BY <1>5, HostReceiveDataVerdict
<1>6. CASE HostReceiveCSW
  BY <1>6, HostReceiveCSWVerdict
<1>7. CASE HostTimeout \/ HostStalledAgain \/ HostReceiveInvalid
  BY <1>7, HostGivesUpVerdict
<1>8. CASE HostClearHalt
  BY <1>8, ClearOutVerdict, ClearInVerdict
<1>9. CASE HostResetRecovery
  BY <1>9, HostResetRecoveryVerdict
<1>10. CASE UNCHANGED vars
  BY <1>10, VerdictForm DEF vars
<1> QED
  BY <1>1, <1>2, <1>3, <1>4, <1>5, <1>6, <1>7, <1>8, <1>9, <1>10
     DEF Next, HostStep, HostPortReset

LEMMA VerdictsAlways ==
  ASSUME HostCommands, WellFormed, MediaFaults = FALSE, PortResets = FALSE
  PROVE  Spec => [](Inv /\ OnCourse /\ Verdicts)
<1>1. Inv /\ OnCourse /\ Unhalted(dev, hphase) /\ [Next]_vars
        => Unhalted(dev, hphase)'
  BY UnhaltedNext
<1>2. Inv /\ OnCourse /\ Unhalted(dev, hphase) /\ Verdicts /\ [Next]_vars
        => Verdicts'
  BY VerdictsNext
<1> QED
  BY <1>1, <1>2, UnhaltedInit, VerdictsInit, CourseAlways, PTL DEF Spec

LEMMA ReasonsAlways ==
  ASSUME HostCommands, WellFormed, MediaFaults = FALSE, PortResets = FALSE,
         AutoSense
  PROVE  Spec => [](Inv /\ OnCourse /\ Reasons)
<1>1. Inv /\ OnCourse /\ Unhalted(dev, hphase) /\ [Next]_vars
        => Unhalted(dev, hphase)'
  BY UnhaltedNext
<1>2. Inv /\ OnCourse /\ Unhalted(dev, hphase) /\ Verdicts /\ Reasons
        /\ [Next]_vars => Verdicts' /\ Reasons'
  BY VerdictsNext
<1> QED
  BY <1>1, <1>2, UnhaltedInit, VerdictsInit, CourseAlways, PTL DEF Spec

-----------------------------------------------------------------------------
(* The range of a transfer.  The limit of the range check is one for all   *)
(* units: the capacity of the unit READ CAPACITY was last sent to.         *)

Stages == {"DATA_IN", "DATA_OUT", "LAST_DATA_IN"}

\* The limit is none yet, or some unit's capacity.
Limited(d) == d.blk_nbr \in {0} \cup {Capacity[l] : l \in Luns}

\* A transfer in progress is one the range check let through, and still would.
Inside(d) == d.state \in Stages => d.cbw.lba + d.cbw.nblk <= d.blk_nbr

\* What a handler may do with the command block and the limit.
Bounded(e, d) ==
  e.cbw = d.cbw /\ e.blk_nbr \in {d.blk_nbr, Capacity[d.cbw.lun]}

LEMMA BoundedLimited ==
  ASSUME NEW d \in DevType, NEW e, Bounded(e, d), Limited(d)
  PROVE  Limited(e)
BY Fields, CBWFields DEF Bounded, Limited

LEMMA BadBounded ==
  ASSUME NEW d \in DevType, NEW asc \in SenseCodes
  PROVE  /\ Bounded(Bad(d, asc).dev, d) /\ Bad(d, asc).dev.state = d.state
         /\ Bad(d, asc).dev.blk_nbr = d.blk_nbr
<1>1. LET e == SCSI_SenseCode(d, asc)
      IN  SameControl(e, d) /\ SameUnit(e, d)
  BY SenseCodeKeeps
<1> QED
  BY <1>1 DEF Bad, SameControl, SameUnit, Bounded

LEMMA StageBounded ==
  ASSUME NEW d \in DevType, NEW ok \in BOOLEAN
  PROVE  /\ SCSI_ProcessRead(d, ok).dev.cbw = d.cbw
         /\ SCSI_ProcessRead(d, ok).dev.blk_nbr = d.blk_nbr
         /\ SCSI_ProcessWrite(d, ok).dev.cbw = d.cbw
         /\ SCSI_ProcessWrite(d, ok).dev.blk_nbr = d.blk_nbr
<1>1. "UNRECOVERED_READ_ERROR" \in SenseCodes /\ "WRITE_FAULT" \in SenseCodes
  BY DEF SenseCodes
<1>2. /\ SCSI_ProcessRead(d, ok).dev.cbw = d.cbw
      /\ SCSI_ProcessRead(d, ok).dev.blk_nbr = d.blk_nbr
  <2> DEFINE len  == Min2(d.blk_len, MediaPacket)
             n    == Blk(d, len)
             at   == Blk(d, d.blk_addr)
             full == [d EXCEPT !.data = [i \in 1 .. Slots |->
                        IF i <= n THEN Block(at + i - 1) ELSE d.data[i]]]
             x    == [kind |-> "blocks", len |-> len,
                      blks |-> [i \in 1 .. n |-> full.data[i]]]
             sent == Moved(USBD_LL_Transmit(full, x), len)
             last == [sent EXCEPT
                        !.state = IF sent.blk_len = 0 THEN "LAST_DATA_IN" ELSE @]
  <2>1. SCSI_ProcessRead(d, ok) =
          IF ~MediumDone(d, len, ok) THEN Bad(d, "UNRECOVERED_READ_ERROR")
          ELSE Good(last)
    BY DEF SCSI_ProcessRead
  <2> HIDE DEF len, n, at
  <2>2. last.cbw = d.cbw /\ last.blk_nbr = d.blk_nbr
    <3> HIDE DEF x
    <3> QED
      BY DEF USBD_LL_Transmit, Moved, DevType
  <2> HIDE DEF last
  <2> QED
    BY <1>1, <2>1, <2>2, BadBounded DEF Good, Bounded
<1>3. /\ SCSI_ProcessWrite(d, ok).dev.cbw = d.cbw
      /\ SCSI_ProcessWrite(d, ok).dev.blk_nbr = d.blk_nbr
  <2> DEFINE len  == Min2(d.blk_len, MediaPacket)
             at   == Blk(d, d.blk_addr)
             new  == {<<d.cbw.lun, at + i - 1, d.data[i]>> :
                        i \in 1 .. Blk(d, len)}
             done == Moved([d EXCEPT !.written = @ \cup new], len)
             more == USBD_LL_PrepareReceive(done, "data",
                                            Min2(done.blk_len, MediaPacket))
             sent == MSC_BOT_SendCSW(done, "PASSED")
  <2>1. SCSI_ProcessWrite(d, ok) =
          IF ~MediumDone(d, len, ok) THEN Bad(d, "WRITE_FAULT")
          ELSE Good(IF done.blk_len = 0 THEN sent ELSE more)
    BY DEF SCSI_ProcessWrite
  <2> HIDE DEF len, at, new
  <2>2. done.cbw = d.cbw /\ done.blk_nbr = d.blk_nbr
    BY DEF Moved, DevType
  <2>3. /\ more.cbw = d.cbw /\ more.blk_nbr = d.blk_nbr
        /\ sent.cbw = d.cbw /\ sent.blk_nbr = d.blk_nbr
    BY DEF Moved, USBD_LL_PrepareReceive, USBD_LL_Transmit, MSC_BOT_SendCSW,
           DevType
  <2> HIDE DEF more, sent, done
  <2> QED
    BY <1>1, <2>1, <2>3, BadBounded DEF Good, Bounded
<1> QED
  BY <1>2, <1>3

\* The first call of READ10 and WRITE10: a transfer begins, or DATA_IN is
\* left behind, only past the range check.
LEMMA BlockCmdInside ==
  ASSUME NEW d \in DevType, NEW ok \in BOOLEAN, d.state = "IDLE",
         d.cbw.op \in BlockOps, Addressable(d.cbw)
  PROVE  LET e == SCSI_ProcessCmd(d, ok).dev
         IN  /\ e.cbw = d.cbw /\ e.blk_nbr = d.blk_nbr
             /\ e.state \in Stages => d.cbw.lba + d.cbw.nblk <= d.blk_nbr
<1> DEFINE r == SCSI_ProcessCmd(d, ok)
           r10 == CdbRange(d)
           v == InUnits(r10)
           u == [v EXCEPT !.state = "DATA_IN"]
           f == [u EXCEPT !.data_length = MediaPacket]
           w == USBD_LL_PrepareReceive([v EXCEPT !.state = "DATA_OUT"], "data",
                                       Min2(v.blk_len, MediaPacket))
           in == SCSI_CheckAddressRange(r10, r10.blk_addr, r10.blk_len)
           Early == {"INVALID_CDB", "MEDIUM_NOT_PRESENT"}
<1> SUFFICES /\ r.dev.cbw = d.cbw /\ r.dev.blk_nbr = d.blk_nbr
             /\ r.dev.state \in Stages => d.cbw.lba + d.cbw.nblk <= d.blk_nbr
  OBVIOUS
<1>1. Early \cup {"ADDRESS_OUT_OF_RANGE"} \subseteq SenseCodes
  BY DEF SenseCodes
<1>2. r10 \in DevType /\ v \in DevType
  BY RangeType
<1>3. /\ r10.state = "IDLE" /\ r10.cbw = d.cbw /\ r10.blk_nbr = d.blk_nbr
      /\ v.state = "IDLE" /\ v.cbw = d.cbw /\ v.blk_nbr = d.blk_nbr
      /\ in <=> SCSI_CheckAddressRange(d, d.cbw.lba, d.cbw.nblk)
  BY DEF CdbRange, InUnits, DevType, SCSI_CheckAddressRange
<1>4. in <=> d.cbw.lba + d.cbw.nblk <= d.blk_nbr
  BY <1>3, RangeExact
<1>5. \/ \E asc \in Early : r = Bad(d, asc)
      \/ r = Bad(r10, "ADDRESS_OUT_OF_RANGE")
      \/ in /\ (r = Bad(u, "INVALID_CDB") \/ r = SCSI_ProcessRead(f, ok))
      \/ in /\ (r = Bad(v, "INVALID_CDB") \/ r = Good(w))
  <2>1. CASE d.cbw.op = "READ10"
    <3>1. r = SCSI_Read10(d, ok)
      BY <2>1 DEF SCSI_ProcessCmd
    <3> QED
      BY <3>1 DEF SCSI_Read10
  <2>2. CASE d.cbw.op = "WRITE10"
    <3>1. r = SCSI_Write10(d, ok)
      BY <2>2 DEF SCSI_ProcessCmd
    <3> QED
      BY <3>1 DEF SCSI_Write10
  <2> QED
    BY <2>1, <2>2 DEF BlockOps
<1> HIDE DEF r, in, v, r10
<1>6. u \in DevType /\ u.cbw = d.cbw /\ u.blk_nbr = d.blk_nbr
  BY <1>2, <1>3 DEF DevType, States
<1>7. w.cbw = d.cbw /\ w.blk_nbr = d.blk_nbr
  BY <1>2, <1>3 DEF USBD_LL_PrepareReceive, DevType
<1> HIDE DEF u, w
<1>8. f \in DevType /\ f.cbw = d.cbw /\ f.blk_nbr = d.blk_nbr
  <2>1. MediaPacket \in Nat
    BY ConstantsAssumption DEF MediaPacket
  <2> QED
    BY <1>6, <2>1 DEF DevType
<1> HIDE DEF f
<1>9. CASE \E asc \in Early : r = Bad(d, asc)
  BY <1>1, <1>9, BadBounded DEF Bounded, Stages
<1>10. CASE r = Bad(r10, "ADDRESS_OUT_OF_RANGE")
  BY <1>1, <1>2, <1>3, <1>10, BadBounded DEF Bounded, Stages
<1>11. CASE in /\ (r = Bad(u, "INVALID_CDB") \/ r = SCSI_ProcessRead(f, ok))
  BY <1>1, <1>4, <1>6, <1>8, <1>11, BadBounded, StageBounded DEF Bounded
<1>12. CASE in /\ (r = Bad(v, "INVALID_CDB") \/ r = Good(w))
  BY <1>1, <1>2, <1>3, <1>4, <1>7, <1>12, BadBounded DEF Bounded, Good
<1> QED
  BY <1>5, <1>9, <1>10, <1>11, <1>12

\* The other commands: none enters a data stage, and READ CAPACITY alone
\* moves the limit.
LEMMA ControlInside ==
  ASSUME NEW d \in DevType, NEW ok \in BOOLEAN, d.state = "IDLE",
         d.cbw.op \notin BlockOps, SizeKnown(d)
  PROVE  LET e == SCSI_ProcessCmd(d, ok).dev
         IN  Bounded(e, d) /\ e.state \notin Stages
<1> DEFINE r == SCSI_ProcessCmd(d, ok)
           nd == [d EXCEPT !.state = "NO_DATA"]
           good == Good([d EXCEPT !.data_length = 0])
<1> SUFFICES Bounded(r.dev, d) /\ r.dev.state \notin Stages
  OBVIOUS
<1>1. r.dev.cbw = d.cbw /\ r.dev.state \notin Stages
  <2>1. Controlled(r, d)
    BY ControlMoves
  <2> QED
    BY <2>1 DEF Controlled, Kept, Stages
<1>2. r.dev.blk_nbr \in {d.blk_nbr, Capacity[d.cbw.lun]}
  <2>1. \A w, n : InfoReply(d, w, n).dev.blk_nbr = d.blk_nbr
    BY DEF InfoReply, Good, DevType
  <2>2. \A asc \in SenseCodes : Bad(d, asc).dev.blk_nbr = d.blk_nbr
    BY BadBounded
  <2>3. nd \in DevType /\ nd.blk_nbr = d.blk_nbr
    BY DEF DevType, States
  <2>4. good.dev.blk_nbr = d.blk_nbr
    BY DEF Good, DevType
  <2>5. {"INVALID_CDB", "MEDIUM_NOT_PRESENT", "INVALID_FIELED_IN_COMMAND",
         "ADDRESS_OUT_OF_RANGE"} \subseteq SenseCodes
    BY DEF SenseCodes
  <2>6. Bad(nd, "MEDIUM_NOT_PRESENT").dev.blk_nbr = d.blk_nbr
    BY <2>3, <2>5, BadBounded
  <2> HIDE DEF nd, good
  <2>7. SCSI_RequestSense(d).dev.blk_nbr = d.blk_nbr
    BY DEF SCSI_RequestSense, InfoReply, Good, DevType
  <2>8. SCSI_ReadCapacity10(d).dev.blk_nbr = Capacity[d.cbw.lun]
    BY DEF SCSI_ReadCapacity10, InfoReply, Good, DevType
  <2>9. SCSI_TestUnitReady(d).dev.blk_nbr = d.blk_nbr
    BY <2>2, <2>4, <2>5, <2>6 DEF SCSI_TestUnitReady, nd, good
  <2>10. SCSI_Verify10(d).dev.blk_nbr = d.blk_nbr
    BY <2>2, <2>4, <2>5 DEF SCSI_Verify10, good
  <2>11. SCSI_StartStopUnit(d).dev.blk_nbr = d.blk_nbr
    BY <2>4 DEF SCSI_StartStopUnit, good
  <2>12. /\ SCSI_Inquiry(d).dev.blk_nbr = d.blk_nbr
         /\ SCSI_ModeSense(d).dev.blk_nbr = d.blk_nbr
         /\ SCSI_ReadFormatCapacity(d).dev.blk_nbr = d.blk_nbr
    BY <2>1 DEF SCSI_Inquiry, SCSI_ModeSense, SCSI_ReadFormatCapacity
  <2>13. r \in {SCSI_TestUnitReady(d), SCSI_RequestSense(d),
                SCSI_ReadCapacity10(d), SCSI_Inquiry(d), SCSI_ModeSense(d),
                SCSI_ReadFormatCapacity(d), SCSI_StartStopUnit(d),
                SCSI_Verify10(d), Bad(d, "INVALID_CDB")}
    BY DEF SCSI_ProcessCmd, BlockOps
  <2> HIDE DEF r
  <2> QED
    BY <2>2, <2>5, <2>7, <2>8, <2>9, <2>10, <2>11, <2>12, <2>13
<1> QED
  BY <1>1, <1>2 DEF Bounded

\* A wrapper is decoded.
LEMMA DecodeInside ==
  ASSUME NEW d0 \in DevType, NEW ok \in BOOLEAN,
         d0.state = "IDLE", Sane(d0.cbw), SizeKnown(d0), Limited(d0)
  PROVE  LET e == MSC_BOT_CBW_Decode(d0, ok)
         IN  Limited(e) /\ Inside(e)
<1> DEFINE d == [d0 EXCEPT !.csw.tag = d0.cbw.tag, !.csw.residue = d0.cbw.dlen]
           r == SCSI_ProcessCmd(d, ok)
           e == r.dev
           x == MSC_BOT_CBW_Decode(d0, ok)
<1> SUFFICES Limited(x) /\ Inside(x)
  OBVIOUS
<1>1. CASE ~d0.cbw.ok
  <2>1. x.state = d0.state /\ x.blk_nbr = d0.blk_nbr
    BY <1>1, DecodeBadMoves
  <2> QED
    BY <2>1 DEF Limited, Inside, Stages
<1>2. CASE d0.cbw.ok
  <2>1. d \in DevType
    <3>1. d0.csw \in CSWType /\ d0.cbw.tag \in Tags \cup {JunkTag}
          /\ d0.cbw.dlen \in Int
      BY Fields, CBWFields
    <3>2. [d0.csw EXCEPT !.tag = d0.cbw.tag, !.residue = d0.cbw.dlen]
            \in CSWType
      BY <3>1 DEF CSWType
    <3> QED
      BY <3>2 DEF DevType
  <2>2. /\ d.state = "IDLE" /\ d.cbw = d0.cbw /\ d.blk_nbr = d0.blk_nbr
        /\ SizeKnown(d)
    BY DEF DevType, SizeKnown
  <2>3. \/ x = e
        \/ x \in {MSC_BOT_SendCSW(e, "FAILED"), MSC_BOT_SendCSW(e, "PASSED"),
                  MSC_BOT_SendData(e)}
        \/ x = MSC_BOT_Abort(e)
    <3>1. d.cbw.ok
      BY <1>2, <2>2
    <3> HIDE DEF d
    <3>2. CASE r.ret < 0
      BY <3>1, <3>2 DEF MSC_BOT_CBW_Decode, d
    <3>3. CASE ~(r.ret < 0)
      BY <3>1, <3>3 DEF MSC_BOT_CBW_Decode, d
    <3> QED
      BY <3>2, <3>3
  <2> HIDE DEF d, x
  <2>4. e \in DevType
    BY <2>1, ProcessCmdType
  <2>5. Bounded(e, d) /\ Inside(e)
    <3>1. CASE d.cbw.op \in BlockOps
      <4>1. Addressable(d.cbw)
        BY <1>2, <2>2 DEF Sane
      <4>2. /\ e.cbw = d.cbw /\ e.blk_nbr = d.blk_nbr
            /\ e.state \in Stages => d.cbw.lba + d.cbw.nblk <= d.blk_nbr
        BY <2>1, <2>2, <3>1, <4>1, BlockCmdInside
      <4> HIDE DEF e
      <4> QED
        BY <4>2 DEF Inside, Bounded
    <3>2. CASE d.cbw.op \notin BlockOps
      BY <2>1, <2>2, <3>2, ControlInside DEF Inside
    <3> QED
      BY <3>1, <3>2
  <2> HIDE DEF e
  <2>6. Limited(e)
    <3>1. Limited(d)
      BY <2>2 DEF Limited
    <3> QED
      BY <2>1, <2>5, <3>1, BoundedLimited
  <2>7. \/ x = e
        \/ x.state \in {"IDLE", "SEND_DATA"} /\ x.blk_nbr = e.blk_nbr
        \/ x.state = e.state /\ x.cbw = e.cbw /\ x.blk_nbr = e.blk_nbr
    BY <2>3, <2>4, SendCSWKeeps, SendDataKeeps, AbortKeeps DEF SameUnit
  <2> QED
    BY <2>5, <2>6, <2>7 DEF Limited, Inside, Stages
<1> QED
  BY <1>1, <1>2

\* A data stage that goes on, or fails.
LEMMA StageInside ==
  ASSUME NEW d \in DevType, NEW ok \in BOOLEAN, Limited(d),
         Inside(d),
         \/ d.state = "DATA_IN" /\ d.cbw.op = "READ10"
         \/ d.state = "DATA_OUT" /\ d.cbw.op = "WRITE10"
  PROVE  Limited(ContinueOrFail(d, ok)) /\ Inside(ContinueOrFail(d, ok))
<1> DEFINE f == [d EXCEPT !.data_length = MediaPacket]
           r == SCSI_ProcessCmd(d, ok)
           e == ContinueOrFail(d, ok)
<1> SUFFICES Limited(e) /\ Inside(e)
  OBVIOUS
<1>1. r = SCSI_ProcessRead(f, ok) \/ r = SCSI_ProcessWrite(d, ok)
  BY DEF SCSI_ProcessCmd, SCSI_Read10, SCSI_Write10
<1>2. f \in DevType /\ f.cbw = d.cbw /\ f.blk_nbr = d.blk_nbr
  <2>1. MediaPacket \in Nat
    BY ConstantsAssumption DEF MediaPacket
  <2> QED
    BY <2>1 DEF DevType
<1> HIDE DEF f
<1>3. r.dev.cbw = d.cbw /\ r.dev.blk_nbr = d.blk_nbr
  BY <1>1, <1>2, StageBounded
<1>4. r.dev \in DevType
  BY ProcessCmdType
<1>5. e = MSC_BOT_SendCSW(r.dev, "FAILED") \/ e = r.dev
  BY DEF ContinueOrFail
<1> HIDE DEF r, e
<1>6. e.cbw = r.dev.cbw /\ e.blk_nbr = r.dev.blk_nbr
  BY <1>4, <1>5, SendCSWKeeps DEF SameUnit
<1> QED
  BY <1>3, <1>6 DEF Limited, Inside, Stages

\* The invariant is inductive.
Within == Limited(dev) /\ Inside(dev)

LEMMA WithinForm ==
  /\ Within <=> Limited(dev) /\ Inside(dev)
  /\ Within' <=> Limited(dev') /\ Inside(dev')
BY DEF Within

LEMMA WithinInit == Init => Within
<1> SUFFICES ASSUME Init PROVE Within
  OBVIOUS
<1> DEFINE d == ColdDev
<1>1. dev = MSC_BOT_Init(d) /\ d \in DevType /\ d.blk_nbr = 0
  BY ColdType DEF Init, ColdDev
<1> HIDE DEF d
<1>2. dev.state = "IDLE" /\ dev.blk_nbr = 0
  BY <1>1, InitKeeps
<1> QED
  BY <1>2 DEF Within, Limited, Inside, Stages

\* The two completion interrupts.
LEMMA DeviceWithin ==
  ASSUME Inv, OnCourse, Within, DevDataIn \/ DevDataOut
  PROVE  Within'
<1>1. /\ dev \in DevType /\ hcmd \in CBWType /\ irq \in Irqs
      /\ Disciplined(dev, irq, hphase)
      /\ Sane(hcmd) /\ SizeKnown(dev) /\ Limited(dev) /\ Inside(dev)
      /\ Course(dev, irq, hphase, hcmd, hrem, hrecv, hres)
  BY States0, CourseForm, WithinForm DEF Course, Known, SizeKnown
<1>2. CASE DevDataIn
  <2>1. PICK ok \in BOOLEAN : dev' = MSC_BOT_DataIn(dev, ok)
    BY <1>2 DEF DevDataIn, StorageOutcomes
  <2>2. InQ(irq)
    BY <1>2 DEF DevDataIn, InPending, InQ
  <2>3. CASE dev.state = "DATA_IN"
    <3>1. dev' = ContinueOrFail(dev, ok) /\ dev.cbw.op = "READ10"
      BY <1>1, <2>1, <2>2, <2>3
      DEF MSC_BOT_DataIn, Disciplined, InStates
    <3> QED
      BY <1>1, <2>3, <3>1, StageInside, WithinForm
  <2>4. CASE dev.state \in {"SEND_DATA", "LAST_DATA_IN"}
    <3>1. dev' = MSC_BOT_SendCSW(dev, "PASSED")
      BY <2>1, <2>4 DEF MSC_BOT_DataIn
    <3>2. dev'.state = "IDLE" /\ dev'.blk_nbr = dev.blk_nbr
      BY <1>1, <3>1, SendCSWKeeps DEF SameUnit
    <3> QED
      BY <1>1, <3>2, WithinForm DEF Limited, Inside, Stages
  <2>5. CASE dev.state \notin {"DATA_IN", "SEND_DATA", "LAST_DATA_IN"}
    <3>1. dev' = dev
      BY <2>1, <2>5 DEF MSC_BOT_DataIn
    <3> QED
      BY <1>1, <3>1, WithinForm
  <2> QED
    BY <2>3, <2>4, <2>5
<1>3. CASE DevDataOut
  <2>1. PICK ok \in BOOLEAN : dev' = MSC_BOT_DataOut(dev, ok)
    BY <1>3 DEF DevDataOut, StorageOutcomes
  <2>2. OutQ(irq)
    <3>1. irq # << >> /\ Head(irq) = "out" /\ irq' = Tail(irq)
      BY <1>3 DEF DevDataOut
    <3> QED
      BY <1>1, <3>1, QueueFacts, QueueKinds
  <2>3. CASE dev.state = "IDLE"
    <3>1. dev' = MSC_BOT_CBW_Decode(dev, ok)
      BY <2>1, <2>3 DEF MSC_BOT_DataOut
    <3>2. Sane(dev.cbw)
      BY <1>1, <2>2, <2>3 DEF Course, Fresh, Sane
    <3> QED
      BY <1>1, <2>3, <3>1, <3>2, DecodeInside, WithinForm
  <2>4. CASE dev.state = "DATA_OUT"
    <3>1. dev' = ContinueOrFail(dev, ok) /\ dev.cbw.op = "WRITE10"
      BY <1>1, <2>1, <2>4 DEF MSC_BOT_DataOut, Disciplined
    <3> QED
      BY <1>1, <2>4, <3>1, StageInside, WithinForm
  <2>5. CASE dev.state \notin {"IDLE", "DATA_OUT"}
    <3>1. dev' = dev
      BY <2>1, <2>5 DEF MSC_BOT_DataOut
    <3> QED
      BY <1>1, <3>1, WithinForm
  <2> QED
    BY <2>3, <2>4, <2>5
<1> QED
  BY <1>2, <1>3

\* The host: a command comes to a device that is idle, data that runs over
\* the wrapper names no block, and the rest starts no transfer.
LEMMA HostWithin ==
  ASSUME Inv, Within,
         \/ \E c \in Commands : HostSendCBW(c)
         \/ HostStep \/ HostTimeout \/ HostPortReset
  PROVE  Within'
<1>1. /\ dev \in DevType /\ Disciplined(dev, irq, hphase)
      /\ Limited(dev) /\ Inside(dev)
  BY States0, WithinForm
<1>2. ASSUME dev'.blk_nbr = dev.blk_nbr,
             \/ dev'.state \notin Stages
             \/ dev'.state = dev.state /\ dev'.cbw = dev.cbw
      PROVE  Within'
  BY <1>1, <1>2, WithinForm DEF Limited, Inside
<1>3. ASSUME NEW c \in Commands, HostSendCBW(c)
      PROVE  Within'
  <2>1. /\ hphase = "idle"
        /\ dev' = [dev EXCEPT !.cbw = hcmd', !.rx = "none", !.written = {}]
    BY <1>3 DEF HostSendCBW
  <2>2. dev'.blk_nbr = dev.blk_nbr /\ dev'.state = dev.state
    BY <1>1, <2>1 DEF DevType
  <2>3. dev.state = "IDLE"
    BY <1>1, <2>1 DEF Disciplined
  <2> QED
    BY <1>2, <2>2, <2>3 DEF Stages
<1>4. CASE HostSendData
  <2>1. CASE dev.rx = "data"
    <3>1. PICK b : dev' = [[dev EXCEPT !.data = b] EXCEPT !.rx = "none"]
      BY <1>4, <2>1 DEF HostSendData
    <3>2. /\ dev'.blk_nbr = dev.blk_nbr /\ dev'.state = dev.state
          /\ dev'.cbw = dev.cbw
      BY <1>1, <3>1 DEF DevType
    <3> QED
      BY <1>2, <3>2
  <2>2. CASE dev.rx # "data"
    <3>1. dev' = [OverCBW(dev) EXCEPT !.rx = "none"]
      BY <1>4, <2>2 DEF HostSendData
    <3>2. dev'.blk_nbr = dev.blk_nbr /\ dev'.state = dev.state
      BY <1>1, <3>1, OverCBWKeeps
    <3>3. dev'.cbw = JunkCBW
      BY <1>1, <3>1 DEF OverCBW, DevType
    <3>4. JunkCBW.lba + JunkCBW.nblk <= dev.blk_nbr
      BY <1>1, Fields DEF JunkCBW
    <3> QED
      BY <1>1, <3>2, <3>3, <3>4, WithinForm DEF Limited, Inside
  <2> QED
    BY <2>1, <2>2
<1>5. CASE HostReceiveData \/ HostReceiveCSW \/ HostReceiveInvalid
  <2>1. dev' = [dev EXCEPT !.tx = NoXfer]
    BY <1>5 DEF HostReceiveData, HostReceiveCSW, HostReceiveInvalid, HostTakes
  <2>2. /\ dev'.blk_nbr = dev.blk_nbr /\ dev'.state = dev.state
        /\ dev'.cbw = dev.cbw
    BY <1>1, <2>1 DEF DevType
  <2> QED
    BY <1>2, <2>2
<1>6. ASSUME NEW ep \in {"in", "out"}, dev' = ClearFeature(dev, ep)
      PROVE  Within'
  <2>1. dev'.blk_nbr = dev.blk_nbr
    BY <1>1, <1>6, ClearFeatureKeeps
  <2>2. \/ Stands(dev', dev)
        \/ Fails(dev', [dev EXCEPT !.halt_in = FALSE])
    BY <1>1, <1>6, ClearFeatureKeeps
  <2> QED
    BY <1>2, <2>1, <2>2 DEF Stands, Fails, Stages
<1>7. CASE HostClearHalt
  <2>1. \E ep \in {"in", "out"} : dev' = ClearFeature(dev, ep)
    BY <1>7 DEF HostClearHalt, Setup
  <2> QED
    BY <1>6, <2>1
<1>8. CASE HostResetRecovery
  <2>1. CASE dev' = MSC_BOT_Reset(dev)
    <3>1. dev'.state = "IDLE" /\ dev'.blk_nbr = dev.blk_nbr
      BY <1>1, <2>1, ResetKeeps
    <3> QED
      BY <1>2, <3>1 DEF Stages
  <2>2. CASE \E ep \in {"in", "out"} : dev' = ClearFeature(dev, ep)
    BY <1>6, <2>2
  <2> QED
    BY <1>8, <2>1, <2>2 DEF HostResetRecovery, Setup
<1>9. CASE HostStalledAgain \/ HostTimeout
  <2>1. dev' = dev
    BY <1>9 DEF HostStalledAgain, HostTimeout
  <2> QED
    BY <1>2, <2>1
<1>10. CASE HostPortReset
  <2> DEFINE d == [dev EXCEPT !.state = "IDLE"]
  <2>1. d \in DevType /\ d.blk_nbr = dev.blk_nbr
    BY <1>1 DEF DevType, States
  <2>2. dev' = MSC_BOT_Init(d)
    BY <1>10 DEF HostPortReset
  <2> HIDE DEF d
  <2>3. dev'.state = "IDLE" /\ dev'.blk_nbr = dev.blk_nbr
    BY <2>1, <2>2, InitKeeps
  <2> QED
    BY <1>2, <2>3 DEF Stages
<1> QED
  BY <1>3, <1>4, <1>5, <1>7, <1>8, <1>9, <1>10 DEF HostStep

LEMMA WithinNext ==
  ASSUME Inv, OnCourse, Within, [Next]_vars
  PROVE  Within'
<1>1. CASE UNCHANGED vars
  BY <1>1, WithinForm DEF vars
<1> QED
  BY <1>1, DeviceWithin, HostWithin DEF Next

-----------------------------------------------------------------------------
(* The theorems.                                                           *)

\* The verdict on a command depends on that command and its own unit alone,
\* once the host has asked for the capacity of the unit: no command before it,
\* no refusal, no time-out and no recovery changes it (SCSI_ProcessCmd,
\* MSC_BOT_CBW_Decode).  For every medium, buffer and sense list, with a
\* medium that does not fail and a host that lets the port alone.
THEOREM VerdictIsOwnAlways ==
  ASSUME HostCommands, WellFormed, MediaFaults = FALSE, PortResets = FALSE
  PROVE  Spec => []VerdictIsOwn
<1>1. Inv /\ OnCourse /\ Verdicts => VerdictIsOwn
  BY DEF VerdictIsOwn, Verdicts, Judged, Accepted, Rejected, Due
<1> QED
  BY <1>1, VerdictsAlways, PTL

\* After a refusal the sense list holds one entry, the reason of that refusal,
\* for a host that asks for it: nothing stale in front of it and nothing lost,
\* though a reset clears no entry and the list wraps (SCSI_SenseCode,
\* SCSI_RequestSense).
THEOREM SenseIsOfFailureAlways ==
  ASSUME HostCommands, WellFormed, MediaFaults = FALSE, PortResets = FALSE,
         AutoSense
  PROVE  Spec => []SenseIsOfFailure
<1>1. Inv /\ OnCourse /\ Reasons => SenseIsOfFailure
  BY DEF SenseIsOfFailure, Reasons, Sensed, Lone, One, Due
<1> QED
  BY <1>1, ReasonsAlways, PTL

\* A transfer in progress lies below the limit it was accepted under: the
\* range check cannot wrap, and nothing moves the limit or the command block
\* under the transfer, whatever the medium, the time-outs, the resets and the
\* other commands do (SCSI_CheckAddressRange, SCSI_ReadCapacity10).
THEOREM BelowLimitAlways ==
  ASSUME HostCommands
  PROVE  Spec => [](dev.state \in Stages =>
                      dev.cbw.lba + dev.cbw.nblk <= dev.blk_nbr)
<1>1. Inv /\ OnCourse /\ Within /\ [Next]_vars => Within'
  BY WithinNext
<1>2. Within => (dev.state \in Stages =>
                   dev.cbw.lba + dev.cbw.nblk <= dev.blk_nbr)
  BY DEF Within, Inside
<1> QED
  BY <1>1, <1>2, WithinInit, CourseAlways, PTL DEF Spec

\* With one unit, or units of one capacity, that limit is the unit's own: a
\* transfer starts, and goes on, only inside the unit it is addressed to.
\* With units of different capacities it does not (SCSI_ReadCapacity10).
THEOREM AcceptedInRangeAlways ==
  ASSUME HostCommands, SameCapacity
  PROVE  Spec => []AcceptedInRange
<1>1. Inv /\ OnCourse /\ Within /\ [Next]_vars => Within'
  BY WithinNext
<1>2. Inv /\ Within => AcceptedInRange
  <2> SUFFICES ASSUME Inv, Within, dev.state \in Stages
               PROVE  dev.cbw.lba + dev.cbw.nblk <= Capacity[dev.cbw.lun]
    BY DEF AcceptedInRange, Stages
  <2> DEFINE t == dev.cbw.lba + dev.cbw.nblk
             z == Capacity[dev.cbw.lun]
  <2>1. dev \in DevType /\ dev.cbw.lun \in Luns
    BY States0, Fields, CBWFields
  <2>2. t <= dev.blk_nbr /\ dev.blk_nbr \in {0, z}
    BY <2>1 DEF Within, Inside, Limited, SameCapacity
  <2>3. t \in Nat /\ z \in Nat
    BY <2>1, Fields, CBWFields, ConstantsAssumption
  <2> HIDE DEF t, z
  <2>4. t <= z
    BY <2>2, <2>3
  <2> QED
    BY <2>4 DEF t, z
<1> QED
  BY <1>1, <1>2, WithinInit, CourseAlways, PTL DEF Spec
=============================================================================
