---------------------------- MODULE MscBotProofs ----------------------------
(***************************************************************************)
(* Proofs about MscBot, for every value of its constants: the types of its *)
(* variables, the discipline between its state machine and its endpoints,  *)
(* and what follows from the discipline about transfers and buffers.  The  *)
(* first part has a lemma for each operator: it maps a well-typed handle   *)
(* to a well-typed one.                                                    *)
(***************************************************************************)
EXTENDS MscBot, TLAPS, SequenceTheorems

-----------------------------------------------------------------------------
(* Arithmetic.                                                             *)

\* Remainders are natural numbers below the modulus.
LEMMA ModType ==
  ASSUME NEW a \in Int, NEW b \in Nat \ {0}
  PROVE  a % b \in 0 .. b - 1
OBVIOUS

\* Quotients of natural numbers are natural numbers.
LEMMA DivType ==
  ASSUME NEW a \in Nat, NEW b \in Nat \ {0}
  PROVE  a \div b \in Nat
OBVIOUS

\* What fits the media buffer is at most Slots blocks.
LEMMA DivBound ==
  ASSUME NEW a \in Nat, NEW b \in Nat \ {0}, NEW s \in Nat, a <= s * b
  PROVE  a \div b <= s
<1>1. a = b * (a \div b) + (a % b) /\ a % b \in 0 .. b - 1 /\ a \div b \in Nat
  OBVIOUS
<1>2. SUFFICES ASSUME a \div b >= s + 1 PROVE FALSE
  BY <1>1
<1> DEFINE q == a \div b
<1>3. q \in Nat /\ q >= s + 1 /\ a >= b * q
  BY <1>1, <1>2
<1> HIDE DEF q
<1>4. b * q >= b * (s + 1)
  BY <1>3
<1>5. b * (s + 1) = s * b + b
  OBVIOUS
<1> QED
  BY <1>3, <1>4, <1>5

-----------------------------------------------------------------------------
(* Every handler maps a well-typed handle to a well-typed handle.          *)


\* The types of the fields, one by one.
LEMMA Fields ==
  ASSUME NEW d \in DevType
  PROVE  /\ d.state \in States /\ d.status \in {"NORMAL", "RECOVERY", "ERROR"}
         /\ d.data_length \in Nat /\ d.data \in [1 .. Slots -> Slot]
         /\ d.cbw \in CBWType /\ d.csw \in CSWType
         /\ d.sense \in [0 .. SenseDepth - 1 -> SenseCodes]
         /\ d.head \in 0 .. SenseDepth - 1 /\ d.tail \in 0 .. SenseDepth - 1
         /\ d.blk_size \in {0, BlkSize} /\ d.blk_nbr \in Nat
         /\ d.blk_addr \in Nat /\ d.blk_len \in Nat
         /\ d.started \in BOOLEAN /\ d.tx \in XferType
         /\ d.rx \in {"none", "cbw", "data"} /\ d.rx_len \in Nat
         /\ d.halt_in \in BOOLEAN /\ d.halt_out \in BOOLEAN
         /\ d.written \in SUBSET (Luns \X Int \X Slot)
BY DEF DevType

LEMMA CBWFields ==
  ASSUME NEW c \in CBWType
  PROVE  /\ c.lun \in Luns /\ c.lba \in Nat /\ c.nblk \in Nat
         /\ c.dlen \in Nat /\ c.alloc \in {0, 1}
         /\ c.op \in BlockOps \cup InfoOps \cup ControlOps \cup {"UNKNOWN"}
         /\ c.tag \in Tags \cup {JunkTag}
BY DEF CBWType

LEMMA TransmitType ==
  ASSUME NEW d \in DevType, NEW x \in XferType
  PROVE  USBD_LL_Transmit(d, x) \in DevType
BY DEF DevType, USBD_LL_Transmit

LEMMA PrepareReceiveType ==
  ASSUME NEW d \in DevType, NEW b \in {"none", "cbw", "data"}, NEW n \in Nat
  PROVE  USBD_LL_PrepareReceive(d, b, n) \in DevType
BY DEF DevType, USBD_LL_PrepareReceive

LEMMA FlushEPType ==
  ASSUME NEW d \in DevType, NEW e \in {"in", "out"}
  PROVE  USBD_LL_FlushEP(d, e) \in DevType
BY DEF DevType, XferType, NoXfer, USBD_LL_FlushEP

LEMMA SenseCodeType ==
  ASSUME NEW d \in DevType, NEW asc \in SenseCodes
  PROVE  SCSI_SenseCode(d, asc) \in DevType
<1> DEFINE t == d.tail + 1
<1>1. t \in Int /\ SenseDepth \in Nat \ {0}
  BY Fields, ConstantsAssumption
<1> HIDE DEF t
<1>2. t % SenseDepth \in 0 .. SenseDepth - 1
  BY <1>1, ModType
<1> USE DEF t
<1> QED
  BY <1>2 DEF DevType, SCSI_SenseCode

LEMMA SendDataType ==
  ASSUME NEW d \in DevType
  PROVE  MSC_BOT_SendData(d) \in DevType
<1> DEFINE len == Min2(d.cbw.dlen, d.data_length)
           c == [d.csw EXCEPT !.residue = @ - len, !.status = "PASSED"]
           e == [d EXCEPT !.csw = c, !.state = "SEND_DATA"]
           x == [kind |-> "info", len |-> len, what |-> d.data[1]]
<1>1. len \in Nat
  BY Fields, CBWFields DEF Min2
<1> HIDE DEF len
<1>a. d.csw \in CSWType /\ d.csw.residue - len \in Int
  BY <1>1, Fields DEF CSWType
<1>2. c \in CSWType
  BY <1>a DEF CSWType, Statuses
<1>3. x \in XferType
  BY <1>1, Fields, ConstantsAssumption DEF XferType
<1> HIDE DEF c
<1>4. e \in DevType
  BY <1>2 DEF DevType, States
<1>5. MSC_BOT_SendData(d) = USBD_LL_Transmit(e, x)
  BY DEF MSC_BOT_SendData, c, len, DevType, CSWType
<1> QED
  BY <1>3, <1>4, <1>5, TransmitType

LEMMA SendCSWType ==
  ASSUME NEW d \in DevType, NEW st \in {"PASSED", "FAILED"}
  PROVE  MSC_BOT_SendCSW(d, st) \in DevType
<1> DEFINE c == [d EXCEPT !.csw.status = st, !.state = "IDLE"]
<1>1. c \in DevType
  BY DEF DevType, CSWType, Statuses, States
<1>2. [kind |-> "csw", csw |-> c.csw] \in XferType
  BY <1>1 DEF DevType, XferType
<1> HIDE DEF c
<1>3. USBD_LL_Transmit(c, [kind |-> "csw", csw |-> c.csw]) \in DevType
  BY <1>1, <1>2, TransmitType
<1> QED
  BY <1>3, PrepareReceiveType DEF MSC_BOT_SendCSW, c

LEMMA AbortType ==
  ASSUME NEW d \in DevType
  PROVE  MSC_BOT_Abort(d) \in DevType
<1> DEFINE h(out) == [d EXCEPT !.halt_out = @ \/ out, !.halt_in = TRUE]
<1>1. ASSUME NEW out \in BOOLEAN PROVE h(out) \in DevType
  BY DEF DevType
<1> HIDE DEF h
<1>2. \A out \in BOOLEAN : USBD_LL_PrepareReceive(h(out), "cbw", 1) \in DevType
  BY <1>1, PrepareReceiveType
<1> QED
  BY <1>1, <1>2 DEF MSC_BOT_Abort, h

LEMMA GoodType ==
  ASSUME NEW d \in DevType
  PROVE  Good(d).dev \in DevType
BY DEF Good

LEMMA BadType ==
  ASSUME NEW d \in DevType, NEW asc \in SenseCodes
  PROVE  Bad(d, asc).dev \in DevType
BY SenseCodeType DEF Bad

LEMMA InfoReplyType ==
  ASSUME NEW d \in DevType, NEW w \in SenseCodes \cup InfoOps, NEW n \in Nat
  PROVE  InfoReply(d, w, n).dev \in DevType
<1>1. Info(w) \in Slot
  BY DEF Info, Slot, Infos
<1> QED
  BY <1>1 DEF InfoReply, Good, DevType

LEMMA TestUnitReadyType ==
  ASSUME NEW d \in DevType
  PROVE  SCSI_TestUnitReady(d).dev \in DevType
<1>1. [d EXCEPT !.state = "NO_DATA"] \in DevType
  BY DEF DevType, States
<1>2. [d EXCEPT !.data_length = 0] \in DevType
  BY DEF DevType
<1>3. {"INVALID_CDB", "MEDIUM_NOT_PRESENT"} \subseteq SenseCodes
  BY DEF SenseCodes
<1>4. d.cbw.dlen # 0 => SCSI_TestUnitReady(d) = Bad(d, "INVALID_CDB")
  BY DEF SCSI_TestUnitReady
<1>5. d.cbw.dlen = 0 /\ ~IsReady(d) => SCSI_TestUnitReady(d)
        = Bad([d EXCEPT !.state = "NO_DATA"], "MEDIUM_NOT_PRESENT")
  BY DEF SCSI_TestUnitReady
<1>6. d.cbw.dlen = 0 /\ IsReady(d) =>
        SCSI_TestUnitReady(d) = Good([d EXCEPT !.data_length = 0])
  BY DEF SCSI_TestUnitReady
<1> QED
  BY <1>1, <1>2, <1>3, <1>4, <1>5, <1>6, BadType, GoodType

LEMMA ReadCapacity10Type ==
  ASSUME NEW d \in DevType, d.cbw.op = "READ_CAPACITY10"
  PROVE  SCSI_ReadCapacity10(d).dev \in DevType
<1> DEFINE e == [d EXCEPT !.blk_nbr = Capacity[d.cbw.lun], !.blk_size = BlkSize]
<1>1. Capacity[d.cbw.lun] \in Nat
  BY Fields, CBWFields, ConstantsAssumption
<1>2. e \in DevType
  BY <1>1 DEF DevType
<1>3. "READ_CAPACITY10" \in InfoOps
  BY DEF InfoOps
<1> QED
  BY <1>2, <1>3, InfoReplyType DEF SCSI_ReadCapacity10

LEMMA RequestSenseType ==
  ASSUME NEW d \in DevType
  PROVE  SCSI_RequestSense(d).dev \in DevType
<1> DEFINE h == (d.head + 1) % SenseDepth
           e == [d EXCEPT !.head = h]
<1>1. d.cbw.alloc \in Nat /\ d.sense[d.head] \in SenseCodes
      /\ "NONE" \in SenseCodes
  BY Fields, CBWFields, ConstantsAssumption DEF SenseCodes
<1>2. d.head + 1 \in Int /\ SenseDepth \in Nat \ {0}
  BY Fields, ConstantsAssumption
<1>3. h \in 0 .. SenseDepth - 1
  BY <1>2, ModType
<1> HIDE DEF h
<1>4. e \in DevType
  BY <1>3 DEF DevType
<1> HIDE DEF e
<1>5. InfoReply(e, d.sense[d.head], d.cbw.alloc).dev \in DevType
      /\ InfoReply(d, "NONE", d.cbw.alloc).dev \in DevType
  BY <1>1, <1>4, InfoReplyType
<1> QED
  BY <1>5 DEF SCSI_RequestSense, e, h

LEMMA InquiryType ==
  ASSUME NEW d \in DevType, d.cbw.op \in InfoOps
  PROVE  /\ SCSI_Inquiry(d).dev \in DevType
         /\ SCSI_ModeSense(d).dev \in DevType
         /\ SCSI_ReadFormatCapacity(d).dev \in DevType
<1>1. (IF d.cbw.flag THEN 1 ELSE d.cbw.alloc) \in Nat
  BY Fields, CBWFields
<1> QED
  BY <1>1, InfoReplyType
     DEF SCSI_Inquiry, SCSI_ModeSense, SCSI_ReadFormatCapacity

LEMMA StartStopUnitType ==
  ASSUME NEW d \in DevType
  PROVE  SCSI_StartStopUnit(d).dev \in DevType
BY DEF SCSI_StartStopUnit, Good, DevType

LEMMA Verify10Type ==
  ASSUME NEW d \in DevType
  PROVE  SCSI_Verify10(d).dev \in DevType
<1>1. [d EXCEPT !.data_length = 0] \in DevType
  BY DEF DevType
<1>2. {"INVALID_FIELED_IN_COMMAND", "ADDRESS_OUT_OF_RANGE"} \subseteq SenseCodes
  BY DEF SenseCodes
<1> DEFINE in == SCSI_CheckAddressRange(d, d.blk_addr, d.blk_len)
<1> HIDE DEF in
<1>3. SCSI_Verify10(d) \in {Bad(d, "INVALID_FIELED_IN_COMMAND"),
                            Bad(d, "ADDRESS_OUT_OF_RANGE"),
                            Good([d EXCEPT !.data_length = 0])}
  BY DEF SCSI_Verify10, in
<1> QED
  BY <1>1, <1>2, <1>3, BadType, GoodType

LEMMA BlkType ==
  ASSUME NEW d \in DevType, NEW n \in Nat
  PROVE  /\ Blk(d, n) \in Nat
         /\ n <= MediaPacket => Blk(d, n) <= Slots
<1>1. d.blk_size \in {0, BlkSize} /\ BlkSize \in Nat \ {0} /\ Slots \in Nat
  BY Fields, ConstantsAssumption
<1>2. n \div BlkSize \in Nat
  BY <1>1, DivType
<1>3. n <= Slots * BlkSize => n \div BlkSize <= Slots
  BY <1>1, DivBound
<1> QED
  BY <1>1, <1>2, <1>3 DEF Blk, MediaPacket

\* What is moved at once: no more than is left, no more than the buffer holds.
LEMMA PieceType ==
  ASSUME NEW d \in DevType
  PROVE  LET len == Min2(d.blk_len, MediaPacket)
         IN  len \in Nat /\ len <= d.blk_len /\ len <= MediaPacket
<1>1. MediaPacket \in Nat /\ d.blk_len \in Nat
  BY Fields, ConstantsAssumption DEF MediaPacket
<1> QED
  BY <1>1 DEF Min2

LEMMA MovedType ==
  ASSUME NEW d \in DevType, NEW len \in Nat, len <= d.blk_len
  PROVE  Moved(d, len) \in DevType
<1> DEFINE a == (d.blk_addr + len) % U32
           b == d.blk_len - len
           c == [d.csw EXCEPT !.residue = @ - len]
<1>1. d.blk_addr + len \in Int /\ U32 \in Nat \ {0}
  BY Fields, ConstantsAssumption
<1>2. a \in 0 .. U32 - 1
  BY <1>1, ModType
<1>3. a \in Nat
  BY <1>1, <1>2
<1>4. b \in Nat
  BY Fields
<1>5. d.csw \in CSWType /\ d.csw.residue - len \in Int
  BY Fields DEF CSWType
<1>6. c \in CSWType
  BY <1>5 DEF CSWType
<1> HIDE DEF a, b, c
<1>7. [d EXCEPT !.blk_addr = a, !.blk_len = b, !.csw = c] \in DevType
  BY <1>3, <1>4, <1>6 DEF DevType
<1> QED
  BY <1>7 DEF Moved, a, b, c

LEMMA ProcessReadType ==
  ASSUME NEW d \in DevType, NEW ok \in BOOLEAN
  PROVE  SCSI_ProcessRead(d, ok).dev \in DevType
<1> DEFINE len  == Min2(d.blk_len, MediaPacket)
           n    == Blk(d, len)
           at   == Blk(d, d.blk_addr)
           data == [i \in 1 .. Slots |->
                      IF i <= n THEN Block(at + i - 1) ELSE d.data[i]]
           full == [d EXCEPT !.data = data]
           x    == [kind |-> "blocks", len |-> len,
                    blks |-> [i \in 1 .. n |-> full.data[i]]]
           sent == Moved(USBD_LL_Transmit(full, x), len)
           last == [sent EXCEPT
                      !.state = IF sent.blk_len = 0 THEN "LAST_DATA_IN" ELSE @]
<1>1. len \in Nat /\ len <= d.blk_len /\ len <= MediaPacket
  BY PieceType
<1> HIDE DEF len
<1>2. n \in Nat /\ n <= Slots
  BY <1>1, BlkType
<1>3. at \in Nat
  BY BlkType, Fields
<1> HIDE DEF n, at
<1>4. data \in [1 .. Slots -> Slot]
  <2>1. ASSUME NEW i \in 1 .. Slots PROVE data[i] \in Slot
    <3>1. at + i - 1 \in Int /\ d.data[i] \in Slot
      BY <1>3, Fields, ConstantsAssumption
    <3> QED
      BY <3>1 DEF Block, Slot, Blocks
  <2> QED
    BY <2>1
<1> HIDE DEF data
<1>5. full \in DevType
  BY <1>4 DEF DevType
<1>6. full.data = data /\ full.blk_len = d.blk_len
  BY DEF DevType
<1>7. x \in XferType
  <2>1. [i \in 1 .. n |-> full.data[i]] \in Seq(Slot)
    BY <1>2, <1>4, <1>6, ConstantsAssumption
  <2> QED
    BY <1>1, <2>1 DEF XferType
<1> HIDE DEF full, x
<1>8. USBD_LL_Transmit(full, x) \in DevType
  BY <1>5, <1>7, TransmitType
<1>9. USBD_LL_Transmit(full, x).blk_len = d.blk_len
  BY <1>5, <1>6 DEF USBD_LL_Transmit, DevType
<1>10. sent \in DevType
  BY <1>1, <1>8, <1>9, MovedType
<1> HIDE DEF sent
<1>11. last \in DevType
  BY <1>10 DEF DevType, States
<1> HIDE DEF last
<1>12. SCSI_ProcessRead(d, ok) \in {Good(last), Bad(d, "UNRECOVERED_READ_ERROR")}
  BY DEF SCSI_ProcessRead, last, sent, x, full, data, at, n, len
<1>13. "UNRECOVERED_READ_ERROR" \in SenseCodes
  BY DEF SenseCodes
<1> QED
  BY <1>11, <1>12, <1>13, GoodType, BadType

LEMMA ProcessWriteType ==
  ASSUME NEW d \in DevType, NEW ok \in BOOLEAN
  PROVE  SCSI_ProcessWrite(d, ok).dev \in DevType
<1> DEFINE len  == Min2(d.blk_len, MediaPacket)
           n    == Blk(d, len)
           at   == Blk(d, d.blk_addr)
           new  == {<<d.cbw.lun, at + i - 1, d.data[i]>> : i \in 1 .. n}
           w    == [d EXCEPT !.written = @ \cup new]
           done == Moved(w, len)
<1>1. len \in Nat /\ len <= d.blk_len /\ len <= MediaPacket
  BY PieceType
<1> HIDE DEF len
<1>2. n \in Nat /\ n <= Slots
  BY <1>1, BlkType
<1>3. at \in Nat
  BY BlkType, Fields
<1> HIDE DEF n, at
<1>4. new \subseteq Luns \X Int \X Slot
  <2>1. ASSUME NEW i \in 1 .. n
        PROVE  <<d.cbw.lun, at + i - 1, d.data[i]>> \in Luns \X Int \X Slot
    BY <1>2, <1>3, Fields, CBWFields, ConstantsAssumption
  <2> QED
    BY <2>1
<1> HIDE DEF new
<1>5. w \in DevType /\ w.blk_len = d.blk_len
  BY <1>4 DEF DevType
<1> HIDE DEF w
<1>6. done \in DevType
  BY <1>1, <1>5, MovedType
<1> HIDE DEF done
<1>7. MSC_BOT_SendCSW(done, "PASSED") \in DevType
  BY <1>6, SendCSWType
<1>8. Min2(done.blk_len, MediaPacket) \in Nat
  BY <1>6, PieceType
<1>9. USBD_LL_PrepareReceive(done, "data", Min2(done.blk_len, MediaPacket))
        \in DevType
  BY <1>6, <1>8, PrepareReceiveType
<1>10. SCSI_ProcessWrite(d, ok) \in
         {Bad(d, "WRITE_FAULT"), Good(MSC_BOT_SendCSW(done, "PASSED")),
          Good(USBD_LL_PrepareReceive(done, "data",
                                      Min2(done.blk_len, MediaPacket)))}
  BY DEF SCSI_ProcessWrite, done, w, new, at, n, len
<1>11. "WRITE_FAULT" \in SenseCodes
  BY DEF SenseCodes
<1> QED
  BY <1>7, <1>9, <1>10, <1>11, GoodType, BadType

LEMMA RangeType ==
  ASSUME NEW d \in DevType
  PROVE  CdbRange(d) \in DevType /\ InUnits(CdbRange(d)) \in DevType
<1> DEFINE r == CdbRange(d)
           a == (r.blk_addr * r.blk_size) % U32
           b == (r.blk_len * r.blk_size) % U32
<1>1. r \in DevType
  BY CBWFields, Fields DEF CdbRange, DevType
<1> HIDE DEF r
<1>2. r.blk_addr * r.blk_size \in Int /\ r.blk_len * r.blk_size \in Int
      /\ U32 \in Nat \ {0}
  BY <1>1, Fields, ConstantsAssumption
<1>3. a \in 0 .. U32 - 1 /\ b \in 0 .. U32 - 1
  BY <1>2, ModType
<1>4. a \in Nat /\ b \in Nat
  BY <1>2, <1>3
<1> HIDE DEF a, b
<1>5. [r EXCEPT !.blk_addr = a, !.blk_len = b] \in DevType
  BY <1>1, <1>4 DEF DevType
<1>6. InUnits(r) \in DevType
  BY <1>5 DEF InUnits, a, b
<1> QED
  BY <1>1, <1>6 DEF r

LEMMA Read10Type ==
  ASSUME NEW d \in DevType, NEW ok \in BOOLEAN
  PROVE  SCSI_Read10(d, ok).dev \in DevType
<1> DEFINE r == CdbRange(d)
           v == InUnits(r)
           u == [v EXCEPT !.state = "DATA_IN"]
           e == [d EXCEPT !.data_length = MediaPacket]
           f == [u EXCEPT !.data_length = MediaPacket]
           in == SCSI_CheckAddressRange(r, r.blk_addr, r.blk_len)
<1>1. r \in DevType /\ v \in DevType
  BY RangeType
<1> HIDE DEF v
<1>2. u \in DevType
  BY <1>1 DEF DevType, States
<1> HIDE DEF u
<1>3. MediaPacket \in Nat
  BY ConstantsAssumption DEF MediaPacket
<1>4. e \in DevType /\ f \in DevType
  BY <1>2, <1>3 DEF DevType
<1> HIDE DEF e, f, in, r
<1>5. {"INVALID_CDB", "MEDIUM_NOT_PRESENT", "ADDRESS_OUT_OF_RANGE"}
        \subseteq SenseCodes
  BY DEF SenseCodes
<1>6. SCSI_Read10(d, ok) \in
        {SCSI_ProcessRead(e, ok), SCSI_ProcessRead(f, ok),
         Bad(d, "INVALID_CDB"), Bad(d, "MEDIUM_NOT_PRESENT"),
         Bad(r, "ADDRESS_OUT_OF_RANGE"), Bad(u, "INVALID_CDB")}
  BY DEF SCSI_Read10, e, f, in, u, v, r
<1> QED
  BY <1>1, <1>2, <1>4, <1>5, <1>6, ProcessReadType, BadType

LEMMA Write10Type ==
  ASSUME NEW d \in DevType, NEW ok \in BOOLEAN
  PROVE  SCSI_Write10(d, ok).dev \in DevType
<1> DEFINE r == CdbRange(d)
           u == InUnits(r)
           len == Min2(u.blk_len, MediaPacket)
           w == [u EXCEPT !.state = "DATA_OUT"]
           g == USBD_LL_PrepareReceive(w, "data", len)
           in == SCSI_CheckAddressRange(r, r.blk_addr, r.blk_len)
<1>1. r \in DevType /\ u \in DevType
  BY RangeType
<1> HIDE DEF u
<1>2. len \in Nat
  BY <1>1, PieceType
<1>3. w \in DevType
  BY <1>1 DEF DevType, States
<1> HIDE DEF w, len
<1>4. g \in DevType
  BY <1>2, <1>3, PrepareReceiveType
<1> HIDE DEF g, in, r
<1>5. {"INVALID_CDB", "MEDIUM_NOT_PRESENT", "ADDRESS_OUT_OF_RANGE"}
        \subseteq SenseCodes
  BY DEF SenseCodes
<1>6. SCSI_Write10(d, ok) \in
        {SCSI_ProcessWrite(d, ok), Good(g),
         Bad(d, "INVALID_CDB"), Bad(d, "MEDIUM_NOT_PRESENT"),
         Bad(r, "ADDRESS_OUT_OF_RANGE"), Bad(u, "INVALID_CDB")}
  BY DEF SCSI_Write10, g, len, w, in, u, r
<1> QED
  BY <1>1, <1>4, <1>5, <1>6, ProcessWriteType, BadType, GoodType

LEMMA ProcessCmdType ==
  ASSUME NEW d \in DevType, NEW ok \in BOOLEAN
  PROVE  SCSI_ProcessCmd(d, ok).dev \in DevType
<1>1. "INVALID_CDB" \in SenseCodes
  BY DEF SenseCodes
<1>2. d.cbw.op \in {"INQUIRY", "MODE_SENSE6", "MODE_SENSE10",
                    "READ_FORMAT_CAPACITIES"} => d.cbw.op \in InfoOps
  BY DEF InfoOps
<1>3. CASE d.cbw.op = "READ_CAPACITY10"
  BY <1>3, ReadCapacity10Type DEF SCSI_ProcessCmd
<1>4. CASE d.cbw.op \in {"INQUIRY", "MODE_SENSE6", "MODE_SENSE10",
                         "READ_FORMAT_CAPACITIES"}
  <2>1. SCSI_ProcessCmd(d, ok) \in
          {SCSI_Inquiry(d), SCSI_ModeSense(d), SCSI_ReadFormatCapacity(d)}
    BY <1>4 DEF SCSI_ProcessCmd
  <2> QED
    BY <1>2, <1>4, <2>1, InquiryType
<1>5. CASE d.cbw.op \notin {"READ_CAPACITY10", "INQUIRY", "MODE_SENSE6",
                            "MODE_SENSE10", "READ_FORMAT_CAPACITIES"}
  <2>1. SCSI_ProcessCmd(d, ok) \in
          {SCSI_TestUnitReady(d), SCSI_RequestSense(d), SCSI_StartStopUnit(d),
           SCSI_Read10(d, ok), SCSI_Write10(d, ok), SCSI_Verify10(d),
           Bad(d, "INVALID_CDB")}
    BY <1>5 DEF SCSI_ProcessCmd
  <2> QED
    BY <1>1, <2>1, TestUnitReadyType, RequestSenseType, StartStopUnitType,
       Read10Type, Write10Type, Verify10Type, BadType
<1> QED
  BY <1>3, <1>4, <1>5

LEMMA DecodeType ==
  ASSUME NEW d0 \in DevType, NEW ok \in BOOLEAN
  PROVE  MSC_BOT_CBW_Decode(d0, ok) \in DevType
<1> DEFINE d == [d0 EXCEPT !.csw.tag = d0.cbw.tag, !.csw.residue = d0.cbw.dlen]
           r == SCSI_ProcessCmd(d, ok)
           e == r.dev
           s == SCSI_SenseCode(d, "INVALID_CDB")
           z == [s EXCEPT !.status = "ERROR"]
<1>1. d \in DevType
  <2>1. d0.csw \in CSWType /\ d0.cbw.tag \in Tags \cup {JunkTag}
        /\ d0.cbw.dlen \in Int
    BY Fields, CBWFields
  <2>2. [d0.csw EXCEPT !.tag = d0.cbw.tag, !.residue = d0.cbw.dlen] \in CSWType
    BY <2>1 DEF CSWType
  <2> QED
    BY <2>2 DEF DevType
<1> HIDE DEF d
<1>2. e \in DevType
  BY <1>1, ProcessCmdType
<1>3. s \in DevType
  BY <1>1, SenseCodeType DEF SenseCodes
<1> HIDE DEF s
<1>4. z \in DevType
  BY <1>3 DEF DevType
<1> HIDE DEF z, r
<1>5. MSC_BOT_CBW_Decode(d0, ok) \in
        {MSC_BOT_Abort(z), MSC_BOT_SendCSW(e, "FAILED"), MSC_BOT_Abort(e), e,
         MSC_BOT_SendData(e), MSC_BOT_SendCSW(e, "PASSED")}
  BY DEF MSC_BOT_CBW_Decode, z, s, r, d
<1> QED
  BY <1>2, <1>4, <1>5, AbortType, SendCSWType, SendDataType

LEMMA DataStageType ==
  ASSUME NEW d \in DevType, NEW ok \in BOOLEAN
  PROVE  /\ MSC_BOT_DataIn(d, ok) \in DevType
         /\ MSC_BOT_DataOut(d, ok) \in DevType
<1>1. ContinueOrFail(d, ok) \in DevType
  BY ProcessCmdType, SendCSWType DEF ContinueOrFail
<1>2. MSC_BOT_DataIn(d, ok) \in
        {ContinueOrFail(d, ok), MSC_BOT_SendCSW(d, "PASSED"), d}
  BY DEF MSC_BOT_DataIn
<1>3. MSC_BOT_DataOut(d, ok) \in
        {MSC_BOT_CBW_Decode(d, ok), ContinueOrFail(d, ok), d}
  BY DEF MSC_BOT_DataOut
<1> QED
  BY <1>1, <1>2, <1>3, SendCSWType, DecodeType

LEMMA ResetType ==
  ASSUME NEW d \in DevType
  PROVE  MSC_BOT_Reset(d) \in DevType
<1>1. [d EXCEPT !.state = "IDLE", !.status = "RECOVERY"] \in DevType
  BY DEF DevType, States
<1> QED
  BY <1>1, PrepareReceiveType DEF MSC_BOT_Reset

LEMMA InitType ==
  ASSUME NEW d \in DevType
  PROVE  MSC_BOT_Init(d) \in DevType
<1> DEFINE e == [d EXCEPT !.state = "IDLE", !.status = "NORMAL",
                          !.head = 0, !.tail = 0, !.started = TRUE]
<1>a. 0 \in 0 .. SenseDepth - 1
  BY ConstantsAssumption
<1>1. e \in DevType
  BY <1>a DEF DevType, States
<1> HIDE DEF e
<1>2. USBD_LL_FlushEP(e, "in") \in DevType
  BY <1>1, FlushEPType
<1> QED
  BY <1>2, PrepareReceiveType DEF MSC_BOT_Init, e

LEMMA ClearFeatureType ==
  ASSUME NEW d \in DevType, NEW ep \in {"in", "out"}
  PROVE  ClearFeature(d, ep) \in DevType
<1> DEFINE i == [d EXCEPT !.halt_in = FALSE]
           o == [d EXCEPT !.halt_out = FALSE]
           c == IF ep = "in" THEN i ELSE o
           f == USBD_LL_FlushEP(c, ep)
           h == [f EXCEPT !.halt_in = TRUE, !.status = "NORMAL"]
<1>1. i \in DevType /\ o \in DevType
  BY DEF DevType
<1> HIDE DEF i, o
<1>2. f \in DevType
  BY <1>1, FlushEPType
<1> HIDE DEF f
<1>3. h \in DevType
  BY <1>2 DEF DevType
<1> HIDE DEF h
<1>4. MSC_BOT_CplClrFeature(f, ep) \in {h, MSC_BOT_SendCSW(f, "FAILED"), f}
  BY DEF MSC_BOT_CplClrFeature, h
<1>5. ClearFeature(d, ep) = MSC_BOT_CplClrFeature(f, ep)
  BY DEF ClearFeature, f, i, o
<1> QED
  BY <1>2, <1>3, <1>4, <1>5, SendCSWType

-----------------------------------------------------------------------------
(* What each handler does to the state, the endpoints and the wrapper.     *)

\* Nothing the discipline is about has changed.
SameControl(e, d) ==
  /\ e.state = d.state /\ e.tx = d.tx /\ e.rx = d.rx /\ e.cbw = d.cbw

\* The four ways a handler can leave the handle d; anything but these four
\* would break the discipline.
Answers(e, d) ==
  e.state = "IDLE" /\ e.tx.kind = "csw" /\ e.rx = "cbw" /\ e.cbw = d.cbw
Sends(e, d) ==
  /\ e.state \in InStates /\ e.tx.kind \in {"info", "blocks"}
  /\ e.rx = d.rx /\ e.cbw = d.cbw
  /\ e.state = "DATA_IN" => d.cbw.op = "READ10"
Receives(e, d) ==
  /\ e.state = "DATA_OUT" /\ e.tx = d.tx /\ e.rx = "data" /\ e.cbw = d.cbw
  /\ d.cbw.op = "WRITE10"
Refuses(e, d) ==
  /\ e.state \in {d.state, "DATA_IN", "NO_DATA"} /\ e.tx = d.tx
  /\ e.rx = d.rx /\ e.cbw = d.cbw

LEMMA SendCSWShape ==
  ASSUME NEW d \in DevType, NEW st \in {"PASSED", "FAILED"}
  PROVE  Answers(MSC_BOT_SendCSW(d, st), d)
BY DEF MSC_BOT_SendCSW, USBD_LL_Transmit, USBD_LL_PrepareReceive, DevType,
       Answers

LEMMA SendDataShape ==
  ASSUME NEW d \in DevType
  PROVE  Sends(MSC_BOT_SendData(d), d)
BY DEF MSC_BOT_SendData, USBD_LL_Transmit, DevType, Sends, InStates

LEMMA SenseCodeShape ==
  ASSUME NEW d \in DevType, NEW asc \in SenseCodes
  PROVE  /\ SameControl(SCSI_SenseCode(d, asc), d)
         /\ SCSI_SenseCode(d, asc).data = d.data
         /\ SCSI_SenseCode(d, asc).status = d.status
BY DEF SCSI_SenseCode, DevType, SameControl

LEMMA AbortShape ==
  ASSUME NEW d \in DevType
  PROVE  LET e == MSC_BOT_Abort(d)
         IN  /\ e.state = d.state /\ e.tx = d.tx /\ e.cbw = d.cbw
             /\ e.data = d.data /\ e.rx \in {d.rx, "cbw"}
BY DEF MSC_BOT_Abort, USBD_LL_PrepareReceive, DevType

LEMMA BadShape ==
  ASSUME NEW d \in DevType, NEW asc \in SenseCodes
  PROVE  Bad(d, asc).ret = -1 /\ SameControl(Bad(d, asc).dev, d)
BY SenseCodeShape DEF Bad

LEMMA ProcessReadShape ==
  ASSUME NEW d \in DevType, NEW ok \in BOOLEAN, d.cbw.op = "READ10",
         d.state \in {"DATA_IN", "LAST_DATA_IN"}
  PROVE  LET r == SCSI_ProcessRead(d, ok)
         IN  \/ r.ret = -1 /\ SameControl(r.dev, d)
             \/ r.ret = 0 /\ Sends(r.dev, d)
<1> DEFINE len  == Min2(d.blk_len, MediaPacket)
           n    == Blk(d, len)
           at   == Blk(d, d.blk_addr)
           full == [d EXCEPT !.data = [i \in 1 .. Slots |->
                      IF i <= n THEN Block(at + i - 1) ELSE d.data[i]]]
           x    == [kind |-> "blocks", len |-> len,
                    blks |-> [i \in 1 .. n |-> full.data[i]]]
           sent == Moved(USBD_LL_Transmit(full, x), len)
           last == [sent EXCEPT
                      !.state = IF sent.blk_len = 0 THEN "LAST_DATA_IN" ELSE @]
<1>1. x.kind = "blocks"
  OBVIOUS
<1> HIDE DEF x, len, n, at
<1>2. /\ sent.state = d.state /\ sent.tx = x /\ sent.rx = d.rx
      /\ sent.cbw = d.cbw /\ DOMAIN sent = DOMAIN d
  BY DEF DevType, Moved, USBD_LL_Transmit
<1> HIDE DEF full, sent
<1>3. /\ last.state \in {d.state, "LAST_DATA_IN"} /\ last.tx = x
      /\ last.rx = d.rx /\ last.cbw = d.cbw
  BY <1>2 DEF DevType
<1>4. Sends(last, d)
  BY <1>1, <1>3 DEF Sends, InStates
<1> HIDE DEF last
<1>5. SCSI_ProcessRead(d, ok) \in {Good(last), Bad(d, "UNRECOVERED_READ_ERROR")}
  BY DEF SCSI_ProcessRead, last, sent, x, full, at, n, len
<1> QED
  BY <1>4, <1>5, BadShape DEF Good, SenseCodes

LEMMA ProcessWriteShape ==
  ASSUME NEW d \in DevType, NEW ok \in BOOLEAN, d.cbw.op = "WRITE10",
         d.state = "DATA_OUT"
  PROVE  LET r == SCSI_ProcessWrite(d, ok)
         IN  \/ r.ret = -1 /\ SameControl(r.dev, d)
             \/ r.ret = 0 /\ Answers(r.dev, d)
             \/ r.ret = 0 /\ Receives(r.dev, d)
<1> DEFINE len  == Min2(d.blk_len, MediaPacket)
           n    == Blk(d, len)
           at   == Blk(d, d.blk_addr)
           new  == {<<d.cbw.lun, at + i - 1, d.data[i]>> : i \in 1 .. n}
           done == Moved([d EXCEPT !.written = @ \cup new], len)
           more == USBD_LL_PrepareReceive(done, "data",
                                          Min2(done.blk_len, MediaPacket))
           csw  == MSC_BOT_SendCSW(done, "PASSED")
<1> HIDE DEF len, n, at, new
<1>1. SameControl(done, d) /\ DOMAIN done = DOMAIN d
  BY DEF DevType, Moved, SameControl
<1> HIDE DEF done
<1>2. Receives(more, d)
  BY <1>1 DEF DevType, SameControl, USBD_LL_PrepareReceive, Receives
<1>3. Answers(csw, d)
  BY <1>1 DEF MSC_BOT_SendCSW, USBD_LL_Transmit, USBD_LL_PrepareReceive,
              DevType, SameControl, Answers
<1> HIDE DEF more, csw
<1>4. SCSI_ProcessWrite(d, ok) \in {Bad(d, "WRITE_FAULT"), Good(csw), Good(more)}
  BY DEF SCSI_ProcessWrite, csw, more, done, new, at, n, len
<1> QED
  BY <1>2, <1>3, <1>4, BadShape DEF Good, SenseCodes

\* A short reply leaves the endpoints to MSC_BOT_SendData.
LEMMA InfoReplyShape ==
  ASSUME NEW d \in DevType, NEW e \in DevType, SameControl(e, d),
         NEW w, NEW n \in Nat
  PROVE  LET r == InfoReply(e, w, n)
         IN  r.ret = 0 /\ SameControl(r.dev, d)
BY DEF InfoReply, Good, DevType, SameControl

\* The commands other than READ10 and WRITE10, in IDLE.
LEMMA ControlShape ==
  ASSUME NEW d \in DevType, NEW ok \in BOOLEAN, d.state = "IDLE",
         d.cbw.op \notin BlockOps
  PROVE  LET r == SCSI_ProcessCmd(d, ok)
         IN  \/ r.ret = -1 /\ Refuses(r.dev, d)
             \/ r.ret = 0 /\ SameControl(r.dev, d)
<1> DEFINE P(r) == \/ r.ret = -1 /\ Refuses(r.dev, d)
                   \/ r.ret = 0 /\ SameControl(r.dev, d)
<1>1. \A asc \in SenseCodes : P(Bad(d, asc))
  BY BadShape DEF SameControl, Refuses
<1>2. {"INVALID_CDB", "MEDIUM_NOT_PRESENT", "INVALID_FIELED_IN_COMMAND",
       "ADDRESS_OUT_OF_RANGE"} \subseteq SenseCodes
  BY DEF SenseCodes
<1>3. P(Good([d EXCEPT !.data_length = 0]))
  BY DEF Good, DevType, SameControl
<1>4. SameControl(d, d)
  BY DEF SameControl
<1>5. d.cbw.alloc \in Nat /\ (IF d.cbw.flag THEN 1 ELSE d.cbw.alloc) \in Nat
  BY Fields, CBWFields
<1>6. P(SCSI_TestUnitReady(d))
  <2> DEFINE nd == [d EXCEPT !.state = "NO_DATA"]
  <2>1. nd \in DevType /\ Refuses(nd, d)
    BY DEF DevType, States, Refuses
  <2> HIDE DEF nd
  <2>2. P(Bad(nd, "MEDIUM_NOT_PRESENT"))
    <3>1. /\ Bad(nd, "MEDIUM_NOT_PRESENT").ret = -1
          /\ SameControl(Bad(nd, "MEDIUM_NOT_PRESENT").dev, nd)
      BY <1>2, <2>1, BadShape
    <3> QED
      BY <3>1, <2>1 DEF SameControl, Refuses
  <2>3. P(Bad(d, "INVALID_CDB"))
    BY <1>1, <1>2
  <2> HIDE DEF P
  <2>4. SCSI_TestUnitReady(d) \in
          {Bad(d, "INVALID_CDB"), Bad(nd, "MEDIUM_NOT_PRESENT"),
           Good([d EXCEPT !.data_length = 0])}
    BY DEF SCSI_TestUnitReady, nd
  <2> QED
    BY <1>3, <2>2, <2>3, <2>4
<1>7. P(SCSI_RequestSense(d))
  <2> DEFINE h == [d EXCEPT !.head = (d.head + 1) % SenseDepth]
  <2>1. h \in DevType
    <3>1. d.head + 1 \in Int /\ SenseDepth \in Nat \ {0}
      BY Fields, ConstantsAssumption
    <3>2. (d.head + 1) % SenseDepth \in 0 .. SenseDepth - 1
      BY <3>1, ModType
    <3> QED
      BY <3>2 DEF DevType
  <2>2. SameControl(h, d)
    BY DEF DevType, SameControl
  <2> HIDE DEF h
  <2>3. P(InfoReply(h, d.sense[d.head], d.cbw.alloc))
    BY <1>5, <2>1, <2>2, InfoReplyShape
  <2>4. P(InfoReply(d, "NONE", d.cbw.alloc))
    BY <1>4, <1>5, InfoReplyShape
  <2> HIDE DEF P
  <2> QED
    BY <2>3, <2>4 DEF SCSI_RequestSense, h
<1>8. P(SCSI_ReadCapacity10(d))
  <2> DEFINE c == [d EXCEPT !.blk_nbr = Capacity[d.cbw.lun],
                            !.blk_size = BlkSize]
  <2>1. Capacity[d.cbw.lun] \in Nat
    BY Fields, CBWFields, ConstantsAssumption
  <2>2. c \in DevType /\ SameControl(c, d)
    BY <2>1 DEF DevType, SameControl
  <2> HIDE DEF c
  <2>3. P(InfoReply(c, d.cbw.op, 1))
    BY <2>2, InfoReplyShape
  <2> QED
    BY <2>3 DEF SCSI_ReadCapacity10, c
<1>9. P(SCSI_Inquiry(d)) /\ P(SCSI_ModeSense(d)) /\ P(SCSI_ReadFormatCapacity(d))
  <2>1. \A n \in Nat : P(InfoReply(d, d.cbw.op, n))
    BY <1>4, InfoReplyShape
  <2> HIDE DEF P
  <2> QED
    BY <1>5, <2>1 DEF SCSI_Inquiry, SCSI_ModeSense, SCSI_ReadFormatCapacity
<1>10. P(SCSI_StartStopUnit(d))
  BY <1>3 DEF SCSI_StartStopUnit
<1>11. P(SCSI_Verify10(d))
  <2> DEFINE in == SCSI_CheckAddressRange(d, d.blk_addr, d.blk_len)
  <2> HIDE DEF in, P
  <2>1. SCSI_Verify10(d) \in {Bad(d, "INVALID_FIELED_IN_COMMAND"),
                              Bad(d, "ADDRESS_OUT_OF_RANGE"),
                              Good([d EXCEPT !.data_length = 0])}
    BY DEF SCSI_Verify10, in
  <2> QED
    BY <1>1, <1>2, <1>3, <2>1
<1>12. P(Bad(d, "INVALID_CDB"))
  BY <1>1, <1>2
<1> HIDE DEF P
<1>13. SCSI_ProcessCmd(d, ok) \in
         {SCSI_TestUnitReady(d), SCSI_RequestSense(d), SCSI_ReadCapacity10(d),
          SCSI_Inquiry(d), SCSI_ModeSense(d), SCSI_ReadFormatCapacity(d),
          SCSI_StartStopUnit(d), SCSI_Verify10(d), Bad(d, "INVALID_CDB")}
  BY DEF SCSI_ProcessCmd, BlockOps
<1>14. P(SCSI_ProcessCmd(d, ok))
  BY <1>6, <1>7, <1>8, <1>9, <1>10, <1>11, <1>12, <1>13
<1> QED
  BY <1>14 DEF P

LEMMA RangeShape ==
  ASSUME NEW d \in DevType
  PROVE  /\ SameControl(CdbRange(d), d)
         /\ SameControl(InUnits(CdbRange(d)), d)
BY DEF CdbRange, InUnits, SameControl, DevType

\* READ10, first call: refused, or the first data packet is on its way.
LEMMA Read10Shape ==
  ASSUME NEW d \in DevType, NEW ok \in BOOLEAN, d.state = "IDLE",
         d.cbw.op = "READ10"
  PROVE  LET r == SCSI_Read10(d, ok)
         IN  \/ r.ret = -1 /\ Refuses(r.dev, d)
             \/ r.ret = 0 /\ Sends(r.dev, d)
<1> DEFINE P(r) == \/ r.ret = -1 /\ Refuses(r.dev, d)
                   \/ r.ret = 0 /\ Sends(r.dev, d)
           r10 == CdbRange(d)
           v == InUnits(r10)
           u == [v EXCEPT !.state = "DATA_IN"]
           f == [u EXCEPT !.data_length = MediaPacket]
           in == SCSI_CheckAddressRange(r10, r10.blk_addr, r10.blk_len)
<1>1. {"INVALID_CDB", "MEDIUM_NOT_PRESENT", "ADDRESS_OUT_OF_RANGE"}
        \subseteq SenseCodes
  BY DEF SenseCodes
<1>2. r10 \in DevType /\ v \in DevType /\ SameControl(r10, d) /\ SameControl(v, d)
  BY RangeType, RangeShape
<1> HIDE DEF v, r10
<1>3. u \in DevType /\ u.state = "DATA_IN" /\ u.tx = d.tx /\ u.rx = d.rx
      /\ u.cbw = d.cbw
  BY <1>2 DEF DevType, States, SameControl
<1> HIDE DEF u
<1>4. MediaPacket \in Nat
  BY ConstantsAssumption DEF MediaPacket
<1>5. f \in DevType /\ f.state = "DATA_IN" /\ f.tx = d.tx /\ f.rx = d.rx
      /\ f.cbw = d.cbw
  BY <1>3, <1>4 DEF DevType
<1> HIDE DEF f, in
<1>6. P(Bad(d, "INVALID_CDB")) /\ P(Bad(d, "MEDIUM_NOT_PRESENT"))
  BY <1>1, BadShape DEF SameControl, Refuses
<1>7. P(Bad(r10, "ADDRESS_OUT_OF_RANGE"))
  <2>1. Bad(r10, "ADDRESS_OUT_OF_RANGE").ret = -1
        /\ SameControl(Bad(r10, "ADDRESS_OUT_OF_RANGE").dev, r10)
    BY <1>1, <1>2, BadShape
  <2> QED
    BY <1>2, <2>1 DEF SameControl, Refuses
<1>8. P(Bad(u, "INVALID_CDB"))
  <2>1. Bad(u, "INVALID_CDB").ret = -1 /\ SameControl(Bad(u, "INVALID_CDB").dev, u)
    BY <1>1, <1>3, BadShape
  <2> QED
    BY <1>3, <2>1 DEF SameControl, Refuses
<1>9. P(SCSI_ProcessRead(f, ok))
  <2> DEFINE r == SCSI_ProcessRead(f, ok)
  <2>0. f \in DevType /\ f.cbw.op = "READ10"
        /\ f.state \in {"DATA_IN", "LAST_DATA_IN"}
    BY <1>5
  <2>1. (r.ret = -1 /\ SameControl(r.dev, f)) \/ (r.ret = 0 /\ Sends(r.dev, f))
    BY ONLY <2>0, ok \in BOOLEAN, ProcessReadShape
  <2> HIDE DEF r
  <2>2. SameControl(r.dev, f) => Refuses(r.dev, d)
    BY <1>5 DEF SameControl, Refuses
  <2>3. Sends(r.dev, f) => Sends(r.dev, d)
    BY <1>5 DEF Sends
  <2>4. P(r)
    BY <2>1, <2>2, <2>3
  <2> QED
    BY <2>4 DEF r
<1> HIDE DEF P
<1>10. SCSI_Read10(d, ok) \in
         {Bad(d, "INVALID_CDB"), Bad(d, "MEDIUM_NOT_PRESENT"),
          Bad(r10, "ADDRESS_OUT_OF_RANGE"), Bad(u, "INVALID_CDB"),
          SCSI_ProcessRead(f, ok)}
  BY DEF SCSI_Read10, f, in, u, v, r10
<1>11. P(SCSI_Read10(d, ok))
  BY <1>6, <1>7, <1>8, <1>9, <1>10
<1> QED
  BY <1>11 DEF P

\* WRITE10, first call: refused, or the first data packet is awaited.
LEMMA Write10Shape ==
  ASSUME NEW d \in DevType, NEW ok \in BOOLEAN, d.state = "IDLE",
         d.cbw.op = "WRITE10"
  PROVE  LET r == SCSI_Write10(d, ok)
         IN  \/ r.ret = -1 /\ Refuses(r.dev, d)
             \/ r.ret = 0 /\ Receives(r.dev, d)
<1> DEFINE P(r) == \/ r.ret = -1 /\ Refuses(r.dev, d)
                   \/ r.ret = 0 /\ Receives(r.dev, d)
           r10 == CdbRange(d)
           u == InUnits(r10)
           w == USBD_LL_PrepareReceive([u EXCEPT !.state = "DATA_OUT"],
                                       "data", Min2(u.blk_len, MediaPacket))
           in == SCSI_CheckAddressRange(r10, r10.blk_addr, r10.blk_len)
<1>1. {"INVALID_CDB", "MEDIUM_NOT_PRESENT", "ADDRESS_OUT_OF_RANGE"}
        \subseteq SenseCodes
  BY DEF SenseCodes
<1>2. r10 \in DevType /\ u \in DevType /\ SameControl(r10, d) /\ SameControl(u, d)
  BY RangeType, RangeShape
<1> HIDE DEF u, r10
<1>3. Receives(w, d)
  BY <1>2 DEF DevType, SameControl, USBD_LL_PrepareReceive, Receives
<1>4. P(Good(w))
  BY <1>3 DEF Good
<1> HIDE DEF w, in
<1>5. P(Bad(d, "INVALID_CDB")) /\ P(Bad(d, "MEDIUM_NOT_PRESENT"))
  BY <1>1, BadShape DEF SameControl, Refuses
<1>6. P(Bad(r10, "ADDRESS_OUT_OF_RANGE")) /\ P(Bad(u, "INVALID_CDB"))
  <2>1. \A e \in {r10, u} : \A asc \in SenseCodes :
          Bad(e, asc).ret = -1 /\ SameControl(Bad(e, asc).dev, e)
    BY <1>2, BadShape
  <2> QED
    BY <1>1, <1>2, <2>1 DEF SameControl, Refuses
<1> HIDE DEF P
<1>7. SCSI_Write10(d, ok) \in
        {Bad(d, "INVALID_CDB"), Bad(d, "MEDIUM_NOT_PRESENT"),
         Bad(r10, "ADDRESS_OUT_OF_RANGE"), Bad(u, "INVALID_CDB"), Good(w)}
  BY DEF SCSI_Write10, w, in, u, r10
<1>8. P(SCSI_Write10(d, ok))
  BY <1>4, <1>5, <1>6, <1>7
<1> QED
  BY <1>8 DEF P

\* A wrapper that fails the check touches neither transfers nor data ...
LEMMA DecodeBadShape ==
  ASSUME NEW d0 \in DevType, NEW ok \in BOOLEAN, ~d0.cbw.ok
  PROVE  LET e == MSC_BOT_CBW_Decode(d0, ok)
         IN  /\ e.state = d0.state /\ e.tx = d0.tx /\ e.cbw = d0.cbw
             /\ e.data = d0.data /\ e.rx \in {d0.rx, "cbw"}
<1> DEFINE d == [d0 EXCEPT !.csw.tag = d0.cbw.tag, !.csw.residue = d0.cbw.dlen]
           s == SCSI_SenseCode(d, "INVALID_CDB")
           z == [s EXCEPT !.status = "ERROR"]
<1>1. d \in DevType
  <2>1. d0.csw \in CSWType /\ d0.cbw.tag \in Tags \cup {JunkTag}
        /\ d0.cbw.dlen \in Int
    BY Fields, CBWFields
  <2>2. [d0.csw EXCEPT !.tag = d0.cbw.tag, !.residue = d0.cbw.dlen] \in CSWType
    BY <2>1 DEF CSWType
  <2> QED
    BY <2>2 DEF DevType
<1>2. SameControl(d, d0) /\ d.data = d0.data
  BY DEF DevType, SameControl
<1> HIDE DEF d
<1>3. s \in DevType /\ SameControl(s, d) /\ s.data = d.data
  BY <1>1, SenseCodeType, SenseCodeShape DEF SenseCodes
<1> HIDE DEF s
<1>4. z \in DevType /\ SameControl(z, s) /\ z.data = s.data
  BY <1>3 DEF DevType, SameControl
<1> HIDE DEF z
<1>5. ~d.cbw.ok
  BY <1>2 DEF SameControl
<1>6. MSC_BOT_CBW_Decode(d0, ok) = MSC_BOT_Abort(z)
  BY <1>5 DEF MSC_BOT_CBW_Decode, z, s, d
<1> QED
  BY <1>2, <1>3, <1>4, <1>6, AbortShape DEF SameControl

\* ... and a good one is refused, answered, or starts its transfer.
LEMMA DecodeGoodShape ==
  ASSUME NEW d0 \in DevType, NEW ok \in BOOLEAN, d0.cbw.ok, d0.state = "IDLE"
  PROVE  LET e == MSC_BOT_CBW_Decode(d0, ok)
         IN  \/ Answers(e, d0) \/ Sends(e, d0) \/ Receives(e, d0)
             \/ /\ e.state \in {"IDLE", "DATA_IN"} /\ e.tx = d0.tx
                /\ e.cbw = d0.cbw /\ e.rx \in {d0.rx, "cbw"}
<1> DEFINE d == [d0 EXCEPT !.csw.tag = d0.cbw.tag, !.csw.residue = d0.cbw.dlen]
           r == SCSI_ProcessCmd(d, ok)
           e == r.dev
           x == MSC_BOT_CBW_Decode(d0, ok)
           G == \/ Answers(x, d0) \/ Sends(x, d0) \/ Receives(x, d0)
                \/ /\ x.state \in {"IDLE", "DATA_IN"} /\ x.tx = d0.tx
                   /\ x.cbw = d0.cbw /\ x.rx \in {d0.rx, "cbw"}
<1> SUFFICES G
  OBVIOUS
<1>1. d \in DevType
  <2>1. d0.csw \in CSWType /\ d0.cbw.tag \in Tags \cup {JunkTag}
        /\ d0.cbw.dlen \in Int
    BY Fields, CBWFields
  <2>2. [d0.csw EXCEPT !.tag = d0.cbw.tag, !.residue = d0.cbw.dlen] \in CSWType
    BY <2>1 DEF CSWType
  <2> QED
    BY <2>2 DEF DevType
<1>2. SameControl(d, d0)
  BY DEF DevType, SameControl
<1> HIDE DEF d
<1>3. e \in DevType
  BY <1>1, ProcessCmdType
<1>4. d.state = "IDLE" /\ d.cbw.ok /\ d.cbw = d0.cbw /\ d.tx = d0.tx /\ d.rx = d0.rx
  BY <1>2 DEF SameControl
<1>5. \/ r.ret = -1 /\ Refuses(e, d)
      \/ r.ret = 0 /\ (SameControl(e, d) \/ Sends(e, d) \/ Receives(e, d))
  <2>1. CASE d.cbw.op = "READ10"
    BY <1>1, <1>4, <2>1, Read10Shape DEF SCSI_ProcessCmd
  <2>2. CASE d.cbw.op = "WRITE10"
    BY <1>1, <1>4, <2>2, Write10Shape DEF SCSI_ProcessCmd
  <2>3. CASE d.cbw.op \notin BlockOps
    BY <1>1, <1>4, <2>3, ControlShape
  <2> QED
    BY <2>1, <2>2, <2>3 DEF BlockOps
<1> HIDE DEF r
<1>6. CASE r.ret = -1
  <2>1. Refuses(e, d)
    BY <1>5, <1>6
  <2>2. e.state = "NO_DATA" => Answers(MSC_BOT_SendCSW(e, "FAILED"), d0)
    BY <1>3, <1>4, <2>1, SendCSWShape DEF Answers, Refuses
  <2>3. MSC_BOT_CBW_Decode(d0, ok) = IF e.state = "NO_DATA"
                                     THEN MSC_BOT_SendCSW(e, "FAILED")
                                     ELSE MSC_BOT_Abort(e)
    BY <1>4, <1>6 DEF MSC_BOT_CBW_Decode, r, d
  <2> QED
    BY <1>3, <1>4, <2>1, <2>2, <2>3, AbortShape DEF Refuses
<1>7. CASE r.ret = 0
  <2>0. SameControl(e, d) \/ Sends(e, d) \/ Receives(e, d)
    <3>1. r.ret # -1
      BY <1>7
    <3> QED
      BY <1>5, <3>1
  <2>1. MSC_BOT_CBW_Decode(d0, ok) =
          IF e.state \in {"DATA_IN", "DATA_OUT", "LAST_DATA_IN"} THEN e
          ELSE IF e.data_length > 0 THEN MSC_BOT_SendData(e)
          ELSE MSC_BOT_SendCSW(e, "PASSED")
    BY <1>4, <1>7 DEF MSC_BOT_CBW_Decode, r, d
  <2>2. CASE Receives(e, d)
    BY <1>4, <2>1, <2>2 DEF Receives
  <2>3. CASE SameControl(e, d) \/ (Sends(e, d) /\ e.state = "SEND_DATA")
    <3>1. Sends(MSC_BOT_SendData(e), e) /\ Answers(MSC_BOT_SendCSW(e, "PASSED"), e)
      BY <1>3, SendDataShape, SendCSWShape
    <3>2. e.cbw = d0.cbw /\ e.rx = d0.rx
          /\ e.state \notin {"DATA_IN", "DATA_OUT", "LAST_DATA_IN"}
      BY <1>4, <2>3 DEF SameControl, Sends
    <3> DEFINE a == MSC_BOT_SendData(e)
               b == MSC_BOT_SendCSW(e, "PASSED")
    <3>3. MSC_BOT_CBW_Decode(d0, ok) \in {a, b}
      BY <2>1, <3>2
    <3> HIDE DEF a, b
    <3>4. Sends(a, d0) /\ Answers(b, d0)
      BY <3>1, <3>2 DEF a, b, Sends, Answers
    <3> QED
      BY <3>3, <3>4
  <2>4. CASE Sends(e, d) /\ e.state # "SEND_DATA"
    BY <1>4, <2>1, <2>4 DEF Sends, InStates
  <2> HIDE DEF x, e
  <2> QED
    BY <2>0, <2>2, <2>3, <2>4
<1> QED
  BY <1>5, <1>6, <1>7

\* The IN completion: the next packet, the status, or nothing.
LEMMA DataInShape ==
  ASSUME NEW d \in DevType, NEW ok \in BOOLEAN,
         d.state = "DATA_IN" => d.cbw.op = "READ10"
  PROVE  LET e == MSC_BOT_DataIn(d, ok)
         IN  IF d.state \in InStates THEN Answers(e, d) \/ Sends(e, d)
             ELSE e = d
<1> DEFINE e == MSC_BOT_DataIn(d, ok)
<1>1. CASE d.state = "DATA_IN"
  <2> DEFINE f == [d EXCEPT !.data_length = MediaPacket]
             r == SCSI_ProcessRead(f, ok)
  <2>1. MediaPacket \in Nat
    BY ConstantsAssumption DEF MediaPacket
  <2>2. f \in DevType /\ f.cbw = d.cbw /\ f.rx = d.rx /\ f.state = "DATA_IN"
    BY <1>1, <2>1 DEF DevType
  <2> HIDE DEF f
  <2>3. f.cbw.op = "READ10" /\ f.state \in {"DATA_IN", "LAST_DATA_IN"}
    BY <1>1, <2>2
  <2>4. r.dev \in DevType
    BY ONLY <2>2, ok \in BOOLEAN, ProcessReadType
  <2>5. (r.ret = -1 /\ SameControl(r.dev, f)) \/ (r.ret = 0 /\ Sends(r.dev, f))
    BY ONLY <2>2, <2>3, ok \in BOOLEAN, ProcessReadShape
  <2>6. SCSI_ProcessCmd(d, ok) = r
    BY <1>1 DEF SCSI_ProcessCmd, SCSI_Read10, f
  <2> HIDE DEF r
  <2>7. e = IF r.ret < 0 THEN MSC_BOT_SendCSW(r.dev, "FAILED") ELSE r.dev
    BY <1>1, <2>6 DEF MSC_BOT_DataIn, ContinueOrFail
  <2>8. CASE r.ret = -1 /\ SameControl(r.dev, f)
    <3>1. e = MSC_BOT_SendCSW(r.dev, "FAILED")
      BY <2>7, <2>8
    <3>2. Answers(e, r.dev) /\ r.dev.cbw = d.cbw
      BY <2>2, <2>4, <2>8, <3>1, SendCSWShape DEF SameControl
    <3> QED
      BY <1>1, <3>2 DEF Answers, InStates
  <2>9. CASE r.ret = 0 /\ Sends(r.dev, f)
    <3>1. e = r.dev
      BY <2>7, <2>9
    <3>2. Sends(e, d)
      BY <2>2, <2>9, <3>1 DEF Sends
    <3> QED
      BY <1>1, <3>2 DEF InStates
  <2> QED
    BY <2>5, <2>8, <2>9
<1>2. CASE d.state \in {"SEND_DATA", "LAST_DATA_IN"}
  BY <1>2, SendCSWShape DEF MSC_BOT_DataIn, InStates
<1>3. CASE d.state \notin InStates
  BY <1>3 DEF MSC_BOT_DataIn, InStates
<1> QED
  BY <1>1, <1>2, <1>3 DEF InStates

\* The OUT completion of a transfer: more is awaited, or the status is sent.
LEMMA DataOutShape ==
  ASSUME NEW d \in DevType, NEW ok \in BOOLEAN,
         d.state = "DATA_OUT", d.cbw.op = "WRITE10"
  PROVE  LET e == MSC_BOT_DataOut(d, ok)
         IN  Answers(e, d) \/ Receives(e, d)
<1> DEFINE e == MSC_BOT_DataOut(d, ok)
           r == SCSI_ProcessWrite(d, ok)
<1>1. r.dev \in DevType
  BY ProcessWriteType
<1>2. \/ r.ret = -1 /\ SameControl(r.dev, d)
      \/ r.ret = 0 /\ (Answers(r.dev, d) \/ Receives(r.dev, d))
  BY ProcessWriteShape
<1>3. SCSI_ProcessCmd(d, ok) = r
  BY DEF SCSI_ProcessCmd, SCSI_Write10
<1> HIDE DEF r
<1>4. e = IF r.ret < 0 THEN MSC_BOT_SendCSW(r.dev, "FAILED") ELSE r.dev
  BY <1>3 DEF MSC_BOT_DataOut, ContinueOrFail
<1>5. CASE r.ret = -1 /\ SameControl(r.dev, d)
  <2>1. e = MSC_BOT_SendCSW(r.dev, "FAILED")
    BY <1>4, <1>5
  <2>2. Answers(e, r.dev) /\ r.dev.cbw = d.cbw
    BY <1>1, <1>5, <2>1, SendCSWShape DEF SameControl
  <2> QED
    BY <2>2 DEF Answers
<1>6. CASE r.ret = 0 /\ (Answers(r.dev, d) \/ Receives(r.dev, d))
  BY <1>4, <1>6
<1> QED
  BY <1>2, <1>5, <1>6

\* The requests of reset recovery.
LEMMA ResetShape ==
  ASSUME NEW d \in DevType
  PROVE  LET e == MSC_BOT_Reset(d)
         IN  /\ e.state = "IDLE" /\ e.status = "RECOVERY" /\ e.rx = "cbw"
             /\ e.tx = d.tx /\ e.cbw = d.cbw /\ e.data = d.data
BY DEF MSC_BOT_Reset, USBD_LL_PrepareReceive, DevType

LEMMA ClearFeatureShape ==
  ASSUME NEW d \in DevType, NEW ep \in {"in", "out"}
  PROVE  LET e == ClearFeature(d, ep)
         IN  /\ e.cbw = d.cbw /\ e.data = d.data
             /\ \/ Answers(e, d) /\ ep = "in" /\ d.status # "RECOVERY"
                \/ /\ e.state = d.state /\ e.rx = d.rx
                   /\ e.tx = IF ep = "in" THEN NoXfer ELSE d.tx
                   /\ d.status = "RECOVERY" => e.status = "RECOVERY"
<1> DEFINE c == IF ep = "in" THEN [d EXCEPT !.halt_in = FALSE]
                ELSE [d EXCEPT !.halt_out = FALSE]
           f == USBD_LL_FlushEP(c, ep)
           h == [f EXCEPT !.halt_in = TRUE, !.status = "NORMAL"]
           e == ClearFeature(d, ep)
<1>1. c \in DevType /\ SameControl(c, d) /\ c.data = d.data /\ c.status = d.status
  BY DEF DevType, SameControl
<1> HIDE DEF c
<1>2. f \in DevType
  BY <1>1, FlushEPType
<1>3. /\ f.state = d.state /\ f.rx = d.rx /\ f.cbw = d.cbw /\ f.data = d.data
      /\ f.status = d.status /\ f.tx = IF ep = "in" THEN NoXfer ELSE d.tx
  BY <1>1 DEF DevType, SameControl, USBD_LL_FlushEP
<1> HIDE DEF f
<1>4. /\ h.state = f.state /\ h.rx = f.rx /\ h.cbw = f.cbw /\ h.data = f.data
      /\ h.tx = f.tx
  BY <1>2 DEF DevType
<1> HIDE DEF h
<1>5. e = CASE f.status = "ERROR" -> h
            [] f.status # "ERROR" /\ ep = "in" /\ f.status # "RECOVERY" ->
                 MSC_BOT_SendCSW(f, "FAILED")
            [] OTHER -> f
  BY DEF ClearFeature, MSC_BOT_CplClrFeature, f, c, h
<1>6. CASE f.status = "ERROR"
  BY <1>3, <1>4, <1>5, <1>6
<1>7. CASE f.status # "ERROR" /\ ep = "in" /\ f.status # "RECOVERY"
  <2>1. e = MSC_BOT_SendCSW(f, "FAILED")
    BY <1>5, <1>7
  <2>2. Answers(MSC_BOT_SendCSW(f, "FAILED"), f)
    BY <1>2, SendCSWShape
  <2>3. MSC_BOT_SendCSW(f, "FAILED").data = f.data
    BY <1>2 DEF MSC_BOT_SendCSW, USBD_LL_Transmit, USBD_LL_PrepareReceive,
                DevType
  <2> QED
    BY <1>3, <1>7, <2>1, <2>2, <2>3 DEF Answers
<1>8. CASE f.status # "ERROR" /\ ~(ep = "in" /\ f.status # "RECOVERY")
  <2>1. e = f
    BY <1>5, <1>8
  <2> QED
    BY <1>3, <2>1
<1> QED
  BY <1>6, <1>7, <1>8

-----------------------------------------------------------------------------
(* The inductive invariant: the types and the discipline.                  *)

Inv == TypeOK /\ Discipline

\* What the discipline speaks of, in terms of the handle d, the pending
\* completions q and the host's phase p.
Irqs == {<< >>, <<"in">>, <<"out">>, <<"in", "out">>, <<"out", "in">>}
InQ(q)  == q \in {<<"in">>, <<"in", "out">>, <<"out", "in">>}
OutQ(q) == q \in {<<"out">>, <<"in", "out">>, <<"out", "in">>}
Disciplined(d, q, p) ==
  /\ OutQ(q) => d.rx = "none"
  /\ InQ(q) => d.tx = NoXfer
  /\ d.state \in InStates /\ (d.tx # NoXfer \/ InQ(q)) =>
       d.rx = "none" /\ ~OutQ(q) /\ (d.state = "DATA_IN" => d.cbw.op = "READ10")
  /\ d.state = "DATA_OUT" =>
       d.tx = NoXfer /\ ~InQ(q) /\ d.rx # "cbw" /\ d.cbw.op = "WRITE10"
  /\ d.rx = "data" => d.state = "DATA_OUT"
  /\ d.tx.kind = "csw" => d.state = "IDLE"
  /\ OutQ(q) /\ d.state = "IDLE" /\ d.cbw.ok =>
       d.tx = NoXfer /\ q # <<"out", "in">>
  /\ p = "idle" => d.state = "IDLE" /\ d.tx = NoXfer /\ (OutQ(q) => ~d.cbw.ok)
  /\ p \in {"clear_in", "clear_out"} =>
       /\ q = << >> /\ d.state = "IDLE" /\ d.status = "RECOVERY"
       /\ p = "clear_out" => d.tx = NoXfer

LEMMA DisciplineForm ==
  /\ Discipline <=> Disciplined(dev, irq, hphase)
  /\ Discipline' <=> Disciplined(dev', irq', hphase')
BY DEF Discipline, Disciplined, InPending, OutPending, InQ, OutQ

LEMMA AppendPair ==
  ASSUME NEW a \in {"in", "out"}, NEW b \in {"in", "out"}
  PROVE  Append(<<a>>, b) = <<a, b>>
<1> DEFINE q == <<a>>
           r == <<a, b>>
           x == Append(q, b)
<1>1. q \in [1 .. 1 -> {"in", "out"}] /\ r \in [1 .. 2 -> {"in", "out"}]
  OBVIOUS
<1>2. q \in Seq({"in", "out"}) /\ r \in Seq({"in", "out"})
  BY <1>1, SeqDef
<1>3. Len(q) = 1 /\ q[1] = a /\ Len(r) = 2 /\ r[1] = a /\ r[2] = b
  OBVIOUS
<1> HIDE DEF q, r
<1>4. x \in Seq({"in", "out"}) /\ Len(x) = 2 /\ x[1] = a /\ x[2] = b
  <2>1. \A i \in 1 .. Len(q) : x[i] = q[i]
    BY <1>2, AppendProperties
  <2>2. x \in Seq({"in", "out"}) /\ Len(x) = Len(q) + 1 /\ x[Len(q) + 1] = b
    BY <1>2, AppendProperties
  <2> QED
    BY <1>3, <2>1, <2>2
<1> HIDE DEF x
<1>5. \A i \in 1 .. 2 : x[i] = r[i]
  <2>1. \A i \in 1 .. 2 : i = 1 \/ i = 2
    OBVIOUS
  <2> QED
    BY <1>3, <1>4, <2>1
<1>6. x = r
  BY <1>2, <1>3, <1>4, <1>5, SeqEqual
<1> QED
  BY <1>6 DEF x, q, r

\* The queue of completions, one step on.
LEMMA QueueFacts ==
  ASSUME NEW q \in Irqs
  PROVE  /\ InQ(q) => LET r == IF Head(q) = "in" THEN Tail(q) ELSE <<"out">>
                      IN  r \in {<< >>, <<"out">>} /\ (OutQ(r) <=> OutQ(q))
         /\ q # << >> /\ Head(q) = "out" =>
              /\ q \in {<<"out">>, <<"out", "in">>}
              /\ Tail(q) = IF q = <<"out">> THEN << >> ELSE <<"in">>
         /\ ~OutQ(q) => /\ q \in {<< >>, <<"in">>}
                        /\ Append(q, "out") = IF q = << >> THEN <<"out">>
                                              ELSE <<"in", "out">>
         /\ ~InQ(q) => /\ q \in {<< >>, <<"out">>}
                       /\ Append(q, "in") = IF q = << >> THEN <<"in">>
                                            ELSE <<"out", "in">>
<1>1. CASE q = << >>
  BY <1>1 DEF InQ, OutQ
<1>2. CASE q = <<"in">>
  <2>1. InQ(q) /\ ~OutQ(q) /\ q # << >> /\ ~OutQ(<< >>)
    BY <1>2 DEF InQ, OutQ
  <2>2. Head(q) = "in" /\ Tail(q) = << >>
    <3>1. Len(Tail(q)) = 0 /\ Tail(q) \in Seq(STRING)
      BY <1>2
    <3> QED
      BY <1>2, <3>1
  <2>3. Append(q, "out") = <<"in", "out">>
    BY <1>2, AppendPair
  <2> QED
    BY <1>2, <2>1, <2>2, <2>3
<1>3. CASE q = <<"out">>
  <2>1. ~InQ(q) /\ OutQ(q) /\ q # << >> /\ q # <<"out", "in">>
    BY <1>3 DEF InQ, OutQ
  <2>2. Head(q) = "out" /\ Tail(q) = << >>
    <3>1. Len(Tail(q)) = 0 /\ Tail(q) \in Seq(STRING)
      BY <1>3
    <3> QED
      BY <1>3, <3>1
  <2>3. Append(q, "in") = <<"out", "in">>
    BY <1>3, AppendPair
  <2> QED
    BY <1>3, <2>1, <2>2, <2>3
<1>4. CASE q = <<"in", "out">>
  <2>1. InQ(q) /\ OutQ(q) /\ q # << >>
    BY <1>4 DEF InQ, OutQ
  <2>2. Head(q) = "in" /\ Tail(q) = <<"out">>
    BY <1>4
  <2>3. OutQ(<<"out">>)
    BY DEF OutQ
  <2> QED
    BY <2>1, <2>2, <2>3
<1>5. CASE q = <<"out", "in">>
  <2>1. InQ(q) /\ OutQ(q) /\ q # << >>
    BY <1>5 DEF InQ, OutQ
  <2>2. Head(q) = "out" /\ Tail(q) = <<"in">>
    BY <1>5
  <2>3. OutQ(<<"out">>) /\ q # <<"out">>
    BY <1>5 DEF OutQ
  <2> QED
    BY <1>5, <2>1, <2>2, <2>3
<1> QED
  BY <1>1, <1>2, <1>3, <1>4, <1>5 DEF Irqs

LEMMA QueueKinds ==
  /\ ~InQ(<< >>) /\ ~OutQ(<< >>)
  /\ InQ(<<"in">>) /\ ~OutQ(<<"in">>)
  /\ ~InQ(<<"out">>) /\ OutQ(<<"out">>)
  /\ InQ(<<"in", "out">>) /\ OutQ(<<"in", "out">>)
  /\ InQ(<<"out", "in">>) /\ OutQ(<<"out", "in">>)
  /\ <<"in", "out">> # <<"out", "in">>
  /\ <<"out">> # <<"out", "in">>
BY DEF InQ, OutQ

LEMMA InitShape ==
  ASSUME NEW d \in DevType
  PROVE  LET e == MSC_BOT_Init(d)
         IN  e.state = "IDLE" /\ e.tx = NoXfer /\ e.rx = "cbw"
BY DEF MSC_BOT_Init, USBD_LL_FlushEP, USBD_LL_PrepareReceive, DevType

LEMMA JunkType == JunkCBW \in CBWType /\ ~JunkCBW.ok
BY ConstantsAssumption DEF JunkCBW, CBWType

LEMMA ColdType == ColdDev \in DevType
<1>1. Info("NONE") \in Slot
  BY DEF Info, Slot, Infos, SenseCodes
<1>2. [tag |-> JunkTag, residue |-> 0, status |-> "PASSED"] \in CSWType
  BY DEF CSWType, Statuses
<1>3. NoXfer \in XferType /\ 0 \in 0 .. SenseDepth - 1 /\ "IDLE" \in States
      /\ "NONE" \in SenseCodes
  BY ConstantsAssumption DEF XferType, States, SenseCodes
<1> QED
  BY <1>1, <1>2, <1>3, JunkType DEF ColdDev, DevType

LEMMA InvInit == Init => Inv
<1> SUFFICES ASSUME Init PROVE Inv
  OBVIOUS
<1>1. dev \in DevType /\ dev.state = "IDLE" /\ dev.tx = NoXfer /\ dev.rx = "cbw"
  BY ColdType, InitType, InitShape DEF Init
<1>2. TypeOK
  BY <1>1, JunkType DEF Init, TypeOK
<1>3. Disciplined(dev, irq, hphase)
  BY <1>1, QueueKinds DEF Init, Disciplined, InStates, NoXfer
<1> QED
  BY <1>2, <1>3, DisciplineForm DEF Inv

\* The phases in which a command is open.
Busy(p) == p \notin {"idle", "clear_in", "clear_out"}

\* What each kind of step leaves, in terms of the discipline.
LEMMA AnswersKeep ==
  ASSUME NEW d, NEW e, NEW p, Answers(e, d), Busy(p)
  PROVE  Disciplined(e, << >>, p)
BY QueueKinds DEF Disciplined, Answers, InStates, Busy

LEMMA SendsKeep ==
  ASSUME NEW d, NEW e, NEW p, Sends(e, d), Busy(p), d.rx = "none"
  PROVE  Disciplined(e, << >>, p)
BY QueueKinds DEF Disciplined, Sends, InStates, Busy

LEMMA ReceivesKeep ==
  ASSUME NEW d, NEW e, NEW p, Receives(e, d), Busy(p), d.tx = NoXfer
  PROVE  Disciplined(e, << >>, p)
BY QueueKinds DEF Disciplined, Receives, InStates, Busy, NoXfer

\* Nothing armed or pending: only a state machine.
LEMMA QuietKeep ==
  ASSUME NEW e, NEW p, Busy(p), e.tx = NoXfer, e.state # "DATA_OUT",
         e.rx # "data"
  PROVE  Disciplined(e, << >>, p)
BY QueueKinds DEF Disciplined, InStates, Busy, NoXfer

LEMMA DataInKeeps ==
  ASSUME NEW d \in DevType, NEW q \in Irqs, NEW p, NEW ok \in BOOLEAN,
         Disciplined(d, q, p), InQ(q)
  PROVE  Disciplined(MSC_BOT_DataIn(d, ok),
                     IF Head(q) = "in" THEN Tail(q) ELSE <<"out">>, p)
<1> DEFINE e == MSC_BOT_DataIn(d, ok)
           r == IF Head(q) = "in" THEN Tail(q) ELSE <<"out">>
<1>1. r \in {<< >>, <<"out">>} /\ (OutQ(r) <=> OutQ(q))
  BY QueueFacts
<1>2. d.tx = NoXfer /\ d.state # "DATA_OUT" /\ p \notin {"clear_in", "clear_out"}
  BY QueueKinds DEF Disciplined
<1> HIDE DEF r
<1>3. CASE d.state \in InStates
  <2>1. d.rx = "none" /\ r = << >> /\ Busy(p)
    BY <1>1, <1>2, <1>3, QueueKinds DEF Disciplined, Busy, InStates
  <2>2. d.state = "DATA_IN" => d.cbw.op = "READ10"
    BY <1>3 DEF Disciplined
  <2>3. Answers(e, d) \/ Sends(e, d)
    BY <1>3, <2>2, DataInShape
  <2> HIDE DEF e
  <2>4. Disciplined(e, << >>, p)
    BY <2>1, <2>3, AnswersKeep, SendsKeep
  <2> QED
    BY <2>1, <2>4 DEF e, r
<1>4. CASE d.state \notin InStates
  <2>1. e = d
    BY <1>4, DataInShape DEF InStates
  <2> HIDE DEF e
  <2>2. ~InQ(r) /\ r # <<"out", "in">>
    BY <1>1, QueueKinds
  <2>3. Disciplined(d, r, p)
    BY <1>1, <1>2, <1>4, <2>2, QueueKinds DEF Disciplined
  <2> QED
    BY <2>1, <2>3 DEF e, r
<1> QED
  BY <1>3, <1>4

LEMMA DataOutKeeps ==
  ASSUME NEW d \in DevType, NEW q \in Irqs, NEW p, NEW ok \in BOOLEAN,
         Disciplined(d, q, p), q # << >>, Head(q) = "out"
  PROVE  Disciplined(MSC_BOT_DataOut(d, ok), Tail(q), p)
<1> DEFINE e == MSC_BOT_DataOut(d, ok)
<1>1. /\ q \in {<<"out">>, <<"out", "in">>} /\ OutQ(q) /\ d.rx = "none"
      /\ Tail(q) = IF q = <<"out">> THEN << >> ELSE <<"in">>
  BY QueueFacts, QueueKinds DEF Disciplined
<1>2. p \notin {"clear_in", "clear_out"}
  BY DEF Disciplined
<1>3. CASE d.state = "IDLE" /\ d.cbw.ok
  <2>1. q = <<"out">> /\ Tail(q) = << >> /\ d.tx = NoXfer /\ Busy(p)
    BY <1>1, <1>2, <1>3 DEF Disciplined, Busy
  <2>2. e = MSC_BOT_CBW_Decode(d, ok)
    BY <1>3 DEF MSC_BOT_DataOut
  <2> HIDE DEF e
  <2>3. \/ Answers(e, d) \/ Sends(e, d) \/ Receives(e, d)
        \/ /\ e.state \in {"IDLE", "DATA_IN"} /\ e.tx = d.tx
           /\ e.cbw = d.cbw /\ e.rx \in {d.rx, "cbw"}
    BY <1>3, <2>2, DecodeGoodShape
  <2>4. Disciplined(e, << >>, p)
    BY <1>1, <2>1, <2>3, AnswersKeep, SendsKeep, ReceivesKeep, QuietKeep
  <2> QED
    BY <2>1, <2>4 DEF e
<1>4. CASE d.state = "IDLE" /\ ~d.cbw.ok
  <2>1. e = MSC_BOT_CBW_Decode(d, ok)
    BY <1>4 DEF MSC_BOT_DataOut
  <2> HIDE DEF e
  <2>2. /\ e.state = "IDLE" /\ e.tx = d.tx /\ e.cbw = d.cbw
        /\ e.rx \in {"none", "cbw"}
    BY <1>1, <1>4, <2>1, DecodeBadShape
  <2>3. ~OutQ(Tail(q)) /\ (InQ(Tail(q)) => InQ(q))
    BY <1>1, QueueKinds
  <2>4. Disciplined(e, Tail(q), p)
    BY <1>2, <2>2, <2>3 DEF Disciplined, InStates
  <2> QED
    BY <2>4 DEF e
<1>5. CASE d.state = "DATA_OUT"
  <2>1. q = <<"out">> /\ Tail(q) = << >> /\ d.tx = NoXfer /\ Busy(p)
        /\ d.cbw.op = "WRITE10"
    BY <1>1, <1>2, <1>5, QueueKinds DEF Disciplined, Busy
  <2>2. Answers(e, d) \/ Receives(e, d)
    BY <1>5, <2>1, DataOutShape
  <2> HIDE DEF e
  <2>3. Disciplined(e, << >>, p)
    BY <2>1, <2>2, AnswersKeep, ReceivesKeep
  <2> QED
    BY <2>1, <2>3 DEF e
<1>6. CASE d.state \notin {"IDLE", "DATA_OUT"}
  <2>1. e = d
    BY <1>6 DEF MSC_BOT_DataOut
  <2> HIDE DEF e
  <2>2. ~OutQ(Tail(q)) /\ (InQ(Tail(q)) => InQ(q))
    BY <1>1, QueueKinds
  <2>3. Disciplined(d, Tail(q), p)
    BY <1>1, <1>2, <1>6, <2>2 DEF Disciplined
  <2> QED
    BY <2>1, <2>3 DEF e
<1> QED
  BY <1>3, <1>4, <1>5, <1>6

LEMMA TaggedType ==
  ASSUME NEW c \in Commands, NEW t \in Int
  PROVE  Tagged(c, (t + 1) % 2) \in CBWType
<1>1. c \in CommandType
  BY ConstantsAssumption
<1>2. (t + 1) % 2 \in {0, 1}
  BY ModType
<1> QED
  BY <1>1, <1>2 DEF Tagged, CommandType, CBWType, Tags

LEMMA OverCBWType ==
  ASSUME NEW d \in DevType
  PROVE  /\ OverCBW(d) \in DevType
         /\ OverCBW(d).state = d.state /\ OverCBW(d).tx = d.tx
         /\ OverCBW(d).rx = d.rx /\ ~OverCBW(d).cbw.ok
         /\ OverCBW(d).status = d.status
<1>1. [tag |-> JunkTag, residue |-> 0, status |-> "JUNK"] \in CSWType
  BY DEF CSWType, Statuses
<1>2. [i \in DOMAIN d.sense |-> "JUNK"] \in [0 .. SenseDepth - 1 -> SenseCodes]
  BY DEF DevType, SenseCodes
<1> QED
  BY <1>1, <1>2, JunkType DEF OverCBW, DevType

LEMMA HostBlocksType ==
  ASSUME dev \in DevType, NEW pos \in Int, NEW len \in Int
  PROVE  HostBlocks(pos, len) \in [1 .. Slots -> Slot]
<1>1. pos \div BlkSize \in Int
  BY ConstantsAssumption
<1>2. \A i \in 1 .. Slots : Block((pos \div BlkSize) + i - 1) \in Slot
  BY <1>1 DEF Block, Slot, Blocks
<1>3. \A i \in 1 .. Slots : dev.data[i] \in Slot
  BY Fields
<1> HIDE DEF Slot
<1> QED
  BY <1>2, <1>3 DEF HostBlocks

-----------------------------------------------------------------------------
(* Every step keeps the invariant.                                         *)

Phases == {"idle", "dataIn", "dataOut", "status", "status2", "reset",
           "clear_in", "clear_out"}
Results == {"none", "RESET"} \cup Statuses

\* The invariant of the next state, in the terms of the lemmas above.
LEMMA InvForm ==
  /\ Inv => dev \in DevType /\ irq \in Irqs /\ Disciplined(dev, irq, hphase)
  /\ /\ dev' \in DevType /\ irq' \in Irqs /\ hphase' \in Phases
     /\ hcmd' \in CBWType /\ hrem' \in Int /\ hrecv' \in Seq(Slot)
     /\ hres' \in Results /\ Disciplined(dev', irq', hphase')
     => Inv'
BY DisciplineForm DEF Inv, TypeOK, Irqs, Phases, Results

LEMMA DevDataInInv == ASSUME Inv, DevDataIn PROVE Inv'
<1>1. PICK ok \in BOOLEAN : dev' = MSC_BOT_DataIn(dev, ok)
  BY DEF DevDataIn, StorageOutcomes
<1>2. InQ(irq) /\ irq \in Irqs
  BY InvForm DEF DevDataIn, InPending, InQ
<1>3. irq' = (IF Head(irq) = "in" THEN Tail(irq) ELSE <<"out">>) /\ irq' \in Irqs
  BY <1>2, QueueFacts DEF DevDataIn, Irqs
<1>4. UNCHANGED <<hphase, hcmd, hrem, hrecv, hres>>
  BY DEF DevDataIn, host
<1>5. dev' \in DevType
  BY <1>1, InvForm, DataStageType
<1>6. Disciplined(dev', irq', hphase')
  BY <1>1, <1>2, <1>3, <1>4, InvForm, DataInKeeps
<1> QED
  BY <1>3, <1>4, <1>5, <1>6, InvForm DEF Inv, TypeOK, Phases, Results

LEMMA DevDataOutInv == ASSUME Inv, DevDataOut PROVE Inv'
<1>1. PICK ok \in BOOLEAN : dev' = MSC_BOT_DataOut(dev, ok)
  BY DEF DevDataOut, StorageOutcomes
<1>2. irq \in Irqs /\ irq # << >> /\ Head(irq) = "out" /\ irq' = Tail(irq)
  BY InvForm DEF DevDataOut
<1>3. irq' \in Irqs
  BY <1>2, QueueFacts DEF Irqs
<1>4. UNCHANGED <<hphase, hcmd, hrem, hrecv, hres>>
  BY DEF DevDataOut, host
<1>5. dev' \in DevType
  BY <1>1, InvForm, DataStageType
<1>6. Disciplined(dev', irq', hphase')
  BY <1>1, <1>2, <1>4, InvForm, DataOutKeeps
<1> QED
  BY <1>3, <1>4, <1>5, <1>6, InvForm DEF Inv, TypeOK, Phases, Results

LEMMA HostSendCBWInv ==
  ASSUME Inv, NEW c \in Commands, HostSendCBW(c)
  PROVE  Inv'
<1>1. dev \in DevType /\ irq \in Irqs /\ Disciplined(dev, irq, hphase)
      /\ hphase = "idle" /\ dev.rx = "cbw"
  BY InvForm DEF HostSendCBW
<1>2. hcmd' \in CBWType
  <2>1. hcmd.tag \in Int
    BY DEF Inv, TypeOK, CBWType, Tags, JunkTag
  <2>2. hcmd' = Tagged(c, (hcmd.tag + 1) % 2)
    BY DEF HostSendCBW
  <2> QED
    BY <2>1, <2>2, TaggedType
<1>3. dev' = [dev EXCEPT !.cbw = hcmd', !.rx = "none", !.written = {}]
  BY DEF HostSendCBW
<1>4. dev' \in DevType /\ dev'.state = dev.state /\ dev'.tx = dev.tx
      /\ dev'.rx = "none"
  BY <1>1, <1>2, <1>3 DEF DevType
<1>5. irq' = Append(irq, "out") /\ ~OutQ(irq) /\ dev.state = "IDLE"
      /\ dev.tx = NoXfer
  BY <1>1, QueueKinds DEF HostSendCBW, Disciplined
<1>6. irq' \in {<<"out">>, <<"in", "out">>}
  BY <1>1, <1>5, QueueFacts
<1>7. hphase' \in {"dataIn", "dataOut", "status"}
  BY DEF HostSendCBW, DataPhase
<1>8. hrem' \in Int /\ hrecv' \in Seq(Slot) /\ hres' \in Results
  <2>1. c \in CommandType
    BY ConstantsAssumption
  <2>2. c.dlen \in Int
    BY <2>1 DEF CommandType
  <2> QED
    BY <2>2 DEF HostSendCBW, Results
<1>9. Disciplined(dev', irq', hphase')
  BY <1>4, <1>5, <1>6, <1>7, QueueKinds DEF Disciplined, InStates, NoXfer
<1>10. irq' \in Irqs /\ hphase' \in Phases
  BY <1>6, <1>7 DEF Irqs, Phases
<1> QED
  BY <1>2, <1>4, <1>8, <1>9, <1>10, InvForm

LEMMA HostSendDataInv == ASSUME Inv, HostSendData PROVE Inv'
<1> DEFINE len == IF dev.rx = "data" THEN Min2(hrem, dev.rx_len) ELSE 1
           g   == [dev EXCEPT !.data = HostBlocks(hcmd.dlen - hrem, len)]
           d   == IF dev.rx = "data" THEN g ELSE OverCBW(dev)
<1>1. dev \in DevType /\ irq \in Irqs /\ Disciplined(dev, irq, hphase)
      /\ dev.rx \in {"cbw", "data"}
  <2>1. dev \in DevType /\ dev.rx # "none"
    BY InvForm DEF HostSendData
  <2>2. dev.rx \in {"none", "cbw", "data"}
    BY <2>1, Fields
  <2> QED
    BY <2>1, <2>2, InvForm
<1>2. len \in Int /\ hcmd.dlen - hrem \in Int
  <2>1. dev.rx_len \in Int /\ hrem \in Int /\ hcmd.dlen \in Int
    BY <1>1, Fields, CBWFields DEF Inv, TypeOK
  <2> QED
    BY <2>1 DEF Min2
<1>3. dev' = [d EXCEPT !.rx = "none"] /\ irq' = Append(irq, "out")
      /\ hrem' = hrem - len /\ hphase' \in {"status", hphase}
      /\ hphase = "dataOut" /\ UNCHANGED <<hcmd, hrecv, hres>>
  BY DEF HostSendData
<1> HIDE DEF len
<1>4. CASE dev.rx = "data"
  <2>1. g \in DevType /\ g.state = dev.state /\ g.tx = dev.tx
        /\ g.cbw = dev.cbw
    <3>1. HostBlocks(hcmd.dlen - hrem, len) \in [1 .. Slots -> Slot]
      BY <1>1, <1>2, HostBlocksType
    <3> HIDE DEF Slot
    <3> QED
      BY <1>1, <3>1 DEF DevType
  <2>2. d = g
    BY <1>4
  <2> HIDE DEF g, d
  <2>3. dev' \in DevType /\ dev'.state = dev.state /\ dev'.tx = dev.tx
        /\ dev'.cbw = dev.cbw /\ dev'.rx = "none"
    BY <1>3, <2>1, <2>2 DEF DevType
  <2>4. dev.state = "DATA_OUT" /\ dev.tx = NoXfer /\ dev.cbw.op = "WRITE10"
        /\ ~InQ(irq) /\ ~OutQ(irq)
    BY <1>1, <1>4 DEF Disciplined
  <2>5. irq' = <<"out">>
    <3>1. irq = << >>
      BY <1>1, <2>4, QueueKinds DEF Irqs
    <3> QED
      BY <1>1, <1>3, <2>4, <3>1, QueueFacts
  <2>6. Disciplined(dev', irq', hphase')
    <3> DEFINE e == dev'
               p == hphase'
    <3>1. p \notin {"idle", "clear_in", "clear_out"}
      BY <1>3
    <3>2. /\ e.state = "DATA_OUT" /\ e.tx = NoXfer /\ e.cbw.op = "WRITE10"
          /\ e.rx = "none" /\ e.tx.kind # "csw"
      BY <2>3, <2>4 DEF NoXfer
    <3> HIDE DEF e, p
    <3>3. Disciplined(e, <<"out">>, p)
      BY <3>1, <3>2, QueueKinds DEF Disciplined, InStates
    <3> QED
      BY <2>5, <3>3 DEF e, p
  <2>7. hrem' \in Int
    BY <1>2, <1>3 DEF Inv, TypeOK
  <2> QED
    BY <1>3, <2>3, <2>5, <2>6, <2>7, InvForm
       DEF Inv, TypeOK, Phases, Results, Irqs
<1>5. CASE dev.rx = "cbw"
  <2>1. d = OverCBW(dev)
    BY <1>5
  <2> HIDE DEF d
  <2>2. dev' \in DevType /\ dev'.state = dev.state /\ dev'.tx = dev.tx
        /\ ~dev'.cbw.ok /\ dev'.rx = "none"
    <3> DEFINE o == OverCBW(dev)
    <3>1. o \in DevType /\ o.state = dev.state /\ o.tx = dev.tx /\ ~o.cbw.ok
      BY <1>1, OverCBWType
    <3>2. dev' = [o EXCEPT !.rx = "none"]
      BY <1>3, <2>1
    <3> HIDE DEF o
    <3> QED
      BY <3>1, <3>2 DEF DevType
  <2>3. ~OutQ(irq) /\ dev.state # "DATA_OUT"
        /\ (InQ(irq) => dev.tx = NoXfer)
        /\ (dev.state \in InStates => dev.tx = NoXfer /\ ~InQ(irq))
        /\ (dev.tx.kind = "csw" => dev.state = "IDLE")
    BY <1>1, <1>5 DEF Disciplined
  <2>4. irq' \in {<<"out">>, <<"in", "out">>} /\ (InQ(irq') => InQ(irq))
    BY <1>1, <1>3, <2>3, QueueFacts, QueueKinds
  <2>5. Disciplined(dev', irq', hphase')
    <3> DEFINE e == dev'
               q == irq'
               p == hphase'
    <3>1. p \notin {"idle", "clear_in", "clear_out"}
      BY <1>3
    <3>2. /\ e.state = dev.state /\ e.tx = dev.tx /\ ~e.cbw.ok /\ e.rx = "none"
          /\ InQ(q) => InQ(irq)
      BY <2>2, <2>4
    <3> HIDE DEF e, q, p
    <3>3. Disciplined(e, q, p)
      BY <2>3, <3>1, <3>2 DEF Disciplined
    <3> QED
      BY <3>3 DEF e, q, p
  <2>6. hrem' \in Int
    BY <1>2, <1>3 DEF Inv, TypeOK
  <2> QED
    BY <1>3, <2>2, <2>4, <2>5, <2>6, InvForm
       DEF Inv, TypeOK, Phases, Results, Irqs
<1> QED
  BY <1>1, <1>4, <1>5

\* Taking a packet leaves its completion behind.
LEMMA TakesKeeps ==
  ASSUME Inv, NEW x, HostTakes(x), x # NoXfer,
         hphase' \in {"idle", "dataIn", "status", "reset"},
         hphase' = "idle" => dev.tx.kind = "csw"
  PROVE  /\ dev' \in DevType /\ irq' \in Irqs /\ hcmd' \in CBWType
         /\ Disciplined(dev', irq', hphase')
<1>1. dev \in DevType /\ irq \in Irqs /\ Disciplined(dev, irq, hphase)
      /\ dev.tx # NoXfer
  BY InvForm DEF HostTakes
<1>2. dev' = [dev EXCEPT !.tx = NoXfer] /\ irq' = Append(irq, "in")
      /\ hcmd' = hcmd
  BY DEF HostTakes
<1>3. dev' \in DevType /\ dev'.state = dev.state /\ dev'.tx = NoXfer
      /\ dev'.rx = dev.rx /\ dev'.cbw = dev.cbw
  BY <1>1, <1>2 DEF DevType, XferType
<1>4. ~InQ(irq) /\ dev.state # "DATA_OUT"
      /\ (OutQ(irq) => dev.rx = "none")
      /\ (dev.state \in InStates => /\ dev.rx = "none" /\ ~OutQ(irq)
            /\ (dev.state = "DATA_IN" => dev.cbw.op = "READ10"))
      /\ dev.rx # "data"
      /\ (OutQ(irq) /\ dev.state = "IDLE" => ~dev.cbw.ok)
      /\ (hphase' = "idle" => dev.state = "IDLE")
  BY <1>1 DEF Disciplined
<1>5. irq' \in {<<"in">>, <<"out", "in">>} /\ (OutQ(irq') => OutQ(irq))
  BY <1>1, <1>2, <1>4, QueueFacts, QueueKinds
<1>6. Disciplined(dev', irq', hphase')
  BY <1>3, <1>4, <1>5, QueueKinds DEF Disciplined, InStates, NoXfer
<1> QED
  BY <1>2, <1>3, <1>5, <1>6 DEF Inv, TypeOK, Irqs

LEMMA HostReceiveInv ==
  ASSUME Inv, HostReceiveData \/ HostReceiveCSW \/ HostReceiveInvalid
  PROVE  Inv'
<1> USE DEF NoXfer
<1>0. dev \in DevType /\ dev.tx \in XferType
  BY InvForm, Fields
<1>1. CASE HostReceiveData
  <2> DEFINE x   == dev.tx
             len == IF x.kind = "csw" THEN 0 ELSE x.len
             got == IF x.kind = "blocks" THEN x.blks ELSE << >>
  <2>1. HostTakes(x) /\ x # NoXfer /\ hphase' \in {"dataIn", "status"}
    BY <1>1 DEF HostReceiveData
  <2>2. len \in Int /\ got \in Seq(Slot)
    <3> HIDE DEF Slot
    <3> QED
      BY <1>0, <1>1 DEF HostReceiveData, XferType
  <2>3. hrem' = hrem - len /\ hrecv' = hrecv \o got /\ hres' = hres
    BY <1>1 DEF HostReceiveData
  <2> HIDE DEF len, got
  <2>4. hrem' \in Int /\ hrecv' \in Seq(Slot) /\ hres' \in Results
    <3>1. hrem \in Int /\ hrecv \in Seq(Slot) /\ hres \in Results
      BY DEF Inv, TypeOK, Results
    <3> HIDE DEF Slot
    <3> QED
      BY <2>2, <2>3, <3>1, ConcatProperties
  <2>5. hphase' \in Phases
    BY <2>1 DEF Phases
  <2> QED
    BY <2>1, <2>4, <2>5, TakesKeeps, InvForm
<1>2. CASE HostReceiveCSW
  <2>1. HostTakes(dev.tx) /\ dev.tx # NoXfer /\ hphase' = "idle"
        /\ dev.tx.kind = "csw" /\ hres' = dev.tx.csw.status
        /\ UNCHANGED <<hrem, hrecv>>
    BY <1>2 DEF HostReceiveCSW
  <2>2. hres' \in Results
    BY <1>0, <2>1 DEF XferType, CSWType, Results
  <2> QED
    BY <2>1, <2>2, TakesKeeps, InvForm DEF Inv, TypeOK, Phases
<1>3. CASE HostReceiveInvalid
  <2>1. HostTakes(dev.tx) /\ dev.tx # NoXfer /\ hphase' = "reset"
        /\ UNCHANGED <<hrem, hrecv, hres>>
    BY <1>3 DEF HostReceiveInvalid
  <2> QED
    BY <2>1, TakesKeeps, InvForm DEF Inv, TypeOK, Phases, Results
<1> QED
  BY <1>1, <1>2, <1>3

LEMMA HostClearHaltInv == ASSUME Inv, HostClearHalt PROVE Inv'
<1>1. PICK ep \in {"in", "out"} :
        /\ irq = << >> /\ irq' = << >> /\ dev' = ClearFeature(dev, ep)
        /\ hphase' \in {"status", "status2"}
        /\ hphase \in {"dataOut", "dataIn", "status"}
  BY DEF HostClearHalt, Setup
<1>2. UNCHANGED <<hcmd, hrem, hrecv, hres>>
  BY DEF HostClearHalt
<1>3. dev \in DevType /\ dev' \in DevType /\ Disciplined(dev, << >>, hphase)
  BY <1>1, InvForm, ClearFeatureType
<1> DEFINE e == ClearFeature(dev, ep)
<1>4. \/ Answers(e, dev)
      \/ /\ e.state = dev.state /\ e.rx = dev.rx /\ e.cbw = dev.cbw
         /\ e.tx \in {NoXfer, dev.tx}
  BY <1>3, ClearFeatureShape
<1>5. Busy(hphase')
  BY <1>1 DEF Busy
<1> HIDE DEF e
<1>6. CASE Answers(e, dev)
  BY <1>1, <1>2, <1>3, <1>5, <1>6, AnswersKeep, InvForm
     DEF e, Inv, TypeOK, Phases, Results, Irqs
<1>7. CASE e.state = dev.state /\ e.rx = dev.rx /\ e.cbw = dev.cbw
           /\ e.tx \in {NoXfer, dev.tx}
  <2> DEFINE p == hphase'
  <2>1. Busy(p)
    BY <1>5
  <2> HIDE DEF p
  <2>2. Disciplined(e, << >>, p)
    BY <1>3, <1>7, <2>1, QueueKinds DEF Disciplined, Busy, NoXfer
  <2> QED
    BY <1>1, <1>2, <1>3, <2>2, InvForm
       DEF e, p, Inv, TypeOK, Phases, Results, Irqs
<1> QED
  BY <1>4, <1>6, <1>7

\* A step of the host alone, into a phase that asks nothing.
LEMMA HostGivesUpInv ==
  ASSUME Inv, HostStalledAgain \/ HostTimeout
  PROVE  Inv'
<1>1. hphase' = "reset" /\ UNCHANGED <<dev, irq, hcmd, hrem, hrecv, hres>>
  BY DEF HostStalledAgain, HostTimeout
<1>2. Disciplined(dev, irq, "reset")
  BY InvForm DEF Disciplined
<1> QED
  BY <1>1, <1>2, InvForm DEF Inv, TypeOK, Phases, Results

LEMMA HostResetRecoveryInv == ASSUME Inv, HostResetRecovery PROVE Inv'
<1>1. irq = << >> /\ irq' = << >> /\ UNCHANGED <<hcmd, hrem, hrecv>>
      /\ hres' \in {hres, "RESET"}
  BY DEF HostResetRecovery, Setup
<1>2. dev \in DevType /\ Disciplined(dev, << >>, hphase)
  BY <1>1, InvForm
<1>3. dev' \in DevType /\ hphase' \in Phases
      /\ Disciplined(dev', << >>, hphase')
  <2>1. CASE hphase = "reset" /\ dev' = MSC_BOT_Reset(dev) /\ hphase' = "clear_in"
    <3> DEFINE e == MSC_BOT_Reset(dev)
    <3>1. /\ e \in DevType /\ e.state = "IDLE" /\ e.status = "RECOVERY"
          /\ e.rx = "cbw"
      BY <1>2, ResetType, ResetShape
    <3> HIDE DEF e
    <3>2. Disciplined(e, << >>, "clear_in")
      BY <3>1, QueueKinds DEF Disciplined, InStates
    <3> QED
      BY <2>1, <3>1, <3>2 DEF e, Phases
  <2>2. CASE /\ hphase = "clear_in" /\ dev' = ClearFeature(dev, "in")
             /\ hphase' = "clear_out"
    <3> DEFINE e == ClearFeature(dev, "in")
    <3>1. dev.state = "IDLE" /\ dev.status = "RECOVERY" /\ dev.rx # "data"
      BY <1>2, <2>2 DEF Disciplined
    <3>2. e \in DevType /\ e.state = "IDLE" /\ e.rx = dev.rx
          /\ e.tx = NoXfer /\ e.status = "RECOVERY"
      BY <1>2, <3>1, ClearFeatureType, ClearFeatureShape
    <3> HIDE DEF e
    <3>3. Disciplined(e, << >>, "clear_out")
      BY <3>1, <3>2, QueueKinds DEF Disciplined, InStates
    <3> QED
      BY <2>2, <3>2, <3>3 DEF e, Phases
  <2>3. CASE /\ hphase = "clear_out" /\ dev' = ClearFeature(dev, "out")
             /\ hphase' = "idle"
    <3> DEFINE e == ClearFeature(dev, "out")
    <3>1. dev.state = "IDLE" /\ dev.status = "RECOVERY" /\ dev.rx # "data"
          /\ dev.tx = NoXfer
      BY <1>2, <2>3 DEF Disciplined
    <3>2. e \in DevType /\ e.state = "IDLE" /\ e.rx = dev.rx
          /\ e.tx = NoXfer /\ e.status = "RECOVERY"
      BY <1>2, <3>1, ClearFeatureType, ClearFeatureShape
    <3> HIDE DEF e
    <3>3. Disciplined(e, << >>, "idle")
      BY <3>1, <3>2, QueueKinds DEF Disciplined, InStates, NoXfer
    <3> QED
      BY <2>3, <3>2, <3>3 DEF e, Phases
  <2> QED
    BY <2>1, <2>2, <2>3 DEF HostResetRecovery, Setup
<1> QED
  BY <1>1, <1>3, InvForm DEF Inv, TypeOK, Results, Irqs

LEMMA HostPortResetInv == ASSUME Inv, HostPortReset PROVE Inv'
<1> DEFINE d == [dev EXCEPT !.state = "IDLE"]
           e == MSC_BOT_Init(d)
<1>1. d \in DevType
  BY InvForm DEF DevType, States
<1> HIDE DEF d
<1>2. e \in DevType /\ e.state = "IDLE" /\ e.tx = NoXfer /\ e.rx = "cbw"
  BY <1>1, InitType, InitShape
<1> HIDE DEF e
<1>3. Disciplined(e, << >>, "idle")
  BY <1>2, QueueKinds DEF Disciplined, InStates, NoXfer
<1>4. /\ dev' = e /\ irq' = << >> /\ hphase' = "idle" /\ hres' = "RESET"
      /\ UNCHANGED <<hcmd, hrem, hrecv>>
  BY DEF HostPortReset, e, d
<1> QED
  BY <1>2, <1>3, <1>4, InvForm DEF Inv, TypeOK, Phases, Results, Irqs

LEMMA InvNext == Inv /\ [Next]_vars => Inv'
<1> SUFFICES ASSUME Inv, [Next]_vars PROVE Inv'
  OBVIOUS
<1>1. CASE DevDataIn
  BY <1>1, DevDataInInv
<1>2. CASE DevDataOut
  BY <1>2, DevDataOutInv
<1>3. CASE \E c \in Commands : HostSendCBW(c)
  BY <1>3, HostSendCBWInv
<1>4. CASE HostStep
  BY <1>4, HostSendDataInv, HostReceiveInv, HostClearHaltInv, HostGivesUpInv,
     HostResetRecoveryInv DEF HostStep
<1>5. CASE HostTimeout
  BY <1>5, HostGivesUpInv
<1>6. CASE HostPortReset
  BY <1>6, HostPortResetInv
<1>7. CASE UNCHANGED vars
  BY <1>7 DEF vars, Inv, TypeOK, Discipline, InPending, OutPending
<1> QED
  BY <1>1, <1>2, <1>3, <1>4, <1>5, <1>6, <1>7 DEF Next

-----------------------------------------------------------------------------
(* What the discipline gives: transfers wait, and the buffer is held.      *)

Waits == dev.tx # NoXfer /\ ~dev.halt_in /\ dev'.tx # dev.tx
           => dev'.tx = NoXfer
Held  == dev.tx.kind \in {"info", "blocks"} /\ dev'.tx = dev.tx
           => dev'.data = dev.data

LEMMA DevStep == ASSUME Inv, DevDataIn \/ DevDataOut PROVE Waits /\ Held
<1>1. CASE DevDataIn
  <2>1. dev.tx = NoXfer
    BY <1>1 DEF DevDataIn, Inv, Discipline
  <2> QED
    BY <2>1 DEF Waits, Held, NoXfer
<1>2. CASE DevDataOut
  <2>1. PICK ok \in BOOLEAN : dev' = MSC_BOT_DataOut(dev, ok)
    BY <1>2 DEF DevDataOut, StorageOutcomes
  <2>2. dev \in DevType /\ OutPending
    <3>1. irq \in Irqs /\ irq # << >> /\ Head(irq) = "out"
      BY <1>2, InvForm DEF DevDataOut
    <3> QED
      BY <3>1, InvForm, QueueFacts, QueueKinds DEF OutPending, OutQ
  <2>3. CASE dev.state = "IDLE" /\ ~dev.cbw.ok
    <3>1. dev' = MSC_BOT_CBW_Decode(dev, ok)
      BY <2>1, <2>3 DEF MSC_BOT_DataOut
    <3>2. dev'.tx = dev.tx /\ dev'.data = dev.data
      BY <2>2, <2>3, <3>1, DecodeBadShape
    <3> QED
      BY <3>2 DEF Waits, Held
  <2>4. CASE (dev.state = "IDLE" /\ dev.cbw.ok) \/ dev.state = "DATA_OUT"
    <3>1. dev.tx = NoXfer
      BY <2>2, <2>4 DEF Inv, Discipline
    <3> QED
      BY <3>1 DEF Waits, Held, NoXfer
  <2>5. CASE dev.state \notin {"IDLE", "DATA_OUT"}
    <3>1. dev' = dev
      BY <2>1, <2>5 DEF MSC_BOT_DataOut
    <3> QED
      BY <3>1 DEF Waits, Held
  <2> QED
    BY <2>3, <2>4, <2>5
<1> QED
  BY <1>1, <1>2

LEMMA SendStep ==
  ASSUME Inv, HostSendData \/ \E c \in Commands : HostSendCBW(c)
  PROVE  Waits /\ Held
<1>1. dev \in DevType
  BY InvForm
<1>2. CASE HostSendData /\ dev.rx = "data"
  <2>1. dev.tx = NoXfer
    BY <1>2 DEF Inv, Discipline
  <2> QED
    BY <2>1 DEF Waits, Held, NoXfer
<1>3. CASE HostSendData /\ dev.rx # "data"
  <2>1. dev' = [OverCBW(dev) EXCEPT !.rx = "none"]
    BY <1>3 DEF HostSendData
  <2>2. dev'.tx = dev.tx /\ dev'.data = dev.data
    BY <1>1, <2>1 DEF OverCBW, DevType
  <2> QED
    BY <2>2 DEF Waits, Held
<1>4. CASE \E c \in Commands : HostSendCBW(c)
  <2>1. dev' = [dev EXCEPT !.cbw = hcmd', !.rx = "none", !.written = {}]
    BY <1>4 DEF HostSendCBW
  <2>2. dev'.tx = dev.tx /\ dev'.data = dev.data
    BY <1>1, <2>1 DEF DevType
  <2> QED
    BY <2>2 DEF Waits, Held
<1> QED
  BY <1>2, <1>3, <1>4

LEMMA ReceiveStep ==
  ASSUME Inv, HostReceiveData \/ HostReceiveCSW \/ HostReceiveInvalid
  PROVE  Waits /\ Held
<1>1. dev' = [dev EXCEPT !.tx = NoXfer]
  BY DEF HostReceiveData, HostReceiveCSW, HostReceiveInvalid, HostTakes
<1>2. dev'.tx = NoXfer /\ dev'.data = dev.data
  BY <1>1, InvForm DEF DevType
<1> QED
  BY <1>2 DEF Waits, Held

LEMMA SetupStep ==
  ASSUME Inv, HostClearHalt \/ HostResetRecovery \/ HostPortReset
  PROVE  Waits /\ Held
<1>1. dev \in DevType
  BY InvForm
<1>2. CASE HostClearHalt
  <2>1. \/ dev' = ClearFeature(dev, "out")
        \/ dev' = ClearFeature(dev, "in") /\ dev.halt_in
    BY <1>2 DEF HostClearHalt, Setup
  <2>2. dev'.data = dev.data /\ (dev'.tx = dev.tx \/ dev.halt_in)
    BY <1>1, <2>1, ClearFeatureShape
  <2> QED
    BY <2>2 DEF Waits, Held
<1>3. CASE HostResetRecovery
  <2>1. \/ dev' = MSC_BOT_Reset(dev)
        \/ dev' = ClearFeature(dev, "in") /\ dev.status = "RECOVERY"
        \/ dev' = ClearFeature(dev, "out") /\ dev.status = "RECOVERY"
    BY <1>3 DEF HostResetRecovery, Setup, Inv, Discipline
  <2>2. dev'.data = dev.data /\ (dev'.tx = dev.tx \/ dev'.tx = NoXfer)
    BY <1>1, <2>1, ClearFeatureShape, ResetShape
  <2> QED
    BY <2>2 DEF Waits, Held
<1>4. CASE HostPortReset
  <2> DEFINE d == [dev EXCEPT !.state = "IDLE"]
  <2>1. d \in DevType /\ d.data = dev.data
    BY <1>1 DEF DevType, States
  <2>2. dev' = MSC_BOT_Init(d)
    BY <1>4 DEF HostPortReset
  <2> HIDE DEF d
  <2>3. dev'.tx = NoXfer /\ dev'.data = dev.data
    BY <2>1, <2>2, InitShape DEF MSC_BOT_Init, USBD_LL_FlushEP,
                                USBD_LL_PrepareReceive, DevType
  <2> QED
    BY <2>3 DEF Waits, Held
<1> QED
  BY <1>2, <1>3, <1>4

LEMMA TransferStep == Inv /\ [Next]_vars => Waits /\ Held
<1> SUFFICES ASSUME Inv, [Next]_vars PROVE Waits /\ Held
  OBVIOUS
<1>1. CASE Next
  <2>1. CASE HostStalledAgain \/ HostTimeout
    BY <2>1 DEF HostStalledAgain, HostTimeout, Waits, Held
  <2> QED
    BY <1>1, <2>1, DevStep, SendStep, ReceiveStep, SetupStep DEF Next, HostStep
<1>2. CASE UNCHANGED vars
  BY <1>2 DEF vars, Waits, Held
<1> QED
  BY <1>1, <1>2

-----------------------------------------------------------------------------
(* The theorems.                                                           *)

LEMMA InvAlways == Spec => []Inv
BY InvInit, InvNext, PTL DEF Spec

\* Type correctness for every capacity, buffer and ring size and every set of
\* commands: no handler can run the sense ring, the media buffer or a
\* remaining length out of its range (usbd_msc_bot.c, usbd_msc_scsi.c).
THEOREM TypeCorrect == Spec => []TypeOK
<1>1. Inv => TypeOK
  BY DEF Inv
<1> QED
  BY <1>1, InvAlways, PTL

\* The state machine and the endpoints never disagree: whatever fails, is
\* reset or comes late, a status is sent from IDLE only, a transfer never has
\* anything armed or pending against it, and a good wrapper is never decoded
\* while an IN transfer is left over (MSC_BOT_DataIn, MSC_BOT_DataOut).
THEOREM DisciplineKept == Spec => []Discipline
<1>1. Inv => Discipline
  BY DEF Inv
<1> QED
  BY <1>1, InvAlways, PTL

\* No handler starts an IN transfer over one the host has not taken
\* (USBD_LL_Transmit would drop the first).
THEOREM TransmitWaitsAlways == Spec => TransmitWaits
<1>1. Inv /\ [Next]_vars =>
        [dev.tx # NoXfer /\ ~dev.halt_in /\ dev'.tx # dev.tx
           => dev'.tx = NoXfer]_vars
  BY TransferStep DEF Waits
<1> QED
  BY <1>1, InvAlways, PTL DEF Spec, TransmitWaits

\* bot_data is never refilled while the IN endpoint still sends from it
\* (SCSI_ProcessRead, MSC_BOT_SendData).
THEOREM BufferHeldAlways == Spec => BufferHeld
<1>1. Inv /\ [Next]_vars =>
        [dev.tx.kind \in {"info", "blocks"} /\ dev'.tx = dev.tx
           => dev'.data = dev.data]_vars
  BY TransferStep DEF Held
<1> QED
  BY <1>1, InvAlways, PTL DEF Spec, BufferHeld

=============================================================================
