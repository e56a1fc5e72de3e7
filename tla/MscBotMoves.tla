----------------------------- MODULE MscBotMoves -----------------------------
(***************************************************************************)
(* What the handlers of MscBot do to a transfer: how far it has come, what *)
(* is on its way and what has reached the medium, block by block.  These   *)
(* lemmas are about one handler at a time; MscBotServiceProofs uses them   *)
(* for the steps of the system.                                            *)
(***************************************************************************)
EXTENDS MscBotProofs

-----------------------------------------------------------------------------
(* Arithmetic of whole blocks.                                             *)

LEMMA Sizes == BlkSize \in Nat \ {0, 1} /\ Slots \in Nat \ {0} /\ U32 \in Nat \ {0}
               /\ U16 \in Nat \ {0} /\ MediaPacket = Slots * BlkSize
BY ConstantsAssumption DEF MediaPacket

\* A greater number of blocks is a greater number of units.
LEMMA Times ==
  ASSUME NEW a \in Nat, NEW b \in Nat, NEW k \in Nat \ {0}, a < b
  PROVE  a * k + k <= b * k
<1>1. PICK c \in Nat : b = a + 1 + c
  <2>1. b - a - 1 \in Nat /\ b = a + 1 + (b - a - 1)
    OBVIOUS
  <2> QED
    BY <2>1
<1>2. b * k = a * k + k + c * k
  BY <1>1
<1>3. c * k >= 0
  OBVIOUS
<1> QED
  BY <1>2, <1>3

LEMMA TimesLeq ==
  ASSUME NEW a \in Nat, NEW b \in Nat, NEW k \in Nat \ {0}
  PROVE  /\ a * k \in Nat
         /\ a <= b <=> a * k <= b * k
         /\ a = b <=> a * k = b * k
         /\ a = 0 <=> a * k = 0
<1>1. a * k \in Nat /\ b * k \in Nat
  OBVIOUS
<1>2. a < b => a * k + k <= b * k
  BY Times
<1>3. b < a => b * k + k <= a * k
  BY Times
<1>4. 0 < a => k <= a * k
  <2>1. 0 < a => 0 * k + k <= a * k
    BY Times
  <2> QED
    BY <2>1
<1> QED
  BY <1>1, <1>2, <1>3, <1>4

\* Division of whole blocks.
LEMMA Quotient ==
  ASSUME NEW a \in Nat, NEW k \in Nat \ {0}
  PROVE  (a * k) \div k = a
<1> DEFINE q == (a * k) \div k
           r == (a * k) % k
<1>1. a * k \in Nat
  BY TimesLeq
<1>2. q \in Nat /\ r \in 0 .. k - 1 /\ a * k = k * q + r
  BY <1>1
<1> HIDE DEF q, r
<1>3. k * q = q * k
  BY <1>2
<1>4. q < a => q * k + k <= a * k
  BY <1>2, Times
<1>5. a < q => a * k + k <= q * k
  BY <1>2, Times
<1> QED
  BY <1>1, <1>2, <1>3, <1>4, <1>5 DEF q

LEMMA MinTimes ==
  ASSUME NEW a \in Nat, NEW b \in Nat, NEW k \in Nat \ {0}
  PROVE  /\ Min2(a, b) \in Nat /\ Min2(a, b) <= a /\ Min2(a, b) <= b
         /\ Min2(a * k, b * k) = Min2(a, b) * k
<1>1. a < b <=> a * k < b * k
  BY TimesLeq
<1> QED
  BY <1>1 DEF Min2

LEMMA SmallMod ==
  ASSUME NEW a \in Nat, NEW k \in Nat \ {0}, a < k
  PROVE  a % k = a
OBVIOUS

-----------------------------------------------------------------------------
(* How far a transfer has come.                                            *)

\* The first k blocks of a command: what the host has received, and what has
\* reached the medium.
ReadTo(c, k) == [i \in 1 .. k |-> Block(c.lba + i - 1)]
WrittenTo(c, k) == {<<c.lun, c.lba + i, Block(i)>> : i \in 0 .. k - 1}

\* What is moved at once.
Packet(d) == Min2(d.blk_len, MediaPacket)

\* The handle stands m blocks before the end of the transfer of c.
At(d, c, m) ==
  /\ d.cbw = c /\ c.dlen = c.nblk * BlkSize /\ Addressable(c) /\ c.op \in BlockOps
  /\ d.blk_len = m * BlkSize
  /\ d.blk_addr = (c.lba + c.nblk - m) * BlkSize
  /\ d.blk_size = 0 => m = 0
  /\ d.csw.residue = d.blk_len
  /\ d.csw.tag = c.tag

\* n blocks of a READ10 wait on the IN endpoint, with m more behind them.
BlocksSent(c, m, n) ==
  [kind |-> "blocks", len |-> n * BlkSize,
   blks |-> [i \in 1 .. n |-> Block(c.lba + (c.nblk - m - n) + i - 1)]]

InFlight(d, c, m, n) ==
  /\ At(d, c, m)
  /\ d.state = IF m = 0 THEN "LAST_DATA_IN" ELSE "DATA_IN"
  /\ n = 0 => m = 0
  /\ n # 0 => c.lba + c.nblk - m <= Capacity[c.lun]
  /\ d.tx = BlocksSent(c, m, n)

\* The next blocks of a WRITE10 are awaited, m before the end.
Awaits(d, c, m) ==
  /\ At(d, c, m)
  /\ d.state = "DATA_OUT" /\ d.rx = "data" /\ d.rx_len = Packet(d)

\* ... or they have come, and fill the buffer.
Holds(d, c, m) ==
  \A i \in 1 .. Packet(d) \div BlkSize :
    d.data[i] = Block(c.nblk - m + i - 1)

\* The status with which a command ends.
StatusSent(d, status) ==
  [kind |-> "csw", csw |-> [tag |-> d.csw.tag, residue |-> d.csw.residue,
                            status |-> status]]

\* What a data stage leaves alone.
SameUnit(e, d) ==
  /\ e.cbw = d.cbw /\ e.status = d.status
  /\ e.halt_in = d.halt_in /\ e.halt_out = d.halt_out
  /\ e.blk_size = d.blk_size /\ e.blk_nbr = d.blk_nbr

SameTransfer(e, d) ==
  /\ e.blk_addr = d.blk_addr /\ e.blk_len = d.blk_len
  /\ e.csw.residue = d.csw.residue /\ e.csw.tag = d.csw.tag
  /\ e.written = d.written

LEMMA SenseCodeKeeps ==
  ASSUME NEW d \in DevType, NEW asc \in SenseCodes
  PROVE  LET e == SCSI_SenseCode(d, asc)
         IN  /\ SameControl(e, d) /\ SameUnit(e, d) /\ SameTransfer(e, d)
             /\ e.rx_len = d.rx_len
BY DEF SCSI_SenseCode, DevType, SameControl, SameUnit, SameTransfer

LEMMA SendCSWKeeps ==
  ASSUME NEW d \in DevType, NEW st \in {"PASSED", "FAILED"}
  PROVE  LET e == MSC_BOT_SendCSW(d, st)
         IN  /\ e.state = "IDLE" /\ e.rx = "cbw" /\ e.tx = StatusSent(d, st)
             /\ SameUnit(e, d) /\ SameTransfer(e, d)
<1> DEFINE c == [d EXCEPT !.csw.status = st, !.state = "IDLE"]
<1>1. d.csw = [tag |-> d.csw.tag, residue |-> d.csw.residue,
               status |-> d.csw.status]
  BY Fields DEF CSWType
<1>2. c.csw = [tag |-> d.csw.tag, residue |-> d.csw.residue, status |-> st]
  BY <1>1 DEF DevType
<1> QED
  BY <1>2 DEF MSC_BOT_SendCSW, USBD_LL_Transmit, USBD_LL_PrepareReceive,
              DevType, StatusSent, SameUnit, SameTransfer

\* The packet in hand, in blocks.
LEMMA PacketBlocks ==
  ASSUME NEW d \in DevType, NEW m \in Nat, d.blk_len = m * BlkSize
  PROVE  /\ Min2(m, Slots) \in Nat /\ Min2(m, Slots) <= m
         /\ Min2(m, Slots) <= Slots /\ (Min2(m, Slots) = 0 => m = 0)
         /\ Packet(d) = Min2(m, Slots) * BlkSize
         /\ Packet(d) \div BlkSize = Min2(m, Slots)
<1>1. /\ Min2(m, Slots) \in Nat /\ Min2(m, Slots) <= m
      /\ Min2(m, Slots) <= Slots
      /\ Packet(d) = Min2(m, Slots) * BlkSize
  BY Sizes, MinTimes DEF Packet
<1>2. Min2(m, Slots) = 0 => m = 0
  BY Sizes DEF Min2
<1>3. (Min2(m, Slots) * BlkSize) \div BlkSize = Min2(m, Slots)
  BY <1>1, Sizes, Quotient
<1> QED
  BY <1>1, <1>2, <1>3

\* What the storage callbacks are given: the first block and the number.
LEMMA MediumRange ==
  ASSUME NEW d \in DevType, NEW c \in CBWType, NEW m \in 0 .. c.nblk,
         At(d, c, m)
  PROVE  LET k == Min2(m, Slots)
         IN  /\ Blk(d, Packet(d)) = k
             /\ k # 0 => Blk(d, d.blk_addr) = c.lba + c.nblk - m
<1> DEFINE k == Min2(m, Slots)
<1>1. k \in Nat /\ k <= m /\ Packet(d) = k * BlkSize /\ Packet(d) \div BlkSize = k
  BY PacketBlocks DEF At
<1>2. d.blk_size \in {0, BlkSize} /\ BlkSize # 0
  BY Fields, Sizes
<1>3. CASE d.blk_size = 0
  BY <1>1, <1>3 DEF At, Blk
<1>4. CASE d.blk_size # 0
  <2>1. c.lba + c.nblk - m \in Nat
    BY CBWFields
  <2>2. d.blk_addr \div BlkSize = c.lba + c.nblk - m
    BY <2>1, Quotient, Sizes DEF At
  <2> QED
    BY <1>1, <1>2, <1>4, <2>2 DEF Blk
<1> QED
  BY <1>3, <1>4

\* A packet moved: the transfer stands as many blocks further.
LEMMA MovedAt ==
  ASSUME NEW d \in DevType, NEW c \in CBWType, NEW m \in 0 .. c.nblk,
         At(d, c, m)
  PROVE  LET k == Min2(m, Slots)
             e == Moved(d, Packet(d))
         IN  /\ At(e, c, m - k)
             /\ e.state = d.state /\ e.tx = d.tx /\ e.rx = d.rx
             /\ e.data = d.data /\ e.written = d.written /\ SameUnit(e, d)
             /\ e.blk_len = 0 <=> m = k
<1> DEFINE k == Min2(m, Slots)
           e == Moved(d, Packet(d))
<1>1. /\ k \in Nat /\ k <= m /\ Packet(d) = k * BlkSize
      /\ m \in Nat /\ c.nblk \in Nat /\ c.lba \in Nat /\ m - k \in Nat
  BY PacketBlocks, CBWFields DEF At
<1> HIDE DEF k
<1>2. /\ e.blk_addr = (d.blk_addr + Packet(d)) % U32
      /\ e.blk_len = d.blk_len - Packet(d)
      /\ e.csw = [d.csw EXCEPT !.residue = @ - Packet(d)]
      /\ e.state = d.state /\ e.tx = d.tx /\ e.rx = d.rx
      /\ e.data = d.data /\ e.written = d.written /\ SameUnit(e, d)
  BY DEF Moved, DevType, SameUnit
<1> HIDE DEF e
<1>3. e.csw.residue = d.csw.residue - Packet(d) /\ e.csw.tag = d.csw.tag
  BY <1>2, Fields DEF CSWType
<1>4. e.blk_len = (m - k) * BlkSize
  BY <1>1, <1>2, Sizes DEF At
<1>5. e.blk_addr = (c.lba + c.nblk - (m - k)) * BlkSize
  <2> DEFINE a == c.lba + c.nblk - m
             b == c.lba + c.nblk - (m - k)
  <2>1. a \in Nat /\ b \in Nat /\ b = a + k /\ b <= c.lba + c.nblk
    BY <1>1
  <2>2. a * BlkSize + k * BlkSize = b * BlkSize
    BY <2>1, <1>1, Sizes
  <2>3. b * BlkSize \in Nat /\ b * BlkSize <= (c.lba + c.nblk) * BlkSize
    BY <2>1, <1>1, Sizes, TimesLeq
  <2>4. (c.lba + c.nblk) * BlkSize < U32
    BY DEF At, Addressable
  <2> HIDE DEF b
  <2>5. (b * BlkSize) % U32 = b * BlkSize
    <3> DEFINE x == b * BlkSize
               y == (c.lba + c.nblk) * BlkSize
    <3>1. x \in Nat /\ x <= y /\ y < U32 /\ U32 \in Nat \ {0} /\ y \in Int
      <4>1. c.lba + c.nblk \in Nat /\ BlkSize \in Nat
        BY <1>1, Sizes
      <4> QED
        BY <2>3, <2>4, <4>1, Sizes
    <3> HIDE DEF x, y
    <3>2. x % U32 = x
      BY <3>1, SmallMod
    <3> QED
      BY <3>2 DEF x
  <2> QED
    BY <1>1, <1>2, <2>2, <2>5 DEF At, b
<1>6. e.blk_size = 0 => m - k = 0
  BY <1>1, <1>2 DEF SameUnit, At
<1>7. e.blk_len = 0 <=> m = k
  BY <1>1, <1>4, Sizes, TimesLeq
<1>8. e.csw.residue = e.blk_len
  BY <1>2, <1>3 DEF At
<1>9. At(e, c, m - k)
  BY <1>2, <1>3, <1>4, <1>5, <1>6, <1>8 DEF At, SameUnit
<1> QED
  BY <1>2, <1>7, <1>9 DEF e, k

\* SCSI_ProcessRead fails, or puts the next blocks on the IN endpoint.
LEMMA ProcessReadMoves ==
  ASSUME NEW d \in DevType, NEW ok \in BOOLEAN, NEW c \in CBWType,
         NEW m \in 0 .. c.nblk, At(d, c, m), d.state = "DATA_IN"
  PROVE  LET r == SCSI_ProcessRead(d, ok)
         IN  \/ r = Bad(d, "UNRECOVERED_READ_ERROR")
             \/ /\ r.ret = 0
                /\ \E n \in 0 .. m : InFlight(r.dev, c, m - n, n)
                /\ r.dev.rx = d.rx /\ r.dev.written = d.written
                /\ SameUnit(r.dev, d)
<1> DEFINE len  == Packet(d)
           k    == Min2(m, Slots)
           n    == Blk(d, len)
           at   == Blk(d, d.blk_addr)
           data == [i \in 1 .. Slots |->
                      IF i <= n THEN Block(at + i - 1) ELSE d.data[i]]
           full == [d EXCEPT !.data = data]
           x    == [kind |-> "blocks", len |-> len,
                    blks |-> [i \in 1 .. n |-> full.data[i]]]
           put  == USBD_LL_Transmit(full, x)
           sent == Moved(put, len)
           last == [sent EXCEPT
                      !.state = IF sent.blk_len = 0 THEN "LAST_DATA_IN" ELSE @]
<1>1. /\ m \in Nat /\ c.nblk \in Nat /\ c.lba \in Nat /\ Slots \in Nat
      /\ k \in Nat /\ k <= m /\ k <= Slots /\ m - k \in 0 .. c.nblk
      /\ (k = 0 => m = 0) /\ len = k * BlkSize
  BY PacketBlocks, CBWFields, Sizes DEF At
<1>2. n = k /\ (k # 0 => at = c.lba + c.nblk - m)
  BY MediumRange
<1>3. x = BlocksSent(c, m - k, k)
  <2> DEFINE f == [i \in 1 .. n |-> full.data[i]]
             g == [i \in 1 .. k |-> Block(c.lba + (c.nblk - (m - k) - k) + i - 1)]
  <2>1. ASSUME NEW i \in 1 .. k PROVE full.data[i] = g[i]
    <3>1. full.data = data
      BY DEF DevType
    <3>2. full.data[i] = Block(at + i - 1)
      BY <1>1, <1>2, <3>1
    <3>3. k # 0 /\ at + i - 1 = c.lba + (c.nblk - (m - k) - k) + i - 1
      BY <1>1, <1>2
    <3> QED
      BY <3>2, <3>3
  <2>2. f = g
    BY <1>2, <2>1
  <2> QED
    BY <1>1, <2>2 DEF BlocksSent
<1> HIDE DEF data
<1>4. full \in DevType
  <2>1. data \in [1 .. Slots -> Slot]
    <3>1. ASSUME NEW i \in 1 .. Slots PROVE data[i] \in Slot
      <4>1. d.data[i] \in Slot
        BY Fields
      <4>2. n \in Nat /\ (n # 0 => at \in Int)
        BY <1>1, <1>2
      <4>3. i <= n => at + i - 1 \in Int
        BY <1>1, <4>2
      <4> QED
        BY <4>1, <4>3 DEF data, Block, Slot, Blocks
    <3> QED
      BY <3>1 DEF data
  <2> QED
    BY <2>1 DEF DevType
<1>5. x \in XferType
  <2>1. len \in Nat
    BY <1>1, Sizes, TimesLeq
  <2>2. [i \in 1 .. n |-> full.data[i]] \in Seq(Slot)
    <3> HIDE DEF full, n
    <3>0. full.data \in [1 .. Slots -> Slot]
      BY <1>4, Fields
    <3>1. ASSUME NEW i \in 1 .. n PROVE full.data[i] \in Slot
      BY <1>1, <1>2, <3>0
    <3> QED
      BY <1>1, <1>2, <3>1
  <2> QED
    BY <2>1, <2>2 DEF XferType
<1> HIDE DEF x
<1>6. /\ put \in DevType /\ At(put, c, m) /\ Packet(put) = len
      /\ put.tx = x /\ put.rx = d.rx /\ put.state = "DATA_IN"
      /\ put.written = d.written /\ SameUnit(put, d)
  <2> HIDE DEF len
  <2>1. put \in DevType
    BY <1>4, <1>5, TransmitType
  <2>2. /\ put.tx = x /\ put.rx = d.rx /\ put.state = "DATA_IN"
        /\ put.written = d.written /\ SameUnit(put, d)
        /\ put.blk_len = d.blk_len /\ put.blk_addr = d.blk_addr
        /\ put.csw = d.csw
    BY DEF DevType, USBD_LL_Transmit, SameUnit
  <2> QED
    BY <2>1, <2>2 DEF At, SameUnit, Packet, len
<1> HIDE DEF put, full
<1>7. /\ sent.tx = x /\ sent.rx = d.rx /\ sent.state = "DATA_IN"
      /\ sent.written = d.written /\ SameUnit(sent, d) /\ At(sent, c, m - k)
      /\ sent.blk_len = 0 <=> m = k
  BY <1>6, MovedAt DEF SameUnit
<1>8. sent \in DevType
  <2>1. len \in Nat /\ len <= put.blk_len
    BY <1>6, PieceType DEF Packet
  <2> HIDE DEF len
  <2> QED
    BY <1>6, <2>1, MovedType
<1> HIDE DEF sent, len
<1>9. /\ last.tx = x /\ last.rx = d.rx
      /\ last.written = d.written /\ SameUnit(last, d) /\ At(last, c, m - k)
      /\ last.state = IF m = k THEN "LAST_DATA_IN" ELSE "DATA_IN"
  BY <1>7, <1>8 DEF DevType, SameUnit, At
<1> HIDE DEF last
<1>10. SCSI_ProcessRead(d, ok) =
         IF ~MediumDone(d, len, ok) THEN Bad(d, "UNRECOVERED_READ_ERROR")
         ELSE Good(last)
  BY DEF SCSI_ProcessRead, last, sent, put, x, full, data, at, n, len, Packet
<1>11. CASE ~MediumDone(d, len, ok)
  BY <1>10, <1>11
<1>12. CASE MediumDone(d, len, ok)
  <2>1. k # 0 => c.lba + c.nblk - (m - k) <= Capacity[c.lun]
    <3>1. at + n <= Capacity[d.cbw.lun]
      BY <1>12 DEF MediumDone
    <3>2. d.cbw = c
      BY DEF At
    <3> QED
      BY <1>1, <1>2, <3>1, <3>2
  <2>2. m - k = 0 <=> m = k
    BY <1>1
  <2>3. k = 0 => m - k = 0
    BY <1>1
  <2>4. InFlight(last, c, m - k, k)
    BY <1>3, <1>9, <2>1, <2>2, <2>3 DEF InFlight
  <2>5. k \in 0 .. m
    BY <1>1
  <2>6. SCSI_ProcessRead(d, ok) = Good(last)
    BY <1>10, <1>12
  <2> QED
    BY <1>9, <2>4, <2>5, <2>6 DEF Good
<1> QED
  BY <1>11, <1>12

\* The next k blocks after the first a.
LEMMA WrittenGrows ==
  ASSUME NEW c, NEW a \in Nat, NEW k \in Nat
  PROVE  WrittenTo(c, a) \cup
           {<<c.lun, c.lba + (a + i - 1), Block(a + i - 1)>> : i \in 1 .. k}
         = WrittenTo(c, a + k)
<1> DEFINE next == {<<c.lun, c.lba + (a + i - 1), Block(a + i - 1)>> :
                      i \in 1 .. k}
<1>1. ASSUME NEW y \in WrittenTo(c, a + k)
      PROVE  y \in WrittenTo(c, a) \/ y \in next
  <2>1. PICK i \in 0 .. a + k - 1 : y = <<c.lun, c.lba + i, Block(i)>>
    BY DEF WrittenTo
  <2>2. CASE i \in 0 .. a - 1
    BY <2>1, <2>2 DEF WrittenTo
  <2>3. CASE i \notin 0 .. a - 1
    <3>1. i - a + 1 \in 1 .. k /\ a + (i - a + 1) - 1 = i
      BY <2>3
    <3> QED
      BY <2>1, <3>1
  <2> QED
    BY <2>2, <2>3
<1>2. WrittenTo(c, a) \subseteq WrittenTo(c, a + k)
  BY DEF WrittenTo
<1>3. ASSUME NEW y \in next PROVE y \in WrittenTo(c, a + k)
  <2>1. PICK i \in 1 .. k : y = <<c.lun, c.lba + (a + i - 1), Block(a + i - 1)>>
    OBVIOUS
  <2>2. a + i - 1 \in 0 .. a + k - 1
    OBVIOUS
  <2> QED
    BY <2>1, <2>2 DEF WrittenTo
<1> HIDE DEF next
<1>4. WrittenTo(c, a) \cup next = WrittenTo(c, a + k)
  BY <1>1, <1>2, <1>3
<1> QED
  BY <1>4 DEF next

\* SCSI_ProcessWrite fails, or takes the next blocks to their own places and
\* awaits more or ends the command.
LEMMA ProcessWriteMoves ==
  ASSUME NEW d \in DevType, NEW ok \in BOOLEAN, NEW c \in CBWType,
         NEW m \in 0 .. c.nblk, At(d, c, m), Holds(d, c, m),
         d.state = "DATA_OUT", d.written = WrittenTo(c, c.nblk - m)
  PROVE  LET r == SCSI_ProcessWrite(d, ok)
             k == Min2(m, Slots)
         IN  \/ r = Bad(d, "WRITE_FAULT")
             \/ /\ r.ret = 0
                /\ k # 0 => c.lba + c.nblk - (m - k) <= Capacity[c.lun]
                /\ r.dev.written = WrittenTo(c, c.nblk - (m - k))
                /\ SameUnit(r.dev, d)
                /\ \/ m = k /\ r.dev.state = "IDLE" /\ r.dev.rx = "cbw"
                      /\ r.dev.tx = StatusSent(r.dev, "PASSED")
                      /\ r.dev.csw.residue = 0 /\ r.dev.csw.tag = c.tag
                   \/ m # k /\ Awaits(r.dev, c, m - k) /\ r.dev.tx = d.tx
<1> DEFINE len  == Packet(d)
           k    == Min2(m, Slots)
           n    == Blk(d, len)
           at   == Blk(d, d.blk_addr)
           new  == {<<d.cbw.lun, at + i - 1, d.data[i]>> : i \in 1 .. n}
           w    == [d EXCEPT !.written = @ \cup new]
           done == Moved(w, len)
           csw  == MSC_BOT_SendCSW(done, "PASSED")
           more == USBD_LL_PrepareReceive(done, "data", Packet(done))
<1>1. /\ m \in Nat /\ c.nblk \in Nat /\ c.lba \in Nat /\ Slots \in Nat
      /\ k \in Nat /\ k <= m /\ k <= Slots /\ m - k \in 0 .. c.nblk
      /\ len = k * BlkSize /\ len \div BlkSize = k /\ m <= c.nblk
  BY PacketBlocks, CBWFields, Sizes DEF At
<1>2. n = k /\ (k # 0 => at = c.lba + c.nblk - m)
  BY MediumRange
<1>3. d.written \cup new = WrittenTo(c, c.nblk - (m - k))
  <2> DEFINE a == c.nblk - m
             next == {<<c.lun, c.lba + (a + i - 1), Block(a + i - 1)>> : i \in 1 .. k}
  <2>1. a \in Nat /\ c.nblk - (m - k) = a + k
    BY <1>1
  <2>2. \A i \in 1 .. k : <<d.cbw.lun, at + i - 1, d.data[i]>>
                           = <<c.lun, c.lba + (a + i - 1), Block(a + i - 1)>>
    <3>1. TAKE i \in 1 .. k
    <3>2. d.data[i] = Block(a + i - 1)
      BY <1>1, <3>1 DEF Holds
    <3>3. k # 0 /\ at + i - 1 = c.lba + (a + i - 1)
      BY <1>1, <1>2, <3>1
    <3> QED
      BY <3>2, <3>3 DEF At
  <2> HIDE DEF at
  <2>3. new = next
    BY <1>2, <2>2
  <2>4. WrittenTo(c, a) \cup next = WrittenTo(c, a + k)
    <3>1. a \in Nat /\ k \in Nat
      BY <1>1
    <3> HIDE DEF a, k, len, n, at, new
    <3> QED
      BY ONLY <3>1, WrittenGrows DEF next
  <2> HIDE DEF next, new
  <2> QED
    BY <2>1, <2>3, <2>4
<1>4. w \in DevType
  <2>1. new \subseteq Luns \X Int \X Slot
    <3>1. ASSUME NEW i \in 1 .. n
          PROVE  <<d.cbw.lun, at + i - 1, d.data[i]>> \in Luns \X Int \X Slot
      <4>1. d.cbw.lun \in Luns
        BY Fields, CBWFields
      <4>2. i \in 1 .. k /\ k # 0 /\ i \in 1 .. Slots
        BY <1>1, <1>2
      <4>3. at + i - 1 \in Int
        BY <1>1, <1>2, <4>2
      <4>4. d.data[i] \in Slot
        BY <4>2, Fields
      <4> QED
        BY <4>1, <4>3, <4>4
    <3> QED
      BY <3>1
  <2> HIDE DEF new
  <2> QED
    BY <2>1 DEF DevType
<1>5. /\ w.written = WrittenTo(c, c.nblk - (m - k)) /\ SameUnit(w, d)
      /\ At(w, c, m) /\ Packet(w) = len /\ w.state = "DATA_OUT"
      /\ w.rx = d.rx /\ w.tx = d.tx
  <2> HIDE DEF new, len
  <2>1. w.written = d.written \cup new /\ SameUnit(w, d)
        /\ w.blk_len = d.blk_len /\ w.blk_addr = d.blk_addr /\ w.csw = d.csw
        /\ w.state = "DATA_OUT" /\ w.rx = d.rx /\ w.tx = d.tx
    BY DEF DevType, SameUnit
  <2> QED
    BY <1>3, <2>1 DEF At, SameUnit, Packet, len
<1> HIDE DEF w
<1>6. /\ done.written = WrittenTo(c, c.nblk - (m - k)) /\ SameUnit(done, d)
      /\ At(done, c, m - k) /\ done.state = "DATA_OUT"
      /\ done.tx = d.tx /\ (done.blk_len = 0 <=> m = k)
  BY <1>4, <1>5, MovedAt DEF SameUnit
<1>7. done \in DevType
  <2>1. len \in Nat /\ len <= w.blk_len
    BY <1>4, <1>5, PieceType DEF Packet
  <2> HIDE DEF len
  <2> QED
    BY <1>4, <2>1, MovedType
<1> HIDE DEF done, len, at
<1>8. SCSI_ProcessWrite(d, ok) =
         IF ~MediumDone(d, len, ok) THEN Bad(d, "WRITE_FAULT")
         ELSE Good(IF done.blk_len = 0 THEN csw ELSE more)
  BY DEF SCSI_ProcessWrite, csw, more, done, w, new, at, n, len, Packet
<1>9. CASE ~MediumDone(d, len, ok)
  BY <1>8, <1>9
<1>10. CASE MediumDone(d, len, ok)
  <2>1. k # 0 => c.lba + c.nblk - (m - k) <= Capacity[c.lun]
    <3>1. at + n <= Capacity[d.cbw.lun]
      BY <1>10 DEF MediumDone, at
    <3> QED
      BY <1>1, <1>2, <3>1 DEF At, at
  <2>2. CASE m = k
    <3>1. SCSI_ProcessWrite(d, ok) = Good(csw)
      BY <1>6, <1>8, <1>10, <2>2
    <3>2. /\ csw.state = "IDLE" /\ csw.rx = "cbw"
          /\ csw.tx = StatusSent(done, "PASSED")
          /\ SameUnit(csw, done) /\ SameTransfer(csw, done)
      BY <1>7, SendCSWKeeps
    <3> HIDE DEF csw
    <3>3. done.csw.residue = 0 /\ done.csw.tag = c.tag
      BY <1>6, <2>2 DEF At
    <3>4. csw.tx = StatusSent(csw, "PASSED")
      BY <3>2 DEF StatusSent, SameTransfer
    <3> QED
      BY <1>6, <2>1, <2>2, <3>1, <3>2, <3>3, <3>4
         DEF Good, SameUnit, SameTransfer
  <2>3. CASE m # k
    <3>1. SCSI_ProcessWrite(d, ok) = Good(more)
      BY <1>6, <1>8, <1>10, <2>3
    <3>2. /\ more.state = "DATA_OUT" /\ more.rx = "data"
          /\ more.rx_len = Packet(done) /\ more.tx = d.tx
          /\ SameUnit(more, d) /\ SameTransfer(more, done)
      BY <1>6, <1>7 DEF USBD_LL_PrepareReceive, DevType, SameUnit, SameTransfer
    <3> HIDE DEF more
    <3>3. Awaits(more, c, m - k)
      BY <1>6, <3>2 DEF Awaits, At, SameUnit, SameTransfer, Packet
    <3> QED
      BY <1>6, <2>1, <2>3, <3>1, <3>2, <3>3 DEF Good, SameTransfer
  <2> QED
    BY <2>2, <2>3
<1> QED
  BY <1>9, <1>10


-----------------------------------------------------------------------------
(* What becomes of a good wrapper.                                         *)

\* The limit the range check uses is 0 as long as the block size is.
SizeKnown(d) == d.blk_size = 0 => d.blk_nbr = 0

\* A command that has not moved anything yet.
Kept(e, d) ==
  /\ e.tx = d.tx /\ e.rx = d.rx /\ e.cbw = d.cbw /\ e.status = d.status
  /\ e.halt_in = d.halt_in /\ e.halt_out = d.halt_out
  /\ e.csw.tag = d.csw.tag /\ e.csw.residue = d.csw.residue
  /\ e.written = d.written /\ SizeKnown(e)

LEMMA KeptAlong ==
  ASSUME NEW a, NEW b, NEW d, Kept(a, b), Kept(b, d)
  PROVE  Kept(a, d)
BY DEF Kept

LEMMA BadKeeps ==
  ASSUME NEW d \in DevType, SizeKnown(d), NEW asc \in SenseCodes
  PROVE  Bad(d, asc).ret = -1 /\ Kept(Bad(d, asc).dev, d)
         /\ Bad(d, asc).dev.state = d.state
<1>1. LET e == SCSI_SenseCode(d, asc)
      IN  SameControl(e, d) /\ SameUnit(e, d) /\ SameTransfer(e, d)
  BY SenseCodeKeeps
<1> QED
  BY <1>1 DEF Bad, SameControl, SameUnit, SameTransfer, Kept, SizeKnown

LEMMA InfoReplyKeeps ==
  ASSUME NEW d \in DevType, SizeKnown(d), NEW w, NEW n
  PROVE  InfoReply(d, w, n).ret = 0 /\ Kept(InfoReply(d, w, n).dev, d)
         /\ InfoReply(d, w, n).dev.state = d.state
BY DEF InfoReply, Good, DevType, Kept, SizeKnown

\* The commands without a data transfer of blocks.
Controlled(r, d) ==
  /\ Kept(r.dev, d)
  /\ \/ r.ret = -1 /\ r.dev.state = d.state
     \/ r.ret = -1 /\ r.dev.state = "NO_DATA" /\ d.cbw.dlen = 0
     \/ r.ret = 0 /\ r.dev.state = d.state

LEMMA ControlMoves ==
  ASSUME NEW d \in DevType, NEW ok \in BOOLEAN, d.state = "IDLE",
         d.cbw.op \notin BlockOps, SizeKnown(d)
  PROVE  LET r == SCSI_ProcessCmd(d, ok)
         IN  /\ Controlled(r, d)
             /\ r.ret = 0 => /\ d.cbw.op # "UNKNOWN"
                             /\ d.cbw.op = "TEST_UNIT_READY" => d.cbw.dlen = 0
<1>1. \A asc \in SenseCodes : Controlled(Bad(d, asc), d)
  BY BadKeeps DEF Controlled
<1>2. {"INVALID_CDB", "MEDIUM_NOT_PRESENT", "INVALID_FIELED_IN_COMMAND",
       "ADDRESS_OUT_OF_RANGE"} \subseteq SenseCodes
  BY DEF SenseCodes
<1>3. Controlled(Good([d EXCEPT !.data_length = 0]), d)
  BY DEF Good, DevType, Kept, SizeKnown, Controlled
<1>4. Kept(d, d)
  BY DEF Kept
<1>6. Controlled(SCSI_TestUnitReady(d), d)
  <2> DEFINE nd == [d EXCEPT !.state = "NO_DATA"]
             good == Good([d EXCEPT !.data_length = 0])
  <2>1. nd \in DevType /\ Kept(nd, d) /\ nd.state = "NO_DATA" /\ SizeKnown(nd)
    BY DEF DevType, States, Kept, SizeKnown
  <2> HIDE DEF nd, good
  <2>2. d.cbw.dlen = 0 => Controlled(Bad(nd, "MEDIUM_NOT_PRESENT"), d)
    <3>1. LET b == Bad(nd, "MEDIUM_NOT_PRESENT")
          IN  b.ret = -1 /\ Kept(b.dev, nd) /\ b.dev.state = nd.state
      BY <1>2, <2>1, BadKeeps
    <3> QED
      BY <2>1, <3>1, KeptAlong DEF Controlled
  <2>3. SCSI_TestUnitReady(d) =
          CASE d.cbw.dlen # 0 -> Bad(d, "INVALID_CDB")
            [] d.cbw.dlen = 0 /\ ~IsReady(d) -> Bad(nd, "MEDIUM_NOT_PRESENT")
            [] OTHER -> good
    BY DEF SCSI_TestUnitReady, nd, good
  <2>4. \/ SCSI_TestUnitReady(d) \in {Bad(d, "INVALID_CDB"), good}
        \/ d.cbw.dlen = 0 /\ SCSI_TestUnitReady(d) = Bad(nd, "MEDIUM_NOT_PRESENT")
    BY <2>3
  <2> QED
    BY <1>1, <1>2, <1>3, <2>2, <2>4 DEF good
<1>7. Controlled(SCSI_RequestSense(d), d)
  <2> DEFINE h == [d EXCEPT !.head = (d.head + 1) % SenseDepth]
             a == InfoReply(h, d.sense[d.head], d.cbw.alloc)
             b == InfoReply(d, "NONE", d.cbw.alloc)
  <2>1. h \in DevType
    <3>1. d.head + 1 \in Int /\ SenseDepth \in Nat \ {0}
      BY Fields, ConstantsAssumption
    <3>2. (d.head + 1) % SenseDepth \in 0 .. SenseDepth - 1
      BY <3>1, ModType
    <3> QED
      BY <3>2 DEF DevType
  <2>2. Kept(h, d) /\ SizeKnown(h) /\ h.state = d.state
    BY DEF DevType, Kept, SizeKnown
  <2>3. SCSI_RequestSense(d) \in {a, b}
    BY DEF SCSI_RequestSense
  <2> HIDE DEF h
  <2>4. a.ret = 0 /\ Kept(a.dev, h) /\ a.dev.state = h.state
    BY <2>1, <2>2, InfoReplyKeeps
  <2>5. b.ret = 0 /\ Kept(b.dev, d) /\ b.dev.state = d.state
    BY InfoReplyKeeps
  <2> HIDE DEF a, b
  <2> QED
    BY <2>2, <2>3, <2>4, <2>5, KeptAlong DEF Controlled
<1>8. Controlled(SCSI_ReadCapacity10(d), d)
  <2> DEFINE c == [d EXCEPT !.blk_nbr = Capacity[d.cbw.lun],
                            !.blk_size = BlkSize]
             a == InfoReply(c, d.cbw.op, 1)
  <2>1. Capacity[d.cbw.lun] \in Nat
    BY Fields, CBWFields, ConstantsAssumption
  <2>2. c \in DevType /\ Kept(c, d) /\ SizeKnown(c) /\ c.state = d.state
    BY <2>1, Sizes DEF DevType, Kept, SizeKnown
  <2>3. SCSI_ReadCapacity10(d) = a
    BY DEF SCSI_ReadCapacity10
  <2> HIDE DEF c
  <2>4. a.ret = 0 /\ Kept(a.dev, c) /\ a.dev.state = c.state
    BY <2>2, InfoReplyKeeps
  <2> HIDE DEF a
  <2> QED
    BY <2>2, <2>3, <2>4, KeptAlong DEF Controlled
<1>9. /\ Controlled(SCSI_Inquiry(d), d) /\ Controlled(SCSI_ModeSense(d), d)
      /\ Controlled(SCSI_ReadFormatCapacity(d), d)
  <2>1. \A n : Controlled(InfoReply(d, d.cbw.op, n), d)
    BY InfoReplyKeeps DEF Controlled
  <2> QED
    BY <2>1 DEF SCSI_Inquiry, SCSI_ModeSense, SCSI_ReadFormatCapacity
<1>10. Controlled(SCSI_StartStopUnit(d), d)
  BY <1>3 DEF SCSI_StartStopUnit
<1>11. Controlled(SCSI_Verify10(d), d)
  <2> DEFINE in == SCSI_CheckAddressRange(d, d.blk_addr, d.blk_len)
  <2> HIDE DEF in
  <2>1. SCSI_Verify10(d) \in {Bad(d, "INVALID_FIELED_IN_COMMAND"),
                              Bad(d, "ADDRESS_OUT_OF_RANGE"),
                              Good([d EXCEPT !.data_length = 0])}
    BY DEF SCSI_Verify10, in
  <2> QED
    BY <1>1, <1>2, <1>3, <2>1
<1>12. Controlled(Bad(d, "INVALID_CDB"), d)
  BY <1>1, <1>2
<1>13. SCSI_ProcessCmd(d, ok) \in
         {SCSI_TestUnitReady(d), SCSI_RequestSense(d), SCSI_ReadCapacity10(d),
          SCSI_Inquiry(d), SCSI_ModeSense(d), SCSI_ReadFormatCapacity(d),
          SCSI_StartStopUnit(d), SCSI_Verify10(d), Bad(d, "INVALID_CDB")}
  BY DEF SCSI_ProcessCmd, BlockOps
<1>14. Controlled(SCSI_ProcessCmd(d, ok), d)
  BY <1>6, <1>7, <1>8, <1>9, <1>10, <1>11, <1>12, <1>13
<1>15. d.cbw.op = "UNKNOWN" => SCSI_ProcessCmd(d, ok) = Bad(d, "INVALID_CDB")
  BY DEF SCSI_ProcessCmd
<1>16. d.cbw.op = "TEST_UNIT_READY" /\ d.cbw.dlen # 0 =>
         SCSI_ProcessCmd(d, ok) = Bad(d, "INVALID_CDB")
  BY DEF SCSI_ProcessCmd, SCSI_TestUnitReady
<1>17. Bad(d, "INVALID_CDB").ret # 0
  BY DEF Bad
<1> QED
  BY <1>14, <1>15, <1>16, <1>17


\* The range check of an addressable command is exact: nothing wraps.
LEMMA RangeExact ==
  ASSUME NEW d \in DevType, d.cbw.op \in BlockOps, Addressable(d.cbw)
  PROVE  SCSI_CheckAddressRange(d, d.cbw.lba, d.cbw.nblk)
           <=> d.cbw.lba + d.cbw.nblk <= d.blk_nbr
<1> DEFINE c == d.cbw
           t == c.lba + c.nblk
<1>1. /\ c.lba \in Nat /\ c.nblk \in Nat /\ c.nblk < U16
      /\ t \in Nat /\ t * BlkSize < U32
  BY Fields, CBWFields DEF Addressable
<1>2. c.nblk % U16 = c.nblk
  BY <1>1, Sizes, SmallMod
<1>3. t % U32 = t
  <2> HIDE DEF t
  <2>1. t <= t * BlkSize
    <3>1. BlkSize \in Nat /\ BlkSize >= 1
      BY Sizes
    <3>2. t * BlkSize = t + t * (BlkSize - 1)
      BY <1>1, <3>1
    <3>3. t * (BlkSize - 1) \in Nat
      BY <1>1, <3>1
    <3> QED
      BY <1>1, <3>2, <3>3
  <2>2. t < U32
    BY <1>1, <2>1, Sizes
  <2> QED
    BY <1>1, <2>2, Sizes, SmallMod
<1> QED
  BY <1>2, <1>3 DEF SCSI_CheckAddressRange

\* A transfer that passes the range check is converted into units without
\* loss, whether or not the host has asked for the capacity.
LEMMA UnitsExact ==
  ASSUME NEW d \in DevType, d.cbw.op \in BlockOps, Addressable(d.cbw),
         SizeKnown(d), SCSI_CheckAddressRange(d, d.cbw.lba, d.cbw.nblk)
  PROVE  LET u == InUnits(CdbRange(d))
         IN  /\ u.blk_addr = d.cbw.lba * BlkSize
             /\ u.blk_len = d.cbw.nblk * BlkSize
             /\ d.blk_size = 0 => d.cbw.lba = 0 /\ d.cbw.nblk = 0
<1> DEFINE c == d.cbw
           u == InUnits(CdbRange(d))
           s == d.blk_size
<1>1. /\ c.lba \in Nat /\ c.nblk \in Nat /\ s \in {0, BlkSize}
      /\ d.blk_nbr \in Nat /\ c.nblk < U16
      /\ (c.lba + c.nblk) * BlkSize < U32
  BY Fields, CBWFields DEF Addressable
<1>2. /\ u.blk_addr = (c.lba * s) % U32 /\ u.blk_len = (c.nblk * s) % U32
      /\ u.cbw = c /\ u.csw = d.csw /\ u.blk_size = s
  BY DEF InUnits, CdbRange, DevType
<1> HIDE DEF u, s
<1>4. c.lba + c.nblk <= d.blk_nbr
  BY RangeExact
<1>5. s = 0 => c.lba = 0 /\ c.nblk = 0
  BY <1>1, <1>4 DEF SizeKnown, s
<1>6. u.blk_addr = c.lba * BlkSize /\ u.blk_len = c.nblk * BlkSize
  <2>1. CASE s = 0
    <3>1. 0 % U32 = 0 /\ 0 * s = 0 /\ 0 * BlkSize = 0
      BY <2>1, Sizes, SmallMod
    <3> QED
      BY <1>2, <1>5, <2>1, <3>1
  <2>2. CASE s # 0
    <3>1. s = BlkSize
      BY <1>1, <2>2
    <3>2. /\ c.lba * BlkSize \in Nat /\ c.nblk * BlkSize \in Nat
          /\ c.lba * BlkSize <= (c.lba + c.nblk) * BlkSize
          /\ c.nblk * BlkSize <= (c.lba + c.nblk) * BlkSize
          /\ (c.lba + c.nblk) * BlkSize \in Nat
      <4>1. /\ c.lba + c.nblk \in Nat /\ c.lba <= c.lba + c.nblk
            /\ c.nblk <= c.lba + c.nblk /\ BlkSize \in Nat \ {0}
        BY <1>1, Sizes
      <4> DEFINE t == c.lba + c.nblk
      <4> HIDE DEF t
      <4>2. c.lba * BlkSize \in Nat /\ c.lba * BlkSize <= t * BlkSize
        BY <1>1, <4>1, TimesLeq DEF t
      <4>3. c.nblk * BlkSize \in Nat /\ c.nblk * BlkSize <= t * BlkSize
        BY <1>1, <4>1, TimesLeq DEF t
      <4>4. t * BlkSize \in Nat
        BY <4>1, TimesLeq DEF t
      <4> QED
        BY <4>2, <4>3, <4>4 DEF t
    <3> DEFINE a == c.lba * BlkSize
               b == c.nblk * BlkSize
               z == (c.lba + c.nblk) * BlkSize
    <3>3. a \in Nat /\ b \in Nat /\ z \in Nat /\ a <= z /\ b <= z /\ z < U32
          /\ U32 \in Nat \ {0}
      BY <1>1, <3>2, Sizes
    <3> HIDE DEF a, b, z
    <3>4. a < U32 /\ b < U32
      BY <3>3
    <3>5. a % U32 = a /\ b % U32 = b
      BY <3>3, <3>4, SmallMod
    <3> QED
      BY <1>2, <3>1, <3>5 DEF a, b
  <2> QED
    BY <2>1, <2>2
<1> QED
  BY <1>5, <1>6 DEF c, u, s

\* A transfer that passes the checks of READ10 and WRITE10 stands at its first
\* block, whether or not the host has asked for the capacity.
LEMMA StartsAt ==
  ASSUME NEW d \in DevType, d.cbw.op \in BlockOps, Addressable(d.cbw),
         SizeKnown(d), d.csw.tag = d.cbw.tag, d.csw.residue = d.cbw.dlen,
         SCSI_CheckAddressRange(d, d.cbw.lba, d.cbw.nblk),
         d.cbw.dlen = InUnits(CdbRange(d)).blk_len
  PROVE  At(InUnits(CdbRange(d)), d.cbw, d.cbw.nblk)
<1> DEFINE c == d.cbw
           u == InUnits(CdbRange(d))
<1>1. c.lba \in Nat /\ c.nblk \in Nat
  BY Fields, CBWFields
<1>2. u.cbw = c /\ u.csw = d.csw /\ u.blk_size = d.blk_size
  BY DEF InUnits, CdbRange, DevType
<1>3. /\ u.blk_addr = c.lba * BlkSize /\ u.blk_len = c.nblk * BlkSize
      /\ d.blk_size = 0 => c.lba = 0 /\ c.nblk = 0
  BY UnitsExact
<1> HIDE DEF u
<1>4. c.lba + c.nblk - c.nblk = c.lba
  BY <1>1
<1>5. c.dlen = c.nblk * BlkSize
  BY <1>3 DEF u
<1> QED
  BY <1>2, <1>3, <1>4, <1>5 DEF At, c, u

\* The first call of READ10: refused, or its first blocks are on their way.
LEMMA Read10Moves ==
  ASSUME NEW d \in DevType, NEW ok \in BOOLEAN, d.state = "IDLE",
         d.cbw.op = "READ10", Addressable(d.cbw), SizeKnown(d),
         d.csw.tag = d.cbw.tag, d.csw.residue = d.cbw.dlen
  PROVE  LET r == SCSI_Read10(d, ok)
         IN  \/ /\ r.ret = -1 /\ Kept(r.dev, d)
                /\ r.dev.state \in {"IDLE", "DATA_IN"}
             \/ /\ r.ret = 0 /\ d.cbw.dir = "in"
                /\ \E n \in 0 .. d.cbw.nblk : InFlight(r.dev, d.cbw, d.cbw.nblk - n, n)
                /\ r.dev.rx = d.rx /\ r.dev.written = d.written
                /\ SameUnit(r.dev, d)
<1> DEFINE P(r) == \/ /\ r.ret = -1 /\ Kept(r.dev, d)
                      /\ r.dev.state \in {"IDLE", "DATA_IN"}
                   \/ /\ r.ret = 0 /\ d.cbw.dir = "in"
                      /\ \E n \in 0 .. d.cbw.nblk :
                           InFlight(r.dev, d.cbw, d.cbw.nblk - n, n)
                      /\ r.dev.rx = d.rx /\ r.dev.written = d.written
                      /\ SameUnit(r.dev, d)
           r10 == CdbRange(d)
           v == InUnits(r10)
           u == [v EXCEPT !.state = "DATA_IN"]
           f == [u EXCEPT !.data_length = MediaPacket]
           in == SCSI_CheckAddressRange(r10, r10.blk_addr, r10.blk_len)
           fit == d.cbw.dlen = u.blk_len
<1>1. {"INVALID_CDB", "MEDIUM_NOT_PRESENT", "ADDRESS_OUT_OF_RANGE",
       "UNRECOVERED_READ_ERROR"} \subseteq SenseCodes
  BY DEF SenseCodes
<1>2. r10 \in DevType /\ v \in DevType
  BY RangeType
<1>3. /\ Kept(r10, d) /\ Kept(v, d) /\ SameUnit(v, d)
      /\ r10.state = "IDLE" /\ v.state = "IDLE" /\ v.blk_len = u.blk_len
      /\ SCSI_CheckAddressRange(r10, r10.blk_addr, r10.blk_len)
           <=> SCSI_CheckAddressRange(d, d.cbw.lba, d.cbw.nblk)
  BY DEF CdbRange, InUnits, Kept, SameUnit, DevType, SizeKnown,
         SCSI_CheckAddressRange
<1>4. in /\ fit => At(v, d.cbw, d.cbw.nblk)
  BY <1>3, StartsAt DEF BlockOps
<1> HIDE DEF v, r10, in
<1>5. u \in DevType /\ u.state = "DATA_IN" /\ Kept(u, v) /\ SameUnit(u, v)
      /\ (At(v, d.cbw, d.cbw.nblk) => At(u, d.cbw, d.cbw.nblk))
  BY <1>2, <1>3 DEF DevType, States, SameUnit, Kept, At, SizeKnown
<1> HIDE DEF u, fit
<1>6. MediaPacket \in Nat
  BY ConstantsAssumption DEF MediaPacket
<1>7. f \in DevType /\ f.state = "DATA_IN" /\ Kept(f, u) /\ SameUnit(f, u)
      /\ (At(u, d.cbw, d.cbw.nblk) => At(f, d.cbw, d.cbw.nblk))
  BY <1>5, <1>6 DEF DevType, SameUnit, Kept, At, SizeKnown
<1> HIDE DEF f
<1>8. Kept(f, d) /\ SameUnit(f, d) /\ Kept(u, d)
  BY <1>3, <1>5, <1>7, KeptAlong DEF SameUnit
<1>9. SizeKnown(r10) /\ SizeKnown(u) /\ SizeKnown(f)
  BY <1>3, <1>8 DEF Kept
<1>10. \A asc \in SenseCodes :
         /\ P(Bad(d, asc)) /\ P(Bad(r10, asc)) /\ P(Bad(u, asc))
         /\ P(Bad(f, asc))
  <2>1. ASSUME NEW e \in DevType, SizeKnown(e), Kept(e, d),
               e.state \in {"IDLE", "DATA_IN"}, NEW asc \in SenseCodes
        PROVE  P(Bad(e, asc))
    <3>1. Bad(e, asc).ret = -1 /\ Kept(Bad(e, asc).dev, e)
          /\ Bad(e, asc).dev.state = e.state
      BY <2>1, BadKeeps
    <3>2. Kept(Bad(e, asc).dev, d)
      BY <2>1, <3>1, KeptAlong
    <3> QED
      BY <2>1, <3>1, <3>2
  <2>2. Kept(d, d)
    BY DEF Kept
  <2> HIDE DEF P
  <2> QED
    BY <1>2, <1>3, <1>5, <1>7, <1>8, <1>9, <2>1, <2>2
<1>11. in /\ fit /\ d.cbw.dir = "in" => P(SCSI_ProcessRead(f, ok))
  <2> SUFFICES ASSUME in, fit, d.cbw.dir = "in"
               PROVE  P(SCSI_ProcessRead(f, ok))
    OBVIOUS
  <2> DEFINE r == SCSI_ProcessRead(f, ok)
             c == d.cbw
  <2>1. At(f, c, c.nblk) /\ c \in CBWType /\ c.nblk \in 0 .. c.nblk
    BY <1>4, <1>5, <1>7, Fields, CBWFields
  <2> HIDE DEF c
  <2>2. \/ r = Bad(f, "UNRECOVERED_READ_ERROR")
        \/ /\ r.ret = 0
           /\ \E n \in 0 .. c.nblk : InFlight(r.dev, c, c.nblk - n, n)
           /\ r.dev.rx = f.rx /\ r.dev.written = f.written
           /\ SameUnit(r.dev, f)
    BY <1>7, <2>1, ProcessReadMoves
  <2> HIDE DEF r
  <2>3. CASE r = Bad(f, "UNRECOVERED_READ_ERROR")
    BY <1>1, <1>10, <2>3 DEF r
  <2>4. CASE r # Bad(f, "UNRECOVERED_READ_ERROR")
    <3>1. SameUnit(r.dev, d) /\ r.dev.rx = d.rx /\ r.dev.written = d.written
      BY <1>8, <2>2, <2>4 DEF SameUnit, Kept
    <3>2. P(r)
      BY <2>2, <2>4, <3>1 DEF c
    <3> QED
      BY <3>2 DEF r
  <2> QED
    BY <2>3, <2>4
<1>12. SCSI_Read10(d, ok) =
         CASE d.cbw.dir # "in" -> Bad(d, "INVALID_CDB")
           [] d.cbw.dir = "in" /\ ~IsReady(d) -> Bad(d, "MEDIUM_NOT_PRESENT")
           [] OTHER ->
                IF ~in THEN Bad(r10, "ADDRESS_OUT_OF_RANGE")
                ELSE IF ~fit THEN Bad(u, "INVALID_CDB")
                ELSE SCSI_ProcessRead(f, ok)
  BY DEF SCSI_Read10, f, in, u, v, r10, fit
<1>13. \/ SCSI_Read10(d, ok) \in
            {Bad(d, "INVALID_CDB"), Bad(d, "MEDIUM_NOT_PRESENT"),
             Bad(r10, "ADDRESS_OUT_OF_RANGE"), Bad(u, "INVALID_CDB")}
       \/ /\ in /\ fit /\ d.cbw.dir = "in"
          /\ SCSI_Read10(d, ok) = SCSI_ProcessRead(f, ok)
  BY <1>12
<1> HIDE DEF P
<1>14. P(SCSI_Read10(d, ok))
  BY <1>1, <1>10, <1>11, <1>13
<1> QED
  BY <1>14 DEF P


\* The first call of WRITE10: refused, or its first blocks are awaited.
LEMMA Write10Moves ==
  ASSUME NEW d \in DevType, NEW ok \in BOOLEAN, d.state = "IDLE",
         d.cbw.op = "WRITE10", Addressable(d.cbw), SizeKnown(d),
         d.csw.tag = d.cbw.tag, d.csw.residue = d.cbw.dlen
  PROVE  LET r == SCSI_Write10(d, ok)
         IN  \/ r.ret = -1 /\ Kept(r.dev, d) /\ r.dev.state = "IDLE"
             \/ /\ r.ret = 0 /\ d.cbw.dir = "out"
                /\ Awaits(r.dev, d.cbw, d.cbw.nblk)
                /\ r.dev.tx = d.tx /\ r.dev.written = d.written
                /\ SameUnit(r.dev, d)
<1> DEFINE P(r) == \/ r.ret = -1 /\ Kept(r.dev, d) /\ r.dev.state = "IDLE"
                   \/ /\ r.ret = 0 /\ d.cbw.dir = "out"
                      /\ Awaits(r.dev, d.cbw, d.cbw.nblk)
                      /\ r.dev.tx = d.tx /\ r.dev.written = d.written
                      /\ SameUnit(r.dev, d)
           r10 == CdbRange(d)
           u == InUnits(r10)
           w == USBD_LL_PrepareReceive([u EXCEPT !.state = "DATA_OUT"],
                                       "data", Min2(u.blk_len, MediaPacket))
           in == SCSI_CheckAddressRange(r10, r10.blk_addr, r10.blk_len)
           fit == d.cbw.dlen = u.blk_len
<1>1. {"INVALID_CDB", "MEDIUM_NOT_PRESENT", "ADDRESS_OUT_OF_RANGE"}
        \subseteq SenseCodes
  BY DEF SenseCodes
<1>2. r10 \in DevType /\ u \in DevType
  BY RangeType
<1>3. /\ Kept(r10, d) /\ Kept(u, d) /\ SameUnit(u, d)
      /\ r10.state = "IDLE" /\ u.state = "IDLE"
      /\ SCSI_CheckAddressRange(r10, r10.blk_addr, r10.blk_len)
           <=> SCSI_CheckAddressRange(d, d.cbw.lba, d.cbw.nblk)
  BY DEF CdbRange, InUnits, Kept, SameUnit, DevType, SizeKnown,
         SCSI_CheckAddressRange
<1>4. in /\ fit => At(u, d.cbw, d.cbw.nblk)
  BY <1>3, StartsAt DEF BlockOps
<1> HIDE DEF u, r10, in, fit
<1>5. /\ w.state = "DATA_OUT" /\ w.rx = "data" /\ w.rx_len = Packet(u)
      /\ w.tx = u.tx /\ w.written = u.written /\ SameUnit(w, u)
      /\ SameTransfer(w, u)
  BY <1>2 DEF USBD_LL_PrepareReceive, DevType, SameUnit, SameTransfer, Packet
<1> HIDE DEF w
<1>6. in /\ fit /\ d.cbw.dir # "in" => P(Good(w))
  <2> SUFFICES ASSUME in, fit, d.cbw.dir # "in"
               PROVE  P(Good(w))
    OBVIOUS
  <2>1. Awaits(w, d.cbw, d.cbw.nblk)
    BY <1>4, <1>5 DEF Awaits, At, SameUnit, SameTransfer, Packet
  <2>2. d.cbw.dir = "out"
    BY DEF DevType, CBWType
  <2>3. w.tx = d.tx /\ w.written = d.written /\ SameUnit(w, d)
    BY <1>3, <1>5 DEF Kept, SameUnit
  <2> QED
    BY <2>1, <2>2, <2>3 DEF Good
<1>7. SizeKnown(r10) /\ SizeKnown(u)
  BY <1>3 DEF Kept
<1>8. \A asc \in SenseCodes :
         P(Bad(d, asc)) /\ P(Bad(r10, asc)) /\ P(Bad(u, asc))
  <2>1. ASSUME NEW e \in DevType, SizeKnown(e), Kept(e, d),
               e.state = "IDLE", NEW asc \in SenseCodes
        PROVE  P(Bad(e, asc))
    <3>1. Bad(e, asc).ret = -1 /\ Kept(Bad(e, asc).dev, e)
          /\ Bad(e, asc).dev.state = e.state
      BY <2>1, BadKeeps
    <3>2. Kept(Bad(e, asc).dev, d)
      BY <2>1, <3>1, KeptAlong
    <3> QED
      BY <2>1, <3>1, <3>2
  <2>2. Kept(d, d)
    BY DEF Kept
  <2> HIDE DEF P
  <2> QED
    BY <1>2, <1>3, <1>7, <2>1, <2>2
<1>9. SCSI_Write10(d, ok) =
         CASE d.cbw.dir = "in" -> Bad(d, "INVALID_CDB")
           [] d.cbw.dir # "in" /\ ~IsReady(d) -> Bad(d, "MEDIUM_NOT_PRESENT")
           [] OTHER ->
                IF ~in THEN Bad(r10, "ADDRESS_OUT_OF_RANGE")
                ELSE IF ~fit THEN Bad(u, "INVALID_CDB")
                ELSE Good(w)
  BY DEF SCSI_Write10, w, in, u, r10, fit
<1>10. \/ SCSI_Write10(d, ok) \in
            {Bad(d, "INVALID_CDB"), Bad(d, "MEDIUM_NOT_PRESENT"),
             Bad(r10, "ADDRESS_OUT_OF_RANGE"), Bad(u, "INVALID_CDB")}
       \/ /\ in /\ fit /\ d.cbw.dir # "in"
          /\ SCSI_Write10(d, ok) = Good(w)
  BY <1>9
<1> HIDE DEF P
<1>11. P(SCSI_Write10(d, ok))
  BY <1>1, <1>6, <1>8, <1>10
<1> QED
  BY <1>11 DEF P

\* The outcomes of a good wrapper.  It is refused: nothing is sent and the IN
\* endpoint halts, with the OUT endpoint when there is data to come.
Refused(e, d) ==
  /\ e.state \in {"IDLE", "DATA_IN"} /\ e.tx = d.tx /\ e.rx \in {d.rx, "cbw"}
  /\ e.halt_in
  /\ e.halt_out => d.halt_out \/ DataPhase(d.cbw) = "dataOut"

\* It ends at once, with a status and no data phase to the device.
Concluded(e, d, c) ==
  /\ e.state = "IDLE" /\ e.rx = "cbw" /\ e.tx.kind = "csw"
  /\ DataPhase(c) # "dataOut" /\ e.halt_out = d.halt_out
  /\ \/ e.tx.csw.status = "FAILED"
     \/ /\ e.tx.csw.status = "PASSED" /\ e.tx.csw.tag = c.tag
        /\ e.tx.csw.residue = c.dlen /\ c.op \notin BlockOps

\* It is answered with a short reply.
Informs(e, d, c) ==
  /\ e.state = "SEND_DATA" /\ e.tx.kind = "info" /\ e.rx = d.rx
  /\ e.csw.tag = c.tag /\ e.csw.residue = c.dlen - e.tx.len
  /\ c.op \notin BlockOps /\ e.halt_out = d.halt_out

\* Blocks are on their way, or awaited.
StartsRead(e, d, c) ==
  /\ c.op = "READ10" /\ c.dir = "in" /\ e.rx = d.rx
  /\ \E n \in 0 .. c.nblk : InFlight(e, c, c.nblk - n, n)
  /\ e.halt_out = d.halt_out

StartsWrite(e, d, c) ==
  /\ c.op = "WRITE10" /\ c.dir = "out" /\ e.tx = d.tx
  /\ Awaits(e, c, c.nblk)
  /\ e.halt_out = d.halt_out

LEMMA AbortKeeps ==
  ASSUME NEW d \in DevType
  PROVE  LET e == MSC_BOT_Abort(d)
         IN  /\ e.state = d.state /\ e.tx = d.tx /\ e.cbw = d.cbw
             /\ e.rx = (IF d.status = "ERROR" THEN "cbw" ELSE d.rx)
             /\ e.written = d.written /\ e.halt_in
             /\ e.blk_size = d.blk_size /\ e.blk_nbr = d.blk_nbr
             /\ e.blk_len = d.blk_len /\ e.csw = d.csw
             /\ d.status = "ERROR" => e.halt_out = d.halt_out
             /\ e.halt_out => d.halt_out \/ DataPhase(d.cbw) = "dataOut"
BY DEF MSC_BOT_Abort, USBD_LL_PrepareReceive, DevType, DataPhase

LEMMA SendDataKeeps ==
  ASSUME NEW d \in DevType
  PROVE  LET e == MSC_BOT_SendData(d)
         IN  /\ e.state = "SEND_DATA" /\ e.tx.kind = "info" /\ e.rx = d.rx
             /\ e.csw.tag = d.csw.tag
             /\ e.csw.residue = d.csw.residue - e.tx.len
             /\ e.written = d.written /\ SameUnit(e, d)
<1> DEFINE len == Min2(d.cbw.dlen, d.data_length)
           x == [kind |-> "info", len |-> len, what |-> d.data[1]]
           s == [d.csw EXCEPT !.residue = @ - len, !.status = "PASSED"]
           c == [d EXCEPT !.csw = s, !.state = "SEND_DATA", !.tx = x]
<1> HIDE DEF len
<1>1. x.kind = "info" /\ x.len = len
  OBVIOUS
<1>2. s.tag = d.csw.tag /\ s.residue = d.csw.residue - len
  <2> DEFINE w == d.csw
  <2>1. w \in CSWType
    BY Fields
  <2> HIDE DEF w
  <2>2. LET v == [w EXCEPT !.residue = @ - len, !.status = "PASSED"]
        IN  v.tag = w.tag /\ v.residue = w.residue - len
    BY <2>1 DEF CSWType
  <2> QED
    BY <2>2 DEF w
<1>3. MSC_BOT_SendData(d) = c
  BY DEF MSC_BOT_SendData, USBD_LL_Transmit, len, DevType, CSWType
<1> HIDE DEF x, s
<1> QED
  BY <1>1, <1>2, <1>3 DEF DevType, SameUnit

LEMMA DecodeMoves ==
  ASSUME NEW d0 \in DevType, NEW ok \in BOOLEAN, d0.cbw.ok, d0.state = "IDLE",
         Sane(d0.cbw), SizeKnown(d0)
  PROVE  LET e == MSC_BOT_CBW_Decode(d0, ok)
             c == d0.cbw
         IN  /\ e.cbw = c /\ e.written = d0.written /\ SizeKnown(e)
             /\ \/ Refused(e, d0) \/ Concluded(e, d0, c) \/ Informs(e, d0, c)
                \/ StartsRead(e, d0, c) \/ StartsWrite(e, d0, c)
<1> DEFINE d == [d0 EXCEPT !.csw.tag = d0.cbw.tag, !.csw.residue = d0.cbw.dlen]
           r == SCSI_ProcessCmd(d, ok)
           e == r.dev
           x == MSC_BOT_CBW_Decode(d0, ok)
           c == d0.cbw
           G == /\ x.cbw = c /\ x.written = d0.written /\ SizeKnown(x)
                /\ \/ Refused(x, d0) \/ Concluded(x, d0, c)
                   \/ Informs(x, d0, c) \/ StartsRead(x, d0, c)
                   \/ StartsWrite(x, d0, c)
<1> SUFFICES G
  OBVIOUS
<1>1. d \in DevType
  <2>1. d0.csw \in CSWType /\ d0.cbw.tag \in Tags \cup {JunkTag}
        /\ d0.cbw.dlen \in Int
    BY Fields, CBWFields
  <2>2. [d0.csw EXCEPT !.tag = d0.cbw.tag, !.residue = d0.cbw.dlen] \in CSWType
    BY <2>1 DEF CSWType
  <2> QED
    BY <2>2 DEF DevType
<1>2. /\ d.state = "IDLE" /\ d.cbw = c /\ d.tx = d0.tx /\ d.rx = d0.rx
      /\ d.written = d0.written /\ d.status = d0.status
      /\ d.halt_in = d0.halt_in /\ d.halt_out = d0.halt_out
      /\ d.blk_size = d0.blk_size /\ d.blk_nbr = d0.blk_nbr
      /\ d.csw.tag = c.tag /\ d.csw.residue = c.dlen
  <2>1. d.csw = [d0.csw EXCEPT !.tag = d0.cbw.tag, !.residue = d0.cbw.dlen]
    BY DEF DevType
  <2>2. d.csw.tag = c.tag /\ d.csw.residue = c.dlen
    <3> DEFINE s == d0.csw
    <3>1. s \in CSWType
      BY Fields
    <3> HIDE DEF s, d
    <3>2. d.csw = [s EXCEPT !.tag = d0.cbw.tag, !.residue = d0.cbw.dlen]
      BY <2>1 DEF s
    <3> QED
      BY <3>1, <3>2 DEF CSWType
  <2> QED
    BY <2>2 DEF DevType
<1>3. MSC_BOT_CBW_Decode(d0, ok) =
        IF r.ret < 0 THEN IF e.state = "NO_DATA" THEN MSC_BOT_SendCSW(e, "FAILED")
                          ELSE MSC_BOT_Abort(e)
        ELSE IF e.state \in {"DATA_IN", "DATA_OUT", "LAST_DATA_IN"} THEN e
        ELSE IF e.data_length > 0 THEN MSC_BOT_SendData(e)
        ELSE MSC_BOT_SendCSW(e, "PASSED")
  <2> HIDE DEF d
  <2>1. d.cbw.ok
    BY <1>2
  <2>2. CASE r.ret < 0
    BY <2>1, <2>2 DEF MSC_BOT_CBW_Decode, d
  <2>3. CASE ~(r.ret < 0)
    BY <2>1, <2>3 DEF MSC_BOT_CBW_Decode, d
  <2> QED
    BY <2>2, <2>3
<1> HIDE DEF d, x
<1>4. SizeKnown(d) /\ (c.op \in BlockOps => Addressable(c))
      /\ (DataPhase(c) = "dataOut" =>
            c.op \in BlockOps \cup {"TEST_UNIT_READY", "UNKNOWN"})
      /\ (DataPhase(c) = "dataOut" => c.dlen # 0)
  <2>1. c.dir \in {"in", "out"}
    BY Fields DEF CBWType
  <2> QED
    BY <1>2, <2>1 DEF Sane, SizeKnown, TakesItsData, DataPhase
<1>5. e \in DevType
  BY <1>1, ProcessCmdType
<1>6. CASE c.op = "READ10"
  <2>0. r = SCSI_Read10(d, ok)
    BY <1>2, <1>6 DEF SCSI_ProcessCmd
  <2> HIDE DEF r
  <2>1. \/ /\ r.ret = -1 /\ Kept(r.dev, d)
           /\ r.dev.state \in {"IDLE", "DATA_IN"}
        \/ /\ r.ret = 0 /\ c.dir = "in"
           /\ \E n \in 0 .. c.nblk : InFlight(r.dev, c, c.nblk - n, n)
           /\ r.dev.rx = d.rx /\ r.dev.written = d.written
           /\ SameUnit(r.dev, d)
    BY <1>1, <1>2, <1>4, <1>6, <2>0, Read10Moves DEF BlockOps
  <2>2. CASE /\ r.ret = -1 /\ Kept(r.dev, d)
             /\ r.dev.state \in {"IDLE", "DATA_IN"}
    <3>1. x = MSC_BOT_Abort(e)
      BY <1>3, <2>2 DEF x
    <3>2. x.cbw = c /\ x.written = d0.written /\ SizeKnown(x) /\ Refused(x, d0)
      BY <1>2, <1>5, <2>2, <3>1, AbortKeeps DEF Kept, SizeKnown, Refused
    <3> QED
      BY <3>2
  <2>3. CASE /\ r.ret = 0 /\ c.dir = "in"
             /\ \E n \in 0 .. c.nblk : InFlight(r.dev, c, c.nblk - n, n)
             /\ r.dev.rx = d.rx /\ r.dev.written = d.written
             /\ SameUnit(r.dev, d)
    <3>1. e.state \in {"DATA_IN", "LAST_DATA_IN"}
      BY <2>3 DEF InFlight
    <3>2. x = e
      BY <1>3, <2>3, <3>1 DEF x
    <3>3. StartsRead(x, d0, c)
      BY <1>2, <1>6, <2>3, <3>2 DEF StartsRead, SameUnit
    <3>4. x.cbw = c /\ x.written = d0.written /\ SizeKnown(x)
      BY <1>2, <1>4, <2>3, <3>2 DEF SameUnit, SizeKnown
    <3> QED
      BY <3>3, <3>4
  <2> QED
    BY <2>1, <2>2, <2>3
<1>7. CASE c.op = "WRITE10"
  <2>0. r = SCSI_Write10(d, ok)
    BY <1>2, <1>7 DEF SCSI_ProcessCmd
  <2> HIDE DEF r
  <2>1. \/ r.ret = -1 /\ Kept(r.dev, d) /\ r.dev.state = "IDLE"
        \/ /\ r.ret = 0 /\ c.dir = "out" /\ Awaits(r.dev, c, c.nblk)
           /\ r.dev.tx = d.tx /\ r.dev.written = d.written
           /\ SameUnit(r.dev, d)
    BY <1>1, <1>2, <1>4, <1>7, <2>0, Write10Moves DEF BlockOps
  <2>2. CASE r.ret = -1 /\ Kept(r.dev, d) /\ r.dev.state = "IDLE"
    <3>1. x = MSC_BOT_Abort(e)
      BY <1>3, <2>2 DEF x
    <3>2. x.cbw = c /\ x.written = d0.written /\ SizeKnown(x) /\ Refused(x, d0)
      BY <1>2, <1>5, <2>2, <3>1, AbortKeeps DEF Kept, SizeKnown, Refused
    <3> QED
      BY <3>2
  <2>3. CASE /\ r.ret = 0 /\ c.dir = "out" /\ Awaits(r.dev, c, c.nblk)
             /\ r.dev.tx = d.tx /\ r.dev.written = d.written
             /\ SameUnit(r.dev, d)
    <3>1. e.state = "DATA_OUT"
      BY <2>3 DEF Awaits
    <3>2. x = e
      BY <1>3, <2>3, <3>1 DEF x
    <3>3. StartsWrite(x, d0, c)
      BY <1>2, <1>7, <2>3, <3>2 DEF StartsWrite, SameUnit
    <3>4. x.cbw = c /\ x.written = d0.written /\ SizeKnown(x)
      BY <1>2, <1>4, <2>3, <3>2 DEF SameUnit, SizeKnown
    <3> QED
      BY <3>3, <3>4
  <2> QED
    BY <2>1, <2>2, <2>3
<1>8. CASE c.op \notin BlockOps
  <2>1. /\ Controlled(r, d)
        /\ r.ret = 0 => /\ c.op # "UNKNOWN"
                        /\ c.op = "TEST_UNIT_READY" => c.dlen = 0
    BY <1>1, <1>2, <1>4, <1>8, ControlMoves
  <2> HIDE DEF r
  <2>2. Kept(e, d) /\ SizeKnown(e)
    BY <2>1 DEF Controlled, Kept
  <2>3. CASE r.ret = -1 /\ e.state = d.state
    <3>1. x = MSC_BOT_Abort(e)
      BY <1>2, <1>3, <2>3 DEF x
    <3>2. x.cbw = c /\ x.written = d0.written /\ SizeKnown(x) /\ Refused(x, d0)
      BY <1>2, <1>5, <2>2, <2>3, <3>1, AbortKeeps DEF Kept, SizeKnown, Refused
    <3> QED
      BY <3>2
  <2>4. CASE r.ret = -1 /\ e.state = "NO_DATA" /\ c.dlen = 0
    <3>1. x = MSC_BOT_SendCSW(e, "FAILED")
      BY <1>3, <2>4 DEF x
    <3>2. x.state = "IDLE" /\ x.rx = "cbw" /\ x.tx = StatusSent(e, "FAILED")
          /\ SameUnit(x, e) /\ SameTransfer(x, e)
      BY <1>5, <3>1, SendCSWKeeps
    <3>3. x.tx.kind = "csw" /\ x.tx.csw.status = "FAILED"
      BY <3>2 DEF StatusSent
    <3>4. Concluded(x, d0, c)
      BY <1>2, <2>2, <2>4, <3>2, <3>3 DEF Concluded, DataPhase, SameUnit, Kept
    <3>5. x.cbw = c /\ x.written = d0.written /\ SizeKnown(x)
      BY <1>2, <2>2, <3>2 DEF SameUnit, SameTransfer, Kept, SizeKnown
    <3> QED
      BY <3>4, <3>5
  <2>5. CASE r.ret = 0 /\ e.state = d.state
    <3>1. x \in {MSC_BOT_SendData(e), MSC_BOT_SendCSW(e, "PASSED")}
      BY <1>2, <1>3, <2>5 DEF x
    <3>2. CASE x = MSC_BOT_SendData(e)
      <4>1. /\ x.state = "SEND_DATA" /\ x.tx.kind = "info" /\ x.rx = e.rx
            /\ x.csw.tag = e.csw.tag
            /\ x.csw.residue = e.csw.residue - x.tx.len
            /\ x.written = e.written /\ SameUnit(x, e)
        BY <1>5, <3>2, SendDataKeeps
      <4>2. Informs(x, d0, c)
        BY <1>2, <1>8, <2>2, <4>1 DEF Informs, Kept, SameUnit
      <4>3. x.cbw = c /\ x.written = d0.written /\ SizeKnown(x)
        BY <1>2, <2>2, <4>1 DEF SameUnit, Kept, SizeKnown
      <4> QED
        BY <4>2, <4>3
    <3>3. CASE x = MSC_BOT_SendCSW(e, "PASSED")
      <4>1. x.state = "IDLE" /\ x.rx = "cbw" /\ x.tx = StatusSent(e, "PASSED")
            /\ SameUnit(x, e) /\ SameTransfer(x, e)
        BY <1>5, <3>3, SendCSWKeeps
      <4>2. /\ x.tx.kind = "csw" /\ x.tx.csw.status = "PASSED"
            /\ x.tx.csw.tag = e.csw.tag /\ x.tx.csw.residue = e.csw.residue
        BY <4>1 DEF StatusSent
      <4>3. DataPhase(c) # "dataOut"
        BY <1>4, <1>8, <2>1, <2>5 DEF BlockOps
      <4>4. Concluded(x, d0, c)
        BY <1>2, <1>8, <2>2, <4>1, <4>2, <4>3 DEF Concluded, SameUnit, Kept
      <4>5. x.cbw = c /\ x.written = d0.written /\ SizeKnown(x)
        BY <1>2, <2>2, <4>1 DEF SameUnit, SameTransfer, Kept, SizeKnown
      <4> QED
        BY <4>4, <4>5
    <3> QED
      BY <3>1, <3>2, <3>3
  <2> QED
    BY <1>2, <2>1, <2>3, <2>4, <2>5 DEF Controlled
<1> HIDE DEF G
<1> QED
  BY <1>6, <1>7, <1>8 DEF BlockOps

\* A wrapper that fails its check: an error is noted, the IN endpoint halts
\* and the next wrapper is awaited.
LEMMA DecodeBadMoves ==
  ASSUME NEW d0 \in DevType, NEW ok \in BOOLEAN, ~d0.cbw.ok
  PROVE  LET e == MSC_BOT_CBW_Decode(d0, ok)
         IN  /\ e.state = d0.state /\ e.tx = d0.tx /\ e.cbw = d0.cbw
             /\ e.rx = "cbw" /\ e.halt_in /\ e.halt_out = d0.halt_out
             /\ e.written = d0.written
             /\ e.blk_size = d0.blk_size /\ e.blk_nbr = d0.blk_nbr
<1> DEFINE d == [d0 EXCEPT !.csw.tag = d0.cbw.tag, !.csw.residue = d0.cbw.dlen]
           s == SCSI_SenseCode(d, "INVALID_CDB")
           z == [s EXCEPT !.status = "ERROR"]
<1>1. d \in DevType
  <2>1. d0.csw \in CSWType /\ d0.cbw.tag \in Tags \cup {JunkTag}
        /\ d0.cbw.dlen \in Int
    BY Fields, CBWFields
  <2>2. [d0.csw EXCEPT !.tag = d0.cbw.tag, !.residue = d0.cbw.dlen] \in CSWType
    BY <2>1 DEF CSWType
  <2> QED
    BY <2>2 DEF DevType
<1>2. /\ d.state = d0.state /\ d.tx = d0.tx /\ d.cbw = d0.cbw
      /\ d.halt_out = d0.halt_out /\ d.written = d0.written
      /\ d.blk_size = d0.blk_size /\ d.blk_nbr = d0.blk_nbr
  BY DEF DevType
<1> HIDE DEF d
<1>3. s \in DevType /\ SameControl(s, d) /\ SameUnit(s, d) /\ SameTransfer(s, d)
  BY <1>1, SenseCodeType, SenseCodeKeeps DEF SenseCodes
<1> HIDE DEF s
<1>4. /\ z \in DevType /\ SameControl(z, s) /\ z.status = "ERROR"
      /\ z.halt_out = s.halt_out /\ z.written = s.written
      /\ z.blk_size = s.blk_size /\ z.blk_nbr = s.blk_nbr
  BY <1>3 DEF DevType, SameControl
<1> HIDE DEF z
<1>5. MSC_BOT_CBW_Decode(d0, ok) = MSC_BOT_Abort(z)
  BY <1>2 DEF MSC_BOT_CBW_Decode, z, s, d
<1> QED
  BY <1>2, <1>3, <1>4, <1>5, AbortKeeps
     DEF SameControl, SameUnit, SameTransfer


-----------------------------------------------------------------------------
(* The data stages, and the requests of recovery.                          *)

\* A status that reports failure ends the command.
Fails(e, d) ==
  /\ e.state = "IDLE" /\ e.rx = "cbw"
  /\ e.tx.kind = "csw" /\ e.tx.csw.status = "FAILED"
  /\ e.written = d.written /\ SameUnit(e, d)

LEMMA FailsKeeps ==
  ASSUME NEW f \in DevType, NEW d \in DevType, NEW asc \in SenseCodes,
         SameUnit(f, d), f.written = d.written
  PROVE  Fails(MSC_BOT_SendCSW(Bad(f, asc).dev, "FAILED"), d)
<1> DEFINE s == SCSI_SenseCode(f, asc)
           e == MSC_BOT_SendCSW(s, "FAILED")
<1>1. s \in DevType /\ SameUnit(s, f) /\ SameTransfer(s, f)
  BY SenseCodeType, SenseCodeKeeps
<1> HIDE DEF s
<1>2. /\ e.state = "IDLE" /\ e.rx = "cbw" /\ e.tx = StatusSent(s, "FAILED")
      /\ SameUnit(e, s) /\ SameTransfer(e, s)
  BY <1>1, SendCSWKeeps
<1> HIDE DEF e
<1>3. Fails(e, d)
  BY <1>1, <1>2 DEF Fails, SameUnit, SameTransfer, StatusSent
<1> QED
  BY <1>3 DEF e, s, Bad

LEMMA DataInMoves ==
  ASSUME NEW d \in DevType, NEW ok \in BOOLEAN, NEW c \in CBWType,
         NEW m \in 0 .. c.nblk, At(d, c, m), d.state = "DATA_IN",
         c.op = "READ10"
  PROVE  LET e == MSC_BOT_DataIn(d, ok)
         IN  \/ Fails(e, d)
             \/ /\ \E n \in 0 .. m : InFlight(e, c, m - n, n)
                /\ e.rx = d.rx /\ e.written = d.written /\ SameUnit(e, d)
<1> DEFINE f == [d EXCEPT !.data_length = MediaPacket]
           r == SCSI_ProcessRead(f, ok)
           e == MSC_BOT_DataIn(d, ok)
<1>1. MediaPacket \in Nat
  BY ConstantsAssumption DEF MediaPacket
<1>2. /\ f \in DevType /\ SameUnit(f, d) /\ f.rx = d.rx /\ f.state = "DATA_IN"
      /\ f.written = d.written /\ At(f, c, m)
  BY <1>1 DEF DevType, SameUnit, At
<1>3. SCSI_ProcessCmd(d, ok) = r
  BY DEF SCSI_ProcessCmd, SCSI_Read10, At
<1> HIDE DEF f
<1>4. \/ r = Bad(f, "UNRECOVERED_READ_ERROR")
      \/ /\ r.ret = 0
         /\ \E n \in 0 .. m : InFlight(r.dev, c, m - n, n)
         /\ r.dev.rx = f.rx /\ r.dev.written = f.written
         /\ SameUnit(r.dev, f)
  BY <1>2, ProcessReadMoves
<1> HIDE DEF r
<1>5. e = IF r.ret < 0 THEN MSC_BOT_SendCSW(r.dev, "FAILED") ELSE r.dev
  BY <1>3 DEF MSC_BOT_DataIn, ContinueOrFail
<1> HIDE DEF e
<1>6. CASE r = Bad(f, "UNRECOVERED_READ_ERROR")
  <2>1. e = MSC_BOT_SendCSW(Bad(f, "UNRECOVERED_READ_ERROR").dev, "FAILED")
    BY <1>5, <1>6 DEF Bad
  <2>2. Fails(e, d)
    BY <1>2, <2>1, FailsKeeps DEF SenseCodes
  <2> QED
    BY <2>2 DEF e
<1>7. CASE /\ r.ret = 0
           /\ \E n \in 0 .. m : InFlight(r.dev, c, m - n, n)
           /\ r.dev.rx = f.rx /\ r.dev.written = f.written
           /\ SameUnit(r.dev, f)
  <2>1. e = r.dev
    BY <1>5, <1>7
  <2>2. e.rx = d.rx /\ e.written = d.written /\ SameUnit(e, d)
    BY <1>2, <1>7, <2>1 DEF SameUnit
  <2> QED
    BY <1>7, <2>1, <2>2 DEF e
<1> QED
  BY <1>4, <1>6, <1>7

LEMMA DataOutMoves ==
  ASSUME NEW d \in DevType, NEW ok \in BOOLEAN, NEW c \in CBWType,
         NEW m \in 0 .. c.nblk, At(d, c, m), Holds(d, c, m),
         d.state = "DATA_OUT", c.op = "WRITE10",
         d.written = WrittenTo(c, c.nblk - m)
  PROVE  LET e == MSC_BOT_DataOut(d, ok)
             k == Min2(m, Slots)
         IN  \/ Fails(e, d)
             \/ /\ k # 0 => c.lba + c.nblk - (m - k) <= Capacity[c.lun]
                /\ e.written = WrittenTo(c, c.nblk - (m - k))
                /\ SameUnit(e, d)
                /\ \/ m = k /\ e.state = "IDLE" /\ e.rx = "cbw"
                      /\ e.tx = StatusSent(e, "PASSED")
                      /\ e.csw.residue = 0 /\ e.csw.tag = c.tag
                   \/ m # k /\ Awaits(e, c, m - k) /\ e.tx = d.tx
<1> DEFINE r == SCSI_ProcessWrite(d, ok)
           e == MSC_BOT_DataOut(d, ok)
           k == Min2(m, Slots)
           done == /\ k # 0 => c.lba + c.nblk - (m - k) <= Capacity[c.lun]
                   /\ r.dev.written = WrittenTo(c, c.nblk - (m - k))
                   /\ SameUnit(r.dev, d)
                   /\ \/ m = k /\ r.dev.state = "IDLE" /\ r.dev.rx = "cbw"
                         /\ r.dev.tx = StatusSent(r.dev, "PASSED")
                         /\ r.dev.csw.residue = 0 /\ r.dev.csw.tag = c.tag
                      \/ m # k /\ Awaits(r.dev, c, m - k) /\ r.dev.tx = d.tx
<1>1. SCSI_ProcessCmd(d, ok) = r
  BY DEF SCSI_ProcessCmd, SCSI_Write10, At
<1>2. r = Bad(d, "WRITE_FAULT") \/ (r.ret = 0 /\ done)
  BY ProcessWriteMoves
<1> HIDE DEF r
<1>3. e = IF r.ret < 0 THEN MSC_BOT_SendCSW(r.dev, "FAILED") ELSE r.dev
  BY <1>1 DEF MSC_BOT_DataOut, ContinueOrFail
<1> HIDE DEF e
<1>4. CASE r = Bad(d, "WRITE_FAULT")
  <2>1. e = MSC_BOT_SendCSW(Bad(d, "WRITE_FAULT").dev, "FAILED")
    BY <1>3, <1>4 DEF Bad
  <2>2. SameUnit(d, d)
    BY DEF SameUnit
  <2>3. Fails(e, d)
    BY <2>1, <2>2, FailsKeeps DEF SenseCodes
  <2> QED
    BY <2>3 DEF e
<1>5. CASE r.ret = 0 /\ done
  <2>1. e = r.dev
    BY <1>3, <1>5
  <2> QED
    BY <1>5, <2>1 DEF e
<1> QED
  BY <1>2, <1>4, <1>5

LEMMA ResetKeeps ==
  ASSUME NEW d \in DevType
  PROVE  LET e == MSC_BOT_Reset(d)
         IN  /\ e.state = "IDLE" /\ e.rx = "cbw" /\ e.tx = d.tx
             /\ e.written = d.written
             /\ e.halt_in = d.halt_in /\ e.halt_out = d.halt_out
             /\ e.blk_size = d.blk_size /\ e.blk_nbr = d.blk_nbr
BY DEF MSC_BOT_Reset, USBD_LL_PrepareReceive, DevType

LEMMA InitKeeps ==
  ASSUME NEW d \in DevType
  PROVE  LET e == MSC_BOT_Init(d)
         IN  /\ e.state = "IDLE" /\ e.rx = "cbw" /\ e.tx = NoXfer
             /\ e.written = d.written
             /\ e.halt_in = d.halt_in /\ e.halt_out = d.halt_out
             /\ e.blk_size = d.blk_size /\ e.blk_nbr = d.blk_nbr
BY DEF MSC_BOT_Init, USBD_LL_FlushEP, USBD_LL_PrepareReceive, DevType

LEMMA OverCBWKeeps ==
  ASSUME NEW d \in DevType
  PROVE  LET e == [OverCBW(d) EXCEPT !.rx = "none"]
         IN  /\ e.state = d.state /\ e.rx = "none" /\ e.tx = d.tx
             /\ ~e.cbw.ok /\ e.written = d.written
             /\ e.halt_in = d.halt_in /\ e.halt_out = d.halt_out
             /\ e.blk_size = d.blk_size /\ e.blk_nbr = d.blk_nbr
<1> DEFINE o == OverCBW(d)
<1>1. /\ o \in DevType /\ o.state = d.state /\ o.tx = d.tx /\ ~o.cbw.ok
  BY OverCBWType
<1>2. /\ o.written = d.written /\ o.halt_in = d.halt_in
      /\ o.halt_out = d.halt_out /\ o.blk_size = d.blk_size
      /\ o.blk_nbr = d.blk_nbr
  BY DEF OverCBW, DevType
<1> HIDE DEF o
<1>3. LET e == [o EXCEPT !.rx = "none"]
      IN  /\ e.state = o.state /\ e.rx = "none" /\ e.tx = o.tx
          /\ e.cbw = o.cbw /\ e.written = o.written
          /\ e.halt_in = o.halt_in /\ e.halt_out = o.halt_out
          /\ e.blk_size = o.blk_size /\ e.blk_nbr = o.blk_nbr
  BY <1>1 DEF DevType
<1> QED
  BY <1>1, <1>2, <1>3 DEF o

\* Clearing a halt: the transfer stands where it stood, unless the status of
\* a refused command is sent for it.
Stands(e, d) ==
  /\ e.state = d.state /\ e.rx = d.rx /\ e.rx_len = d.rx_len
  /\ e.cbw = d.cbw /\ e.csw = d.csw /\ e.data = d.data
  /\ e.blk_addr = d.blk_addr /\ e.blk_len = d.blk_len

LEMMA ClearFeatureKeeps ==
  ASSUME NEW d \in DevType, NEW ep \in {"in", "out"}
  PROVE  LET e == ClearFeature(d, ep)
         IN  /\ e.written = d.written
             /\ e.blk_size = d.blk_size /\ e.blk_nbr = d.blk_nbr
             /\ ep = "out" => /\ Stands(e, d) /\ e.tx = d.tx /\ ~e.halt_out
                              /\ d.halt_in => e.halt_in
             /\ ep = "in" => /\ e.halt_out = d.halt_out
                             /\ \/ Stands(e, d) /\ e.tx = NoXfer
                                \/ Fails(e, [d EXCEPT !.halt_in = FALSE])
             /\ d.status = "RECOVERY" =>
                  /\ Stands(e, d)
                  /\ e.halt_in <=> ep = "out" /\ d.halt_in
<1> DEFINE c == IF ep = "in" THEN [d EXCEPT !.halt_in = FALSE]
                ELSE [d EXCEPT !.halt_out = FALSE]
           f == USBD_LL_FlushEP(c, ep)
           h == [f EXCEPT !.halt_in = TRUE, !.status = "NORMAL"]
           b == MSC_BOT_SendCSW(f, "FAILED")
           e == ClearFeature(d, ep)
<1>1. /\ c \in DevType /\ Stands(c, d) /\ c.tx = d.tx /\ c.written = d.written
      /\ c.blk_size = d.blk_size /\ c.blk_nbr = d.blk_nbr /\ c.status = d.status
      /\ ep = "in" => /\ ~c.halt_in /\ c.halt_out = d.halt_out
                      /\ c = [d EXCEPT !.halt_in = FALSE]
      /\ ep = "out" => c.halt_in = d.halt_in /\ ~c.halt_out
  BY DEF DevType, Stands
<1> HIDE DEF c
<1>2. /\ f \in DevType /\ Stands(f, c) /\ f.written = c.written
      /\ f.tx = (IF ep = "in" THEN NoXfer ELSE c.tx) /\ SameUnit(f, c)
  <2>1. f \in DevType
    BY <1>1, FlushEPType
  <2> QED
    BY <1>1, <2>1 DEF USBD_LL_FlushEP, DevType, Stands, SameUnit
<1> HIDE DEF f
<1>3. /\ Stands(h, f) /\ h.written = f.written /\ h.tx = f.tx /\ h.halt_in
      /\ h.halt_out = f.halt_out
      /\ h.blk_size = f.blk_size /\ h.blk_nbr = f.blk_nbr
  BY <1>2 DEF DevType, Stands
<1>4. /\ b.state = "IDLE" /\ b.rx = "cbw" /\ b.tx = StatusSent(f, "FAILED")
      /\ SameUnit(b, f) /\ SameTransfer(b, f)
  BY <1>2, SendCSWKeeps
<1> HIDE DEF h, b
<1>5. e = CASE f.status = "ERROR" -> h
            [] f.status # "ERROR" /\ ep = "in" /\ f.status # "RECOVERY" -> b
            [] OTHER -> f
  BY DEF ClearFeature, MSC_BOT_CplClrFeature, f, c, h, b
<1> HIDE DEF e
<1>6. CASE f.status = "ERROR"
  <2>1. e = h /\ d.status # "RECOVERY"
    BY <1>1, <1>2, <1>5, <1>6 DEF SameUnit
  <2>2. Stands(e, d)
    BY <1>1, <1>2, <1>3, <2>1 DEF Stands
  <2> QED
    BY <1>1, <1>2, <1>3, <2>1, <2>2 DEF e, SameUnit
<1>7. CASE f.status # "ERROR" /\ ep = "in" /\ f.status # "RECOVERY"
  <2>1. e = b /\ d.status # "RECOVERY"
    BY <1>1, <1>2, <1>5, <1>7 DEF SameUnit
  <2>2. Fails(e, c)
    BY <1>2, <1>4, <2>1 DEF Fails, SameUnit, SameTransfer, StatusSent
  <2>3. /\ e.written = d.written /\ e.blk_size = d.blk_size
        /\ e.blk_nbr = d.blk_nbr /\ e.halt_out = d.halt_out
    BY <1>1, <1>7, <2>2 DEF Fails, SameUnit
  <2> QED
    BY <1>1, <1>7, <2>1, <2>2, <2>3 DEF e
<1>8. CASE f.status # "ERROR" /\ ~(ep = "in" /\ f.status # "RECOVERY")
  <2>1. e = f
    BY <1>5, <1>8
  <2>2. Stands(e, d)
    BY <1>1, <1>2, <2>1 DEF Stands
  <2> QED
    BY <1>1, <1>2, <1>8, <2>1, <2>2 DEF e, SameUnit
<1> QED
  BY <1>6, <1>7, <1>8
=============================================================================
