--------------------------- MODULE ExFlashProofs ---------------------------
(***************************************************************************)
(* Proofs about ExFlash, for every page, sector, chip and write size: the  *)
(* nested loops of the driver program every byte of a write once, at its   *)
(* own address, and never let the chip wrap inside a page.                 *)
(***************************************************************************)
EXTENDS ExFlash, TLAPS

-----------------------------------------------------------------------------
(* Remainders.                                                             *)

LEMMA ModRange ==
  ASSUME NEW a \in Int, NEW p \in Nat \ {0}
  PROVE  a % p \in 0 .. p - 1
OBVIOUS

LEMMA DivMod ==
  ASSUME NEW a \in Int, NEW p \in Nat \ {0}
  PROVE  a \div p \in Int /\ a = p * (a \div p) + (a % p)
OBVIOUS

\* The remainder is the one number below p that differs from a by a multiple.
LEMMA ModUnique ==
  ASSUME NEW p \in Nat \ {0}, NEW q \in Int, NEW r \in 0 .. p - 1
  PROVE  (p * q + r) % p = r
OBVIOUS

\* Inside a page the remainder moves with the address ...
LEMMA ModStep ==
  ASSUME NEW a \in Nat, NEW i \in Nat, NEW p \in Nat \ {0}, (a % p) + i < p
  PROVE  (a + i) % p = (a % p) + i
<1> DEFINE q == a \div p
           r == (a % p) + i
<1>1. q \in Int /\ a = p * q + (a % p) /\ a % p \in 0 .. p - 1
  BY DivMod, ModRange
<1>2. r \in 0 .. p - 1
  BY <1>1
<1>3. a + i = p * q + r
  BY <1>1
<1> HIDE DEF q, r
<1>4. (p * q + r) % p = r
  BY <1>1, <1>2, ModUnique
<1> QED
  BY <1>3, <1>4 DEF r

\* ... and at its end the next page begins.
LEMMA ModNext ==
  ASSUME NEW a \in Nat, NEW i \in Nat, NEW p \in Nat \ {0}, (a % p) + i = p
  PROVE  (a + i) % p = 0
<1> DEFINE q == a \div p
<1>1. q \in Int /\ a = p * q + (a % p)
  BY DivMod
<1>2. a + i = p * (q + 1) + 0
  <2>1. a + i = p * q + p
    BY <1>1
  <2> HIDE DEF q
  <2>2. p * q + p = p * (q + 1)
    BY <1>1
  <2>3. p * (q + 1) \in Int
    BY <1>1
  <2> QED
    BY <2>1, <2>2, <2>3
<1> HIDE DEF q
<1>3. (p * (q + 1) + 0) % p = 0
  <2>1. q + 1 \in Int /\ 0 \in 0 .. p - 1
    BY <1>1
  <2> QED
    BY <2>1, ModUnique
<1> QED
  BY <1>2, <1>3

-----------------------------------------------------------------------------
(* The inductive invariant.                                                *)

\* The loops: where the write is, and why the next page program stays inside
\* its page.  Only the first program of a sector can start inside a page.
Loops(w) ==
  /\ w.NByte >= 1 /\ w.Dst >= w.SndbufPt /\ w.Dst + w.NByte - 1 <= MaxAddr
  /\ w.secremain \in 1 .. w.NByte
  /\ w.WriteAddr >= w.Dst
  /\ w.WriteAddr - w.pBuffer = w.Dst - w.SndbufPt
  /\ w.WriteAddr + w.NumByteToWrite = w.Dst + w.secremain
  /\ w.pageremain \in 1 .. w.NumByteToWrite
  /\ (w.WriteAddr % PageSize) + w.pageremain <= PageSize
  /\ w.pageremain # w.NumByteToWrite =>
       (w.WriteAddr % PageSize) + w.pageremain = PageSize

\* The chip is busy only with the page the call waits for.
ChipServes ==
  /\ chip.busy => call.pc = "wait"
  /\ ~chip.busy => chip = Ready
  /\ chip.busy => chip.at = call.WriteAddr /\ chip.len = call.pageremain
                  /\ chip.from = call.pBuffer

Inv ==
  /\ TypeOK
  /\ ~Writing => call = Returned
  /\ Writing => Loops(call) /\ calls \in Calls
  /\ Writing => last.op = "none"
  /\ ChipServes
  /\ PrefixWritten
  /\ WrittenWhole

LEMMA InvInit == Init => Inv
<1> SUFFICES ASSUME Init PROVE Inv
  OBVIOUS
<1>1. call = Returned /\ chip = Ready /\ last = [op |-> "none"] /\ calls = 0
      /\ cells = [a \in Addresses |-> {}] /\ before = [a \in Addresses |-> {}]
  BY DEF Init
<1>2. call \in CallType /\ chip \in ChipType /\ last \in ResultType
      /\ call.pc = "returned" /\ ~chip.busy /\ last.op = "none"
  BY <1>1 DEF Returned, Ready, CallType, ChipType, ResultType
<1>3. calls \in 0 .. MaxCalls
  BY <1>1, FlashAssumption
<1> QED
  BY <1>1, <1>2, <1>3 DEF Inv, TypeOK, Writing, ChipServes, PrefixWritten,
                          WrittenWhole

-----------------------------------------------------------------------------
(* The loops.                                                              *)

\* The fields of a call.
LEMMA CallFields ==
  ASSUME NEW w \in CallType
  PROVE  /\ w.Dst \in Nat /\ w.NByte \in Nat /\ w.secremain \in Nat
         /\ w.SndbufPt \in Nat /\ w.WriteAddr \in Nat
         /\ w.NumByteToWrite \in Nat /\ w.pageremain \in Nat
         /\ w.pBuffer \in Nat /\ w.pc \in {"returned", "program", "wait"}
BY DEF CallType

LEMMA PageSizeType == PageSize \in Nat \ {0}
BY FlashAssumption

\* The first page of a sector ends at the end of its page at the latest.
LEMMA NoCheckLoops ==
  ASSUME NEW w \in CallType, NEW len \in Nat \ {0},
         w.NByte >= 1, w.Dst >= w.SndbufPt, w.Dst + w.NByte - 1 <= MaxAddr,
         w.secremain = len, len <= w.NByte
  PROVE  LET e == SPI_Flash_Write_NoCheck(w.Dst, len, w.SndbufPt, w)
         IN  /\ e \in CallType /\ e.pc = "program" /\ Loops(e)
             /\ e.Dst = w.Dst /\ e.NByte = w.NByte
             /\ e.SndbufPt = w.SndbufPt /\ e.pBuffer = w.SndbufPt
<1> DEFINE m == w.Dst % PageSize
           r == Min2(len, PageSize - m)
           e == SPI_Flash_Write_NoCheck(w.Dst, len, w.SndbufPt, w)
<1>1. PageSize \in Nat \ {0} /\ m \in 0 .. PageSize - 1
  <2>1. PageSize \in Nat \ {0} /\ w.Dst \in Int
    BY FlashAssumption, CallFields
  <2> QED
    BY <2>1, ModRange
<1>2. r \in Nat /\ r \in 1 .. len /\ m + r <= PageSize
      /\ (r # len => m + r = PageSize)
  BY <1>1 DEF Min2
<1> HIDE DEF r, m
<1>3. e = [w EXCEPT !.pc = "program", !.WriteAddr = w.Dst,
                    !.NumByteToWrite = len, !.pBuffer = w.SndbufPt,
                    !.pageremain = r]
  BY DEF SPI_Flash_Write_NoCheck, r, m
<1> HIDE DEF e
<1>4. /\ e.Dst = w.Dst /\ e.NByte = w.NByte /\ e.secremain = len
      /\ e.SndbufPt = w.SndbufPt /\ e.pBuffer = w.SndbufPt
      /\ e.WriteAddr = w.Dst /\ e.NumByteToWrite = len /\ e.pageremain = r
      /\ e.pc = "program" /\ e \in CallType
  BY <1>2, <1>3 DEF CallType
<1>5. w.Dst \in Nat /\ w.SndbufPt \in Nat /\ w.NByte \in Nat
  BY CallFields
<1>6. Loops(e)
  BY <1>2, <1>4, <1>5 DEF Loops, m
<1> QED
  BY <1>4, <1>6 DEF e

\* After a page that was not the last one the next one starts a page.
LEMMA NextPageLoops ==
  ASSUME NEW w \in CallType, Loops(w), w.NumByteToWrite # w.pageremain
  PROVE  LET e == NextPage(w)
         IN  /\ e \in CallType /\ e.pc = "program" /\ Loops(e)
             /\ e.Dst = w.Dst /\ e.NByte = w.NByte /\ e.SndbufPt = w.SndbufPt
             /\ e.pBuffer = w.pBuffer + w.pageremain
<1> DEFINE left == w.NumByteToWrite - w.pageremain
           r    == Min2(left, PageSize)
           a    == w.WriteAddr + w.pageremain
           b    == w.pBuffer + w.pageremain
           e    == NextPage(w)
<1>1. /\ w.Dst \in Nat /\ w.NByte \in Nat /\ w.SndbufPt \in Nat
      /\ w.secremain \in Nat /\ w.WriteAddr \in Nat /\ w.pBuffer \in Nat
      /\ w.NumByteToWrite \in Nat /\ w.pageremain \in Nat
  BY CallFields
<1>2. PageSize \in Nat \ {0}
  BY FlashAssumption
<1>3. left \in Nat \ {0} /\ left < w.NumByteToWrite
  BY <1>1 DEF Loops
<1>4. r \in Nat /\ r \in 1 .. left /\ r <= PageSize /\ (r # left => r = PageSize)
  BY <1>2, <1>3 DEF Min2
<1>5. a % PageSize = 0 /\ a \in Nat /\ b \in Nat
  <2>1. (w.WriteAddr % PageSize) + w.pageremain = PageSize
    BY DEF Loops
  <2>2. (w.WriteAddr + w.pageremain) % PageSize = 0
    BY ONLY <1>1, <1>2, <2>1, ModNext
  <2> QED
    BY <1>1, <2>2
<1>6. a + left = w.Dst + w.secremain /\ a - b = w.Dst - w.SndbufPt
      /\ a >= w.Dst
  BY <1>1 DEF Loops
<1> HIDE DEF r, a, b, left
<1>7. e = [w EXCEPT !.pc = "program", !.pBuffer = b, !.WriteAddr = a,
                    !.NumByteToWrite = left, !.pageremain = r]
  BY DEF NextPage, CallType, r, a, b, left
<1> HIDE DEF e
<1>8. /\ e.Dst = w.Dst /\ e.NByte = w.NByte /\ e.secremain = w.secremain
      /\ e.SndbufPt = w.SndbufPt /\ e.pBuffer = b
      /\ e.WriteAddr = a /\ e.NumByteToWrite = left /\ e.pageremain = r
      /\ e.pc = "program" /\ e \in CallType
  BY <1>3, <1>4, <1>5, <1>7 DEF CallType
<1>9. Loops(e)
  BY <1>1, <1>2, <1>4, <1>5, <1>6, <1>8 DEF Loops
<1> QED
  BY <1>8, <1>9 DEF e, b

LEMMA NextSectorLoops ==
  ASSUME NEW w \in CallType, Loops(w), w.NumByteToWrite = w.pageremain,
         w.NByte # w.secremain
  PROVE  LET e == NextSector(w)
         IN  /\ e \in CallType /\ e.pc = "program" /\ Loops(e)
             /\ e.Dst - e.SndbufPt = w.Dst - w.SndbufPt
             /\ e.SndbufPt + e.NByte = w.SndbufPt + w.NByte
             /\ e.pBuffer = w.pBuffer + w.pageremain
<1> DEFINE to   == w.Dst + w.secremain
           p    == w.SndbufPt + w.secremain
           left == w.NByte - w.secremain
           r    == Min2(left, SectorSize)
           v    == [w EXCEPT !.Dst = to, !.SndbufPt = p, !.NByte = left,
                             !.secremain = r]
           e    == SPI_Flash_Write_NoCheck(v.Dst, r, v.SndbufPt, v)
<1>1. /\ w.Dst \in Nat /\ w.NByte \in Nat /\ w.SndbufPt \in Nat
      /\ w.secremain \in Nat /\ w.WriteAddr \in Nat /\ w.pBuffer \in Nat
      /\ w.NumByteToWrite \in Nat /\ w.pageremain \in Nat
  BY CallFields
<1>2. SectorSize \in Nat \ {0}
  BY FlashAssumption DEF SectorSize
<1>3. left \in Nat \ {0} /\ to \in Nat /\ p \in Nat /\ to >= p
      /\ to + left - 1 <= MaxAddr
  BY <1>1 DEF Loops
<1>4. r \in Nat \ {0} /\ r <= left
  BY <1>2, <1>3 DEF Min2
<1>5. /\ p = w.pBuffer + w.pageremain /\ to - p = w.Dst - w.SndbufPt
      /\ p + left = w.SndbufPt + w.NByte
  BY <1>1 DEF Loops
<1> HIDE DEF to, p, left, r
<1>6. v \in CallType /\ v.Dst = to /\ v.SndbufPt = p /\ v.NByte = left
      /\ v.secremain = r
  BY <1>3, <1>4 DEF CallType
<1> HIDE DEF v
<1>7. /\ e \in CallType /\ e.pc = "program" /\ Loops(e)
      /\ e.Dst = to /\ e.NByte = left /\ e.SndbufPt = p /\ e.pBuffer = p
  BY <1>3, <1>4, <1>6, NoCheckLoops
<1>8. NextSector(w) = e
  BY <1>6 DEF NextSector, v, to, p, left, r
<1> QED
  BY <1>5, <1>7, <1>8

-----------------------------------------------------------------------------
(* The chip.                                                               *)

\* Some bytes of the page in progress burnt: each lands at its own address.
LEMMA BurntCells ==
  ASSUME Inv, chip.busy, NEW S \in SUBSET (0 .. chip.len - 1)
  PROVE  /\ Burnt(chip, S) \in [Addresses -> SUBSET Bytes]
         /\ \A a \in Addresses :
              Burnt(chip, S)[a] =
                cells[a] \cup (IF a - Start - call.pBuffer \in S
                              THEN {<<calls, a - Start>>} ELSE {})
<1> DEFINE w == call
<1>0. PageSize \in Nat \ {0}
  BY PageSizeType
<1>1. /\ w \in CallType /\ w.pc = "wait" /\ Loops(w) /\ calls \in Calls
      /\ chip.at = w.WriteAddr /\ chip.len = w.pageremain
      /\ chip.from = w.pBuffer /\ cells \in [Addresses -> SUBSET Bytes]
  BY DEF Inv, TypeOK, ChipServes, Writing
<1>2. /\ w.Dst \in Nat /\ w.SndbufPt \in Nat /\ w.WriteAddr \in Nat
      /\ w.pBuffer \in Nat /\ w.pageremain \in Nat
      /\ w.WriteAddr - w.pBuffer = Start
      /\ (w.WriteAddr % PageSize) + w.pageremain <= PageSize
  BY <1>1, CallFields DEF Loops, Start
<1>3. w.WriteAddr % PageSize \in 0 .. PageSize - 1
  <2>1. w.WriteAddr \in Int
    BY <1>2
  <2> QED
    BY <1>0, <2>1, ModRange
<1>4. ASSUME NEW j \in S
      PROVE  /\ j \in 0 .. w.pageremain - 1 /\ j \in Nat
             /\ PageAddress(chip, j) = w.WriteAddr + j
             /\ chip.from + j = w.WriteAddr + j - Start
  <2>1. j \in 0 .. w.pageremain - 1 /\ j \in Nat
    BY <1>1, <1>2
  <2>2. (w.WriteAddr % PageSize) + j < PageSize
    BY <1>2, <1>3, <1>0, <2>1
  <2>3. (w.WriteAddr + j) % PageSize = (w.WriteAddr % PageSize) + j
    BY ONLY <1>2, <1>0, <2>1, <2>2, ModStep
  <2>4. PageAddress(chip, j) = w.WriteAddr + j
    BY <1>1, <1>2, <1>3, <1>0, <2>1, <2>3 DEF PageAddress
  <2> QED
    BY <1>1, <1>2, <2>1, <2>4
<1>5. ASSUME NEW a \in Addresses
      PROVE  /\ Burnt(chip, S)[a] =
                  cells[a] \cup (IF a - Start - w.pBuffer \in S
                                THEN {<<calls, a - Start>>} ELSE {})
             /\ Burnt(chip, S)[a] \in SUBSET Bytes
  <2> DEFINE J == {j \in S : PageAddress(chip, j) = a}
             B == {<<calls, chip.from + i>> : i \in J}
             t == a - Start - w.pBuffer
  <2>1. a \in Int /\ Start \in Int /\ t = a - w.WriteAddr
    BY <1>2, FlashAssumption DEF Addresses
  <2>2. Burnt(chip, S)[a] = cells[a] \cup B
    BY DEF Burnt
  <2>3. \A j \in J : j = t /\ chip.from + j = a - Start /\ chip.from + j \in Nat
    BY <1>1, <1>2, <1>4, <2>1
  <2>4. t \in S => t \in J
    BY <1>2, <1>4, <2>1
  <2>5. J = IF t \in S THEN {t} ELSE {}
    BY <2>3, <2>4
  <2> HIDE DEF J, t
  <2>6. B = IF t \in S THEN {<<calls, a - Start>>} ELSE {}
    <3>1. CASE t \in S
      <4>1. J = {t} /\ chip.from + t = a - Start
        BY <2>3, <2>5, <3>1
      <4> QED
        BY <3>1, <4>1
    <3>2. CASE t \notin S
      BY <2>5, <3>2
    <3> QED
      BY <3>1, <3>2
  <2>7. B \subseteq Bytes
    BY <1>1, <2>3 DEF Bytes
  <2>8. cells[a] \in SUBSET Bytes
    BY <1>1
  <2> HIDE DEF B
  <2> QED
    BY <2>2, <2>6, <2>7, <2>8 DEF t
<1>6. Burnt(chip, S) \in [Addresses -> SUBSET Bytes]
  <2>1. Burnt(chip, S) = [a \in Addresses |-> Burnt(chip, S)[a]]
    BY DEF Burnt
  <2>2. \A a \in Addresses : Burnt(chip, S)[a] \in SUBSET Bytes
    BY <1>5
  <2> QED
    BY <2>1, <2>2
<1> QED
  BY <1>5, <1>6

\* The page in progress is the next part of the write's range.
LEMMA PageInRange ==
  ASSUME NEW w \in CallType, Loops(w)
  PROVE  /\ w.Dst - w.SndbufPt \in Nat /\ w.pBuffer >= 0
         /\ w.pBuffer + w.pageremain <= w.SndbufPt + w.NByte
         /\ w.NumByteToWrite = w.pageremain =>
              w.pBuffer + w.pageremain = w.SndbufPt + w.secremain
BY CallFields DEF Loops

LEMMA WithAt ==
  ASSUME NEW b, NEW d, NEW k, NEW a \in Addresses
  PROVE  With(b, d, k)[a]
           = b[a] \cup (IF a - d \in 0 .. k - 1 THEN {<<calls, a - d>>} ELSE {})
BY DEF With

\* A whole page burnt extends what is done by that page.
LEMMA WholePage ==
  ASSUME Inv, chip.busy
  PROVE  Burnt(chip, 0 .. chip.len - 1)
           = With(before, Start, call.pBuffer + call.pageremain)
<1> DEFINE S == 0 .. chip.len - 1
           n == call.pBuffer
           m == call.pageremain
<1>1. /\ call \in CallType /\ Loops(call) /\ Writing /\ call.pc = "wait"
      /\ chip.len = m /\ cells = With(before, Start, n)
  BY DEF Inv, TypeOK, ChipServes, Writing, PrefixWritten, Done
<1>2. n \in Nat /\ m \in Nat /\ Start \in Nat
  BY <1>1, CallFields, PageInRange DEF Start
<1>3. /\ Burnt(chip, S) \in [Addresses -> SUBSET Bytes]
      /\ \A a \in Addresses :
           Burnt(chip, S)[a] = cells[a] \cup
             (IF a - Start - n \in S THEN {<<calls, a - Start>>} ELSE {})
  BY BurntCells
<1> HIDE DEF n, m
<1>4. ASSUME NEW a \in Addresses
      PROVE  Burnt(chip, S)[a] = With(before, Start, n + m)[a]
  <2> DEFINE all  == a - Start \in 0 .. (n + m) - 1
             done == a - Start \in 0 .. n - 1
             page == a - Start - n \in S
  <2>1. a \in Int
    BY FlashAssumption DEF Addresses
  <2>2. all <=> done \/ page
    BY <1>1, <1>2, <2>1
  <2>3. With(before, Start, n + m)[a]
          = before[a] \cup (IF all THEN {<<calls, a - Start>>} ELSE {})
    BY ONLY a \in Addresses, WithAt
  <2>4. cells[a]
          = before[a] \cup (IF done THEN {<<calls, a - Start>>} ELSE {})
    BY <1>1, WithAt
  <2>5. Burnt(chip, S)[a]
          = cells[a] \cup (IF page THEN {<<calls, a - Start>>} ELSE {})
    BY <1>3
  <2> HIDE DEF all, done, page, S
  <2> QED
    BY <2>2, <2>3, <2>4, <2>5
<1>5. With(before, Start, n + m) =
        [a \in Addresses |-> With(before, Start, n + m)[a]]
  BY DEF With
<1>6. Burnt(chip, S) = [a \in Addresses |-> Burnt(chip, S)[a]]
  BY <1>3
<1> HIDE DEF S
<1>7. Burnt(chip, S) = With(before, Start, n + m)
  BY <1>4, <1>5, <1>6
<1> QED
  BY <1>7 DEF S, n, m

-----------------------------------------------------------------------------
(* Every step keeps the invariant.                                         *)

LEMMA WriteBegins ==
  ASSUME Inv, NEW Dst \in Nat, NEW NByte \in Nat, SPI_Flash_Write(Dst, NByte)
  PROVE  Inv'
<1> DEFINE remain == Min2(NByte, SectorSize - (Dst % SectorSize))
           w == [Returned EXCEPT !.Dst = Dst, !.NByte = NByte,
                                 !.secremain = remain]
           e == SPI_Flash_Write_NoCheck(w.Dst, remain, w.SndbufPt, w)
<1>1. /\ ~Writing /\ call = Returned /\ chip = Ready /\ ~chip.busy
      /\ cells \in [Addresses -> SUBSET Bytes] /\ chip \in ChipType
      /\ call \in CallType /\ calls \in 0 .. MaxCalls /\ calls < MaxCalls
  BY DEF Inv, TypeOK, ChipServes, Writing, SPI_Flash_Write
<1>2. /\ calls' = calls + 1 /\ before' = cells /\ cells' = cells
      /\ chip' = chip
  BY DEF SPI_Flash_Write
<1>3. calls' \in 0 .. MaxCalls /\ calls' \in Calls
  BY <1>1, <1>2, FlashAssumption DEF Calls
<1>4. CASE Refused(Dst, NByte)
  <2>1. /\ last' = [op |-> "write", at |-> Dst, len |-> NByte, ok |-> FALSE]
        /\ call' = call
    BY <1>4 DEF SPI_Flash_Write
  <2>2. last' \in ResultType /\ ~last'.ok
    BY <2>1 DEF ResultType
  <2>3. ~Writing'
    BY <1>1, <2>1 DEF Writing
  <2> QED
    BY <1>1, <1>2, <1>3, <2>1, <2>2, <2>3
       DEF Inv, TypeOK, ChipServes, PrefixWritten, WrittenWhole
<1>5. CASE ~Refused(Dst, NByte)
  <2>1. NByte >= 1 /\ Dst + NByte - 1 <= MaxAddr
    BY <1>5, FlashAssumption DEF Refused
  <2>2. remain \in Nat \ {0} /\ remain <= NByte
    <3>1. SectorSize \in Nat \ {0}
      BY FlashAssumption DEF SectorSize
    <3>2. Dst % SectorSize \in 0 .. SectorSize - 1
      BY <3>1, ModRange
    <3> QED
      BY <2>1, <3>1, <3>2 DEF Min2
  <2>3. last' = [op |-> "none"]
        /\ call' = SPI_Flash_Write_NoCheck(Dst, remain, 0, w)
    BY <1>5 DEF SPI_Flash_Write
  <2> HIDE DEF remain
  <2>4. /\ w \in CallType /\ w.Dst = Dst /\ w.NByte = NByte
        /\ w.secremain = remain /\ w.SndbufPt = 0
    BY <2>2 DEF Returned, CallType
  <2> HIDE DEF w
  <2>5. /\ e \in CallType /\ e.pc = "program" /\ Loops(e)
        /\ e.Dst = Dst /\ e.SndbufPt = 0 /\ e.pBuffer = 0
    BY <2>1, <2>2, <2>4, NoCheckLoops
  <2>6. call' = e
    BY <2>3, <2>4
  <2> HIDE DEF e
  <2>7. last' \in ResultType /\ last'.op = "none"
    BY <2>3 DEF ResultType
  <2>8. PrefixWritten'
    <3>1. Start' = Dst /\ Done' = 0
      BY <2>5, <2>6 DEF Start, Done
    <3>2. cells' = before' /\ before' \in [Addresses -> SUBSET Bytes]
      BY <1>1, <1>2
    <3>3. \A a \in Addresses : a - Dst \notin 0 .. 0 - 1
      BY FlashAssumption DEF Addresses
    <3>4. With(before, Start, Done)' = before'
      BY <3>1, <3>2, <3>3 DEF With
    <3> QED
      BY <3>2, <3>4 DEF PrefixWritten
  <2>9. TypeOK'
    BY <1>1, <1>2, <1>3, <2>5, <2>6, <2>7 DEF TypeOK
  <2>10. Writing' /\ Loops(call)' /\ ChipServes' /\ WrittenWhole'
    BY <1>1, <1>2, <2>5, <2>6, <2>7
       DEF Writing, Loops, ChipServes, WrittenWhole
  <2> QED
    BY <1>3, <2>7, <2>8, <2>9, <2>10 DEF Inv
<1> QED
  BY <1>4, <1>5

LEMMA WritePageInv == ASSUME Inv, WritePage PROVE Inv'
<1>1. /\ call \in CallType /\ call.pc = "program" /\ Writing /\ Loops(call)
      /\ chip = Ready /\ cells = With(before, Start, call.pBuffer)
  BY DEF Inv, TypeOK, ChipServes, Writing, PrefixWritten, Done, WritePage
<1>2. chip' = [busy |-> TRUE, wel |-> FALSE, at |-> call.WriteAddr,
               len |-> call.pageremain, from |-> call.pBuffer]
  BY <1>1 DEF WritePage, PageProgram, SPI_FLASH_Write_Enable, Ready
<1>3. call' = [call EXCEPT !.pc = "wait"]
      /\ UNCHANGED <<cells, calls, last, before>>
  BY DEF WritePage
<1>4. /\ call' \in CallType /\ call'.pc = "wait" /\ Loops(call')
      /\ call'.WriteAddr = call.WriteAddr /\ call'.pageremain = call.pageremain
      /\ call'.pBuffer = call.pBuffer /\ call'.Dst = call.Dst
      /\ call'.SndbufPt = call.SndbufPt
  BY <1>1, <1>3 DEF CallType, Loops
<1>5. chip' \in ChipType
  BY <1>1, <1>2, CallFields DEF ChipType
<1>6. PrefixWritten'
  <2>1. Start' = Start /\ Done' = call.pBuffer
    BY <1>2, <1>4 DEF Start, Done
  <2> QED
    BY <1>1, <1>3, <2>1 DEF PrefixWritten, With
<1>7. ChipServes'
  BY <1>2, <1>4 DEF ChipServes
<1> QED
  BY <1>1, <1>3, <1>4, <1>5, <1>6, <1>7
     DEF Inv, TypeOK, Writing, WrittenWhole, Loops

\* The type, with what the loops and the chip say of a call that goes on.
LEMMA GoesOn ==
  ASSUME Inv, call.pc = "wait", ~chip.busy, NEW e \in CallType,
         e.pc = "program", Loops(e),
         e.Dst - e.SndbufPt = call.Dst - call.SndbufPt,
         e.pBuffer = call.pBuffer + call.pageremain,
         call' = e, UNCHANGED <<last, cells, chip, calls, before>>
  PROVE  Inv'
<1>1. /\ call \in CallType /\ Writing /\ last.op = "none" /\ calls \in Calls
      /\ cells = With(before, Start, call.pBuffer + call.pageremain)
      /\ chip = Ready
  BY DEF Inv, TypeOK, ChipServes, Writing, PrefixWritten, Done
<1>2. PrefixWritten'
  <2>1. Start' = Start /\ Done' = call.pBuffer + call.pageremain
    BY DEF Start, Done
  <2> QED
    BY <1>1, <2>1 DEF PrefixWritten, With
<1>3. TypeOK'
  BY DEF Inv, TypeOK
<1>4. Writing' /\ Loops(call)' /\ ChipServes' /\ WrittenWhole'
  BY <1>1 DEF Writing, Loops, ChipServes, WrittenWhole
<1> QED
  BY <1>1, <1>2, <1>3, <1>4 DEF Inv

LEMMA WaitBusyInv == ASSUME Inv, WaitBusy PROVE Inv'
<1>1. /\ call \in CallType /\ call.pc = "wait" /\ ~chip.busy /\ Writing
      /\ Loops(call) /\ calls \in Calls /\ chip = Ready
      /\ cells = With(before, Start, call.pBuffer + call.pageremain)
  BY DEF Inv, TypeOK, ChipServes, Writing, PrefixWritten, Done, WaitBusy
<1>2. UNCHANGED <<cells, chip, calls, before>>
  BY DEF WaitBusy
<1>3. CASE /\ call.NumByteToWrite # call.pageremain
           /\ call' = NextPage(call)
           /\ UNCHANGED last
  <2> DEFINE e == NextPage(call)
  <2>1. /\ e \in CallType /\ e.pc = "program" /\ Loops(e)
        /\ e.Dst = call.Dst /\ e.SndbufPt = call.SndbufPt
        /\ e.pBuffer = call.pBuffer + call.pageremain
    BY <1>1, <1>3, NextPageLoops
  <2>2. call' = e
    BY <1>3
  <2> HIDE DEF e
  <2> QED
    BY <1>1, <1>2, <1>3, <2>1, <2>2, GoesOn
<1>4. CASE /\ call.NumByteToWrite = call.pageremain
           /\ call.NByte # call.secremain
           /\ call' = NextSector(call)
           /\ UNCHANGED last
  <2> DEFINE e == NextSector(call)
  <2>1. /\ e \in CallType /\ e.pc = "program" /\ Loops(e)
        /\ e.Dst - e.SndbufPt = call.Dst - call.SndbufPt
        /\ e.pBuffer = call.pBuffer + call.pageremain
    BY <1>1, <1>4, NextSectorLoops
  <2>2. call' = e
    BY <1>4
  <2> HIDE DEF e
  <2> QED
    BY <1>1, <1>2, <1>4, <2>1, <2>2, GoesOn
<1>5. CASE /\ call.NumByteToWrite = call.pageremain
           /\ call.NByte = call.secremain
           /\ call' = Returned
           /\ last' = [op |-> "write", at |-> call.Dst - call.SndbufPt,
                       len |-> call.SndbufPt + call.secremain, ok |-> TRUE]
  <2>1. /\ call.Dst - call.SndbufPt \in Nat
        /\ call.SndbufPt + call.secremain \in Nat
        /\ call.pBuffer + call.pageremain = call.SndbufPt + call.secremain
    BY <1>1, <1>5, CallFields, PageInRange
  <2>2. last' \in ResultType /\ last'.at = Start
        /\ last'.len = call.pBuffer + call.pageremain
    BY <1>5, <2>1 DEF ResultType, Start
  <2>3. WrittenWhole'
    <3>1. cells' = With(before, Start, call.pBuffer + call.pageremain)
      BY <1>1, <1>2
    <3>2. With(before, last.at, last.len)'
            = With(before, Start, call.pBuffer + call.pageremain)
      BY <1>2, <2>2 DEF With
    <3> QED
      BY <3>1, <3>2 DEF WrittenWhole
  <2>4. call' = Returned /\ call' \in CallType /\ ~Writing'
    BY <1>5 DEF Returned, CallType, Writing
  <2>5. TypeOK'
    BY <1>2, <2>2, <2>4 DEF Inv, TypeOK
  <2>6. ChipServes' /\ PrefixWritten'
    BY <1>1, <1>2, <2>4 DEF ChipServes, PrefixWritten
  <2> QED
    BY <2>3, <2>4, <2>5, <2>6 DEF Inv
<1> QED
  BY <1>3, <1>4, <1>5 DEF WaitBusy

LEMMA ReadyType == Ready \in ChipType /\ ~Ready.busy
BY DEF Ready, ChipType

LEMMA ChipProgramInv == ASSUME Inv, ChipProgram PROVE Inv'
<1> DEFINE S == 0 .. chip.len - 1
<1>1. /\ chip.busy /\ call \in CallType /\ call.pc = "wait" /\ Writing
      /\ Loops(call) /\ last.op = "none"
  BY DEF Inv, TypeOK, ChipServes, Writing, ChipProgram
<1>2. /\ cells' = Burnt(chip, S) /\ chip' = Ready
      /\ UNCHANGED <<call, calls, last, before>>
  BY DEF ChipProgram
<1>3. cells' \in [Addresses -> SUBSET Bytes]
  BY <1>1, <1>2, BurntCells
<1>4. cells' = With(before, Start, call.pBuffer + call.pageremain)
  BY <1>1, <1>2, WholePage
<1>5. PrefixWritten'
  <2>1. Start' = Start /\ Done' = call.pBuffer + call.pageremain
    BY <1>1, <1>2, ReadyType DEF Start, Done
  <2> QED
    BY <1>2, <1>4, <2>1 DEF PrefixWritten, With
<1>6. TypeOK' /\ ChipServes' /\ WrittenWhole'
  <2> HIDE DEF S
  <2>1. TypeOK'
    BY <1>2, <1>3, ReadyType DEF Inv, TypeOK
  <2>2. ChipServes'
    BY <1>2, ReadyType DEF ChipServes
  <2> QED
    BY <1>1, <1>2, <2>1, <2>2 DEF WrittenWhole
<1>7. Writing' /\ Loops(call)' /\ calls' \in Calls /\ last'.op = "none"
  BY <1>1, <1>2 DEF Inv, Writing, Loops
<1> QED
  BY <1>5, <1>6, <1>7 DEF Inv

\* Nothing is burnt when the chip had nothing to do.
LEMMA BurntNothing ==
  ASSUME Inv, ~chip.busy, NEW S \in SUBSET (0 .. chip.len - 1)
  PROVE  Burnt(chip, S) = cells
<1>1. chip.len = 0 /\ cells \in [Addresses -> SUBSET Bytes]
  BY DEF Inv, TypeOK, ChipServes, Ready
<1>2. S = {}
  BY <1>1
<1>3. \A a \in Addresses : Burnt(chip, S)[a] = cells[a]
  BY <1>2 DEF Burnt
<1>4. Burnt(chip, S) = [a \in Addresses |-> Burnt(chip, S)[a]]
  BY DEF Burnt
<1> QED
  BY <1>1, <1>3, <1>4

LEMMA PowerLossInv == ASSUME Inv, PowerLoss PROVE Inv'
<1>1. PICK S \in SUBSET (0 .. chip.len - 1) : cells' = Burnt(chip, S)
  BY DEF PowerLoss
<1>2. chip' = Ready /\ call' = Returned /\ last' = [op |-> "none"]
      /\ UNCHANGED <<calls, before>>
  BY DEF PowerLoss
<1>3. cells' \in [Addresses -> SUBSET Bytes]
  <2>1. CASE chip.busy
    BY <1>1, <2>1, BurntCells
  <2>2. CASE ~chip.busy
    BY <1>1, <2>2, BurntNothing DEF Inv, TypeOK
  <2> QED
    BY <2>1, <2>2
<1>4. call' \in CallType /\ ~Writing' /\ last' \in ResultType
      /\ last'.op = "none"
  BY <1>2 DEF Returned, CallType, Writing, ResultType
<1>5. TypeOK'
  BY <1>2, <1>3, <1>4, ReadyType DEF Inv, TypeOK
<1> QED
  BY <1>2, <1>4, <1>5, ReadyType
     DEF Inv, ChipServes, PrefixWritten, WrittenWhole

LEMMA ReadInv ==
  ASSUME Inv, NEW sector \in Nat, NEW count \in Nat, EXFLASH_read(sector, count)
  PROVE  Inv'
<1> DEFINE at == sector * BlockSize
           len == count * BlockSize
<1>1. at \in Nat /\ len \in Nat
  BY FlashAssumption
<1>2. /\ ~Writing /\ UNCHANGED <<cells, chip, call, calls, before>>
      /\ last' = [op |-> "read", at |-> at, len |-> len,
                  ok |-> InRange(at, len)]
  BY DEF EXFLASH_read, Writing
<1>3. last' \in ResultType /\ last'.op = "read"
  BY <1>1, <1>2 DEF ResultType, InRange
<1>4. ~Writing' /\ WrittenWhole'
  BY <1>2, <1>3 DEF Writing, WrittenWhole
<1> QED
  BY <1>2, <1>3, <1>4 DEF Inv, TypeOK, ChipServes, PrefixWritten

LEMMA StutterInv == ASSUME Inv, UNCHANGED vars PROVE Inv'
<1>1. Writing' = Writing /\ Start' = Start /\ Done' = Done /\ cells' = cells
      /\ before' = before /\ calls' = calls
  BY DEF vars, Writing, Start, Done
<1>2. PrefixWritten' /\ WrittenWhole'
  BY <1>1 DEF vars, Inv, PrefixWritten, WrittenWhole, With
<1> QED
  BY <1>1, <1>2 DEF vars, Inv, TypeOK, ChipServes, Loops

LEMMA InvNext == ASSUME Inv, [Next]_vars PROVE Inv'
<1>1. ASSUME NEW Dst \in Addresses, NEW NByte \in 0 .. MaxBytes,
             SPI_Flash_Write(Dst, NByte)
      PROVE  Inv'
  <2>1. Dst \in Nat /\ NByte \in Nat
    BY FlashAssumption DEF Addresses
  <2> QED
    BY <1>1, <2>1, WriteBegins
<1>2. ASSUME NEW sector \in 0 .. BlockNum - 1, NEW count \in 1 .. BlockNum,
             EXFLASH_write(sector, count)
      PROVE  Inv'
  <2>1. sector * BlockSize \in Nat /\ count * BlockSize \in Nat
    BY FlashAssumption
  <2> QED
    BY <1>2, <2>1, WriteBegins DEF EXFLASH_write
<1>3. ASSUME NEW sector \in 0 .. BlockNum - 1, NEW count \in 1 .. BlockNum,
             EXFLASH_read(sector, count)
      PROVE  Inv'
  <2>1. sector \in Nat /\ count \in Nat
    BY FlashAssumption
  <2> QED
    BY <1>3, <2>1, ReadInv
<1> QED
  BY <1>1, <1>2, <1>3, WritePageInv, WaitBusyInv, ChipProgramInv, PowerLossInv,
     StutterInv DEF Next, Driver

-----------------------------------------------------------------------------
(* The theorems.                                                           *)

THEOREM InvAlways == Spec => []Inv
BY InvInit, InvNext, PTL DEF Spec

\* No count of the three loops of SPI_Flash_Write, SPI_Flash_Write_NoCheck and
\* SPI_Flash_Write_Page ever goes below zero.
THEOREM TypeCorrect == Spec => []TypeOK
<1>1. Inv => TypeOK
  BY DEF Inv
<1> QED
  BY <1>1, InvAlways, PTL

\* SPI_Flash_Write has at any moment programmed a prefix of its buffer, each
\* byte at its address, however its range falls on sectors and pages.
THEOREM PrefixAlways == Spec => []PrefixWritten
<1>1. Inv => PrefixWritten
  BY DEF Inv
<1> QED
  BY <1>1, InvAlways, PTL

\* A SPI_Flash_Write that returns 1 has programmed its range and nothing else.
THEOREM WholeAlways == Spec => []WrittenWhole
<1>1. Inv => WrittenWhole
  BY DEF Inv
<1> QED
  BY <1>1, InvAlways, PTL

\* SPI_Flash_Write_Page never runs over the end of a page of the chip.
THEOREM NeverWraps == Spec => []NoWrap
<1>1. Inv => NoWrap
  BY DEF Inv, NoWrap, ChipServes, Writing, Loops
<1> QED
  BY <1>1, InvAlways, PTL

\* The memory changes only inside the range of the write in progress, by the
\* byte that belongs there, also when the power fails in a page program.
THEOREM OwnBytesAlways == Spec => OwnBytesOnly
<1> DEFINE Own == \A a \in Addresses :
                    cells'[a] # cells[a] =>
                      /\ Writing
                      /\ a - Start \in 0 .. Total - 1
                      /\ cells'[a] = cells[a] \cup {<<calls, a - Start>>}
<1>1. ASSUME Inv, chip.busy, NEW S \in SUBSET (0 .. chip.len - 1),
             cells' = Burnt(chip, S)
      PROVE  Own
  <2>1. call \in CallType /\ Loops(call) /\ Writing /\ chip.len = call.pageremain
    BY <1>1 DEF Inv, TypeOK, ChipServes, Writing
  <2>2. /\ Start \in Nat /\ call.pBuffer \in Nat /\ call.pageremain \in Nat
        /\ Total \in Nat /\ call.pBuffer + call.pageremain <= Total
    BY <2>1, CallFields, PageInRange DEF Start, Total
  <2>3. ASSUME NEW a \in Addresses, cells'[a] # cells[a]
        PROVE  /\ a - Start \in 0 .. Total - 1
               /\ cells'[a] = cells[a] \cup {<<calls, a - Start>>}
    <3>1. cells'[a] = cells[a] \cup (IF a - Start - call.pBuffer \in S
                                    THEN {<<calls, a - Start>>} ELSE {})
      BY <1>1, BurntCells
    <3>2. a - Start - call.pBuffer \in S
      BY <2>3, <3>1
    <3>3. a - Start - call.pBuffer \in 0 .. call.pageremain - 1
      BY <2>1, <3>2
    <3>4. a \in Int
      BY FlashAssumption DEF Addresses
    <3> QED
      BY <2>2, <3>1, <3>2, <3>3, <3>4
  <2> QED
    BY <2>1, <2>3
<1>2. ASSUME cells' = cells PROVE Own
  BY <1>2
<1>3. ASSUME Inv, [Next]_vars PROVE Own
  <2>1. CASE ChipProgram
    BY <1>1, <1>3, <2>1 DEF ChipProgram
  <2>2. CASE PowerLoss
    <3>1. PICK S \in SUBSET (0 .. chip.len - 1) : cells' = Burnt(chip, S)
      BY <2>2 DEF PowerLoss
    <3>2. CASE chip.busy
      BY <1>1, <1>3, <3>1, <3>2
    <3>3. CASE ~chip.busy
      BY <1>2, <1>3, <3>1, <3>3, BurntNothing
    <3> QED
      BY <3>2, <3>3
  <2>3. CASE ~ChipProgram /\ ~PowerLoss
    <3>1. cells' = cells
      BY <1>3, <2>3 DEF Next, Driver, WritePage, WaitBusy, EXFLASH_read,
                        EXFLASH_write, SPI_Flash_Write, vars
    <3> QED
      BY <1>2, <3>1
  <2> QED
    BY <2>1, <2>2, <2>3
<1> QED
  BY <1>3, InvAlways, PTL DEF Spec, OwnBytesOnly
=============================================================================
