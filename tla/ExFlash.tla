------------------------------ MODULE ExFlash ------------------------------
(***************************************************************************)
(* The serial flash behind logical unit 1: the driver that splits a write  *)
(* into sectors and pages (dataflash.c), the FatFs-style disk calls above  *)
(* it (exflash_diskio.c) and the W25X16 chip below it.                     *)
(*                                                                         *)
(* A step of the driver ends where it talks to the chip: it issues one     *)
(* page program, or finds the chip no longer busy and works out the next.  *)
(* The power may fail at any moment, with a page half programmed.          *)
(*                                                                         *)
(* The chip can only clear bits, so a cell holds the AND of every byte     *)
(* programmed into it since it was erased.  It is known here by the set    *)
(* of these bytes, and a byte by the call and the place in its buffer that *)
(* it comes from: the empty set is an erased cell, a singleton reads back  *)
(* as its byte, and anything else reads as neither of the bytes in it.     *)
(***************************************************************************)
EXTENDS Integers

CONSTANTS
  PageSize,        \* bytes the chip programs at once: 256
  PagesPerSector,  \* 16: a sector is 4096 bytes
  MaxAddr,         \* MAX_ADDR, the last address of the chip
  BlockSize,       \* W25X16_BLOCK_SIZE
  BlockNum,        \* W25X16_BLOCK_NUM, the blocks reported to the host
  MaxBytes,        \* the longest write
  MaxCalls         \* bound: write calls in a behaviour

SectorSize == PageSize * PagesPerSector
Addresses == 0 .. MaxAddr
Calls == 1 .. MaxCalls
Bytes == Calls \X Nat

ASSUME FlashAssumption ==
  /\ PageSize \in Nat \ {0}
  /\ PagesPerSector \in Nat \ {0}
  /\ MaxAddr \in Nat
  /\ (MaxAddr + 1) % PageSize = 0
  /\ BlockSize \in Nat \ {0}
  /\ BlockNum \in Nat
  /\ MaxBytes \in Nat
  /\ MaxCalls \in Nat

VARIABLES
  cells,  \* the memory array
  chip,   \* the page program the chip is busy with
  call,   \* the write in progress: the locals of the three nested loops
  calls,  \* writes begun
  last,   \* what the last call returned
  before  \* history: the memory when the write began

vars == <<cells, chip, call, calls, last, before>>

Min2(a, b) == IF a < b THEN a ELSE b

-----------------------------------------------------------------------------
(* The chip.                                                               *)

Ready == [busy |-> FALSE, wel |-> FALSE, at |-> 0, len |-> 0, from |-> 0]

\* Write enable, and a page program of len bytes from place from of the
\* buffer on.  The chip ignores both while busy, and a program without WEL.
SPI_FLASH_Write_Enable(c) == IF c.busy THEN c ELSE [c EXCEPT !.wel = TRUE]

PageProgram(c, at, len, from) ==
  IF c.busy \/ ~c.wel THEN c
  ELSE [busy |-> TRUE, wel |-> FALSE, at |-> at, len |-> len, from |-> from]

\* The address counter of a page program wraps inside the page.
PageAddress(c, i) ==
  c.at - (c.at % PageSize) + ((c.at + i) % PageSize)

\* The memory when the bytes of the program with their places in S are burnt.
Burnt(c, S) ==
  [a \in Addresses |->
     cells[a] \cup {<<calls, c.from + i>> : i \in
                      {j \in S : PageAddress(c, j) = a}}]

-----------------------------------------------------------------------------
(* The driver.                                                             *)

Returned == [pc |-> "returned", Dst |-> 0, NByte |-> 0, secremain |-> 0,
             SndbufPt |-> 0, WriteAddr |-> 0, NumByteToWrite |-> 0,
             pageremain |-> 0, pBuffer |-> 0]

\* Mutant: a page is as long as what is left of the sector.
NoCheck_WholeSector(addr, len, from, w) ==
  [w EXCEPT !.pc = "program", !.WriteAddr = addr, !.NumByteToWrite = len,
            !.pBuffer = from, !.pageremain = len]

\* SPI_Flash_Write_NoCheck up to its first page.
SPI_Flash_Write_NoCheck(addr, len, from, w) ==
  [w EXCEPT !.pc = "program", !.WriteAddr = addr, !.NumByteToWrite = len,
            !.pBuffer = from,
            !.pageremain = Min2(len, PageSize - (addr % PageSize))]

Refused(Dst, NByte) == NByte = 0 \/ Dst + NByte - 1 > MaxAddr

\* SPI_Flash_Write: the checks, and up to the first page of the first sector.
SPI_Flash_Write(Dst, NByte) ==
  LET remain == Min2(NByte, SectorSize - (Dst % SectorSize))
      w == [Returned EXCEPT !.Dst = Dst, !.NByte = NByte, !.secremain = remain]
  IN  /\ call.pc = "returned"
      /\ calls < MaxCalls
      /\ calls' = calls + 1
      /\ before' = cells
      /\ IF Refused(Dst, NByte)
         THEN last' = [op |-> "write", at |-> Dst, len |-> NByte, ok |-> FALSE]
              /\ call' = call
         ELSE last' = [op |-> "none"]
              /\ call' = SPI_Flash_Write_NoCheck(Dst, remain, 0, w)
      /\ UNCHANGED <<cells, chip>>

\* SPI_Flash_Write_Page up to its wait.
WritePage ==
  /\ call.pc = "program"
  /\ chip' = PageProgram(SPI_FLASH_Write_Enable(chip), call.WriteAddr,
                         call.pageremain, call.pBuffer)
  /\ call' = [call EXCEPT !.pc = "wait"]
  /\ UNCHANGED <<cells, calls, last, before>>

\* Mutants: the buffer is not moved on to the next page; nothing is.
NextPage_SameBuffer(w) ==
  LET left == w.NumByteToWrite - w.pageremain
  IN  [w EXCEPT !.pc = "program", !.WriteAddr = @ + w.pageremain,
                !.NumByteToWrite = left, !.pageremain = Min2(left, PageSize)]
NextPage_Stuck(w) == [w EXCEPT !.pc = "program"]

NextPage(w) ==
  LET left == w.NumByteToWrite - w.pageremain
  IN  [w EXCEPT !.pc = "program", !.pBuffer = @ + w.pageremain,
                !.WriteAddr = @ + w.pageremain, !.NumByteToWrite = left,
                !.pageremain = Min2(left, PageSize)]

\* Mutant: a whole sector is counted, however little of it was written.
NextSector_CountsWhole(w) ==
  LET to   == w.Dst + w.secremain
      p    == w.SndbufPt + w.secremain
      left == w.NByte - SectorSize
      r    == Min2(left, SectorSize)
  IN  SPI_Flash_Write_NoCheck(to, r, p,
        [w EXCEPT !.Dst = to, !.SndbufPt = p, !.NByte = left, !.secremain = r])

NextSector(w) ==
  LET to   == w.Dst + w.secremain
      p    == w.SndbufPt + w.secremain
      left == w.NByte - w.secremain
      r    == Min2(left, SectorSize)
  IN  SPI_Flash_Write_NoCheck(to, r, p,
        [w EXCEPT !.Dst = to, !.SndbufPt = p, !.NByte = left, !.secremain = r])

\* SPI_Flash_Wait_Busy returns; the loops work out the next page, or return.
WaitBusy ==
  /\ call.pc = "wait"
  /\ ~chip.busy
  /\ \/ /\ call.NumByteToWrite # call.pageremain
        /\ call' = NextPage(call)
        /\ UNCHANGED last
     \/ /\ call.NumByteToWrite = call.pageremain
        /\ call.NByte # call.secremain
        /\ call' = NextSector(call)
        /\ UNCHANGED last
     \/ /\ call.NumByteToWrite = call.pageremain
        /\ call.NByte = call.secremain
        /\ call' = Returned
        /\ last' = [op |-> "write", at |-> call.Dst - call.SndbufPt,
                    len |-> call.SndbufPt + call.secremain, ok |-> TRUE]
  /\ UNCHANGED <<cells, chip, calls, before>>

ChipProgram ==
  /\ chip.busy
  /\ cells' = Burnt(chip, 0 .. chip.len - 1)
  /\ chip' = Ready
  /\ UNCHANGED <<call, calls, last, before>>

InRange(Dst, NByte) == NByte # 0 /\ Dst + NByte <= MaxAddr

\* EXFLASH_read and the SPI_Flash_Read below it.
EXFLASH_read(sector, count) ==
  LET Dst == sector * BlockSize
      len == count * BlockSize
  IN  /\ call.pc = "returned"
      /\ last' = [op |-> "read", at |-> Dst, len |-> len,
                  ok |-> InRange(Dst, len)]
      /\ UNCHANGED <<cells, chip, call, calls, before>>

\* EXFLASH_write: whole blocks.
EXFLASH_write(sector, count) ==
  SPI_Flash_Write(sector * BlockSize, count * BlockSize)

\* The power fails: of a page program any part is done, and the call is gone.
PowerLoss ==
  /\ call.pc # "returned"
  /\ \E S \in SUBSET (0 .. chip.len - 1) : cells' = Burnt(chip, S)
  /\ chip' = Ready
  /\ call' = Returned
  /\ last' = [op |-> "none"]
  /\ UNCHANGED <<calls, before>>

Init ==
  /\ cells = [a \in Addresses |-> {}]
  /\ chip = Ready
  /\ call = Returned
  /\ calls = 0
  /\ last = [op |-> "none"]
  /\ before = [a \in Addresses |-> {}]

Driver == WritePage \/ WaitBusy

Next ==
  \/ \E Dst \in Addresses, NByte \in 0 .. MaxBytes : SPI_Flash_Write(Dst, NByte)
  \/ \E sector \in 0 .. BlockNum - 1, count \in 1 .. BlockNum :
       EXFLASH_write(sector, count) \/ EXFLASH_read(sector, count)
  \/ Driver
  \/ ChipProgram
  \/ PowerLoss

Spec == Init /\ [][Next]_vars

\* The chip finishes what it has begun and the processor runs.
Fairness == WF_vars(Driver) /\ WF_vars(ChipProgram)

FairSpec == Spec /\ Fairness

-----------------------------------------------------------------------------
(* Properties.                                                             *)

CallType ==
  [pc : {"returned", "program", "wait"}, Dst : Nat, NByte : Nat,
   secremain : Nat, SndbufPt : Nat, WriteAddr : Nat, NumByteToWrite : Nat,
   pageremain : Nat, pBuffer : Nat]

ChipType == [busy : BOOLEAN, wel : BOOLEAN, at : Nat, len : Nat, from : Nat]

ResultType == [op : {"none"}]
                \cup [op : {"write", "read"}, at : Nat, len : Nat, ok : BOOLEAN]

\* Every variable keeps its type: no count of the three loops goes below zero.
TypeOK ==
  /\ cells \in [Addresses -> SUBSET Bytes]
  /\ before \in [Addresses -> SUBSET Bytes]
  /\ chip \in ChipType
  /\ call \in CallType
  /\ calls \in 0 .. MaxCalls
  /\ last \in ResultType

Writing == call.pc # "returned"

\* The range of the write in progress, and the bytes it has done.
Start == call.Dst - call.SndbufPt
Total == call.SndbufPt + call.NByte
Done == IF call.pc = "wait" /\ ~chip.busy THEN call.pBuffer + call.pageremain
                                          ELSE call.pBuffer

\* The memory b with the first n bytes of the current call written from d on.
With(b, d, n) ==
  [a \in Addresses |->
     b[a] \cup (IF a - d \in 0 .. n - 1 THEN {<<calls, a - d>>} ELSE {})]

\* A write in progress has done, of all the memory, exactly the first bytes of
\* its buffer, each at its own address, however the range falls on sectors
\* and pages.
PrefixWritten == Writing => cells = With(before, Start, Done)

\* A write that returns 1 has programmed its whole range and nothing else.
WrittenWhole ==
  last.op = "write" /\ last.ok => cells = With(before, last.at, last.len)

\* No page program runs over the end of its page, where the chip would wrap
\* to the beginning of it.
NoWrap == chip.busy => (chip.at % PageSize) + chip.len <= PageSize

\* The memory only ever changes inside the range of the write in progress, by
\* the byte that belongs there, also when the power fails.
OwnBytesOnly ==
  [][\A a \in Addresses :
       cells'[a] # cells[a] =>
         /\ Writing
         /\ a - Start \in 0 .. Total - 1
         /\ cells'[a] = cells[a] \cup {<<calls, a - Start>>}]_vars

\* A write call returns: the loops end and the chip does not stay busy.
WriteReturns == Writing ~> ~Writing

\* A write that returns 1 can be read back (dataflash.c: "returns OK when the
\* operation succeeds").
ReadsBack ==
  last.op = "write" /\ last.ok =>
    \A i \in 0 .. last.len - 1 : cells[last.at + i] = {<<calls, i>>}
=============================================================================
