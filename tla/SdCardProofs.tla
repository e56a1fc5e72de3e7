---------------------------- MODULE SdCardProofs ----------------------------
(***************************************************************************)
(* SdCard is type correct, every wait of a call goes by the answer to its  *)
(* own command, and a call that returns SD_OK has moved its blocks: for    *)
(* every card, every length of a call and every number of faults.          *)
(***************************************************************************)
EXTENDS SdCard, TLAPS

-----------------------------------------------------------------------------
(* The invariant.                                                          *)

\* What the lengths of the data path rest on.
Lengths ==
  /\ pc # "idle" => call.n >= 1
  /\ dpsm.way # "off" => dpsm.left >= 1

TypeInv == TypeOK /\ Lengths

NoAnswer == sta \cap Answers = {}

\* The first k blocks of the call have been moved, and nothing else.
InOrder(k) ==
  /\ Len(moved) = k
  /\ \A i \in 1 .. k : moved[i] = call.first + i - 1

\* The command c is on the line, or it is answered and the answer is its own.
OneAnswer(c) ==
  \/ wire = <<c>> /\ NoAnswer
  \/ wire = << >> /\ \E a \in Answers :
       sta \cap Answers = {a} /\ (a = "CTIMEOUT" \/ resp.cmd = c)

Reading == call.op = "read"
Single  == Reading /\ ~Multi

AtIdle ==
  /\ wire = << >> /\ NoAnswer
  /\ ok /\ call.n > 0 => InOrder(call.n)

\* A card that accepts the block length is ready for a transfer.
AtBlockLen ==
  /\ OneAnswer(SET_BLOCKLEN) /\ Len(moved) = 0
  /\ wire = << >> /\ Judged(SET_BLOCKLEN) => card.state = "tran"

AtCommand ==
  /\ OneAnswer(TransferCommand) /\ Len(moved) = 0 /\ ~Single
  /\ wire # << >> => card.state = "tran"
  /\ wire = << >> /\ Judged(TransferCommand) =>
       card.state = (IF Reading THEN "data" ELSE "rcv") /\ card.next = call.first
  /\ Reading => dpsm.way = "in" /\ dpsm.left = call.n

\* The card and the data path are at the same block.  The command of a single
\* read may still be on the line; then nothing has happened yet.
InStep ==
  /\ dpsm.way = (IF Reading THEN "in" ELSE "out")
  /\ dpsm.left + Len(moved) = call.n
  /\ InOrder(Len(moved))
  /\ wire = << >> /\ card.state \in {"data", "rcv"} =>
       card.next = call.first + Len(moved)

AtData ==
  /\ \/ wire = << >> /\ (Single \/ NoAnswer)
     \/ /\ Single /\ wire = <<READ_SINGLE>> /\ sta = {} /\ Len(moved) = 0
        /\ card.state = "tran"
  /\ sta \cap Ends = {} => InStep
  /\ sta \cap Ends # {} => dpsm.way = "off"
  /\ "DATAEND" \in sta => InOrder(call.n)

AtStop        == OneAnswer(STOP_TRANSMISSION) /\ InOrder(call.n)
AtProgramming == OneAnswer(SEND_STATUS) /\ InOrder(call.n)

AnswerInv ==
  ~unread =>
    /\ pc = "idle"        => AtIdle
    /\ pc = "blocklen"    => AtBlockLen
    /\ pc = "command"     => AtCommand
    /\ pc = "data"        => AtData
    /\ pc = "stop"        => AtStop
    /\ pc = "programming" => AtProgramming

-----------------------------------------------------------------------------
(* Types.                                                                  *)

CardType == [state : CardStates, next : Nat, open : BOOLEAN, lost : BOOLEAN]
RespType == [cmd : Commands \cup {0}, err : BOOLEAN, state : CardStates]
DpsmType == [way : {"off", "in", "out"}, left : 0 .. MaxCount]

LEMMA TransferIsCommand ==
  ASSUME TypeOK
  PROVE  TransferCommand \in Transfers /\ TransferCommand \in Commands
<1>1. call.op \in {"read", "write"} /\ Multi \in BOOLEAN
  BY DEF TypeOK, Multi
<1> QED
  BY <1>1 DEF TransferCommand, Commands, Transfers

LEMMA WireTyped ==
  ASSUME TypeOK, NEW c \in Commands, SDIO_SendCommand(c)
  PROVE  wire' \in Seq(Commands)
<1>1. wire \in Seq(Commands) /\ <<c>> \in Seq(Commands)
  BY DEF TypeOK
<1>2. Append(wire, c) \in Seq(Commands)
  BY <1>1
<1> QED
  BY <1>1, <1>2 DEF SDIO_SendCommand

LEMMA QuietTyped ==
  ASSUME TypeOK, Quiet
  PROVE  wire' \in Seq(Commands)
BY DEF TypeOK, Quiet

LEMMA JudgedFlagsTyped ==
  ASSUME TypeOK, NEW c
  PROVE  JudgedFlags(c) \in SUBSET sta
BY DEF JudgedFlags, TypeOK

LEMMA FlagsDown ==
  ASSUME TypeOK, sta' \in SUBSET sta
  PROVE  sta' \in SUBSET Flags
BY DEF TypeOK

LEMMA DataConfigTyped ==
  ASSUME TypeInv, pc # "idle", NEW way \in {"in", "out"}, SDIO_DataConfig(way)
  PROVE  dpsm' \in DpsmType /\ dpsm'.left >= 1
<1>1. call.n \in 0 .. MaxCount /\ call.n >= 1
  BY DEF TypeInv, TypeOK, Lengths
<1> QED
  BY <1>1, ConstantsAssumption DEF SDIO_DataConfig, DpsmType

LEMMA DpsmKept ==
  ASSUME TypeInv, UNCHANGED dpsm
  PROVE  dpsm' \in DpsmType /\ (dpsm'.way # "off" => dpsm'.left >= 1)
BY DEF TypeInv, TypeOK, Lengths, DpsmType

LEMMA ReturnTyped ==
  ASSUME TypeOK, NEW r \in BOOLEAN, Return(r)
  PROVE  pc' = "idle" /\ ok' \in BOOLEAN /\ unread' \in BOOLEAN
BY DEF Return, TypeOK

LEMMA GoTyped ==
  ASSUME TypeOK, NEW to, Go(to)
  PROVE  pc' = to /\ ok' \in BOOLEAN /\ unread' \in BOOLEAN
BY DEF Go, TypeOK

LEMMA JudgedBoolean ==
  ASSUME TypeOK, NEW c
  PROVE  Judged(c) \in BOOLEAN
BY DEF Judged, TypeOK

\* What every step of the driver inside a call leaves alone.
LEMMA InsideCall ==
  ASSUME TypeInv, UNCHANGED <<call, resp, card, moved, faults>>, pc # "idle",
         pc' \in {"idle", "command", "data", "stop", "programming"},
         ok' \in BOOLEAN, unread' \in BOOLEAN, sta' \in SUBSET Flags,
         wire' \in Seq(Commands), dpsm' \in DpsmType,
         dpsm'.way # "off" => dpsm'.left >= 1
  PROVE  TypeInv'
<1>1. TypeOK'
  BY DEF TypeInv, TypeOK, DpsmType
<1>2. Lengths'
  BY DEF TypeInv, Lengths
<1> QED
  BY <1>1, <1>2 DEF TypeInv

LEMMA FinishTyped ==
  ASSUME TypeOK, NEW flags \in SUBSET sta, NEW r \in BOOLEAN, Finish(flags, r)
  PROVE  /\ sta' \in SUBSET Flags /\ wire' \in Seq(Commands)
         /\ pc' \in {"idle", "programming"}
         /\ ok' \in BOOLEAN /\ unread' \in BOOLEAN
<1>1. sta' \in SUBSET sta
  BY DEF Finish
<1>2. sta' \in SUBSET Flags
  BY <1>1, FlagsDown
<1>3. \/ Return(FALSE) /\ Quiet
      \/ Return(r) /\ Quiet
      \/ Go("programming") /\ SDIO_SendCommand(SEND_STATUS)
  BY DEF Finish
<1>4. SEND_STATUS \in Commands
  BY DEF Commands
<1>5. CASE Return(FALSE) /\ Quiet
  BY <1>2, <1>5, ReturnTyped, QuietTyped
<1>6. CASE Return(r) /\ Quiet
  BY <1>2, <1>6, ReturnTyped, QuietTyped
<1>7. CASE Go("programming") /\ SDIO_SendCommand(SEND_STATUS)
  BY <1>2, <1>4, <1>7, GoTyped, WireTyped
<1> QED
  BY <1>3, <1>5, <1>6, <1>7

LEMMA StartTyped ==
  ASSUME TypeInv, NEW op \in {"read", "write"}, NEW first \in Nat,
         NEW n \in 1 .. MaxCount, Start(op, first, n)
  PROVE  TypeInv'
<1>1. call' \in [op : {"read", "write"}, first : Nat, n : 0 .. MaxCount]
      /\ call'.n >= 1 /\ pc' = "blocklen"
  BY DEF Start
<1>2. dpsm' \in DpsmType /\ dpsm'.way = "off"
  BY DEF Start, TypeInv, TypeOK, DpsmType
<1>3. wire' \in Seq(Commands)
  <2>1. SET_BLOCKLEN \in Commands
    BY DEF Commands
  <2> QED
    BY <2>1, WireTyped DEF Start, TypeInv
<1>4. moved' \in Seq(Nat) /\ unread' \in BOOLEAN
  BY DEF Start, TypeInv, TypeOK
<1>5. TypeOK'
  BY <1>1, <1>2, <1>3, <1>4 DEF TypeInv, TypeOK, DpsmType, Start
<1> QED
  BY <1>1, <1>2, <1>5 DEF TypeInv, Lengths

LEMMA DriverTyped ==
  ASSUME TypeInv, Driver
  PROVE  TypeInv'
<1> USE DEF TypeInv
<1>1. CASE BlockLenDone
  <2>1. sta' \in SUBSET Flags
    BY <1>1, JudgedFlagsTyped, FlagsDown DEF BlockLenDone
  <2>2. pc # "idle" /\ UNCHANGED <<call, resp, card, moved, faults>>
    BY <1>1 DEF BlockLenDone
  <2>3. \/ Return(FALSE) /\ Quiet /\ UNCHANGED dpsm
        \/ /\ SDIO_DataConfig("in") \/ UNCHANGED dpsm
           /\ SDIO_SendCommand(TransferCommand)
           /\ \E to \in {"data", "command"} : Go(to)
    BY <1>1 DEF BlockLenDone
  <2>4. CASE Return(FALSE) /\ Quiet /\ UNCHANGED dpsm
    BY <2>1, <2>2, <2>4, ReturnTyped, QuietTyped, DpsmKept, InsideCall
  <2>5. CASE /\ SDIO_DataConfig("in") \/ UNCHANGED dpsm
             /\ SDIO_SendCommand(TransferCommand)
             /\ \E to \in {"data", "command"} : Go(to)
    <3>1. wire' \in Seq(Commands)
      BY <2>5, WireTyped, TransferIsCommand
    <3>2. dpsm' \in DpsmType /\ (dpsm'.way # "off" => dpsm'.left >= 1)
      BY <2>2, <2>5, DataConfigTyped, DpsmKept
    <3>3. pc' \in {"data", "command"} /\ ok' \in BOOLEAN /\ unread' \in BOOLEAN
      BY <2>5, GoTyped
    <3> QED
      BY <2>1, <2>2, <3>1, <3>2, <3>3, InsideCall
  <2> QED
    BY <2>3, <2>4, <2>5
<1>2. CASE CommandDone
  <2>1. sta' \in SUBSET Flags
    BY <1>2, JudgedFlagsTyped, FlagsDown DEF CommandDone
  <2>2. /\ pc # "idle" /\ UNCHANGED <<call, resp, card, moved, faults>>
        /\ wire' \in Seq(Commands)
    BY <1>2, QuietTyped DEF CommandDone
  <2>3. /\ SDIO_DataConfig("out") \/ UNCHANGED dpsm
        /\ Return(FALSE) \/ Go("data")
    BY <1>2 DEF CommandDone
  <2>4. dpsm' \in DpsmType /\ (dpsm'.way # "off" => dpsm'.left >= 1)
    BY <2>2, <2>3, DataConfigTyped, DpsmKept
  <2>5. pc' \in {"idle", "data"} /\ ok' \in BOOLEAN /\ unread' \in BOOLEAN
    BY <2>3, ReturnTyped, GoTyped
  <2> QED
    BY <2>1, <2>2, <2>4, <2>5, InsideCall
<1>3. CASE DataDone
  <2>1. pc # "idle" /\ UNCHANGED <<call, resp, card, moved, faults, dpsm>>
    BY <1>3 DEF DataDone
  <2>2. dpsm' \in DpsmType /\ (dpsm'.way # "off" => dpsm'.left >= 1)
    BY <2>1, DpsmKept
  <2>3. \/ Go("stop") /\ SDIO_SendCommand(STOP_TRANSMISSION) /\ UNCHANGED sta
        \/ Finish(sta, TRUE)
    BY <1>3 DEF DataDone
  <2>4. CASE Go("stop") /\ SDIO_SendCommand(STOP_TRANSMISSION) /\ UNCHANGED sta
    <3>1. wire' \in Seq(Commands)
      BY <2>4, WireTyped DEF Commands
    <3>2. sta' \in SUBSET Flags
      BY <2>4 DEF TypeOK
    <3> QED
      BY <2>1, <2>2, <2>4, <3>1, <3>2, GoTyped, InsideCall
  <2>5. CASE Finish(sta, TRUE)
    BY <2>1, <2>2, <2>5, FinishTyped, InsideCall
  <2> QED
    BY <2>3, <2>4, <2>5
<1>4. CASE StopDone
  <2>1. pc # "idle" /\ UNCHANGED <<call, resp, card, moved, faults, dpsm>>
    BY <1>4 DEF StopDone
  <2>2. dpsm' \in DpsmType /\ (dpsm'.way # "off" => dpsm'.left >= 1)
    BY <2>1, DpsmKept
  <2>3. Finish(JudgedFlags(STOP_TRANSMISSION), Judged(STOP_TRANSMISSION))
    BY <1>4 DEF StopDone
  <2> QED
    BY <2>1, <2>2, <2>3, FinishTyped, JudgedFlagsTyped, JudgedBoolean, InsideCall
<1>5. CASE Programming
  <2>1. pc # "idle" /\ UNCHANGED <<call, resp, card, moved, faults, dpsm>>
    BY <1>5 DEF Programming
  <2>2. dpsm' \in DpsmType /\ (dpsm'.way # "off" => dpsm'.left >= 1)
    BY <2>1, DpsmKept
  <2>3. sta' \in SUBSET Flags
    BY <1>5, JudgedFlagsTyped, FlagsDown DEF Programming
  <2>4. \/ Go("programming") /\ SDIO_SendCommand(SEND_STATUS)
        \/ Return(Judged(SEND_STATUS)) /\ Quiet
    BY <1>5 DEF Programming
  <2>5. CASE Go("programming") /\ SDIO_SendCommand(SEND_STATUS)
    <3>1. wire' \in Seq(Commands)
      BY <2>5, WireTyped DEF Commands
    <3> QED
      BY <2>1, <2>2, <2>3, <2>5, <3>1, GoTyped, InsideCall
  <2>6. CASE Return(Judged(SEND_STATUS)) /\ Quiet
    BY <2>1, <2>2, <2>3, <2>6, ReturnTyped, QuietTyped, JudgedBoolean, InsideCall
  <2> QED
    BY <2>4, <2>5, <2>6
<1> QED
  BY <1>1, <1>2, <1>3, <1>4, <1>5 DEF Driver

LEMMA TakenTyped ==
  ASSUME TypeOK, NEW c \in Commands
  PROVE  /\ Taken(c) \in CardType
         /\ Taken(c).lost = FALSE
         /\ Taken(c).next = IF c \in Transfers THEN call.first ELSE card.next
         /\ Taken(c).state = CASE c \in {READ_SINGLE, READ_MULTIPLE}   -> "data"
                               [] c \in {WRITE_SINGLE, WRITE_MULTIPLE} -> "rcv"
                               [] c = STOP_TRANSMISSION ->
                                    IF card.state = "rcv" THEN "prg" ELSE "tran"
                               [] OTHER -> card.state
<1> DEFINE s == CASE c \in {READ_SINGLE, READ_MULTIPLE}   -> "data"
                  [] c \in {WRITE_SINGLE, WRITE_MULTIPLE} -> "rcv"
                  [] c = STOP_TRANSMISSION ->
                       IF card.state = "rcv" THEN "prg" ELSE "tran"
                  [] OTHER -> card.state
           n == IF c \in Transfers THEN call.first ELSE card.next
           o == IF c \in Transfers THEN c \in {READ_MULTIPLE, WRITE_MULTIPLE}
                                    ELSE card.open
<1>1. card \in CardType /\ call.first \in Nat
  BY DEF TypeOK, CardType
<1>2. s \in CardStates /\ n \in Nat /\ o \in BOOLEAN
  <2>1. s \in CardStates
    BY <1>1 DEF CardType, CardStates
  <2>2. n \in Nat
    BY <1>1 DEF CardType
  <2>3. o \in BOOLEAN
    <3>1. card.open \in BOOLEAN
      BY <1>1 DEF CardType
    <3>2. (c \in {READ_MULTIPLE, WRITE_MULTIPLE}) \in BOOLEAN
      OBVIOUS
    <3> QED
      BY <3>1, <3>2, Zenon
  <2> QED
    BY <2>1, <2>2, <2>3
<1>3. Taken(c) = [card EXCEPT !.lost = FALSE, !.state = s, !.next = n, !.open = o]
  BY <1>1 DEF Taken, CardType
<1> HIDE DEF s, n, o
<1>4. /\ Taken(c) \in CardType /\ Taken(c).lost = FALSE
      /\ Taken(c).next = n /\ Taken(c).state = s
  BY <1>1, <1>2, <1>3 DEF CardType
<1> QED
  BY <1>4 DEF s, n

\* The state of a card that has taken a command.
LEMMA TakenState ==
  ASSUME TypeOK
  PROVE  /\ \A c \in {READ_SINGLE, READ_MULTIPLE} : Taken(c).state = "data"
         /\ \A c \in {WRITE_SINGLE, WRITE_MULTIPLE} : Taken(c).state = "rcv"
         /\ Taken(SET_BLOCKLEN).state = card.state
<1> DEFINE s(c) == CASE c \in {READ_SINGLE, READ_MULTIPLE}   -> "data"
                     [] c \in {WRITE_SINGLE, WRITE_MULTIPLE} -> "rcv"
                     [] c = STOP_TRANSMISSION ->
                          IF card.state = "rcv" THEN "prg" ELSE "tran"
                     [] OTHER -> card.state
<1>1. \A c \in Commands : Taken(c).state = s(c)
  BY TakenTyped
<1>2. /\ \A c \in {READ_SINGLE, READ_MULTIPLE} : s(c) = "data"
      /\ \A c \in {WRITE_SINGLE, WRITE_MULTIPLE} : s(c) = "rcv"
      /\ s(SET_BLOCKLEN) = card.state
  BY DEF READ_SINGLE, READ_MULTIPLE, WRITE_SINGLE, WRITE_MULTIPLE, SET_BLOCKLEN,
     STOP_TRANSMISSION
<1> HIDE DEF s
<1> QED
  BY <1>1, <1>2 DEF Commands, Transfers

LEMMA ReplyTyped ==
  ASSUME TypeOK, NEW c \in Commands, NEW err \in BOOLEAN, Reply(c, err)
  PROVE  resp' \in RespType
BY DEF Reply, TypeOK, RespType, CardType

\* What every step of the line, the data path and the card leaves alone.
LEMMA OutsideCall ==
  ASSUME TypeInv, UNCHANGED <<pc, call, ok, unread>>,
         sta' \in SUBSET Flags, resp' \in RespType, wire' \in Seq(Commands),
         dpsm' \in DpsmType, dpsm'.way # "off" => dpsm'.left >= 1,
         card' \in CardType, moved' \in Seq(Nat), faults' \in Nat
  PROVE  TypeInv'
<1>1. TypeOK'
  BY DEF TypeInv, TypeOK, DpsmType, CardType, RespType
<1>2. Lengths'
  BY DEF TypeInv, Lengths
<1> QED
  BY <1>1, <1>2 DEF TypeInv

LEMMA Unfolded ==
  ASSUME TypeInv
  PROVE  /\ sta \in SUBSET Flags /\ resp \in RespType /\ wire \in Seq(Commands)
         /\ dpsm \in DpsmType /\ (dpsm.way # "off" => dpsm.left >= 1)
         /\ card \in CardType /\ moved \in Seq(Nat) /\ faults \in Nat
BY DEF TypeInv, TypeOK, Lengths, RespType, DpsmType, CardType

LEMMA FaultTyped ==
  ASSUME TypeOK, NEW kind, Fault(kind)
  PROVE  faults' \in Nat
BY ConstantsAssumption DEF Fault, TypeOK

LEMMA LostTyped ==
  ASSUME TypeOK, NEW b \in BOOLEAN
  PROVE  /\ [card EXCEPT !.lost = b] \in CardType
         /\ [card EXCEPT !.lost = b].state = card.state
         /\ [card EXCEPT !.lost = b].next = card.next
BY DEF TypeOK, CardType

LEMMA AnswerTyped ==
  ASSUME TypeInv, Answer
  PROVE  TypeInv'
<1>1. PICK c \in Commands :
        Reached(c) \/ Ignored(c) \/ Lost(c) \/ Garbled(c) \/ Refused(c)
  BY DEF Answer
<1>2. Off(c)
  BY <1>1 DEF Reached, Ignored, Lost, Garbled, Refused
<1>3. /\ UNCHANGED <<pc, call, ok, dpsm, moved, unread>>
      /\ wire' \in Seq(Commands)
  BY <1>2, Unfolded DEF Off
<1>4. sta' \in SUBSET Flags
  BY <1>1, Unfolded DEF Reached, Ignored, Lost, Garbled, Refused, Flags, Answers
<1>5. faults' \in Nat
  BY <1>1, FaultTyped, Unfolded DEF Reached, Ignored, Lost, Garbled, Refused, TypeInv
<1>6. card' \in CardType
  BY <1>1, TakenTyped, LostTyped
     DEF Reached, Ignored, Lost, Garbled, Refused, TypeInv
<1>7. resp' \in RespType
  <2>1. card.lost \in BOOLEAN
    BY Unfolded DEF CardType
  <2>2. Reply(c, card.lost) \/ Reply(c, TRUE) \/ UNCHANGED resp
    BY <1>1 DEF Reached, Ignored, Lost, Garbled, Refused
  <2> QED
    BY <2>1, <2>2, ReplyTyped, Unfolded DEF TypeInv
<1> QED
  BY <1>3, <1>4, <1>5, <1>6, <1>7, Unfolded, OutsideCall

LEMMA CrossedTyped ==
  ASSUME TypeOK, NEW after \in CardStates
  PROVE  /\ Crossed(after) \in CardType
         /\ Crossed(after).next = card.next + 1
         /\ Crossed(after).state \in {card.state, after}
<1>1. card \in CardType
  BY DEF TypeOK, CardType
<1> DEFINE n == card.next + 1
           s == IF card.open THEN card.state ELSE after
<1>2. n \in Nat /\ s \in CardStates /\ s \in {card.state, after}
  BY <1>1 DEF CardType
<1>3. Crossed(after) = [card EXCEPT !.next = n, !.state = s]
  BY <1>1 DEF Crossed, CardType
<1> HIDE DEF n, s
<1>4. /\ Crossed(after) \in CardType
      /\ Crossed(after).next = n /\ Crossed(after).state = s
  BY <1>1, <1>2, <1>3 DEF CardType
<1> QED
  BY <1>2, <1>4 DEF n

LEMMA PassedTyped ==
  ASSUME TypeInv, NEW after \in CardStates, dpsm.way # "off", Passed(after)
  PROVE  /\ card' \in CardType /\ moved' \in Seq(Nat) /\ sta' \in SUBSET Flags
         /\ dpsm' \in DpsmType /\ (dpsm'.way # "off" => dpsm'.left >= 1)
         /\ faults' \in Nat
<1>1. card' \in CardType
  BY CrossedTyped DEF Passed, TypeInv
<1>2. moved' \in Seq(Nat)
  BY Unfolded DEF Passed, CardType
<1>3. sta' \in SUBSET Flags
  BY Unfolded DEF Passed, Flags, Ends
<1>4. dpsm' \in DpsmType /\ (dpsm'.way # "off" => dpsm'.left >= 1)
  <2>1. dpsm.left \in 1 .. MaxCount
    BY Unfolded, ConstantsAssumption DEF DpsmType
  <2>2. CASE dpsm.left = 1
    BY <2>2, ConstantsAssumption DEF Passed, DpsmType
  <2>3. CASE dpsm.left # 1
    <3> DEFINE l == dpsm.left - 1
    <3>1. l \in 1 .. MaxCount /\ l \in 0 .. MaxCount
      BY <2>1, <2>3, ConstantsAssumption
    <3>2. dpsm' = [dpsm EXCEPT !.left = l]
      BY <2>3 DEF Passed
    <3> HIDE DEF l
    <3> QED
      BY <3>1, <3>2, Unfolded DEF DpsmType
  <2> QED
    BY <2>2, <2>3
<1> QED
  BY <1>1, <1>2, <1>3, <1>4, Unfolded DEF Passed

LEMMA BrokenTyped ==
  ASSUME TypeInv, Broken
  PROVE  /\ dpsm' \in DpsmType /\ dpsm'.way = "off"
         /\ sta' = sta \cup {"DATAERR"} /\ sta' \in SUBSET Flags
         /\ UNCHANGED moved /\ moved' \in Seq(Nat)
BY Unfolded DEF Broken, DpsmType, Flags, Ends

LEMMA BlockTyped ==
  ASSUME TypeInv, BlockIn \/ BlockOut
  PROVE  TypeInv'
<1>1. PICK after \in {"tran", "prg"} :
        /\ \/ Passed(after)
           \/ /\ Fault("data") /\ Broken
              /\ \/ card' = Crossed("tran")
                 \/ \E s \in CardStates : card' = [card EXCEPT !.state = s]
        /\ dpsm.way # "off"
        /\ UNCHANGED <<pc, call, ok, resp, wire, unread>>
  <2>1. CASE BlockIn
    BY <2>1 DEF BlockIn
  <2>2. CASE BlockOut
    <3>1. (IF card.open THEN card.state ELSE "tran") \in CardStates
      BY Unfolded DEF CardType, CardStates
    <3> QED
      BY <2>2, <3>1 DEF BlockOut
  <2> QED
    BY <2>1, <2>2
<1>2. after \in CardStates /\ "tran" \in CardStates
  BY DEF CardStates
<1>3. CASE Passed(after)
  BY <1>1, <1>2, <1>3, PassedTyped, Unfolded, OutsideCall
<1>4. CASE /\ Fault("data") /\ Broken
           /\ \/ card' = Crossed("tran")
              \/ \E s \in CardStates : card' = [card EXCEPT !.state = s]
  <2>1. card' \in CardType
    BY <1>2, <1>4, CrossedTyped, Unfolded DEF TypeInv, CardType
  <2>2. faults' \in Nat
    BY <1>4, FaultTyped DEF TypeInv
  <2> QED
    BY <1>1, <1>4, <2>1, <2>2, BrokenTyped, Unfolded, OutsideCall
<1> QED
  BY <1>1, <1>3, <1>4

LEMMA OtherTyped ==
  ASSUME TypeInv, BlockLost \/ DataTimeout \/ Programmed
  PROVE  TypeInv'
<1>1. CASE BlockLost
  <2>1. card' \in CardType
    BY <1>1, CrossedTyped DEF BlockLost, TypeInv, CardStates
  <2>2. Broken \/ UNCHANGED <<dpsm, sta, moved>>
    BY <1>1 DEF BlockLost
  <2> QED
    BY <1>1, <2>1, <2>2, BrokenTyped, Unfolded, OutsideCall DEF BlockLost
<1>2. CASE DataTimeout
  BY <1>2, BrokenTyped, Unfolded, OutsideCall DEF DataTimeout
<1>3. CASE Programmed
  <2>1. card' \in CardType
    BY <1>3, Unfolded DEF Programmed, CardType, CardStates
  <2> QED
    BY <1>3, <2>1, Unfolded, OutsideCall DEF Programmed
<1> QED
  BY <1>1, <1>2, <1>3

LEMMA InitTyped == Init => TypeInv
<1> SUFFICES ASSUME Init PROVE TypeInv
  OBVIOUS
<1>1. Lengths
  BY DEF Init, Lengths
<1>2. wire \in Seq(Commands) /\ moved \in Seq(Nat)
  BY DEF Init
<1>3. 0 \in 0 .. MaxCount
  BY ConstantsAssumption
<1>4. /\ call \in [op : {"read", "write"}, first : Nat, n : 0 .. MaxCount]
      /\ dpsm \in DpsmType
  BY <1>3 DEF Init, DpsmType
<1>5. card \in CardType /\ resp \in RespType
  BY DEF Init, CardType, RespType, CardStates
<1>6. sta \in SUBSET Flags /\ faults \in Nat /\ unread \in BOOLEAN /\ ok \in BOOLEAN
      /\ pc = "idle"
  BY DEF Init
<1>7. TypeOK
  BY <1>2, <1>4, <1>5, <1>6 DEF TypeOK, CardType, RespType, DpsmType
<1> QED
  BY <1>1, <1>7 DEF TypeInv

LEMMA CallsStart ==
  ASSUME Calls
  PROVE  \E op \in {"read", "write"}, first \in Nat, n \in 1 .. MaxCount :
           Start(op, first, n)
<1>1. 0 .. Capacity - 1 \subseteq Nat
  BY ConstantsAssumption
<1> QED
  BY <1>1 DEF Calls

LEMMA StepTyped == TypeInv /\ [Next]_vars => TypeInv'
<1> SUFFICES ASSUME TypeInv, [Next]_vars PROVE TypeInv'
  OBVIOUS
<1>1. CASE Calls
  BY <1>1, CallsStart, StartTyped
<1>2. CASE Driver
  BY <1>2, DriverTyped
<1>3. CASE Answer
  BY <1>3, AnswerTyped
<1>4. CASE BlockIn \/ BlockOut
  BY <1>4, BlockTyped
<1>5. CASE BlockLost \/ DataTimeout \/ Programmed
  BY <1>5, OtherTyped
<1>6. CASE UNCHANGED vars
  <2>1. UNCHANGED <<pc, call, ok, unread, sta, resp, wire, dpsm, card, moved, faults>>
    BY <1>6 DEF vars
  <2> QED
    BY <2>1, Unfolded, OutsideCall
<1> QED
  BY <1>1, <1>2, <1>3, <1>4, <1>5, <1>6 DEF Next, Hardware

\* The variables keep their types; the data path never expects less than no
\* block (SDIO_DataConfig, HAL_SD_ReadBlocks, HAL_SD_WriteBlocks).
THEOREM TypeCorrect == Spec => []TypeOK
<1>1. TypeInv => TypeOK
  BY DEF TypeInv
<1> QED
  BY <1>1, InitTyped, StepTyped, PTL DEF Spec

-----------------------------------------------------------------------------
(* Answers: what a call goes by.                                           *)

\* Answers that are in are judged: no answer is left, and after a good one no
\* flag at all.
LEMMA JudgedLeaves ==
  ASSUME NEW c, TypeInv, OneAnswer(c), Answered
  PROVE  /\ wire = << >>
         /\ JudgedFlags(c) \in SUBSET sta
         /\ JudgedFlags(c) \cap Answers = {}
         /\ Judged(c) => JudgedFlags(c) = {}
<1>1. wire = << >>
  BY DEF OneAnswer, NoAnswer, Answered
<1>2. PICK a \in Answers :
        sta \cap Answers = {a} /\ (a = "CTIMEOUT" \/ resp.cmd = c)
  BY DEF OneAnswer, NoAnswer, Answered
<1>3. CASE a = "CTIMEOUT"
  <2>1. "CTIMEOUT" \in sta
    BY <1>2, <1>3
  <2>2. JudgedFlags(c) = sta \ {"CTIMEOUT"} /\ ~Judged(c)
    BY <2>1 DEF JudgedFlags, Judged
  <2> QED
    BY <1>1, <1>2, <1>3, <2>2
<1>4. CASE a = "CCRCFAIL"
  <2>1. "CTIMEOUT" \notin sta /\ "CCRCFAIL" \in sta
    BY <1>2, <1>4 DEF Answers
  <2>2. JudgedFlags(c) = sta \ {"CCRCFAIL"} /\ ~Judged(c)
    BY <2>1 DEF JudgedFlags, Judged
  <2> QED
    BY <1>1, <1>2, <1>4, <2>2
<1>5. CASE a = "CMDREND"
  <2>1. "CTIMEOUT" \notin sta /\ "CCRCFAIL" \notin sta /\ resp.cmd = c
    BY <1>2, <1>5 DEF Answers
  <2>2. JudgedFlags(c) = {}
    BY <2>1 DEF JudgedFlags
  <2> QED
    BY <1>1, <2>2
<1> QED
  BY <1>2, <1>3, <1>4, <1>5 DEF Answers

\* A command alone on the line is answered, once, and a good answer is that of
\* a card that has taken it.
LEMMA Answering ==
  ASSUME TypeInv, NEW c \in Commands, NEW w, wire = <<w>>, NoAnswer,
         Reached(c) \/ Ignored(c) \/ Lost(c) \/ Garbled(c) \/ Refused(c)
  PROVE  /\ c = w /\ wire' = << >> /\ UNCHANGED <<pc, call, ok, dpsm, moved, unread>>
         /\ sta' \cap Ends = sta \cap Ends
         /\ \E a \in Answers :
              sta' \cap Answers = {a} /\ (a = "CTIMEOUT" \/ resp'.cmd = c)
         /\ \/ card' = Taken(c) /\ Legal(c)
            \/ /\ card'.state = card.state
               /\ resp'.err \/ sta' \cap {"CTIMEOUT", "CCRCFAIL"} # {}
<1>1. Off(c)
  BY DEF Reached, Ignored, Lost, Garbled, Refused
<1>2. /\ c = w /\ wire' = << >>
      /\ UNCHANGED <<pc, call, ok, dpsm, moved, unread>>
  BY <1>1 DEF Off
<1>3. PICK a \in Answers :
        /\ sta' = sta \cup {a}
        /\ \/ a = "CTIMEOUT"
           \/ \E err : Reply(c, err)
        /\ \/ card' = Taken(c) /\ Legal(c)
           \/ a = "CTIMEOUT" /\ card' = [card EXCEPT !.lost = TRUE]
           \/ Reply(c, TRUE) /\ card' = [card EXCEPT !.lost = FALSE]
  BY DEF Reached, Ignored, Lost, Garbled, Refused, Answers
<1>4. sta' \cap Ends = sta \cap Ends
  BY <1>3 DEF Ends, Answers
<1>5. sta' \cap Answers = {a}
  BY <1>3 DEF NoAnswer
<1>6. a = "CTIMEOUT" \/ resp'.cmd = c
  BY <1>3 DEF Reply
<1>7. \/ card' = Taken(c) /\ Legal(c)
      \/ /\ card'.state = card.state
         /\ resp'.err \/ sta' \cap {"CTIMEOUT", "CCRCFAIL"} # {}
  <2>1. CASE a = "CTIMEOUT" /\ card' = [card EXCEPT !.lost = TRUE]
    BY <1>3, <2>1, LostTyped DEF TypeInv
  <2>2. CASE Reply(c, TRUE) /\ card' = [card EXCEPT !.lost = FALSE]
    <3>1. resp'.err = TRUE
      BY <2>2 DEF Reply
    <3> QED
      BY <2>2, <3>1, LostTyped DEF TypeInv
  <2> QED
    BY <1>3, <2>1, <2>2
<1> QED
  BY <1>2, <1>4, <1>5, <1>6, <1>7

\* An invariant of a step that leaves the call and what it has moved alone.
LEMMA OrderKept ==
  ASSUME UNCHANGED <<call, moved>>
  PROVE  /\ InOrder(call.n)' <=> InOrder(call.n)
         /\ InOrder(Len(moved))' <=> InOrder(Len(moved))
BY DEF InOrder

LEMMA SendOnIdleLine ==
  ASSUME NEW c, wire = << >>, SDIO_SendCommand(c)
  PROVE  wire' = <<c>>
BY DEF SDIO_SendCommand

LEMMA StartAnswer ==
  ASSUME TypeInv, AnswerInv, NEW op, NEW first, NEW n, Start(op, first, n)
  PROVE  AnswerInv'
<1> SUFFICES ASSUME ~unread'
             PROVE  pc' = "blocklen" /\ AtBlockLen'
  BY DEF AnswerInv, Start
<1>1. pc' = "blocklen" /\ moved' = << >> /\ wire' = <<SET_BLOCKLEN>> /\ sta' = sta
  BY SendOnIdleLine DEF Start
<1>2. NoAnswer
  BY DEF AnswerInv, Start, AtIdle, NoAnswer
<1>3. wire' # << >>
  BY <1>1
<1> QED
  BY <1>1, <1>2, <1>3 DEF AtBlockLen, OneAnswer, NoAnswer

\* The end of the data phase of a transfer that has moved its blocks.
LEMMA FinishAnswer ==
  ASSUME TypeInv, AnswerInv, NEW flags \in SUBSET sta, NEW r \in BOOLEAN,
         Finish(flags, r), UNCHANGED <<call, moved>>, wire = << >>,
         "DATAERR" \notin flags => InOrder(call.n),
         "DATAERR" \in flags /\ ~Single => flags \cap Answers = {}
  PROVE  AnswerInv'
<1>1. \/ /\ "DATAERR" \in flags /\ sta' = flags \ {"DATAERR"}
         /\ Return(FALSE) /\ Quiet
      \/ /\ "DATAERR" \notin flags /\ sta' = {} /\ Return(r) /\ Quiet
      \/ /\ "DATAERR" \notin flags /\ sta' = {}
         /\ Go("programming") /\ SDIO_SendCommand(SEND_STATUS)
  BY DEF Finish
<1>2. CASE /\ "DATAERR" \in flags /\ sta' = flags \ {"DATAERR"}
           /\ Return(FALSE) /\ Quiet
  <2>1. pc' = "idle" /\ ok' = FALSE /\ wire' = << >> /\ (Single => unread')
    BY <1>2 DEF Return, Quiet, Single, Reading
  <2>2. ~Single => sta' \cap Answers = {}
    BY <1>2
  <2> QED
    BY <2>1, <2>2 DEF AnswerInv, AtIdle, NoAnswer
<1>3. CASE /\ "DATAERR" \notin flags /\ sta' = {} /\ Return(r) /\ Quiet
  <2>1. pc' = "idle" /\ wire' = << >> /\ sta' \cap Answers = {}
    BY <1>3 DEF Return, Quiet
  <2> QED
    BY <1>3, <2>1, OrderKept DEF AnswerInv, AtIdle, NoAnswer
<1>4. CASE /\ "DATAERR" \notin flags /\ sta' = {}
           /\ Go("programming") /\ SDIO_SendCommand(SEND_STATUS)
  <2>1. pc' = "programming" /\ wire' = <<SEND_STATUS>> /\ sta' \cap Answers = {}
    BY <1>4, SendOnIdleLine DEF Go
  <2> QED
    BY <1>4, <2>1, OrderKept DEF AnswerInv, AtProgramming, OneAnswer, NoAnswer
<1> QED
  BY <1>1, <1>2, <1>3, <1>4

LEMMA BlockLenAnswer ==
  ASSUME TypeInv, AnswerInv, BlockLenDone
  PROVE  AnswerInv'
<1> SUFFICES ASSUME ~unread'
             PROVE  /\ pc' = "idle"    => AtIdle'
                    /\ pc' = "command" => AtCommand'
                    /\ pc' = "data"    => AtData'
                    /\ pc' \in {"idle", "command", "data"}
  BY DEF AnswerInv
<1>1. ~unread
  BY DEF BlockLenDone, Return, Go
<1>2. pc = "blocklen" /\ AtBlockLen /\ Answered /\ UNCHANGED <<call, resp, card, moved>>
  BY <1>1 DEF BlockLenDone, AnswerInv
<1>3. /\ wire = << >> /\ sta' \cap Answers = {}
      /\ Judged(SET_BLOCKLEN) => sta' = {}
  BY <1>2, JudgedLeaves DEF BlockLenDone, AtBlockLen
<1>4. CASE ~Judged(SET_BLOCKLEN)
  <2>1. pc' = "idle" /\ ok' = FALSE /\ wire' = << >>
    BY <1>3, <1>4 DEF BlockLenDone, Return, Quiet
  <2> QED
    BY <1>3, <2>1 DEF AtIdle, NoAnswer
<1>5. CASE Judged(SET_BLOCKLEN)
  <2>1. /\ IF Reading THEN SDIO_DataConfig("in") ELSE UNCHANGED dpsm
        /\ SDIO_SendCommand(TransferCommand)
        /\ Go(IF Single THEN "data" ELSE "command")
    BY <1>5 DEF BlockLenDone, Reading, Single
  <2>2. /\ card'.state = "tran" /\ sta' = {} /\ Len(moved') = 0
        /\ (Single <=> Single') /\ (Reading <=> Reading')
        /\ TransferCommand' = TransferCommand
    BY <1>2, <1>3, <1>5
       DEF AtBlockLen, Single, Reading, TransferCommand, Multi
  <2>3. Reading => dpsm'.way = "in" /\ dpsm'.left = call'.n
    BY <1>2, <2>1 DEF SDIO_DataConfig
  <2>4. wire' = <<TransferCommand>>
    BY <1>3, <2>1 DEF SDIO_SendCommand
  <2>5. CASE Single
    <3>1. pc' = "data"
      BY <2>1, <2>5 DEF Go
    <3>2. TransferCommand = READ_SINGLE
      BY <2>5 DEF TransferCommand, Single, Reading
    <3>3. sta' \cap Ends = {} /\ "DATAEND" \notin sta'
      BY <2>2
    <3>4. wire' # << >>
      BY <2>4
    <3>5. InStep'
      <4>1. Reading /\ call'.n \in Nat
        BY <1>2, <2>5 DEF Single, TypeInv, TypeOK
      <4>2. InOrder(Len(moved))'
        BY <2>2 DEF InOrder
      <4> QED
        BY <2>2, <2>3, <3>4, <4>1, <4>2 DEF InStep
    <3> QED
      BY <2>2, <2>4, <2>5, <3>1, <3>2, <3>3, <3>5 DEF AtData
  <2>6. CASE ~Single
    <3>1. pc' = "command"
      BY <2>1, <2>6 DEF Go
    <3>2. OneAnswer(TransferCommand)'
      BY <2>2, <2>4 DEF OneAnswer, NoAnswer
    <3>3. wire' # << >>
      BY <2>4
    <3> QED
      BY <2>2, <2>3, <2>6, <3>1, <3>2, <3>3 DEF AtCommand
  <2> QED
    BY <2>5, <2>6
<1> QED
  BY <1>4, <1>5

LEMMA CommandAnswer ==
  ASSUME TypeInv, AnswerInv, CommandDone
  PROVE  AnswerInv'
<1> SUFFICES ASSUME ~unread'
             PROVE  /\ pc' = "idle" => AtIdle'
                    /\ pc' = "data" => AtData'
                    /\ pc' \in {"idle", "data"}
  BY DEF AnswerInv
<1>1. ~unread
  BY DEF CommandDone, Return, Go
<1>2. /\ pc = "command" /\ AtCommand /\ Answered
      /\ UNCHANGED <<call, resp, card, moved, wire>>
  BY <1>1 DEF CommandDone, AnswerInv, Quiet
<1>3. /\ wire = << >> /\ sta' \cap Answers = {}
      /\ Judged(TransferCommand) => sta' = {}
  BY <1>2, JudgedLeaves DEF CommandDone, AtCommand
<1>4. CASE ~Judged(TransferCommand)
  <2>1. pc' = "idle" /\ ok' = FALSE
    BY <1>4 DEF CommandDone, Return
  <2> QED
    BY <1>2, <1>3, <2>1 DEF AtIdle, NoAnswer
<1>5. CASE Judged(TransferCommand)
  <2>1. /\ IF ~Reading THEN SDIO_DataConfig("out") ELSE UNCHANGED dpsm
        /\ Go("data")
    <3>1. call.op \in {"read", "write"}
      BY DEF TypeInv, TypeOK
    <3> QED
      BY <1>5, <3>1 DEF CommandDone, Reading
  <2>2. /\ sta' = {} /\ Len(moved) = 0 /\ (Reading <=> Reading')
        /\ card.next = call.first
    BY <1>2, <1>3, <1>5 DEF AtCommand, Reading
  <2>3. dpsm'.way = (IF Reading THEN "in" ELSE "out") /\ dpsm'.left = call.n
    BY <1>2, <2>1 DEF SDIO_DataConfig, AtCommand
  <2>4. call.n \in Nat /\ call.first \in Nat
    BY ConstantsAssumption DEF TypeInv, TypeOK
  <2>5. InOrder(Len(moved))'
    BY <1>2, <2>2 DEF InOrder
  <2>6. InStep'
    BY <1>2, <2>2, <2>3, <2>4, <2>5 DEF InStep
  <2>7. sta' \cap Ends = {} /\ "DATAEND" \notin sta' /\ NoAnswer'
    BY <2>2 DEF NoAnswer
  <2>8. pc' = "data" /\ wire' = << >>
    BY <1>2, <1>3, <2>1 DEF Go
  <2> QED
    BY <2>6, <2>7, <2>8 DEF AtData
<1> QED
  BY <1>4, <1>5

LEMMA DataDoneAnswer ==
  ASSUME TypeInv, AnswerInv, DataDone
  PROVE  AnswerInv'
<1> SUFFICES ASSUME ~unread' PROVE AnswerInv'
  BY DEF AnswerInv
<1>1. ~unread
  BY DEF DataDone, Return, Go, Finish
<1>2. pc = "data" /\ AtData /\ sta \cap Ends # {} /\ UNCHANGED <<call, moved>>
  BY <1>1 DEF DataDone, AnswerInv
<1>3. wire = << >> /\ (Single \/ NoAnswer)
  BY <1>2 DEF AtData
<1>4. CASE Multi /\ "DATAEND" \in sta
  <2>1. pc' = "stop" /\ wire' = <<STOP_TRANSMISSION>> /\ sta' = sta
    BY <1>3, <1>4, SendOnIdleLine DEF DataDone, Go
  <2>2. InOrder(call.n)
    BY <1>2, <1>4 DEF AtData
  <2>3. NoAnswer
    BY <1>3, <1>4 DEF Single
  <2> QED
    BY <1>2, <2>1, <2>2, <2>3, OrderKept DEF AnswerInv, AtStop, OneAnswer, NoAnswer
<1>5. CASE ~(Multi /\ "DATAEND" \in sta)
  <2>1. Finish(sta, TRUE)
    BY <1>5 DEF DataDone
  <2>2. "DATAERR" \notin sta => InOrder(call.n)
    BY <1>2 DEF AtData, Ends
  <2>3. "DATAERR" \in sta /\ ~Single => sta \cap Answers = {}
    BY <1>3 DEF NoAnswer
  <2> QED
    BY <1>2, <1>3, <2>1, <2>2, <2>3, FinishAnswer
<1> QED
  BY <1>4, <1>5

LEMMA StopAnswer ==
  ASSUME TypeInv, AnswerInv, StopDone
  PROVE  AnswerInv'
<1> SUFFICES ASSUME ~unread' PROVE AnswerInv'
  BY DEF AnswerInv
<1>1. ~unread
  BY DEF StopDone, Return, Go, Finish
<1>2. pc = "stop" /\ AtStop /\ Answered /\ UNCHANGED <<call, moved>>
  BY <1>1 DEF StopDone, AnswerInv
<1> DEFINE flags == JudgedFlags(STOP_TRANSMISSION)
           r == Judged(STOP_TRANSMISSION)
<1>3. wire = << >> /\ flags \in SUBSET sta /\ flags \cap Answers = {}
  BY <1>2, JudgedLeaves DEF AtStop
<1>4. Finish(flags, r) /\ r \in BOOLEAN /\ InOrder(call.n)
  BY <1>2, JudgedBoolean DEF StopDone, AtStop, TypeInv
<1> HIDE DEF flags, r
<1> QED
  BY <1>2, <1>3, <1>4, FinishAnswer

LEMMA ProgrammingAnswer ==
  ASSUME TypeInv, AnswerInv, Programming
  PROVE  AnswerInv'
<1> SUFFICES ASSUME ~unread' PROVE AnswerInv'
  BY DEF AnswerInv
<1>1. ~unread
  BY DEF Programming, Return, Go
<1>2. /\ pc = "programming" /\ AtProgramming /\ Answered
      /\ UNCHANGED <<call, moved>>
  BY <1>1 DEF Programming, AnswerInv
<1>3. wire = << >> /\ sta' \cap Answers = {}
  BY <1>2, JudgedLeaves DEF Programming, AtProgramming
<1>4. InOrder(call.n)'
  BY <1>2, OrderKept DEF AtProgramming
<1>5. \/ Go("programming") /\ SDIO_SendCommand(SEND_STATUS)
      \/ Return(Judged(SEND_STATUS)) /\ Quiet
  BY DEF Programming
<1>6. CASE Go("programming") /\ SDIO_SendCommand(SEND_STATUS)
  <2>1. pc' = "programming" /\ wire' = <<SEND_STATUS>>
    BY <1>3, <1>6, SendOnIdleLine DEF Go
  <2> QED
    BY <1>3, <1>4, <2>1 DEF AnswerInv, AtProgramming, OneAnswer, NoAnswer
<1>7. CASE Return(Judged(SEND_STATUS)) /\ Quiet
  <2>1. pc' = "idle" /\ wire' = << >>
    BY <1>3, <1>7 DEF Return, Quiet
  <2> QED
    BY <1>3, <1>4, <2>1 DEF AnswerInv, AtIdle, NoAnswer
<1> QED
  BY <1>5, <1>6, <1>7

\* What an answer makes of the one command a call waits for.
LEMMA AnswerAnswer ==
  ASSUME TypeInv, AnswerInv, Answer
  PROVE  AnswerInv'
<1>1. PICK c \in Commands :
        Reached(c) \/ Ignored(c) \/ Lost(c) \/ Garbled(c) \/ Refused(c)
  BY DEF Answer
<1>2. Off(c)
  BY <1>1 DEF Reached, Ignored, Lost, Garbled, Refused
<1>3. wire # << >> /\ UNCHANGED <<pc, call, ok, dpsm, moved, unread>>
  BY <1>2 DEF Off
<1> SUFFICES ASSUME ~unread PROVE AnswerInv'
  BY <1>3 DEF AnswerInv
<1>4. pc # "idle"
  BY <1>3 DEF AnswerInv, AtIdle
<1>5. /\ (Single <=> Single') /\ (Reading <=> Reading')
      /\ TransferCommand' = TransferCommand
      /\ InOrder(call.n)' <=> InOrder(call.n)
      /\ InOrder(Len(moved))' <=> InOrder(Len(moved))
  BY <1>3, OrderKept DEF Single, Reading, TransferCommand, Multi
<1>6. CASE pc = "blocklen"
  <2>1. wire = <<SET_BLOCKLEN>> /\ NoAnswer /\ Len(moved) = 0
    BY <1>3, <1>6 DEF AnswerInv, AtBlockLen, OneAnswer
  <2>2. /\ c = SET_BLOCKLEN /\ wire' = << >>
        /\ \E a \in Answers :
              sta' \cap Answers = {a} /\ (a = "CTIMEOUT" \/ resp'.cmd = c)
        /\ \/ card' = Taken(c) /\ Legal(c)
           \/ resp'.err \/ sta' \cap {"CTIMEOUT", "CCRCFAIL"} # {}
    BY <1>1, <2>1, Answering
  <2>3. OneAnswer(SET_BLOCKLEN)'
    BY <2>2 DEF OneAnswer
  <2>4. card' = Taken(c) /\ Legal(c) => card'.state = "tran"
    <3>1. Taken(SET_BLOCKLEN).state = card.state
      BY TakenState DEF TypeInv
    <3>2. Legal(SET_BLOCKLEN) => card.state = "tran"
      BY DEF Legal, SET_BLOCKLEN, SEND_STATUS, STOP_TRANSMISSION
    <3> QED
      BY <2>2, <3>1, <3>2
  <2>5. Judged(SET_BLOCKLEN)' => card'.state = "tran"
    BY <2>2, <2>4 DEF Judged
  <2> QED
    BY <1>3, <1>6, <2>1, <2>3, <2>5 DEF AnswerInv, AtBlockLen
<1>7. CASE pc = "command"
  <2>1. AtCommand
    BY <1>7 DEF AnswerInv
  <2>2. wire = <<TransferCommand>> /\ NoAnswer /\ Len(moved) = 0
    BY <1>3, <2>1 DEF AtCommand, OneAnswer
  <2>3. PICK w : w = TransferCommand
    OBVIOUS
  <2>4. /\ c = w /\ wire' = << >>
        /\ \E a \in Answers :
              sta' \cap Answers = {a} /\ (a = "CTIMEOUT" \/ resp'.cmd = c)
        /\ \/ card' = Taken(c) /\ Legal(c)
           \/ resp'.err \/ sta' \cap {"CTIMEOUT", "CCRCFAIL"} # {}
    BY <1>1, <2>2, <2>3, Answering
  <2>5. OneAnswer(TransferCommand)'
    BY <1>5, <2>3, <2>4 DEF OneAnswer
  <2>6. card' = Taken(c) => /\ card'.state = (IF Reading THEN "data" ELSE "rcv")
                            /\ card'.next = call.first
    <3>1. /\ Reading => c \in {READ_SINGLE, READ_MULTIPLE}
          /\ ~Reading => c \in {WRITE_SINGLE, WRITE_MULTIPLE}
      <4>1. call.op \in {"read", "write"} /\ Multi \in BOOLEAN
        BY DEF TypeInv, TypeOK, Multi
      <4> QED
        BY <2>3, <2>4, <4>1 DEF TransferCommand, Reading
    <3>2. c \in Transfers
      BY <2>3, <2>4, TransferIsCommand DEF TypeInv
    <3>3. Taken(c).next = call.first
      BY <3>2, TakenTyped DEF TypeInv
    <3>4. Taken(c).state = (IF Reading THEN "data" ELSE "rcv")
      BY <3>1, TakenState DEF TypeInv
    <3> QED
      BY <3>3, <3>4
  <2>7. Judged(TransferCommand)' =>
          card'.state = (IF Reading THEN "data" ELSE "rcv") /\ card'.next = call.first
    BY <2>4, <2>6 DEF Judged
  <2>8. AtCommand'
    BY <1>3, <1>5, <2>1, <2>2, <2>4, <2>5, <2>7 DEF AtCommand
  <2> QED
    BY <1>3, <1>7, <2>8 DEF AnswerInv
<1>8. CASE pc = "data"
  <2>1. /\ Single /\ wire = <<READ_SINGLE>> /\ sta = {} /\ Len(moved) = 0
        /\ card.state = "tran" /\ InStep
    BY <1>3, <1>8 DEF AnswerInv, AtData
  <2>2. NoAnswer
    BY <2>1 DEF NoAnswer
  <2>3. /\ c = READ_SINGLE /\ wire' = << >> /\ sta' \cap Ends = sta \cap Ends
        /\ card' = Taken(c) \/ card'.state = card.state
    BY <1>1, <2>1, <2>2, Answering
  <2>4. sta' \cap Ends = {} /\ "DATAEND" \notin sta'
    BY <2>1, <2>3 DEF Ends
  <2>5. card'.state \in {"data", "rcv"} => card'.next = call.first
    <3>1. c \in Transfers
      BY <2>3 DEF Transfers
    <3> QED
      BY <2>1, <2>3, <3>1, TakenTyped DEF TypeInv
  <2>6. call.first \in Nat
    BY DEF TypeInv, TypeOK
  <2>7. InStep'
    BY <1>3, <1>5, <2>1, <2>5, <2>6 DEF InStep
  <2>8. AtData'
    BY <1>5, <2>1, <2>3, <2>4, <2>7 DEF AtData
  <2> QED
    BY <1>3, <1>8, <2>8 DEF AnswerInv
<1>9. CASE pc = "stop"
  <2>1. wire = <<STOP_TRANSMISSION>> /\ NoAnswer /\ InOrder(call.n)
    BY <1>3, <1>9 DEF AnswerInv, AtStop, OneAnswer
  <2>2. /\ c = STOP_TRANSMISSION /\ wire' = << >>
        /\ \E a \in Answers :
              sta' \cap Answers = {a} /\ (a = "CTIMEOUT" \/ resp'.cmd = c)
    BY <1>1, <2>1, Answering
  <2> QED
    BY <1>3, <1>5, <1>9, <2>1, <2>2 DEF AnswerInv, AtStop, OneAnswer
<1>10. CASE pc = "programming"
  <2>1. wire = <<SEND_STATUS>> /\ NoAnswer /\ InOrder(call.n)
    BY <1>3, <1>10 DEF AnswerInv, AtProgramming, OneAnswer
  <2>2. /\ c = SEND_STATUS /\ wire' = << >>
        /\ \E a \in Answers :
              sta' \cap Answers = {a} /\ (a = "CTIMEOUT" \/ resp'.cmd = c)
    BY <1>1, <2>1, Answering
  <2> QED
    BY <1>3, <1>5, <1>10, <2>1, <2>2 DEF AnswerInv, AtProgramming, OneAnswer
<1> QED
  BY <1>4, <1>6, <1>7, <1>8, <1>9, <1>10 DEF TypeInv, TypeOK

\* A block that has crossed is the next one.
LEMMA PassedAnswer ==
  ASSUME TypeInv, AnswerInv, ~unread, pc = "data", NEW after \in {"tran", "prg"},
         Passed(after), dpsm.way # "off", wire = << >>,
         card.state \in {"data", "rcv"},
         UNCHANGED <<pc, call, ok, resp, wire, unread>>
  PROVE  AnswerInv'
<1>1. AtData
  BY DEF AnswerInv
<1>2. InStep /\ sta \cap Ends = {}
  BY <1>1 DEF AtData
<1> DEFINE k == Len(moved)
<1>3. /\ k \in Nat /\ call.first \in Nat /\ call.n \in Nat /\ moved \in Seq(Nat)
      /\ card.next = call.first + k /\ dpsm.left + k = call.n /\ dpsm.left \in Nat
  <2>1. moved \in Seq(Nat) /\ dpsm.left \in 0 .. MaxCount
    BY DEF TypeInv, TypeOK
  <2>2. call.first \in Nat /\ call.n \in 0 .. MaxCount
    BY DEF TypeInv, TypeOK
  <2> QED
    BY <1>2, <2>1, <2>2, ConstantsAssumption DEF InStep
<1>4. moved' = Append(moved, call.first + k)
  BY <1>3 DEF Passed
<1>5. Len(moved') = k + 1 /\ \A i \in 1 .. k + 1 : moved'[i] = call.first + i - 1
  <2>1. Len(moved') = k + 1
    BY <1>3, <1>4
  <2>2. ASSUME NEW i \in 1 .. k + 1
        PROVE  moved'[i] = call.first + i - 1
    <3>1. CASE i \in 1 .. k
      <4>1. moved'[i] = moved[i]
        BY <1>3, <1>4, <3>1
      <4> QED
        BY <1>2, <3>1, <4>1 DEF InStep, InOrder
    <3>2. CASE i = k + 1
      <4>1. moved'[i] = call.first + k
        BY <1>3, <1>4, <3>2
      <4> QED
        BY <1>3, <3>2, <4>1
    <3> QED
      BY <1>3, <3>1, <3>2
  <2> QED
    BY <2>1, <2>2
<1> HIDE DEF k
<1>6. /\ card'.next = card.next + 1
      /\ (Single <=> Single') /\ (Reading <=> Reading')
  BY CrossedTyped DEF Passed, TypeInv, CardStates, Single, Reading, Multi
<1>7. CASE dpsm.left = 1
  <2>1. sta' = sta \cup {"DATAEND"} /\ dpsm'.way = "off"
    BY <1>7 DEF Passed
  <2>2. InOrder(call.n)'
    <3>1. k + 1 = call.n
      BY <1>3, <1>7
    <3> QED
      BY <1>5, <3>1 DEF InOrder
  <2>3. sta' \cap Ends # {} /\ (NoAnswer => NoAnswer')
    BY <2>1 DEF Ends, NoAnswer, Answers
  <2>4. AtData'
    BY <1>1, <1>6, <2>1, <2>2, <2>3 DEF AtData
  <2> QED
    BY <2>4 DEF AnswerInv
<1>8. CASE dpsm.left # 1
  <2>1. /\ sta' = sta /\ dpsm'.way = dpsm.way /\ dpsm'.left = dpsm.left - 1
    BY <1>8 DEF Passed, TypeInv, TypeOK
  <2>2. dpsm'.left + Len(moved') = call.n
    BY <1>3, <1>5, <2>1
  <2>3. InOrder(Len(moved))'
    BY <1>5 DEF InOrder
  <2>4. card'.next = call.first + Len(moved')
    BY <1>3, <1>5, <1>6
  <2>5. InStep'
    BY <1>2, <1>6, <2>1, <2>2, <2>3, <2>4 DEF InStep
  <2>6. AtData'
    BY <1>1, <1>2, <1>6, <2>1, <2>5 DEF AtData, NoAnswer, Ends
  <2> QED
    BY <2>6 DEF AnswerInv
<1> QED
  BY <1>7, <1>8

\* The data path gives up: what has crossed before has.
LEMMA BrokenAnswer ==
  ASSUME TypeInv, AnswerInv, ~unread, pc = "data", Broken, wire = << >>,
         UNCHANGED <<pc, call, ok, resp, wire, unread>>
  PROVE  AnswerInv'
<1>1. AtData
  BY DEF AnswerInv
<1>2. /\ dpsm'.way = "off" /\ sta' = sta \cup {"DATAERR"} /\ UNCHANGED moved
  BY BrokenTyped
<1>3. sta' \cap Ends # {} /\ (NoAnswer => NoAnswer')
      /\ ("DATAEND" \in sta' <=> "DATAEND" \in sta) /\ (Single <=> Single')
  BY <1>2 DEF Ends, NoAnswer, Answers, Single, Reading, Multi
<1>4. InOrder(call.n)' <=> InOrder(call.n)
  BY <1>2, OrderKept
<1> QED
  BY <1>1, <1>2, <1>3, <1>4 DEF AtData, AnswerInv

LEMMA BlockAnswer ==
  ASSUME TypeInv, AnswerInv, BlockIn \/ BlockOut
  PROVE  AnswerInv'
<1>1. pc = "data" /\ UNCHANGED <<pc, call, ok, resp, wire, unread>>
  BY DEF BlockIn, BlockOut
<1> SUFFICES ASSUME ~unread PROVE AnswerInv'
  BY <1>1 DEF AnswerInv
<1>2. card.state \in {"data", "rcv"} /\ dpsm.way # "off"
  BY DEF BlockIn, BlockOut, Sending
<1>3. wire = << >>
  BY <1>1, <1>2 DEF AnswerInv, AtData
<1>4. Passed("tran") \/ Passed("prg") \/ Broken
  BY DEF BlockIn, BlockOut
<1> QED
  BY <1>1, <1>2, <1>3, <1>4, PassedAnswer, BrokenAnswer

\* Steps that neither send nor answer a command.
LEMMA StillAnswer ==
  ASSUME TypeInv, AnswerInv, BlockLost \/ DataTimeout \/ Programmed
  PROVE  AnswerInv'
<1>1. UNCHANGED <<pc, call, ok, resp, wire, unread, moved>>
  BY DEF BlockLost, DataTimeout, Programmed, Broken
<1> SUFFICES ASSUME ~unread PROVE AnswerInv'
  BY <1>1 DEF AnswerInv
<1>2. /\ (Single <=> Single') /\ (Reading <=> Reading')
      /\ TransferCommand' = TransferCommand
      /\ InOrder(call.n)' <=> InOrder(call.n)
      /\ InOrder(Len(moved))' <=> InOrder(Len(moved))
  BY <1>1, OrderKept DEF Single, Reading, TransferCommand, Multi
<1>3. CASE DataTimeout
  BY <1>1, <1>3, BrokenAnswer DEF DataTimeout
<1>4. CASE BlockLost
  <2>1. pc # "data" /\ pc # "command" /\ card.state = "data"
    BY <1>4 DEF BlockLost, Sending
  <2>2. sta' = sta \/ sta' = sta \cup {"DATAERR"}
    BY <1>4, BrokenTyped DEF BlockLost
  <2>3. sta' \cap Answers = sta \cap Answers
    BY <2>2 DEF Answers
  <2>4. /\ NoAnswer' <=> NoAnswer
        /\ OneAnswer(SET_BLOCKLEN)' <=> OneAnswer(SET_BLOCKLEN)
        /\ OneAnswer(STOP_TRANSMISSION)' <=> OneAnswer(STOP_TRANSMISSION)
        /\ OneAnswer(SEND_STATUS)' <=> OneAnswer(SEND_STATUS)
    BY <1>1, <2>3 DEF NoAnswer, OneAnswer
  <2>5. Judged(SET_BLOCKLEN)' <=> Judged(SET_BLOCKLEN)
    BY <1>1, <2>2 DEF Judged
  <2>6. pc = "idle" => AtIdle'
    BY <1>1, <1>2, <2>4 DEF AnswerInv, AtIdle
  <2>7. pc = "blocklen" => AtBlockLen'
    BY <1>1, <2>1, <2>4, <2>5 DEF AnswerInv, AtBlockLen
  <2>8. pc = "stop" => AtStop'
    BY <1>2, <2>4 DEF AnswerInv, AtStop
  <2>9. pc = "programming" => AtProgramming'
    BY <1>2, <2>4 DEF AnswerInv, AtProgramming
  <2> QED
    BY <1>1, <2>1, <2>6, <2>7, <2>8, <2>9 DEF AnswerInv
<1>5. CASE Programmed
  <2>1. card.state = "prg" /\ card'.state = "tran" /\ UNCHANGED <<sta, dpsm>>
    BY <1>5 DEF Programmed, TypeInv, TypeOK
  <2>2. pc = "idle" => AtIdle'
    BY <1>1, <1>2, <2>1 DEF AnswerInv, AtIdle, NoAnswer
  <2>3. pc = "blocklen" => AtBlockLen'
    BY <1>1, <2>1 DEF AnswerInv, AtBlockLen, OneAnswer, NoAnswer
  <2>4. pc = "command" => AtCommand'
    <3>1. OneAnswer(TransferCommand)' <=> OneAnswer(TransferCommand)
      BY <1>1, <1>2, <2>1 DEF OneAnswer, NoAnswer
    <3>2. Judged(TransferCommand)' <=> Judged(TransferCommand)
      BY <1>1, <1>2, <2>1 DEF Judged
    <3>3. pc = "command" /\ wire = << >> => ~Judged(TransferCommand)
      BY <2>1 DEF AnswerInv, AtCommand
    <3>4. pc = "command" => wire = << >>
      BY <2>1 DEF AnswerInv, AtCommand
    <3> QED
      BY <1>1, <1>2, <2>1, <3>1, <3>2, <3>3, <3>4 DEF AnswerInv, AtCommand
  <2>5. pc = "data" => AtData'
    BY <1>1, <1>2, <2>1 DEF AnswerInv, AtData, InStep, NoAnswer
  <2>6. pc = "stop" => AtStop'
    BY <1>1, <1>2, <2>1 DEF AnswerInv, AtStop, OneAnswer, NoAnswer
  <2>7. pc = "programming" => AtProgramming'
    BY <1>1, <1>2, <2>1 DEF AnswerInv, AtProgramming, OneAnswer, NoAnswer
  <2> QED
    BY <1>1, <2>2, <2>3, <2>4, <2>5, <2>6, <2>7 DEF AnswerInv
<1> QED
  BY <1>3, <1>4, <1>5

-----------------------------------------------------------------------------
(* The theorems.                                                           *)

LEMMA InitAnswer == Init => AnswerInv
BY DEF Init, AnswerInv, AtIdle, NoAnswer

LEMMA StepAnswer == TypeInv /\ AnswerInv /\ [Next]_vars => AnswerInv'
<1> SUFFICES ASSUME TypeInv, AnswerInv, [Next]_vars PROVE AnswerInv'
  OBVIOUS
<1>1. CASE Calls
  BY <1>1, CallsStart, StartAnswer
<1>2. CASE Driver
  BY <1>2, BlockLenAnswer, CommandAnswer, DataDoneAnswer, StopAnswer,
     ProgrammingAnswer DEF Driver
<1>3. CASE Answer
  BY <1>3, AnswerAnswer
<1>4. CASE BlockIn \/ BlockOut
  BY <1>4, BlockAnswer
<1>5. CASE BlockLost \/ DataTimeout \/ Programmed
  BY <1>5, StillAnswer
<1>6. CASE UNCHANGED vars
  <2>1. UNCHANGED <<pc, call, ok, unread, sta, resp, wire, dpsm, card, moved>>
    BY <1>6 DEF vars
  <2> QED
    BY <2>1 DEF AnswerInv, AtIdle, AtBlockLen, AtCommand, AtData, AtStop,
       AtProgramming, InStep, InOrder, OneAnswer, NoAnswer, Judged, Single,
       Reading, Multi, TransferCommand
<1> QED
  BY <1>1, <1>2, <1>3, <1>4, <1>5, <1>6 DEF Next, Hardware

\* A wait never ends while its own command is still on the line, except after a
\* single-block read whose answer was never read (SD_CmdResp1Error).
THEOREM OwnAnswerAlways == Spec => []OwnAnswer
<1>1. TypeInv /\ AnswerInv => OwnAnswer
  <2> SUFFICES ASSUME TypeInv, AnswerInv, Waited # 0, Answered, ~unread,
                      NEW i \in DOMAIN wire
               PROVE  FALSE
    BY DEF OwnAnswer
  <2>1. wire = << >>
    BY JudgedLeaves DEF Waited, AnswerInv, AtBlockLen, AtCommand, AtStop,
       AtProgramming, TypeInv, TypeOK
  <2> QED
    BY <2>1
<1> QED
  BY <1>1, InitTyped, StepTyped, InitAnswer, StepAnswer, PTL DEF Spec

\* A call that returns SD_OK has moved all its blocks, each at its own place
\* (HAL_SD_ReadBlocks, HAL_SD_WriteBlocks), with the same exception.
THEOREM OkMovedAlways == Spec => []OkMoved
<1>1. TypeInv /\ AnswerInv => OkMoved
  <2> SUFFICES ASSUME TypeInv, AnswerInv, pc = "idle", ok, ~unread, call.n > 0
               PROVE  moved = [i \in 1 .. call.n |-> call.first + i - 1]
    BY DEF OkMoved
  <2>1. InOrder(call.n)
    BY DEF AnswerInv, AtIdle
  <2>2. moved \in Seq(Nat)
    BY DEF TypeInv, TypeOK
  <2>3. moved = [i \in 1 .. Len(moved) |-> moved[i]]
    BY <2>2
  <2> QED
    BY <2>1, <2>3 DEF InOrder
<1> QED
  BY <1>1, InitTyped, StepTyped, InitAnswer, StepAnswer, PTL DEF Spec

=============================================================================
