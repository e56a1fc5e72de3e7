---------------------------- MODULE DcmiCapture ----------------------------
(***************************************************************************)
(* Capture of a camera frame: the DCMI driver (stm32f4xx_hal_dcmi.c) and   *)
(* the DMA driver below it (stm32f4xx_hal_dma.c, stm32f4xx_hal_dma_ex.c),  *)
(* with the camera and the two peripherals in front and main() behind.     *)
(*                                                                         *)
(* A destination of more than MaxItems words is cut into an even number of *)
(* buffers of equal size.  The stream fills two of them in turn, M0 and    *)
(* M1, while its interrupt handler moves the target it does not fill on,   *)
(* so that the buffers are meant to be one ring.                           *)
(*                                                                         *)
(* Both interrupts have the same priority, so a handler is one step,       *)
(* written as a function of the record dev: the two handles and the        *)
(* registers of the two peripherals.  The peripherals run beside the       *)
(* handlers, and a handler may come late.  Addresses count words.          *)
(***************************************************************************)
EXTENDS Integers

CONSTANTS
  MaxItems,    \* the most a stream transfers at once: 0xFFFF
  Lengths,     \* the lengths HAL_DCMI_Start_DMA is called with
  Base,        \* pData
  FrameWords,  \* words in a frame of the camera
  Faults       \* what may go wrong: a subset of {"OVF", "TE", "FE"}

\* How often a length is halved until it fits, and what that makes.
Halvings(len) ==
  CHOOSE k \in 0 .. len : /\ len \div 2^k <= MaxItems
                          /\ \A j \in 0 .. k - 1 : len \div 2^j > MaxItems
Buffers(len) == 2^Halvings(len)
Size(len) == len \div Buffers(len)

ASSUME CaptureAssumption ==
  /\ MaxItems \in Nat \ {0}
  /\ Lengths \subseteq Nat \ {0}
  /\ Base \in Nat
  /\ FrameWords \in Nat \ {0}
  /\ Faults \subseteq {"OVF", "TE", "FE"}

\* Too long a length is cut into an even number of buffers, none empty.
ASSUME HalvingAssumption ==
  \A len \in Lengths : len > MaxItems =>
    /\ Buffers(len) \in Nat \ {0}
    /\ Buffers(len) % 2 = 0
    /\ Size(len) \in Nat \ {0}

VARIABLES
  dev,    \* hdcmi, hdma_dcmi, their peripherals and flag_frame_end
  cam,    \* the camera: words of the frame sent; is the frame captured?
  main,   \* where main() is
  ring,   \* history: the words of the ring, 0 before the start
  pos,    \* history: words stored since the start, modulo the ring
  words,  \* history: the same, up to a frame
  late    \* history: has the handler missed a full buffer?

vars == <<dev, cam, main, ring, pos, words, late>>

DcmiFlags == {"ERR", "OVF", "LINE", "VSYNC", "FRAME"}

-----------------------------------------------------------------------------
(* The DMA driver.                                                         *)

\* Mutant: the stream goes on.
Abort_Keeps(d) == [d EXCEPT !.dmaLock = FALSE]

\* The hardware reports the end of a transfer that is cut short as well.
HAL_DMA_Abort(d) ==
  [d EXCEPT !.en = FALSE, !.tc = @ \/ d.en, !.dmaLock = FALSE]

HAL_DMA_Start_IT(d, dst, len) ==
  IF d.dmaLock THEN d
  ELSE [d EXCEPT !.dmaLock = TRUE, !.m0 = dst, !.ndt = len, !.ndtr = len,
                 !.dmaIE = {"TE", "FE"}, !.en = TRUE]

HAL_DMAEx_MultiBufferStart_IT(d, dst, second, len) ==
  IF d.dmaLock THEN d
  ELSE [HAL_DMA_Start_IT(d, dst, len) EXCEPT !.dbm = TRUE, !.m1 = second]

-----------------------------------------------------------------------------
(* The DCMI driver.                                                        *)

HAL_DCMI_Start_DMA(d, len) ==
  LET b == [d EXCEPT !.Lock = TRUE, !.State = "BUSY"]
      n == [b EXCEPT !.XferSize = Size(len), !.XferCount = Buffers(len) - 2,
                     !.XferTransferNumber = Buffers(len) - 2,
                     !.pBuffPtr = Base]
      started == IF len <= MaxItems
                 THEN HAL_DMA_Start_IT(b, Base, len)
                 ELSE HAL_DMAEx_MultiBufferStart_IT(n, Base, Base + n.XferSize,
                                                    n.XferSize)
  IN  IF d.Lock THEN d ELSE [started EXCEPT !.capture = TRUE]

HAL_DCMI_Stop(d) ==
  [HAL_DMA_Abort([d EXCEPT !.dcmien = FALSE, !.capture = FALSE])
     EXCEPT !.State = "READY", !.Lock = FALSE]

\* main.c: the callback clears the flag main() waits for.
HAL_DCMI_FrameEventCallback(d) == [d EXCEPT !.flag_frame_end = FALSE]

\* Mutants: the round is never closed; a completed buffer passes for the end
\* of the frame.
Retarget_NoWrap(d) ==
  IF d.ct = 1
  THEN [d EXCEPT !.m0 = @ + 2 * d.XferSize, !.XferCount = @ - 1]
  ELSE [d EXCEPT !.m1 = @ + 2 * d.XferSize, !.XferCount = @ - 1]
FrameDone_Always(d) == TRUE

\* DCMI_DMAConvCplt: the target the stream has left moves on by two buffers,
\* and back to the first two at the end of the round.
Retarget(d) ==
  CASE d.XferCount # 0 /\ d.XferCount % 2 = 0 /\ d.ct = 1 ->
         [d EXCEPT !.m0 = @ + 2 * d.XferSize, !.XferCount = @ - 1]
    [] d.XferCount # 0 /\ d.ct = 0 ->
         [d EXCEPT !.m1 = @ + 2 * d.XferSize, !.XferCount = @ - 1]
    [] d.XferCount = 0 /\ d.ct = 1 -> [d EXCEPT !.m0 = d.pBuffPtr]
    [] d.XferCount = 0 /\ d.ct = 0 ->
         [d EXCEPT !.m1 = d.pBuffPtr + d.XferSize,
                   !.XferCount = d.XferTransferNumber]
    [] OTHER -> d

FrameDone(d) == "FRAME" \in d.ris

\* The raw flag, whether or not its interrupt is enabled, and not cleared.
DCMI_DMAConvCplt(d) ==
  LET r == Retarget([d EXCEPT !.State = "READY"])
  IN  IF FrameDone(r)
      THEN HAL_DCMI_FrameEventCallback([r EXCEPT !.Lock = FALSE])
      ELSE r

\* The errors first, each reported once; then the end of a buffer.  Without
\* double buffering the end of a transfer frees the handle of the stream.
HAL_DMA_IRQHandler(d) ==
  LET e == d.dmaRis \cap d.dmaIE
      c == IF e = {} THEN d
           ELSE [d EXCEPT !.dmaRis = @ \ e, !.dmaIE = @ \ e, !.dmaLock = FALSE,
                          !.dmaError = @ \cup e, !.State = "READY"]
      f == [c EXCEPT !.tc = FALSE, !.dmaLock = @ /\ c.dbm]
  IN  IF c.tc THEN DCMI_DMAConvCplt(f) ELSE c

\* The five parts of HAL_DCMI_IRQHandler.
Pending(d, f) == f \in d.ris \cap d.ie

ServeError(d, f) ==
  IF Pending(d, f)
  THEN HAL_DMA_Abort([d EXCEPT !.ie = @ \ {f}, !.ris = @ \ {f},
                               !.ErrorCode = @ \cup {f}, !.State = "ERROR",
                               !.Lock = FALSE])
  ELSE d

ServeLine(d) ==
  IF Pending(d, "LINE") THEN [d EXCEPT !.ris = @ \ {"LINE"}, !.Lock = FALSE]
  ELSE d

\* VSYNC and FRAME are served once: the interrupt is disabled.
ServeOnce(d, f) ==
  IF Pending(d, f)
  THEN [d EXCEPT !.ie = @ \ {f}, !.ris = @ \ {f}, !.Lock = FALSE]
  ELSE d

\* Mutant: the callback is lost.
ServeFrame_NoEvent(d) == ServeOnce(d, "FRAME")

ServeFrame(d) ==
  IF Pending(d, "FRAME")
  THEN HAL_DCMI_FrameEventCallback(ServeOnce(d, "FRAME")) ELSE d

HAL_DCMI_IRQHandler(d) ==
  ServeFrame(ServeOnce(ServeLine(ServeError(ServeError(d, "ERR"), "OVF")),
                       "VSYNC"))

-----------------------------------------------------------------------------
(* The steps of the processor.                                             *)

\* HAL_DCMI_Init has run: all interrupts of the DCMI are enabled.
Init ==
  /\ dev = [State |-> "READY", Lock |-> FALSE, ErrorCode |-> {},
            XferCount |-> 0, XferSize |-> 0, XferTransferNumber |-> 0,
            pBuffPtr |-> 0,
            dmaLock |-> FALSE, en |-> FALSE, dbm |-> FALSE, ct |-> 0,
            ndt |-> 0, ndtr |-> 0, m0 |-> 0, m1 |-> 0, tc |-> FALSE,
            dmaRis |-> {}, dmaIE |-> {}, dmaError |-> {},
            dcmien |-> TRUE, capture |-> FALSE, ris |-> {}, ie |-> DcmiFlags,
            flag_frame_end |-> FALSE]
  /\ cam = [sent |-> 0, grab |-> FALSE]
  /\ main = "start"
  /\ ring = 0
  /\ pos = 0
  /\ words = 0
  /\ late = FALSE

history == <<ring, pos, words, late>>

\* main() sets its flag and starts a snapshot, whatever the call returns.
MainStart ==
  /\ main = "start"
  /\ main' = "wait"
  /\ \E len \in Lengths :
       /\ dev' = HAL_DCMI_Start_DMA([dev EXCEPT !.flag_frame_end = TRUE], len)
       /\ ring' = IF len <= MaxItems THEN len ELSE Buffers(len) * Size(len)
  /\ UNCHANGED <<cam, pos, words, late>>

\* main() leaves its loop and prints what is in the buffer.
MainPrint ==
  /\ main = "wait"
  /\ ~dev.flag_frame_end
  /\ main' = "print"
  /\ UNCHANGED <<dev, cam, history>>

\* The driver's documented end of a capture.
MainStop ==
  /\ main = "print"
  /\ main' = "stopped"
  /\ dev' = HAL_DCMI_Stop(dev)
  /\ UNCHANGED <<cam, history>>

DmaInterrupt ==
  /\ dev.tc \/ dev.dmaRis \cap dev.dmaIE # {}
  /\ dev' = HAL_DMA_IRQHandler(dev)
  /\ UNCHANGED <<cam, main, history>>

DcmiInterrupt ==
  /\ dev.ris \cap dev.ie # {}
  /\ dev' = HAL_DCMI_IRQHandler(dev)
  /\ UNCHANGED <<cam, main, history>>

-----------------------------------------------------------------------------
(* The peripherals and the camera.                                         *)

\* A capture begins with the next frame.
FrameStart ==
  /\ cam.sent = 0
  /\ ~cam.grab
  /\ dev.dcmien /\ dev.capture
  /\ cam' = [cam EXCEPT !.grab = TRUE]
  /\ dev' = [dev EXCEPT !.ris = @ \cup {"VSYNC"}]
  /\ UNCHANGED <<main, history>>

Grabbing == cam.grab /\ dev.dcmien /\ cam.sent < FrameWords

\* The word the stream stores next goes here.
Target == (IF dev.ct = 0 THEN dev.m0 ELSE dev.m1) + (dev.ndt - dev.ndtr)

\* The stream stores a word.  At the end of a buffer it starts again, with
\* the other target when there are two.
Stored(d) ==
  IF d.ndtr > 1 THEN [d EXCEPT !.ndtr = @ - 1]
  ELSE [d EXCEPT !.ndtr = d.ndt, !.tc = TRUE,
                 !.ct = IF d.dbm THEN 1 - @ ELSE @]

LineEnds == {{}, {"LINE"}}

Word ==
  /\ Grabbing
  /\ dev.en
  /\ cam' = [cam EXCEPT !.sent = @ + 1]
  /\ \E l \in LineEnds : dev' = [Stored(dev) EXCEPT !.ris = @ \cup l]
  /\ pos' = IF pos + 1 = ring THEN 0 ELSE pos + 1
  /\ words' = IF words < FrameWords THEN words + 1 ELSE words
  /\ late' = (late \/ (dev.tc /\ dev.ndtr = 1))
  /\ UNCHANGED <<main, ring>>

\* The stream does not take a word in time, or does not run: it is lost.
LostWord ==
  /\ Grabbing
  /\ "OVF" \in Faults \/ ~dev.en
  /\ cam' = [cam EXCEPT !.sent = @ + 1]
  /\ dev' = [dev EXCEPT !.ris = @ \cup {"OVF"}]
  /\ UNCHANGED <<main, history>>

\* A transfer error disables the stream; a FIFO error does not.
DmaFault ==
  /\ dev.en
  /\ \E f \in Faults \cap {"TE", "FE"} :
       dev' = [dev EXCEPT !.dmaRis = @ \cup {f}, !.en = (f # "TE")]
  /\ UNCHANGED <<cam, main, history>>

\* The end of the frame ends a snapshot.
FrameEnd ==
  /\ cam.sent = FrameWords
  /\ cam' = [sent |-> 0, grab |-> FALSE]
  /\ dev' = [dev EXCEPT !.capture = FALSE, !.ris = @ \cup {"FRAME"}]
  /\ UNCHANGED <<main, history>>

Camera == FrameStart \/ Word \/ LostWord \/ FrameEnd

Next ==
  \/ MainStart
  \/ MainPrint
  \/ MainStop
  \/ DmaInterrupt
  \/ DcmiInterrupt
  \/ Camera
  \/ DmaFault

Spec == Init /\ [][Next]_vars

\* The camera sends its frames, and pending interrupts are served.
Fairness ==
  /\ WF_vars(MainStart)
  /\ WF_vars(MainPrint)
  /\ WF_vars(DmaInterrupt)
  /\ WF_vars(DcmiInterrupt)
  /\ WF_vars(Camera)

FairSpec == Spec /\ Fairness

-----------------------------------------------------------------------------
(* Properties.                                                             *)

DevType ==
  [State : {"READY", "BUSY", "ERROR"}, Lock : BOOLEAN,
   ErrorCode : SUBSET {"ERR", "OVF"}, XferCount : Nat, XferSize : Nat,
   XferTransferNumber : Nat, pBuffPtr : Nat, dmaLock : BOOLEAN, en : BOOLEAN,
   dbm : BOOLEAN, ct : {0, 1}, ndt : Nat, ndtr : Nat, m0 : Nat, m1 : Nat,
   tc : BOOLEAN, dmaRis : SUBSET {"TE", "FE"}, dmaIE : SUBSET {"TE", "FE"},
   dmaError : SUBSET {"TE", "FE"}, dcmien : BOOLEAN, capture : BOOLEAN,
   ris : SUBSET DcmiFlags, ie : SUBSET DcmiFlags, flag_frame_end : BOOLEAN]

\* Every variable keeps its type; XferCount never goes below zero, however
\* late the handler of the stream is served.
TypeOK ==
  /\ dev \in DevType
  /\ cam \in [sent : 0 .. FrameWords, grab : BOOLEAN]
  /\ main \in {"start", "wait", "print", "stopped"}
  /\ ring \in Nat
  /\ pos \in Nat
  /\ words \in 0 .. FrameWords
  /\ late \in BOOLEAN

\* While no full buffer has been missed by the handler, the words land in one
\* ring, in order: the two targets and the two callbacks of the stream act as
\* the one buffer pData .. pData + Length that was asked for.
RingOrder == dev.en /\ ~late => Target = Base + pos

\* main() prints only when a whole frame has been stored, unless the driver
\* has an error to report.
PrintsWholeFrame ==
  main = "print" /\ dev.ErrorCode = {} /\ dev.dmaError = {}
    /\ dev.ris \cap {"OVF"} = {} /\ dev.dmaRis = {} => words = FrameWords

\* After an overflow is reported, or after a stop, nothing more is stored,
\* though the camera goes on and interrupts of the transfer still come.
Quiet ==
  [][dev.ErrorCode # {} \/ main = "stopped" => pos' = pos /\ words' = words]_vars

\* main() does not wait for ever: the end of the frame is reported, also when
\* the stream failed or words were lost.
MainLeaves == main = "wait" ~> main = "print"
=============================================================================
