------------------------- MODULE DcmiCaptureProofs -------------------------
(***************************************************************************)
(* Proofs about DcmiCapture, for every length, number of buffers and frame *)
(* size: the words of a capture land in one ring as long as no full buffer *)
(* is missed, nothing is stored after an overflow or a stop, and main()    *)
(* prints a whole frame or has an error to look at.                        *)
(***************************************************************************)
EXTENDS DcmiCapture, TLAPS

-----------------------------------------------------------------------------
(* The inductive invariant.                                                *)

\* Before main() starts the capture nothing has happened.
Fresh ==
  main = "start" =>
    /\ dev.ris = {} /\ dev.dmaRis = {} /\ ~dev.tc /\ ~dev.capture /\ ~dev.en
    /\ ~dev.Lock /\ ~dev.dmaLock /\ ~dev.dbm /\ dev.ct = 0
    /\ dev.XferCount = 0 /\ dev.ErrorCode = {}
    /\ cam.sent = 0 /\ ~cam.grab /\ pos = 0

\* One buffer: the stream never uses its second target.
OneBuffer(d, p, r) ==
  /\ ~d.dbm /\ d.ct = 0
  /\ d.m0 = Base /\ d.ndt = r /\ d.ndtr \in 1 .. r
  /\ p = r - d.ndtr

\* What XferCount is while buffer c is filled and the next one is known.
Left(n, c) == IF c <= n - 2 THEN n - 2 - c ELSE 0

\* Where the buffers after and before the one at offset o begin.
After(n, s, r, c, o) == IF c = n - 1 THEN 0 ELSE o + s
Before(n, s, r, c, o) == IF c = 0 THEN r - s ELSE o - s
Previous(n, c) == IF c = 0 THEN n - 1 ELSE c - 1

Filled(d) == IF d.ct = 0 THEN d.m0 ELSE d.m1
Spare(d) == IF d.ct = 0 THEN d.m1 ELSE d.m0

\* Buffer c of n, each of s words, is being filled; it begins at offset o.
\* Until the handler has served the end of the one before, the spare target
\* still points there.
Filling(d, p, r, n, s, c, o) ==
  /\ n \in Nat /\ n >= 2 /\ n % 2 = 0 /\ s \in Nat /\ s >= 1
  /\ c \in 0 .. n - 1 /\ o \in Nat /\ o = c * s /\ r = n * s
  /\ d.dbm /\ d.XferSize = s /\ d.XferTransferNumber = n - 2
  /\ d.pBuffPtr = Base /\ d.ndt = s /\ d.ndtr \in 1 .. s
  /\ d.ct = c % 2 /\ p = o + (s - d.ndtr)
  /\ Filled(d) = Base + o
  /\ ~d.tc => /\ Spare(d) = Base + After(n, s, r, c, o)
              /\ d.XferCount = Left(n, c)
  /\ d.tc => /\ Spare(d) = Base + Before(n, s, r, c, o)
             /\ d.XferCount = Left(n, Previous(n, c))

ManyBuffers(d, p, r) ==
  \E n, s, c, o \in Nat : Filling(d, p, r, n, s, c, o)

RingState(d, p, r) == OneBuffer(d, p, r) \/ ManyBuffers(d, p, r)

RingInv == dev.en /\ ~late => RingState(dev, pos, ring)

\* Nothing runs after an overflow was reported or the capture stopped.
Still == dev.ErrorCode # {} \/ main = "stopped" => ~dev.en

Inv == TypeOK /\ Fresh /\ RingInv /\ Still

-----------------------------------------------------------------------------
(* Every handler maps a well-typed record to a well-typed one.             *)

LEMMA AbortType ==
  ASSUME NEW d \in DevType
  PROVE  HAL_DMA_Abort(d) \in DevType
BY DEF HAL_DMA_Abort, DevType

LEMMA ServeErrorType ==
  ASSUME NEW d \in DevType, NEW f \in {"ERR", "OVF"}
  PROVE  ServeError(d, f) \in DevType
<1> DEFINE e == [d EXCEPT !.ie = @ \ {f}, !.ris = @ \ {f},
                          !.ErrorCode = @ \cup {f}, !.State = "ERROR",
                          !.Lock = FALSE]
<1>1. e \in DevType
  BY DEF DevType
<1> HIDE DEF e
<1>2. HAL_DMA_Abort(e) \in DevType
  BY <1>1, AbortType
<1> QED
  BY <1>2 DEF ServeError, e

LEMMA ServeOnceType ==
  ASSUME NEW d \in DevType, NEW f
  PROVE  ServeOnce(d, f) \in DevType
<1>1. [d EXCEPT !.ie = @ \ {f}, !.ris = @ \ {f}, !.Lock = FALSE] \in DevType
  BY DEF DevType
<1> QED
  BY <1>1 DEF ServeOnce

LEMMA ServeLineType ==
  ASSUME NEW d \in DevType
  PROVE  ServeLine(d) \in DevType
<1>1. [d EXCEPT !.ris = @ \ {"LINE"}, !.Lock = FALSE] \in DevType
  BY DEF DevType
<1> QED
  BY <1>1 DEF ServeLine

LEMMA CallbackType ==
  ASSUME NEW d \in DevType
  PROVE  HAL_DCMI_FrameEventCallback(d) \in DevType
BY DEF HAL_DCMI_FrameEventCallback, DevType

LEMMA ServeFrameType ==
  ASSUME NEW d \in DevType
  PROVE  ServeFrame(d) \in DevType
BY ServeOnceType, CallbackType DEF ServeFrame

LEMMA DcmiType ==
  ASSUME NEW d \in DevType
  PROVE  HAL_DCMI_IRQHandler(d) \in DevType
BY ServeErrorType, ServeLineType, ServeOnceType, ServeFrameType
   DEF HAL_DCMI_IRQHandler

LEMMA RetargetType ==
  ASSUME NEW d \in DevType
  PROVE  Retarget(d) \in DevType
<1>1. /\ d.XferCount \in Nat /\ d.XferSize \in Nat /\ d.m0 \in Nat
      /\ d.m1 \in Nat /\ d.pBuffPtr \in Nat /\ d.XferTransferNumber \in Nat
  BY DEF DevType
<1>2. /\ d.m0 + 2 * d.XferSize \in Nat /\ d.m1 + 2 * d.XferSize \in Nat
      /\ d.pBuffPtr + d.XferSize \in Nat
      /\ d.XferCount # 0 => d.XferCount - 1 \in Nat
  BY <1>1
<1>3. \A a, x \in Nat :
        /\ [d EXCEPT !.m0 = a, !.XferCount = x] \in DevType
        /\ [d EXCEPT !.m1 = a, !.XferCount = x] \in DevType
        /\ [d EXCEPT !.m0 = a] \in DevType
  BY DEF DevType
<1> DEFINE a0 == d.m0 + 2 * d.XferSize
           a1 == d.m1 + 2 * d.XferSize
           a2 == d.pBuffPtr + d.XferSize
           x == d.XferCount - 1
<1>4. \/ /\ Retarget(d) \in {[d EXCEPT !.m0 = a0, !.XferCount = x],
                             [d EXCEPT !.m1 = a1, !.XferCount = x]}
         /\ d.XferCount # 0
      \/ Retarget(d) \in {[d EXCEPT !.m0 = d.pBuffPtr], d,
            [d EXCEPT !.m1 = a2, !.XferCount = d.XferTransferNumber]}
  BY <1>1 DEF Retarget
<1>5. a0 \in Nat /\ a1 \in Nat /\ a2 \in Nat /\ (d.XferCount # 0 => x \in Nat)
  BY <1>2
<1> HIDE DEF a0, a1, a2, x
<1>6. CASE /\ d.XferCount # 0
           /\ Retarget(d) \in {[d EXCEPT !.m0 = a0, !.XferCount = x],
                               [d EXCEPT !.m1 = a1, !.XferCount = x]}
  BY <1>3, <1>5, <1>6
<1>7. CASE Retarget(d) \in {[d EXCEPT !.m0 = d.pBuffPtr], d,
             [d EXCEPT !.m1 = a2, !.XferCount = d.XferTransferNumber]}
  <2> DEFINE q == d.pBuffPtr
             n == d.XferTransferNumber
  <2>1. q \in Nat /\ n \in Nat
    BY <1>1
  <2> HIDE DEF q, n
  <2>2. [d EXCEPT !.m0 = q] \in DevType
    BY <1>3, <2>1
  <2>3. [d EXCEPT !.m1 = a2, !.XferCount = n] \in DevType
    BY <1>3, <1>5, <2>1
  <2> QED
    BY <1>7, <2>2, <2>3 DEF q, n
<1> QED
  BY <1>4, <1>6, <1>7

LEMMA ConvType ==
  ASSUME NEW d \in DevType
  PROVE  DCMI_DMAConvCplt(d) \in DevType
<1> DEFINE b == [d EXCEPT !.State = "READY"]
           r == Retarget(b)
<1>1. b \in DevType
  BY DEF DevType
<1> HIDE DEF b
<1>2. r \in DevType
  BY <1>1, RetargetType
<1> HIDE DEF r
<1>3. [r EXCEPT !.Lock = FALSE] \in DevType
  BY <1>2 DEF DevType
<1> QED
  BY <1>2, <1>3, CallbackType DEF DCMI_DMAConvCplt, r, b

\* The record after the errors of the stream are served, and after its flag
\* is cleared: the two stages of HAL_DMA_IRQHandler.
Errors(d) == d.dmaRis \cap d.dmaIE
Reported(d) ==
  IF Errors(d) = {} THEN d
  ELSE [d EXCEPT !.dmaRis = @ \ Errors(d), !.dmaIE = @ \ Errors(d),
                 !.dmaLock = FALSE, !.dmaError = @ \cup Errors(d),
                 !.State = "READY"]
Cleared(d) == [d EXCEPT !.tc = FALSE, !.dmaLock = @ /\ d.dbm]

LEMMA DmaStages ==
  ASSUME NEW d
  PROVE  HAL_DMA_IRQHandler(d) =
           IF Reported(d).tc THEN DCMI_DMAConvCplt(Cleared(Reported(d)))
           ELSE Reported(d)
BY DEF HAL_DMA_IRQHandler, Reported, Cleared, Errors

LEMMA ClearedType ==
  ASSUME NEW d \in DevType
  PROVE  Cleared(d) \in DevType
<1>1. (d.dmaLock /\ d.dbm) \in BOOLEAN
  OBVIOUS
<1> QED
  BY <1>1 DEF Cleared, DevType

LEMMA DmaType ==
  ASSUME NEW d \in DevType
  PROVE  HAL_DMA_IRQHandler(d) \in DevType
<1>1. Errors(d) \subseteq {"TE", "FE"}
  BY DEF Errors, DevType
<1>2. Reported(d) \in DevType
  <2> DEFINE e == Errors(d)
  <2>1. [d EXCEPT !.dmaRis = @ \ e, !.dmaIE = @ \ e, !.dmaLock = FALSE,
                  !.dmaError = @ \cup e, !.State = "READY"] \in DevType
    <3> HIDE DEF e
    <3> QED
      BY <1>1 DEF DevType, e
  <2> QED
    BY <2>1 DEF Reported
<1> QED
  BY <1>2, ClearedType, ConvType, DmaStages

LEMMA StartType ==
  ASSUME NEW d \in DevType, NEW len \in Lengths
  PROVE  HAL_DCMI_Start_DMA(d, len) \in DevType
<1> DEFINE b == [d EXCEPT !.Lock = TRUE, !.State = "BUSY"]
           nb == Buffers(len)
           sz == Size(len)
           n == [b EXCEPT !.XferSize = sz, !.XferCount = nb - 2,
                          !.XferTransferNumber = nb - 2, !.pBuffPtr = Base]
           one == HAL_DMA_Start_IT(b, Base, len)
           two == HAL_DMAEx_MultiBufferStart_IT(n, Base, Base + n.XferSize,
                                                n.XferSize)
<1>1. len \in Nat /\ Base \in Nat
  BY CaptureAssumption
<1>2. b \in DevType
  BY DEF DevType
<1>3. \A e \in DevType, x, y \in Nat : HAL_DMA_Start_IT(e, x, y) \in DevType
  <2> TAKE e \in DevType, x, y \in Nat
  <2>1. [e EXCEPT !.dmaLock = TRUE, !.m0 = x, !.ndt = y, !.ndtr = y,
                  !.dmaIE = {"TE", "FE"}, !.en = TRUE] \in DevType
    BY DEF DevType
  <2> QED
    BY <2>1 DEF HAL_DMA_Start_IT
<1>4. \A e \in DevType, y \in Nat :
        [e EXCEPT !.dbm = TRUE, !.m1 = y] \in DevType
  BY DEF DevType
<1>5. \A e \in DevType : [e EXCEPT !.capture = TRUE] \in DevType
  BY DEF DevType
<1>6. one \in DevType
  <2> HIDE DEF b
  <2> QED
    BY <1>1, <1>2, <1>3
<1>7. len > MaxItems => two \in DevType
  <2> SUFFICES ASSUME len > MaxItems PROVE two \in DevType
    OBVIOUS
  <2>1. nb \in Nat \ {0} /\ nb % 2 = 0 /\ sz \in Nat
    BY HalvingAssumption
  <2> HIDE DEF nb, sz
  <2>2. nb - 2 \in Nat
    BY <2>1
  <2> DEFINE k == nb - 2
  <2> HIDE DEF k
  <2>3. n \in DevType
    <3>1. k \in Nat
      BY <2>2 DEF k
    <3>2. [b EXCEPT !.XferSize = sz, !.XferCount = k,
                    !.XferTransferNumber = k, !.pBuffPtr = Base] \in DevType
      <4> HIDE DEF b
      <4> QED
        BY <1>1, <1>2, <2>1, <3>1 DEF DevType
    <3> QED
      BY <3>2 DEF k
  <2> HIDE DEF n
  <2>4. n.XferSize \in Nat /\ Base + n.XferSize \in Nat
    <3>1. n.XferSize \in Nat
      BY <2>3 DEF DevType
    <3> QED
      BY <1>1, <3>1
  <2>5. HAL_DMA_Start_IT(n, Base, n.XferSize) \in DevType
    BY <1>1, <1>3, <2>3, <2>4
  <2> QED
    BY <1>4, <2>3, <2>4, <2>5 DEF HAL_DMAEx_MultiBufferStart_IT
<1> HIDE DEF one, two
<1>8. HAL_DCMI_Start_DMA(d, len) =
        IF d.Lock THEN d
        ELSE [(IF len <= MaxItems THEN one ELSE two) EXCEPT !.capture = TRUE]
  BY DEF HAL_DCMI_Start_DMA, one, two
<1>9. (IF len <= MaxItems THEN one ELSE two) \in DevType
  BY <1>1, <1>6, <1>7, CaptureAssumption
<1> QED
  BY <1>5, <1>8, <1>9

LEMMA StopType ==
  ASSUME NEW d \in DevType
  PROVE  HAL_DCMI_Stop(d) \in DevType
<1> DEFINE e == HAL_DMA_Abort([d EXCEPT !.dcmien = FALSE, !.capture = FALSE])
<1>1. [d EXCEPT !.dcmien = FALSE, !.capture = FALSE] \in DevType
  BY DEF DevType
<1>2. e \in DevType
  BY <1>1, AbortType
<1> HIDE DEF e
<1>3. [e EXCEPT !.State = "READY", !.Lock = FALSE] \in DevType
  BY <1>2 DEF DevType
<1> QED
  BY <1>3 DEF HAL_DCMI_Stop, e

LEMMA StoredType ==
  ASSUME NEW d \in DevType
  PROVE  Stored(d) \in DevType
<1>1. d.ndtr \in Nat /\ d.ndt \in Nat /\ d.ct \in {0, 1}
  BY DEF DevType
<1> DEFINE x == d.ndtr - 1
           y == d.ndt
           t == IF d.dbm THEN 1 - d.ct ELSE d.ct
<1>2. (d.ndtr > 1 => x \in Nat) /\ y \in Nat /\ t \in {0, 1}
  BY <1>1
<1>3. Stored(d) = IF d.ndtr > 1 THEN [d EXCEPT !.ndtr = x]
                  ELSE [d EXCEPT !.ndtr = y, !.tc = TRUE, !.ct = t]
  BY DEF Stored
<1> HIDE DEF x, y, t
<1>4. x \in Nat => [d EXCEPT !.ndtr = x] \in DevType
  BY DEF DevType
<1>5. [d EXCEPT !.ndtr = y, !.tc = TRUE, !.ct = t] \in DevType
  BY <1>2 DEF DevType
<1> QED
  BY <1>2, <1>3, <1>4, <1>5

-----------------------------------------------------------------------------
(* What the handlers leave alone.                                          *)

\* The two records say the same of the transfer.
Same(d, e) ==
  /\ e.en = d.en /\ e.dbm = d.dbm /\ e.ct = d.ct /\ e.ndt = d.ndt
  /\ e.ndtr = d.ndtr /\ e.m0 = d.m0 /\ e.m1 = d.m1 /\ e.tc = d.tc
  /\ e.XferCount = d.XferCount /\ e.XferSize = d.XferSize
  /\ e.XferTransferNumber = d.XferTransferNumber /\ e.pBuffPtr = d.pBuffPtr

LEMMA SameRing ==
  ASSUME NEW d, NEW e, NEW p, NEW r, Same(d, e), RingState(d, p, r)
  PROVE  RingState(e, p, r)
<1>1. CASE OneBuffer(d, p, r)
  BY <1>1 DEF Same, RingState, OneBuffer
<1>2. CASE ManyBuffers(d, p, r)
  <2>1. PICK n, s, c, o \in Nat : Filling(d, p, r, n, s, c, o)
    BY <1>2 DEF ManyBuffers
  <2>2. Filling(e, p, r, n, s, c, o)
    BY <2>1 DEF Same, Filling, Filled, Spare
  <2> QED
    BY <2>2 DEF RingState, ManyBuffers
<1> QED
  BY <1>1, <1>2 DEF RingState

\* The stream runs on undisturbed or not at all, and not with an overflow.
Calm(d) == d.ErrorCode # {} => ~d.en
Goes(d, e) == (e.en => Same(d, e)) /\ (Calm(d) => Calm(e)) /\ (e.en => d.en)

LEMMA GoesOn ==
  ASSUME NEW d, NEW e, NEW f, Goes(d, e), Goes(e, f)
  PROVE  Goes(d, f)
BY DEF Goes, Same

LEMMA ErrorGoes ==
  ASSUME NEW d \in DevType, NEW f \in {"ERR", "OVF"}
  PROVE  Goes(d, ServeError(d, f))
<1>1. CASE Pending(d, f)
  <2>1. ServeError(d, f).en = FALSE
    BY <1>1 DEF ServeError, HAL_DMA_Abort, DevType
  <2> QED
    BY <2>1 DEF Goes, Calm
<1>2. CASE ~Pending(d, f)
  BY <1>2 DEF ServeError, Goes, Same
<1> QED
  BY <1>1, <1>2

LEMMA OnceGoes ==
  ASSUME NEW d \in DevType, NEW f
  PROVE  Goes(d, ServeOnce(d, f))
<1>1. CASE Pending(d, f)
  BY <1>1 DEF ServeOnce, Goes, Same, Calm, DevType
<1>2. CASE ~Pending(d, f)
  BY <1>2 DEF ServeOnce, Goes, Same
<1> QED
  BY <1>1, <1>2

LEMMA LineGoes ==
  ASSUME NEW d \in DevType
  PROVE  Goes(d, ServeLine(d))
<1>1. CASE Pending(d, "LINE")
  BY <1>1 DEF ServeLine, Goes, Same, Calm, DevType
<1>2. CASE ~Pending(d, "LINE")
  BY <1>2 DEF ServeLine, Goes, Same
<1> QED
  BY <1>1, <1>2

LEMMA CallbackGoes ==
  ASSUME NEW d \in DevType
  PROVE  Goes(d, HAL_DCMI_FrameEventCallback(d))
BY DEF HAL_DCMI_FrameEventCallback, Goes, Same, Calm, DevType

LEMMA FrameGoes ==
  ASSUME NEW d \in DevType
  PROVE  Goes(d, ServeFrame(d))
<1>1. CASE Pending(d, "FRAME")
  BY <1>1, OnceGoes, ServeOnceType, CallbackGoes, GoesOn DEF ServeFrame
<1>2. CASE ~Pending(d, "FRAME")
  BY <1>2 DEF ServeFrame, Goes, Same
<1> QED
  BY <1>1, <1>2

LEMMA DcmiGoes ==
  ASSUME NEW d \in DevType
  PROVE  Goes(d, HAL_DCMI_IRQHandler(d))
<1> DEFINE e1 == ServeError(d, "ERR")
           e2 == ServeError(e1, "OVF")
           e3 == ServeLine(e2)
           e4 == ServeOnce(e3, "VSYNC")
           e5 == ServeFrame(e4)
<1>1. e1 \in DevType /\ Goes(d, e1)
  BY ServeErrorType, ErrorGoes
<1> HIDE DEF e1
<1>2. e2 \in DevType /\ Goes(e1, e2)
  BY <1>1, ServeErrorType, ErrorGoes
<1> HIDE DEF e2
<1>3. e3 \in DevType /\ Goes(e2, e3)
  BY <1>2, ServeLineType, LineGoes
<1> HIDE DEF e3
<1>4. e4 \in DevType /\ Goes(e3, e4)
  BY <1>3, ServeOnceType, OnceGoes
<1> HIDE DEF e4
<1>5. Goes(e4, e5)
  BY <1>4, FrameGoes
<1> HIDE DEF e5
<1>6. Goes(d, e3)
  BY <1>1, <1>2, <1>3, GoesOn
<1>7. Goes(d, e5)
  BY <1>4, <1>5, <1>6, GoesOn
<1> QED
  BY <1>7 DEF HAL_DCMI_IRQHandler, e1, e2, e3, e4, e5

-----------------------------------------------------------------------------
(* Arithmetic of the ring.                                                 *)

\* The offset of the next buffer, and that the last one ends the ring.
LEMMA Offsets ==
  ASSUME NEW n \in Nat, NEW s \in Nat, NEW c \in 0 .. n - 1, s >= 1
  PROVE  /\ c * s \in Nat /\ n * s \in Nat
         /\ c * s + s = (c + 1) * s
         /\ c * s + s <= n * s
         /\ c # n - 1 => c * s + s < n * s
         /\ c = n - 1 => c * s + s = n * s
<1>1. c * s \in Nat /\ n * s \in Nat
  OBVIOUS
<1>2. c * s + s = (c + 1) * s
  OBVIOUS
<1>3. (n - 1 - c) * s >= 0 /\ (c # n - 1 => (n - 1 - c) * s >= s)
  <2> DEFINE k == n - 1 - c
  <2>1. k \in Nat /\ (c # n - 1 => k >= 1)
    OBVIOUS
  <2> HIDE DEF k
  <2>2. k * s >= 0 /\ (k >= 1 => k * s >= s)
    BY <2>1
  <2> QED
    BY <2>1, <2>2 DEF k
<1>4. n * s = (c * s + s) + (n - 1 - c) * s
  OBVIOUS
<1>5. (n - 1 - c) * s \in Int
  OBVIOUS
<1>6. c = n - 1 => (n - 1 - c) * s = 0
  OBVIOUS
<1> DEFINE k == (n - 1 - c) * s
           x == c * s
           y == n * s
<1> HIDE DEF k, x, y
<1>7. /\ x + s <= y
      /\ c # n - 1 => x + s < y
      /\ c = n - 1 => x + s = y
  <2>1. x \in Nat /\ y = (x + s) + k /\ k \in Int /\ k >= 0
    BY <1>1, <1>3, <1>4, <1>5 DEF k, x, y
  <2>2. c # n - 1 => k >= 1
    BY <1>3, <1>5 DEF k
  <2>3. c = n - 1 => k = 0
    BY <1>6 DEF k
  <2> QED
    BY <2>1, <2>2, <2>3
<1> QED
  BY <1>1, <1>2, <1>7 DEF x, y

\* Parities of neighbours; the last of an even number of buffers is odd.
LEMMA Parity ==
  ASSUME NEW n \in Nat, n >= 2, n % 2 = 0, NEW c \in 0 .. n - 1
  PROVE  /\ c % 2 \in {0, 1}
         /\ (c + 1) % 2 = 1 - (c % 2)
         /\ c = n - 1 => c % 2 = 1
         /\ c # n - 1 => c <= n - 2
         /\ c >= 1 => (n - 2 - (c - 1)) % 2 = 1 - (c % 2)
OBVIOUS

-----------------------------------------------------------------------------
(* The handler of the stream: DCMI_DMAConvCplt.                            *)

LEMMA ConvSame ==
  ASSUME NEW d \in DevType
  PROVE  /\ DCMI_DMAConvCplt(d).en = d.en
         /\ DCMI_DMAConvCplt(d).ErrorCode = d.ErrorCode
         /\ Same(Retarget([d EXCEPT !.State = "READY"]), DCMI_DMAConvCplt(d))
<1> DEFINE b == [d EXCEPT !.State = "READY"]
           r == Retarget(b)
<1>1. b \in DevType /\ b.en = d.en /\ b.ErrorCode = d.ErrorCode
  BY DEF DevType
<1> HIDE DEF b
<1>2. r \in DevType
  BY <1>1, RetargetType
<1>3. r.en = b.en /\ r.ErrorCode = b.ErrorCode
  BY <1>1 DEF Retarget, DevType
<1> HIDE DEF r
<1>4. DCMI_DMAConvCplt(d) = IF FrameDone(r)
        THEN HAL_DCMI_FrameEventCallback([r EXCEPT !.Lock = FALSE]) ELSE r
  BY DEF DCMI_DMAConvCplt, r, b
<1>5. CASE FrameDone(r)
  <2>1. DCMI_DMAConvCplt(d) =
          [r EXCEPT !.Lock = FALSE, !.flag_frame_end = FALSE]
    BY <1>4, <1>5 DEF HAL_DCMI_FrameEventCallback
  <2>2. /\ DCMI_DMAConvCplt(d).en = r.en
        /\ DCMI_DMAConvCplt(d).ErrorCode = r.ErrorCode
        /\ Same(r, DCMI_DMAConvCplt(d))
    BY <1>2, <2>1 DEF Same, DevType
  <2> QED
    BY <1>1, <1>3, <2>2 DEF r, b
<1>6. CASE ~FrameDone(r)
  BY <1>1, <1>3, <1>4, <1>6 DEF Same, r, b
<1> QED
  BY <1>5, <1>6

LEMMA RetargetOne ==
  ASSUME NEW d \in DevType, NEW p, NEW r, OneBuffer(d, p, r)
  PROVE  OneBuffer(Retarget(d), p, r)
BY DEF OneBuffer, Retarget, DevType

LEMMA RetargetSame ==
  ASSUME NEW d \in DevType, NEW e \in DevType, Same(d, e)
  PROVE  Same(Retarget(d), Retarget(e))
<1>1. CASE d.XferCount # 0 /\ d.XferCount % 2 = 0 /\ d.ct = 1
  BY <1>1 DEF Same, Retarget, DevType
<1>2. CASE d.XferCount # 0 /\ d.ct = 0
  BY <1>2 DEF Same, Retarget, DevType
<1>3. CASE d.XferCount = 0 /\ d.ct = 1
  BY <1>3 DEF Same, Retarget, DevType
<1>4. CASE d.XferCount = 0 /\ d.ct = 0
  <2>1. /\ Retarget(d) = [d EXCEPT !.m1 = d.pBuffPtr + d.XferSize,
                                  !.XferCount = d.XferTransferNumber]
        /\ Retarget(e) = [e EXCEPT !.m1 = d.pBuffPtr + d.XferSize,
                                  !.XferCount = d.XferTransferNumber]
    BY <1>4 DEF Same, Retarget
  <2> DEFINE x == d.pBuffPtr + d.XferSize
  <2> HIDE DEF x
  <2> QED
    BY <2>1 DEF Same, DevType, x
<1>5. CASE d.XferCount # 0 /\ d.XferCount % 2 # 0 /\ d.ct = 1
  BY <1>5 DEF Same, Retarget, DevType
<1>6. d.ct \in {0, 1}
  BY DEF DevType
<1> HIDE DEF Same
<1> QED
  BY <1>1, <1>2, <1>3, <1>4, <1>5, <1>6, Zenon

\* Serving the end of the buffer before c makes the spare target the buffer
\* after c: two on in the middle of the round, the first two at its end.
LEMMA RetargetMany ==
  ASSUME NEW d \in DevType, NEW p, NEW r, d.tc,
         NEW n \in Nat, NEW s \in Nat, NEW c \in Nat, NEW o \in Nat,
         Filling(d, p, r, n, s, c, o)
  PROVE  Filling(Retarget([d EXCEPT !.tc = FALSE]), p, r, n, s, c, o)
<1> DEFINE b == [d EXCEPT !.tc = FALSE]
           e == Retarget(b)
<1>1. b \in DevType /\ ~b.tc
  BY DEF DevType
<1>2. /\ n >= 2 /\ n % 2 = 0 /\ s >= 1 /\ c \in 0 .. n - 1 /\ o = c * s
      /\ r = n * s /\ b.dbm /\ b.XferSize = s /\ b.XferTransferNumber = n - 2
      /\ b.pBuffPtr = Base /\ b.ndt = s /\ b.ndtr \in 1 .. s
      /\ b.ct = c % 2 /\ p = o + (s - b.ndtr) /\ Filled(b) = Base + o
      /\ Spare(b) = Base + Before(n, s, r, c, o)
      /\ b.XferCount = Left(n, Previous(n, c))
  BY DEF Filling, Filled, Spare, DevType
<1> HIDE DEF b
<1>3. /\ c % 2 \in {0, 1} /\ (c = n - 1 => c % 2 = 1)
      /\ (c # n - 1 => c <= n - 2)
      /\ (c >= 1 => (n - 2 - (c - 1)) % 2 = 1 - (c % 2))
  BY <1>2, Parity
<1>4. Base \in Nat /\ b.m0 \in Nat /\ b.m1 \in Nat
  BY <1>1, CaptureAssumption DEF DevType
<1>5. SUFFICES /\ e.dbm /\ e.XferSize = s /\ e.XferTransferNumber = n - 2
               /\ e.pBuffPtr = Base /\ e.ndt = s /\ e.ndtr = b.ndtr
               /\ e.ct = c % 2 /\ ~e.tc
               /\ Filled(e) = Base + o
               /\ Spare(e) = Base + After(n, s, r, c, o)
               /\ e.XferCount = Left(n, c)
  <2> HIDE DEF e
  <2> QED
    BY <1>2, <1>5 DEF Filling, b, e
<1>6. CASE c = 0
  <2>1. b.ct = 0 /\ b.XferCount = 0 /\ o = 0 /\ c # n - 1
    BY <1>2, <1>6 DEF Left, Previous
  <2>2. e = [b EXCEPT !.m1 = b.pBuffPtr + b.XferSize,
                      !.XferCount = b.XferTransferNumber]
    BY <2>1 DEF Retarget
  <2>3. /\ Left(n, c) = n - 2 /\ After(n, s, r, c, o) = s
    BY <1>2, <1>6, <2>1 DEF Left, After
  <2> QED
    BY <1>1, <1>2, <2>1, <2>2, <2>3 DEF Filled, Spare, DevType
<1>7. CASE c # 0 /\ c = n - 1
  <2>1. b.ct = 1 /\ b.XferCount = 0
    BY <1>2, <1>3, <1>7 DEF Left, Previous
  <2>2. e = [b EXCEPT !.m0 = b.pBuffPtr]
    BY <2>1 DEF Retarget
  <2>3. /\ Left(n, c) = 0 /\ After(n, s, r, c, o) = 0
    BY <1>2, <1>7 DEF Left, After
  <2> QED
    BY <1>1, <1>2, <1>4, <2>1, <2>2, <2>3 DEF Filled, Spare, DevType
<1>8. CASE c # 0 /\ c # n - 1
  <2>1. /\ b.XferCount = n - 2 - (c - 1) /\ b.XferCount # 0
        /\ b.XferCount % 2 = 1 - b.ct
    BY <1>2, <1>3, <1>8 DEF Left, Previous
  <2>2. Spare(b) + 2 * s = Base + After(n, s, r, c, o)
    <3>1. Spare(b) = Base + (o - s)
      BY <1>2, <1>8 DEF Before
    <3>2. After(n, s, r, c, o) = o + s
      BY <1>8 DEF After
    <3> QED
      BY <1>4, <3>1, <3>2
  <2>3. b.XferCount - 1 = Left(n, c)
    BY <1>2, <1>3, <1>8, <2>1 DEF Left
  <2>4. CASE b.ct = 1
    <3>1. e = [b EXCEPT !.m0 = b.m0 + 2 * b.XferSize,
                        !.XferCount = b.XferCount - 1]
      BY <2>1, <2>4 DEF Retarget
    <3> QED
      BY <1>1, <1>2, <2>2, <2>3, <2>4, <3>1 DEF Filled, Spare, DevType
  <2>5. CASE b.ct = 0
    <3>1. e = [b EXCEPT !.m1 = b.m1 + 2 * b.XferSize,
                        !.XferCount = b.XferCount - 1]
      BY <2>1, <2>5 DEF Retarget
    <3> QED
      BY <1>1, <1>2, <2>2, <2>3, <2>5, <3>1 DEF Filled, Spare, DevType
  <2> QED
    BY <1>2, <1>3, <2>4, <2>5
<1> QED
  BY <1>6, <1>7, <1>8

\* The handler as a whole keeps the ring, the stream and the overflow.
LEMMA DmaRing ==
  ASSUME NEW d \in DevType, NEW p, NEW r, RingState(d, p, r)
  PROVE  RingState(HAL_DMA_IRQHandler(d), p, r)
<1> DEFINE e == Reported(d)
           f == Cleared(e)
           b == [f EXCEPT !.State = "READY"]
<1>1. Errors(d) \subseteq {"TE", "FE"}
  BY DEF Errors, DevType
<1>2. e \in DevType /\ Same(d, e)
  <2>1. CASE Errors(d) = {}
    BY <2>1 DEF Reported, Same
  <2>2. CASE Errors(d) # {}
    <3> DEFINE x == Errors(d)
    <3>1. e = [d EXCEPT !.dmaRis = @ \ x, !.dmaIE = @ \ x, !.dmaLock = FALSE,
                        !.dmaError = @ \cup x, !.State = "READY"]
      BY <2>2 DEF Reported
    <3> HIDE DEF x, e
    <3> QED
      BY <1>1, <3>1 DEF Same, DevType, x
  <2> QED
    BY <2>1, <2>2
<1>3. RingState(e, p, r)
  BY <1>2, SameRing
<1> HIDE DEF e
<1>4. CASE ~e.tc
  BY <1>3, <1>4, DmaStages DEF e
<1>5. CASE e.tc
  <2>1. HAL_DMA_IRQHandler(d) = DCMI_DMAConvCplt(f)
    BY <1>5, DmaStages DEF e
  <2> DEFINE g == [e EXCEPT !.tc = FALSE]
  <2>2. f \in DevType /\ g \in DevType
    <3>1. g \in DevType
      BY <1>2 DEF DevType
    <3> QED
      BY <1>2, <3>1, ClearedType
  <2>3. Same(g, f)
    BY <1>2 DEF Cleared, Same, DevType
  <2> HIDE DEF f
  <2>4. b \in DevType /\ Same(f, b)
    BY <2>2 DEF Same, DevType
  <2> HIDE DEF b
  <2>5. Same(g, b)
    BY <2>3, <2>4 DEF Same
  <2> HIDE DEF g
  <2>6. Same(Retarget(g), Retarget(b))
    BY <2>2, <2>4, <2>5, RetargetSame
  <2>7. Same(Retarget(b), DCMI_DMAConvCplt(f))
    BY <2>2, ConvSame DEF b
  <2>8. RingState(Retarget(g), p, r)
    <3>1. CASE OneBuffer(e, p, r)
      <4>1. OneBuffer(g, p, r)
        BY <1>2, <3>1 DEF OneBuffer, DevType, g
      <4> QED
        BY <2>2, <4>1, RetargetOne DEF RingState
    <3>2. CASE ManyBuffers(e, p, r)
      <4>1. PICK n, s, c, o \in Nat : Filling(e, p, r, n, s, c, o)
        BY <3>2 DEF ManyBuffers
      <4>2. Filling(Retarget(g), p, r, n, s, c, o)
        BY <1>2, <1>5, <4>1, RetargetMany DEF g
      <4> QED
        BY <4>2 DEF RingState, ManyBuffers
    <3> QED
      BY <1>3, <3>1, <3>2 DEF RingState
  <2>9. RingState(Retarget(b), p, r)
    BY <2>6, <2>8, SameRing
  <2> QED
    BY <2>1, <2>7, <2>9, SameRing
<1> QED
  BY <1>4, <1>5

LEMMA DmaStill ==
  ASSUME NEW d \in DevType
  PROVE  /\ HAL_DMA_IRQHandler(d).en = d.en
         /\ HAL_DMA_IRQHandler(d).ErrorCode = d.ErrorCode
<1> DEFINE e == Reported(d)
<1>1. Errors(d) \subseteq {"TE", "FE"}
  BY DEF Errors, DevType
<1>2. e \in DevType /\ e.en = d.en /\ e.ErrorCode = d.ErrorCode
  <2>1. CASE Errors(d) = {}
    BY <2>1 DEF Reported
  <2>2. CASE Errors(d) # {}
    <3> DEFINE x == Errors(d)
    <3>1. e = [d EXCEPT !.dmaRis = @ \ x, !.dmaIE = @ \ x, !.dmaLock = FALSE,
                        !.dmaError = @ \cup x, !.State = "READY"]
      BY <2>2 DEF Reported
    <3> HIDE DEF x, e
    <3> QED
      BY <1>1, <3>1 DEF DevType, x
  <2> QED
    BY <2>1, <2>2
<1> HIDE DEF e
<1>3. Cleared(e) \in DevType /\ Cleared(e).en = e.en
        /\ Cleared(e).ErrorCode = e.ErrorCode
  <2>1. (e.dmaLock /\ e.dbm) \in BOOLEAN
    OBVIOUS
  <2> QED
    BY <1>2, <2>1 DEF Cleared, DevType
<1> QED
  BY <1>2, <1>3, ConvSame, DmaStages DEF e

-----------------------------------------------------------------------------
(* The stream stores a word.                                               *)

NextPos(p, r) == IF p + 1 = r THEN 0 ELSE p + 1

LEMMA StoredOne ==
  ASSUME NEW d \in DevType, NEW p, NEW r \in Nat, OneBuffer(d, p, r)
  PROVE  OneBuffer(Stored(d), NextPos(p, r), r)
<1>1. d.ndtr \in 1 .. r /\ p = r - d.ndtr /\ d.ndt = r /\ ~d.dbm /\ d.ct = 0
  BY DEF OneBuffer
<1>2. CASE d.ndtr > 1
  <2>1. Stored(d) = [d EXCEPT !.ndtr = d.ndtr - 1]
    BY <1>2 DEF Stored
  <2>2. NextPos(p, r) = r - (d.ndtr - 1) /\ d.ndtr - 1 \in 1 .. r
    BY <1>1, <1>2 DEF NextPos
  <2> QED
    BY <2>1, <2>2 DEF OneBuffer, DevType
<1>3. CASE d.ndtr = 1
  <2>1. Stored(d) = [d EXCEPT !.ndtr = d.ndt, !.tc = TRUE, !.ct = d.ct]
    BY <1>1, <1>3 DEF Stored
  <2>2. NextPos(p, r) = 0 /\ r \in 1 .. r /\ r - r = 0
    BY <1>1, <1>3 DEF NextPos
  <2> QED
    BY <1>1, <2>1, <2>2 DEF OneBuffer, DevType
<1> QED
  BY <1>1, <1>2, <1>3

\* Inside a buffer.
LEMMA StoredInside ==
  ASSUME NEW d \in DevType, NEW p, NEW r,
         NEW n \in Nat, NEW s \in Nat, NEW c \in Nat, NEW o \in Nat,
         Filling(d, p, r, n, s, c, o), d.ndtr > 1
  PROVE  Filling(Stored(d), NextPos(p, r), r, n, s, c, o)
<1> DEFINE x == d.ndtr - 1
<1>1. Stored(d) = [d EXCEPT !.ndtr = x]
  BY DEF Stored
<1>2. d.ndtr \in 1 .. s /\ p = o + (s - d.ndtr) /\ o = c * s /\ r = n * s
        /\ c \in 0 .. n - 1 /\ s >= 1
  BY DEF Filling
<1>3. o + s <= r /\ r \in Nat
  BY <1>2, Offsets
<1>4. x \in 1 .. s /\ NextPos(p, r) = o + (s - x)
  BY <1>2, <1>3 DEF NextPos
<1> HIDE DEF x
<1> QED
  BY <1>1, <1>4 DEF Filling, Filled, Spare, DevType

\* At its end: the spare target becomes the one that is filled.
LEMMA StoredAtEnd ==
  ASSUME NEW d \in DevType, NEW p, NEW r,
         NEW n \in Nat, NEW s \in Nat, NEW c \in Nat, NEW o \in Nat,
         Filling(d, p, r, n, s, c, o), d.ndtr = 1, ~d.tc
  PROVE  \E k, q \in Nat : Filling(Stored(d), NextPos(p, r), r, n, s, k, q)
<1> DEFINE e == Stored(d)
           k == IF c = n - 1 THEN 0 ELSE c + 1
           q == After(n, s, r, c, o)
<1>1. /\ n >= 2 /\ n % 2 = 0 /\ s >= 1 /\ c \in 0 .. n - 1 /\ o = c * s
      /\ r = n * s /\ d.dbm /\ d.XferSize = s /\ d.XferTransferNumber = n - 2
      /\ d.pBuffPtr = Base /\ d.ndt = s /\ d.ct = c % 2
      /\ p = o + (s - 1) /\ Filled(d) = Base + o
      /\ Spare(d) = Base + q /\ d.XferCount = Left(n, c)
  BY DEF Filling
<1>2. e = [d EXCEPT !.ndtr = d.ndt, !.tc = TRUE, !.ct = 1 - d.ct]
  BY <1>1 DEF Stored
<1>3. /\ e.dbm /\ e.XferSize = s /\ e.XferTransferNumber = n - 2
      /\ e.pBuffPtr = Base /\ e.ndt = s /\ e.ndtr = s /\ e.tc
      /\ e.ct = 1 - (c % 2) /\ e.XferCount = Left(n, c)
      /\ e.m0 = d.m0 /\ e.m1 = d.m1
  BY <1>1, <1>2 DEF DevType
<1>4. c % 2 \in {0, 1} /\ (c + 1) % 2 = 1 - (c % 2) /\ (c = n - 1 => c % 2 = 1)
  BY <1>1, Parity
<1>5. Filled(e) = Spare(d) /\ Spare(e) = Filled(d)
  BY <1>1, <1>3, <1>4 DEF Filled, Spare
<1>6. /\ c * s \in Nat /\ n * s \in Nat
      /\ c * s + s = (c + 1) * s
      /\ c # n - 1 => c * s + s < n * s
      /\ c = n - 1 => c * s + s = n * s
  BY <1>1, Offsets
<1> HIDE DEF e
<1>7. CASE c = n - 1
  <2>1. k = 0 /\ q = 0 /\ 0 * s = 0 /\ 0 % 2 = 0
    BY <1>7 DEF After
  <2>2. NextPos(p, r) = 0
    BY <1>1, <1>6, <1>7 DEF NextPos
  <2>3. Before(n, s, r, 0, 0) = o
    BY <1>1, <1>6, <1>7 DEF Before
  <2>4. Previous(n, 0) = c
    BY <1>7 DEF Previous
  <2>5. Filling(e, 0, r, n, s, 0, 0)
    BY <1>1, <1>3, <1>4, <1>5, <1>7, <2>1, <2>3, <2>4 DEF Filling
  <2> QED
    BY <2>2, <2>5 DEF e
<1>8. CASE c # n - 1
  <2>1. k = c + 1 /\ q = o + s /\ c + 1 \in 0 .. n - 1 /\ c + 1 # 0
          /\ o + s \in Nat
    BY <1>1, <1>8 DEF After
  <2>2. NextPos(p, r) = o + s
    BY <1>1, <1>6, <1>8 DEF NextPos
  <2>3. Before(n, s, r, c + 1, o + s) = o
    BY <2>1 DEF Before
  <2>4. Previous(n, c + 1) = c
    BY <1>1, <2>1 DEF Previous
  <2>5. o + s = (c + 1) * s
    BY <1>1, <1>6
  <2>6. Filling(e, o + s, r, n, s, c + 1, o + s)
    BY <1>1, <1>3, <1>4, <1>5, <2>1, <2>3, <2>4, <2>5 DEF Filling
  <2> QED
    BY <2>1, <2>2, <2>6 DEF e
<1> QED
  BY <1>7, <1>8

LEMMA StoredRing ==
  ASSUME NEW d \in DevType, NEW p, NEW r \in Nat, RingState(d, p, r),
         ~(d.tc /\ d.ndtr = 1)
  PROVE  RingState(Stored(d), NextPos(p, r), r)
<1>1. CASE OneBuffer(d, p, r)
  BY <1>1, StoredOne DEF RingState
<1>2. CASE ManyBuffers(d, p, r)
  <2>1. PICK n, s, c, o \in Nat : Filling(d, p, r, n, s, c, o)
    BY <1>2 DEF ManyBuffers
  <2>2. d.ndtr \in 1 .. s
    BY <2>1 DEF Filling
  <2>3. CASE d.ndtr > 1
    BY <2>1, <2>3, StoredInside DEF RingState, ManyBuffers
  <2>4. CASE d.ndtr = 1
    <3>1. PICK k, q \in Nat : Filling(Stored(d), NextPos(p, r), r, n, s, k, q)
      BY <2>1, <2>4, StoredAtEnd
    <3> QED
      BY <3>1 DEF RingState, ManyBuffers
  <2> QED
    BY <2>2, <2>3, <2>4
<1> QED
  BY <1>1, <1>2 DEF RingState

-----------------------------------------------------------------------------
(* The start of a capture.                                                 *)

RingWords(len) == IF len <= MaxItems THEN len ELSE Buffers(len) * Size(len)

LEMMA StartRing ==
  ASSUME NEW d \in DevType, NEW len \in Lengths,
         ~d.Lock, ~d.dmaLock, ~d.dbm, d.ct = 0, ~d.tc
  PROVE  /\ RingState(HAL_DCMI_Start_DMA(d, len), 0, RingWords(len))
         /\ HAL_DCMI_Start_DMA(d, len).ErrorCode = d.ErrorCode
         /\ RingWords(len) \in Nat
<1> DEFINE b == [d EXCEPT !.Lock = TRUE, !.State = "BUSY"]
           nb == Buffers(len)
           sz == Size(len)
           n == [b EXCEPT !.XferSize = sz, !.XferCount = nb - 2,
                          !.XferTransferNumber = nb - 2, !.pBuffPtr = Base]
           e == HAL_DCMI_Start_DMA(d, len)
<1>1. len \in Nat /\ len >= 1 /\ Base \in Nat /\ MaxItems \in Nat
  BY CaptureAssumption
<1>2. /\ b \in DevType /\ ~b.dmaLock /\ ~b.dbm /\ b.ct = 0 /\ ~b.tc
      /\ b.ErrorCode = d.ErrorCode
  BY DEF DevType
<1> HIDE DEF b
<1>3. CASE len <= MaxItems
  <2>1. e = [HAL_DMA_Start_IT(b, Base, len) EXCEPT !.capture = TRUE]
    BY <1>3 DEF HAL_DCMI_Start_DMA, b
  <2>2. e = [b EXCEPT !.dmaLock = TRUE, !.m0 = Base, !.ndt = len, !.ndtr = len,
                      !.dmaIE = {"TE", "FE"}, !.en = TRUE, !.capture = TRUE]
    BY <1>2, <2>1 DEF HAL_DMA_Start_IT
  <2>3. /\ ~e.dbm /\ e.ct = 0 /\ e.m0 = Base /\ e.ndt = len /\ e.ndtr = len
        /\ e.ErrorCode = d.ErrorCode
    BY <1>2, <2>2 DEF DevType
  <2> HIDE DEF e
  <2>4. OneBuffer(e, 0, len)
    BY <1>1, <2>3 DEF OneBuffer
  <2> QED
    BY <1>1, <1>3, <2>3, <2>4 DEF RingState, RingWords, e
<1>4. CASE ~(len <= MaxItems)
  <2>1. nb \in Nat \ {0} /\ nb % 2 = 0 /\ sz \in Nat \ {0}
    BY <1>1, <1>4, HalvingAssumption
  <2>2. nb \in Nat /\ nb >= 2 /\ sz \in Nat /\ sz >= 1
    <3> HIDE DEF nb, sz
    <3> QED
      BY <2>1
  <2>3. e = [HAL_DMAEx_MultiBufferStart_IT(n, Base, Base + n.XferSize,
               n.XferSize) EXCEPT !.capture = TRUE]
    BY <1>4 DEF HAL_DCMI_Start_DMA, b
  <2>4. RingWords(len) = nb * sz
    BY <1>4 DEF RingWords
  <2> HIDE DEF nb, sz
  <2>5. /\ n.XferSize = sz /\ n.XferCount = nb - 2 /\ n.pBuffPtr = Base
        /\ n.XferTransferNumber = nb - 2 /\ ~n.dmaLock /\ n.ct = 0 /\ ~n.tc
        /\ n.ErrorCode = d.ErrorCode
    BY <1>2 DEF DevType
  <2>6. e = [n EXCEPT !.dmaLock = TRUE, !.m0 = Base, !.ndt = sz, !.ndtr = sz,
                      !.dmaIE = {"TE", "FE"}, !.en = TRUE, !.dbm = TRUE,
                      !.m1 = Base + sz, !.capture = TRUE]
    <3> HIDE DEF n, e
    <3> QED
      BY <2>3, <2>5 DEF HAL_DMAEx_MultiBufferStart_IT, HAL_DMA_Start_IT
  <2>7. /\ e.dbm /\ e.XferSize = sz /\ e.XferTransferNumber = nb - 2
        /\ e.pBuffPtr = Base /\ e.ndt = sz /\ e.ndtr = sz /\ e.ct = 0
        /\ e.m0 = Base /\ e.m1 = Base + sz /\ ~e.tc
        /\ e.XferCount = nb - 2 /\ e.ErrorCode = d.ErrorCode
    <3> HIDE DEF e
    <3> QED
      BY <1>2, <2>5, <2>6 DEF DevType
  <2> HIDE DEF n, e
  <2>8. After(nb, sz, nb * sz, 0, 0) = sz /\ Left(nb, 0) = nb - 2
    BY <2>2 DEF After, Left
  <2>9. 0 = 0 * sz /\ 0 % 2 = 0 /\ nb * sz \in Nat /\ 0 \in 0 .. nb - 1
    BY <2>2
  <2>10. Filling(e, 0, nb * sz, nb, sz, 0, 0)
    BY <1>1, <2>1, <2>2, <2>7, <2>8, <2>9 DEF Filling, Filled, Spare
  <2>11. RingState(e, 0, nb * sz)
    BY <2>2, <2>10 DEF RingState, ManyBuffers
  <2> QED
    BY <2>4, <2>7, <2>9, <2>11 DEF e
<1> QED
  BY <1>3, <1>4

-----------------------------------------------------------------------------
(* The invariant holds initially, and every step keeps it.                 *)

LEMMA InitInv ==
  ASSUME Init
  PROVE  Inv
<1>1. TypeOK
  <2>1. dev \in DevType
    BY DEF Init, DevType
  <2>2. 0 \in 0 .. FrameWords
    BY CaptureAssumption
  <2> QED
    BY <2>1, <2>2 DEF Init, TypeOK
<1>2. Fresh /\ RingInv /\ Still
  BY DEF Init, Fresh, RingInv, Still
<1> QED
  BY <1>1, <1>2 DEF Inv

LEMMA StartInv ==
  ASSUME Inv, MainStart
  PROVE  Inv'
<1> DEFINE b == [dev EXCEPT !.flag_frame_end = TRUE]
<1>1. PICK len \in Lengths : dev' = HAL_DCMI_Start_DMA(b, len)
                             /\ ring' = RingWords(len)
  BY DEF MainStart, RingWords
<1>2. /\ main = "start" /\ main' = "wait" /\ pos = 0 /\ pos' = 0
      /\ UNCHANGED <<cam, words, late>>
  BY DEF MainStart, Inv, Fresh
<1>3. /\ b \in DevType /\ ~b.Lock /\ ~b.dmaLock /\ ~b.dbm /\ b.ct = 0 /\ ~b.tc
      /\ b.ErrorCode = {}
  BY <1>2 DEF Inv, Fresh, TypeOK, DevType
<1> HIDE DEF b
<1>4. /\ RingState(dev', 0, ring') /\ dev'.ErrorCode = {} /\ ring' \in Nat
      /\ dev' \in DevType
  BY <1>1, <1>3, StartRing, StartType
<1> QED
  BY <1>2, <1>4 DEF Inv, TypeOK, Fresh, RingInv, Still

\* What does not touch the transfer keeps the invariant.
LEMMA GoesInv ==
  ASSUME Inv, Goes(dev, dev'), dev' \in DevType, main # "start",
         main' = main \/ main' = "print",
         cam' \in [sent : 0 .. FrameWords, grab : BOOLEAN], UNCHANGED history
  PROVE  Inv'
<1>1. TypeOK'
  BY DEF Inv, TypeOK, history
<1>2. Fresh'
  BY DEF Fresh
<1>3. RingInv'
  BY SameRing DEF Inv, RingInv, Goes, history
<1>4. Still'
  BY DEF Inv, Still, Goes, Calm
<1> QED
  BY <1>1, <1>2, <1>3, <1>4 DEF Inv

LEMMA PrintInv ==
  ASSUME Inv, MainPrint
  PROVE  Inv'
<1>1. Goes(dev, dev') /\ dev' \in DevType
  BY DEF MainPrint, Goes, Same, Inv, TypeOK
<1> QED
  BY <1>1, GoesInv DEF MainPrint, Inv, TypeOK

LEMMA AbortEn ==
  ASSUME NEW d \in DevType
  PROVE  HAL_DMA_Abort(d).en = FALSE
<1> DEFINE x == d.tc \/ d.en
<1> HIDE DEF x
<1>1. [d EXCEPT !.en = FALSE, !.tc = x, !.dmaLock = FALSE].en = FALSE
  BY DEF DevType
<1> QED
  BY <1>1 DEF HAL_DMA_Abort, x

LEMMA StopInv ==
  ASSUME Inv, MainStop
  PROVE  Inv'
<1>1. dev \in DevType /\ dev' = HAL_DCMI_Stop(dev)
  BY DEF MainStop, Inv, TypeOK
<1>2. dev' \in DevType
  BY <1>1, StopType
<1>3. ~dev'.en
  <2> DEFINE b == [dev EXCEPT !.dcmien = FALSE, !.capture = FALSE]
  <2>1. b \in DevType
    BY <1>1 DEF DevType
  <2> HIDE DEF b
  <2>2. HAL_DMA_Abort(b) \in DevType
    BY <2>1, AbortType
  <2>5. HAL_DMA_Abort(b).en = FALSE
    BY <2>1, AbortEn
  <2> DEFINE e == HAL_DMA_Abort(b)
  <2> HIDE DEF e
  <2>3. dev' = [e EXCEPT !.State = "READY", !.Lock = FALSE]
    BY <1>1 DEF HAL_DCMI_Stop, b, e
  <2>4. e \in DevType /\ ~e.en
    BY <2>2, <2>5 DEF e
  <2> QED
    BY <2>3, <2>4 DEF DevType
<1> QED
  BY <1>2, <1>3 DEF MainStop, Inv, TypeOK, Fresh, RingInv, Still, history

LEMMA DmaInv ==
  ASSUME Inv, DmaInterrupt
  PROVE  Inv'
<1>1. dev \in DevType /\ main # "start"
  BY DEF DmaInterrupt, Inv, TypeOK, Fresh
<1>2. dev' \in DevType /\ dev'.en = dev.en /\ dev'.ErrorCode = dev.ErrorCode
  BY <1>1, DmaType, DmaStill DEF DmaInterrupt
<1>3. RingInv'
  <2> SUFFICES ASSUME dev'.en, ~late' PROVE RingState(dev', pos', ring')
    BY DEF RingInv
  <2>1. RingState(dev, pos, ring) /\ pos' = pos /\ ring' = ring
    BY <1>2 DEF Inv, RingInv, DmaInterrupt, history
  <2> QED
    BY <1>1, <2>1, DmaRing DEF DmaInterrupt
<1> QED
  BY <1>1, <1>2, <1>3 DEF DmaInterrupt, history, Inv, TypeOK, Fresh, Still

LEMMA DcmiInv ==
  ASSUME Inv, DcmiInterrupt
  PROVE  Inv'
<1>1. dev \in DevType /\ main # "start"
  BY DEF DcmiInterrupt, Inv, TypeOK, Fresh
<1>2. dev' \in DevType /\ Goes(dev, dev')
  BY <1>1, DcmiType, DcmiGoes DEF DcmiInterrupt
<1> QED
  BY <1>1, <1>2, GoesInv DEF DcmiInterrupt, Inv, TypeOK

\* A flag that is raised, or a capture that ends, leaves the transfer alone.
LEMMA FlagGoes ==
  ASSUME NEW d \in DevType, NEW S \in SUBSET DcmiFlags, NEW x \in BOOLEAN
  PROVE  /\ [d EXCEPT !.ris = @ \cup S] \in DevType
         /\ [d EXCEPT !.capture = x, !.ris = @ \cup S] \in DevType
         /\ Goes(d, [d EXCEPT !.ris = @ \cup S])
         /\ Goes(d, [d EXCEPT !.capture = x, !.ris = @ \cup S])
<1> DEFINE y == d.ris \cup S
<1>1. y \in SUBSET DcmiFlags
  BY DEF DevType
<1> HIDE DEF y
<1>2. /\ [d EXCEPT !.ris = y] \in DevType
      /\ [d EXCEPT !.capture = x, !.ris = y] \in DevType
  BY <1>1 DEF DevType
<1>3. /\ Goes(d, [d EXCEPT !.ris = y])
      /\ Goes(d, [d EXCEPT !.capture = x, !.ris = y])
  BY DEF Goes, Same, Calm, DevType
<1> QED
  BY <1>2, <1>3 DEF y

LEMMA FrameInv ==
  ASSUME Inv, FrameStart \/ LostWord \/ FrameEnd
  PROVE  Inv'
<1>1. /\ dev \in DevType /\ cam \in [sent : 0 .. FrameWords, grab : BOOLEAN]
      /\ FrameWords \in Nat \ {0}
  BY CaptureAssumption DEF Inv, TypeOK
<1>2. main # "start"
  BY <1>1 DEF FrameStart, LostWord, FrameEnd, Grabbing, Inv, Fresh
<1>3. {"VSYNC"} \in SUBSET DcmiFlags /\ {"OVF"} \in SUBSET DcmiFlags
        /\ {"FRAME"} \in SUBSET DcmiFlags
  BY DEF DcmiFlags
<1>4. dev' \in DevType /\ Goes(dev, dev')
  <2>1. CASE FrameStart
    <3>1. dev' = [dev EXCEPT !.ris = @ \cup {"VSYNC"}]
      BY <2>1 DEF FrameStart
    <3> QED
      BY <1>1, <1>3, <3>1, FlagGoes
  <2>2. CASE LostWord
    <3>1. dev' = [dev EXCEPT !.ris = @ \cup {"OVF"}]
      BY <2>2 DEF LostWord
    <3> QED
      BY <1>1, <1>3, <3>1, FlagGoes
  <2>3. CASE FrameEnd
    <3>1. dev' = [dev EXCEPT !.capture = FALSE, !.ris = @ \cup {"FRAME"}]
      BY <2>3 DEF FrameEnd
    <3> QED
      BY <1>1, <1>3, <3>1, FlagGoes
  <2> QED
    BY <2>1, <2>2, <2>3
<1>5. cam' \in [sent : 0 .. FrameWords, grab : BOOLEAN]
  <2>1. CASE FrameStart
    BY <1>1, <2>1 DEF FrameStart
  <2>2. CASE LostWord
    <3>1. cam.sent < FrameWords /\ cam' = [cam EXCEPT !.sent = @ + 1]
      BY <2>2 DEF LostWord, Grabbing
    <3>2. cam.sent + 1 \in 0 .. FrameWords
      BY <1>1, <3>1
    <3> QED
      BY <1>1, <3>1, <3>2
  <2>3. CASE FrameEnd
    BY <1>1, <2>3 DEF FrameEnd
  <2> QED
    BY <2>1, <2>2, <2>3
<1>6. main' = main /\ UNCHANGED history
  BY DEF FrameStart, LostWord, FrameEnd
<1> QED
  BY <1>2, <1>4, <1>5, <1>6, GoesInv

LEMMA FaultInv ==
  ASSUME Inv, DmaFault
  PROVE  Inv'
<1>1. dev \in DevType /\ main # "start"
  BY DEF DmaFault, Inv, TypeOK, Fresh
<1>2. PICK f \in {"TE", "FE"} :
        dev' = [dev EXCEPT !.dmaRis = @ \cup {f}, !.en = (f # "TE")]
  BY DEF DmaFault
<1>3. dev.en
  BY DEF DmaFault
<1> DEFINE x == dev.dmaRis \cup {f}
           y == f # "TE"
<1>4. x \in SUBSET {"TE", "FE"} /\ y \in BOOLEAN
  BY <1>1 DEF DevType
<1> HIDE DEF x, y
<1>5. dev' = [dev EXCEPT !.dmaRis = x, !.en = y]
  BY <1>2 DEF x, y
<1>6. dev' \in DevType
  BY <1>1, <1>4, <1>5 DEF DevType
<1>7. Goes(dev, dev')
  BY <1>1, <1>3, <1>4, <1>5 DEF Goes, Same, Calm, DevType
<1> QED
  BY <1>1, <1>6, <1>7, GoesInv DEF DmaFault, Inv, TypeOK

LEMMA WordInv ==
  ASSUME Inv, Word
  PROVE  Inv'
<1>1. /\ dev \in DevType /\ cam \in [sent : 0 .. FrameWords, grab : BOOLEAN]
      /\ ring \in Nat /\ pos \in Nat /\ words \in 0 .. FrameWords
      /\ FrameWords \in Nat /\ late \in BOOLEAN
  BY CaptureAssumption DEF Inv, TypeOK
<1>2. main # "start" /\ dev.en /\ main' = main /\ ring' = ring
  BY DEF Word, Inv, Fresh
<1>3. PICK l \in LineEnds : dev' = [Stored(dev) EXCEPT !.ris = @ \cup l]
  BY DEF Word
<1>4. l \in SUBSET DcmiFlags
  BY DEF LineEnds, DcmiFlags
<1>5. Stored(dev) \in DevType
  BY <1>1, StoredType
<1>6. dev' \in DevType /\ Goes(Stored(dev), dev')
  BY <1>3, <1>4, <1>5, FlagGoes
<1>7. Stored(dev).en = dev.en /\ Stored(dev).ErrorCode = dev.ErrorCode
  BY <1>1 DEF Stored, DevType
<1>8. TypeOK'
  <2>1. cam' \in [sent : 0 .. FrameWords, grab : BOOLEAN]
    BY <1>1 DEF Word, Grabbing
  <2>2. pos' \in Nat /\ words' \in 0 .. FrameWords
    BY <1>1 DEF Word
  <2>3. late' \in BOOLEAN
    BY DEF Word
  <2> QED
    BY <1>1, <1>2, <1>6, <2>1, <2>2, <2>3 DEF Inv, TypeOK
<1>9. RingInv'
  <2> SUFFICES ASSUME dev'.en, ~late' PROVE RingState(dev', pos', ring')
    BY DEF RingInv
  <2>1. ~late /\ ~(dev.tc /\ dev.ndtr = 1)
    BY DEF Word
  <2>2. RingState(dev, pos, ring)
    BY <1>2, <2>1 DEF Inv, RingInv
  <2>3. RingState(Stored(dev), NextPos(pos, ring), ring)
    BY <1>1, <2>1, <2>2, StoredRing
  <2>4. pos' = NextPos(pos, ring)
    BY DEF Word, NextPos
  <2>5. Same(Stored(dev), dev')
    BY <1>6 DEF Goes
  <2> QED
    BY <1>2, <2>3, <2>4, <2>5, SameRing
<1>10. Fresh'
  BY <1>2 DEF Fresh
<1>11. Still'
  BY <1>2, <1>6, <1>7 DEF Inv, Still, Goes, Calm
<1> QED
  BY <1>8, <1>9, <1>10, <1>11 DEF Inv

LEMMA NextInv ==
  ASSUME Inv, [Next]_vars
  PROVE  Inv'
<1>1. CASE MainStart
  BY <1>1, StartInv
<1>2. CASE MainPrint
  BY <1>2, PrintInv
<1>3. CASE MainStop
  BY <1>3, StopInv
<1>4. CASE DmaInterrupt
  BY <1>4, DmaInv
<1>5. CASE DcmiInterrupt
  BY <1>5, DcmiInv
<1>6. CASE FrameStart \/ LostWord \/ FrameEnd
  BY <1>6, FrameInv
<1>7. CASE Word
  BY <1>7, WordInv
<1>8. CASE DmaFault
  BY <1>8, FaultInv
<1>9. CASE UNCHANGED vars
  BY <1>9 DEF vars, Inv, TypeOK, Fresh, RingInv, RingState, OneBuffer,
              ManyBuffers, Filling, Filled, Spare, Still
<1> QED
  BY <1>1, <1>2, <1>3, <1>4, <1>5, <1>6, <1>7, <1>8, <1>9 DEF Next, Camera

-----------------------------------------------------------------------------
(* The theorems.                                                           *)

\* The inductive invariant holds of every behaviour of the capture.
THEOREM InvAlways == Spec => []Inv
<1>1. Init => Inv
  BY InitInv
<1>2. Inv /\ [Next]_vars => Inv'
  BY NextInv
<1> QED
  BY <1>1, <1>2, PTL DEF Spec

\* Every variable keeps its type, for every length and frame: XferCount never
\* goes below zero, however late DCMI_DMAConvCplt is called.
THEOREM TypeCorrect == Spec => []TypeOK
<1>1. Inv => TypeOK
  BY DEF Inv
<1> QED
  BY <1>1, InvAlways, PTL

\* Whatever the length, and whatever number of buffers HAL_DCMI_Start_DMA cuts
\* it into, the words of a capture land in one ring, in order, as long as
\* DCMI_DMAConvCplt has not missed a full buffer.
THEOREM RingOrderAlways == Spec => []RingOrder
<1>1. Inv => RingOrder
  <2> SUFFICES ASSUME Inv, dev.en, ~late PROVE Target = Base + pos
    BY DEF RingOrder
  <2>1. Base \in Nat
    BY CaptureAssumption
  <2>2. CASE OneBuffer(dev, pos, ring)
    <3>1. /\ dev.ct = 0 /\ dev.m0 = Base /\ dev.ndt = ring
          /\ dev.ndtr \in 1 .. ring /\ pos = ring - dev.ndtr
      BY <2>2 DEF OneBuffer
    <3> QED
      BY <2>1, <3>1 DEF Target
  <2>3. CASE ManyBuffers(dev, pos, ring)
    <3>1. PICK n, s, c, o \in Nat : Filling(dev, pos, ring, n, s, c, o)
      BY <2>3 DEF ManyBuffers
    <3>2. /\ Filled(dev) = Base + o /\ dev.ndt = s /\ dev.ndtr \in 1 .. s
          /\ pos = o + (s - dev.ndtr)
      BY <3>1 DEF Filling
    <3>3. Target = Filled(dev) + (dev.ndt - dev.ndtr)
      BY DEF Target, Filled
    <3> QED
      BY <2>1, <3>1, <3>2, <3>3
  <2> QED
    BY <2>2, <2>3 DEF Inv, RingInv, RingState
<1> QED
  BY <1>1, InvAlways, PTL

\* After HAL_DCMI_IRQHandler has reported an overflow, and after
\* HAL_DCMI_Stop, no word is stored any more.
THEOREM QuietAlways == Spec => Quiet
<1>1. Inv /\ [Next]_vars =>
        (dev.ErrorCode # {} \/ main = "stopped" => pos' = pos /\ words' = words)
  <2> SUFFICES ASSUME Inv, [Next]_vars, dev.ErrorCode # {} \/ main = "stopped"
               PROVE  pos' = pos /\ words' = words
    OBVIOUS
  <2>1. ~dev.en
    BY DEF Inv, Still
  <2>2. ~Word
    BY <2>1 DEF Word
  <2> QED
    BY <2>2 DEF Next, vars, history, MainStart, MainPrint, MainStop, Camera,
                DmaInterrupt, DcmiInterrupt, FrameStart, LostWord, FrameEnd,
                DmaFault
<1>2. [][dev.ErrorCode # {} \/ main = "stopped"
           => pos' = pos /\ words' = words]_vars => Quiet
  BY DEF Quiet
<1> QED
  BY <1>1, <1>2, InvAlways, PTL DEF Spec

-----------------------------------------------------------------------------
(* What main() prints.                                                     *)

\* No error was reported or is waiting to be.
Clean(d) == d.ErrorCode = {} /\ d.dmaError = {} /\ "OVF" \notin d.ris
              /\ d.dmaRis = {}

\* Without an error every word the camera sent has been stored, and nothing
\* has reported the end of a frame before all of them were.
Stage(d, c, m, w) ==
  /\ m = "start" => w = 0
  /\ m # "start" /\ Clean(d) =>
       \/ w = FrameWords
       \/ d.flag_frame_end /\ "FRAME" \notin d.ris /\ w = c.sent /\ m = "wait"

Whole == Stage(dev, cam, main, words)

\* A handler hides no error, and ends main()'s wait only for the end of a frame.
Honest(d, e) ==
  /\ Clean(e) => Clean(d)
  /\ "FRAME" \notin d.ris => "FRAME" \notin e.ris
  /\ d.flag_frame_end /\ "FRAME" \notin d.ris => e.flag_frame_end

LEMMA HonestOn ==
  ASSUME NEW d, NEW e, NEW f, Honest(d, e), Honest(e, f)
  PROVE  Honest(d, f)
BY DEF Honest

LEMMA ErrorHonest ==
  ASSUME NEW d \in DevType, NEW f \in {"ERR", "OVF"}
  PROVE  Honest(d, ServeError(d, f))
<1> DEFINE r == d.ris \ {f}
           i == d.ie \ {f}
           c == d.ErrorCode \cup {f}
           t == d.tc \/ d.en
           e == [d EXCEPT !.ie = i, !.ris = r, !.ErrorCode = c,
                          !.State = "ERROR", !.Lock = FALSE]
<1>1. CASE ~Pending(d, f)
  BY <1>1 DEF ServeError, Honest
<1>2. CASE Pending(d, f)
  <2>1. c # {} /\ r \subseteq d.ris
    OBVIOUS
  <2>2. ServeError(d, f) = [e EXCEPT !.en = FALSE, !.tc = t, !.dmaLock = FALSE]
    <3>1. e.tc = d.tc /\ e.en = d.en
      BY DEF DevType
    <3> HIDE DEF e
    <3>2. ServeError(d, f) = HAL_DMA_Abort(e)
      BY <1>2 DEF ServeError, e
    <3> QED
      BY <3>1, <3>2 DEF HAL_DMA_Abort
  <2> HIDE DEF r, i, c, t
  <2>3. ServeError(d, f).ErrorCode = c
    BY <2>2 DEF DevType
  <2>4. ServeError(d, f).ris = r /\ ServeError(d, f).flag_frame_end = d.flag_frame_end
    BY <2>2 DEF DevType
  <2> QED
    BY <2>1, <2>3, <2>4 DEF Honest, Clean
<1> QED
  BY <1>1, <1>2

LEMMA OnceHonest ==
  ASSUME NEW d \in DevType, NEW f \in {"VSYNC", "FRAME"}
  PROVE  Honest(d, ServeOnce(d, f))
<1> DEFINE r == d.ris \ {f}
           i == d.ie \ {f}
           e == [d EXCEPT !.ie = i, !.ris = r, !.Lock = FALSE]
<1>1. r \subseteq d.ris /\ ("OVF" \in d.ris => "OVF" \in r)
  OBVIOUS
<1>2. ServeOnce(d, f) = IF Pending(d, f) THEN e ELSE d
  BY DEF ServeOnce
<1> HIDE DEF r, i
<1>3. /\ e.ErrorCode = d.ErrorCode /\ e.dmaError = d.dmaError /\ e.ris = r
      /\ e.dmaRis = d.dmaRis /\ e.flag_frame_end = d.flag_frame_end
  BY DEF DevType
<1> QED
  BY <1>1, <1>2, <1>3 DEF Honest, Clean

LEMMA LineHonest ==
  ASSUME NEW d \in DevType
  PROVE  Honest(d, ServeLine(d))
<1> DEFINE r == d.ris \ {"LINE"}
           e == [d EXCEPT !.ris = r, !.Lock = FALSE]
<1>1. r \subseteq d.ris /\ ("OVF" \in d.ris => "OVF" \in r)
  OBVIOUS
<1>2. ServeLine(d) = IF Pending(d, "LINE") THEN e ELSE d
  BY DEF ServeLine
<1> HIDE DEF r
<1>3. /\ e.ErrorCode = d.ErrorCode /\ e.dmaError = d.dmaError /\ e.ris = r
      /\ e.dmaRis = d.dmaRis /\ e.flag_frame_end = d.flag_frame_end
  BY DEF DevType
<1> QED
  BY <1>1, <1>2, <1>3 DEF Honest, Clean

LEMMA CallbackHonest ==
  ASSUME NEW d \in DevType, "FRAME" \in d.ris
  PROVE  Honest(d, HAL_DCMI_FrameEventCallback(d))
BY DEF HAL_DCMI_FrameEventCallback, Honest, Clean, DevType

LEMMA FrameHonest ==
  ASSUME NEW d \in DevType
  PROVE  Honest(d, ServeFrame(d))
<1> DEFINE e == ServeOnce(d, "FRAME")
           x == HAL_DCMI_FrameEventCallback(e)
<1>1. CASE ~Pending(d, "FRAME")
  BY <1>1 DEF ServeFrame, Honest
<1>2. CASE Pending(d, "FRAME")
  <2>1. e \in DevType /\ Honest(d, e) /\ "FRAME" \in d.ris
    BY <1>2, ServeOnceType, OnceHonest DEF Pending
  <2>2. ServeFrame(d) = x
    BY <1>2 DEF ServeFrame
  <2> HIDE DEF e
  <2>3. Clean(x) => Clean(e)
    BY <2>1 DEF HAL_DCMI_FrameEventCallback, Clean, DevType
  <2> QED
    BY <2>1, <2>2, <2>3 DEF Honest
<1> QED
  BY <1>1, <1>2

LEMMA DcmiHonest ==
  ASSUME NEW d \in DevType
  PROVE  Honest(d, HAL_DCMI_IRQHandler(d))
<1> DEFINE a == ServeError(d, "ERR")
           b == ServeError(a, "OVF")
           c == ServeLine(b)
           e == ServeOnce(c, "VSYNC")
<1>1. a \in DevType /\ Honest(d, a)
  BY ServeErrorType, ErrorHonest
<1> HIDE DEF a
<1>2. b \in DevType /\ Honest(a, b)
  BY <1>1, ServeErrorType, ErrorHonest
<1> HIDE DEF b
<1>3. c \in DevType /\ Honest(b, c)
  BY <1>2, ServeLineType, LineHonest
<1> HIDE DEF c
<1>4. e \in DevType /\ Honest(c, e)
  BY <1>3, ServeOnceType, OnceHonest
<1> HIDE DEF e
<1>5. Honest(e, ServeFrame(e))
  BY <1>4, FrameHonest
<1>6. HAL_DCMI_IRQHandler(d) = ServeFrame(e)
  BY DEF HAL_DCMI_IRQHandler, a, b, c, e
<1>7. Honest(d, b)
  BY <1>1, <1>2, HonestOn
<1>8. Honest(d, e)
  BY <1>3, <1>4, <1>7, HonestOn
<1> QED
  BY <1>5, <1>6, <1>8, HonestOn

LEMMA RetargetKeeps ==
  ASSUME NEW d \in DevType
  PROVE  LET e == Retarget(d)
         IN  /\ e.ErrorCode = d.ErrorCode /\ e.dmaError = d.dmaError
             /\ e.ris = d.ris /\ e.dmaRis = d.dmaRis
             /\ e.flag_frame_end = d.flag_frame_end
<1> DEFINE m == d.m0 + 2 * d.XferSize
           n == d.m1 + 2 * d.XferSize
           x == d.XferCount - 1
           o == d.pBuffPtr + d.XferSize
           K(e) == /\ e.ErrorCode = d.ErrorCode /\ e.dmaError = d.dmaError
                   /\ e.ris = d.ris /\ e.dmaRis = d.dmaRis
                   /\ e.flag_frame_end = d.flag_frame_end
<1>1. Retarget(d) \in {[d EXCEPT !.m0 = m, !.XferCount = x],
                       [d EXCEPT !.m1 = n, !.XferCount = x],
                       [d EXCEPT !.m0 = d.pBuffPtr], d,
                       [d EXCEPT !.m1 = o, !.XferCount = d.XferTransferNumber]}
  BY DEF Retarget
<1> HIDE DEF m, n, x, o
<1>2. K([d EXCEPT !.m0 = m, !.XferCount = x])
  BY DEF DevType
<1>3. K([d EXCEPT !.m1 = n, !.XferCount = x])
  BY DEF DevType
<1>4. K([d EXCEPT !.m0 = d.pBuffPtr])
  BY DEF DevType
<1>5. K([d EXCEPT !.m1 = o, !.XferCount = d.XferTransferNumber])
  BY DEF DevType
<1>6. K(d)
  OBVIOUS
<1>7. K(Retarget(d))
  BY <1>1, <1>2, <1>3, <1>4, <1>5, <1>6
<1> QED
  BY <1>7

LEMMA ConvHonest ==
  ASSUME NEW d \in DevType
  PROVE  Honest(d, DCMI_DMAConvCplt(d))
<1> DEFINE b == [d EXCEPT !.State = "READY"]
           r == Retarget(b)
           s == [r EXCEPT !.Lock = FALSE]
<1>1. /\ b \in DevType /\ b.ErrorCode = d.ErrorCode /\ b.dmaError = d.dmaError
      /\ b.ris = d.ris /\ b.dmaRis = d.dmaRis
      /\ b.flag_frame_end = d.flag_frame_end
  BY DEF DevType
<1> HIDE DEF b
<1>2. /\ r.ErrorCode = b.ErrorCode /\ r.dmaError = b.dmaError
      /\ r.ris = b.ris /\ r.dmaRis = b.dmaRis
      /\ r.flag_frame_end = b.flag_frame_end
  BY <1>1, RetargetKeeps
<1>3. r \in DevType
  BY <1>1, RetargetType
<1>4. DCMI_DMAConvCplt(d) = IF "FRAME" \in r.ris
                            THEN HAL_DCMI_FrameEventCallback(s) ELSE r
  BY DEF DCMI_DMAConvCplt, FrameDone, b
<1> HIDE DEF r
<1>5. Honest(d, r)
  BY <1>1, <1>2 DEF Honest, Clean
<1>6. s \in DevType /\ Honest(r, s) /\ s.ris = r.ris
  BY <1>3 DEF DevType, Honest, Clean
<1> HIDE DEF s
<1>7. CASE "FRAME" \in r.ris
  <2>1. Honest(s, HAL_DCMI_FrameEventCallback(s))
    BY <1>6, <1>7, CallbackHonest
  <2> QED
    BY <1>4, <1>5, <1>6, <1>7, <2>1, HonestOn
<1> QED
  BY <1>4, <1>5, <1>7

LEMMA DmaHonest ==
  ASSUME NEW d \in DevType
  PROVE  Honest(d, HAL_DMA_IRQHandler(d))
<1> DEFINE x == Errors(d)
           u == d.dmaRis \ x
           v == d.dmaIE \ x
           w == d.dmaError \cup x
           e == [d EXCEPT !.dmaRis = u, !.dmaIE = v, !.dmaLock = FALSE,
                          !.dmaError = w, !.State = "READY"]
           r == Reported(d)
           l == r.dmaLock /\ r.dbm
           c == [r EXCEPT !.tc = FALSE, !.dmaLock = l]
<1>1. r = IF x = {} THEN d ELSE e
  BY DEF Reported
<1>2. x # {} => w # {}
  OBVIOUS
<1>3. u \in SUBSET {"TE", "FE"} /\ v \in SUBSET {"TE", "FE"}
      /\ w \in SUBSET {"TE", "FE"}
  BY DEF Errors, DevType
<1> HIDE DEF x, u, v, w
<1>4. /\ e \in DevType /\ e.dmaError = w
      /\ e.ris = d.ris /\ e.flag_frame_end = d.flag_frame_end
  BY <1>3 DEF DevType
<1> HIDE DEF e
<1>5. r \in DevType /\ Honest(d, r)
  BY <1>1, <1>2, <1>4 DEF Honest, Clean
<1> HIDE DEF r
<1>6. l \in BOOLEAN
  OBVIOUS
<1>7. Cleared(r) = c
  BY DEF Cleared
<1> HIDE DEF l
<1>8. c \in DevType /\ Honest(r, c)
  BY <1>5, <1>6 DEF DevType, Honest, Clean
<1> HIDE DEF c
<1>9. HAL_DMA_IRQHandler(d) = IF r.tc THEN DCMI_DMAConvCplt(c) ELSE r
  BY <1>7, DmaStages DEF r
<1> QED
  BY <1>5, <1>8, <1>9, ConvHonest, HonestOn

LEMMA HonestStage ==
  ASSUME NEW d, NEW e, NEW c, NEW m, NEW w, Stage(d, c, m, w), Honest(d, e)
  PROVE  Stage(e, c, m, w)
BY DEF Stage, Honest

LEMMA StartHonest ==
  ASSUME NEW d \in DevType, NEW len \in Lengths
  PROVE  LET e == HAL_DCMI_Start_DMA(d, len)
         IN  e.ris = d.ris /\ e.flag_frame_end = d.flag_frame_end
<1> DEFINE b == [d EXCEPT !.Lock = TRUE, !.State = "BUSY"]
           x == Size(len)
           y == Buffers(len) - 2
           n == [b EXCEPT !.XferSize = x, !.XferCount = y,
                          !.XferTransferNumber = y, !.pBuffPtr = Base]
           one == HAL_DMA_Start_IT(b, Base, len)
           s == HAL_DMA_Start_IT(n, Base, n.XferSize)
           z == Base + n.XferSize
           two == HAL_DMAEx_MultiBufferStart_IT(n, Base, z, n.XferSize)
           Full(e) == DOMAIN e = DOMAIN d
           K(e) == Full(e) /\ e.ris = d.ris /\ e.flag_frame_end = d.flag_frame_end
<1>1. K(b)
  BY DEF DevType
<1> HIDE DEF b, x, y
<1>2. K(n)
  BY <1>1 DEF DevType
<1> HIDE DEF n
<1>3. \A e : \A p, q : K(e) => K(HAL_DMA_Start_IT(e, p, q))
  BY DEF HAL_DMA_Start_IT, DevType
<1>4. K(one) /\ K(s)
  BY <1>1, <1>2, <1>3
<1> HIDE DEF s, one, z
<1>5. two = IF n.dmaLock THEN n ELSE [s EXCEPT !.dbm = TRUE, !.m1 = z]
  BY DEF HAL_DMAEx_MultiBufferStart_IT, s
<1>6. K([s EXCEPT !.dbm = TRUE, !.m1 = z])
  BY <1>4 DEF DevType
<1>7. K(two)
  BY <1>2, <1>5, <1>6
<1>8. HAL_DCMI_Start_DMA(d, len) =
        IF d.Lock THEN d
        ELSE [(IF len <= MaxItems THEN one ELSE two) EXCEPT !.capture = TRUE]
  BY DEF HAL_DCMI_Start_DMA, one, two, n, b, x, y, z
<1> HIDE DEF two
<1>9. K([one EXCEPT !.capture = TRUE]) /\ K([two EXCEPT !.capture = TRUE])
  BY <1>4, <1>7 DEF DevType
<1> QED
  BY <1>8, <1>9

LEMMA WholeStep ==
  ASSUME Inv, Whole, [Next]_vars
  PROVE  Whole'
<1>1. /\ dev \in DevType /\ cam \in [sent : 0 .. FrameWords, grab : BOOLEAN]
      /\ words \in 0 .. FrameWords /\ FrameWords \in Nat \ {0}
  BY CaptureAssumption DEF Inv, TypeOK
<1>2. SUFFICES Stage(dev', cam', main', words')
  BY DEF Whole
<1>3. Stage(dev, cam, main, words)
  BY DEF Whole
<1>4. CASE MainStart
  <2> DEFINE b == [dev EXCEPT !.flag_frame_end = TRUE]
  <2>1. PICK len \in Lengths : dev' = HAL_DCMI_Start_DMA(b, len)
    BY <1>4 DEF MainStart
  <2>2. b \in DevType /\ b.flag_frame_end /\ b.ris = dev.ris
    BY <1>1 DEF DevType
  <2> HIDE DEF b
  <2>3. dev'.ris = dev.ris /\ dev'.flag_frame_end
    BY <2>1, <2>2, StartHonest
  <2>4. dev.ris = {} /\ cam.sent = 0 /\ words = 0 /\ main = "start"
    BY <1>3, <1>4 DEF MainStart, Inv, Fresh, Stage
  <2> QED
    BY <1>4, <2>3, <2>4 DEF MainStart, Stage
<1>5. CASE MainPrint
  BY <1>3, <1>5 DEF MainPrint, Stage, history
<1>6. CASE MainStop
  <2> DEFINE b == [dev EXCEPT !.dcmien = FALSE, !.capture = FALSE]
             t == b.tc \/ b.en
             e == [b EXCEPT !.en = FALSE, !.tc = t, !.dmaLock = FALSE]
             x == [e EXCEPT !.State = "READY", !.Lock = FALSE]
  <2>1. dev' = x
    BY <1>6 DEF MainStop, HAL_DCMI_Stop, HAL_DMA_Abort
  <2>2. b \in DevType /\ t \in BOOLEAN
    BY <1>1 DEF DevType
  <2>3. /\ b.ErrorCode = dev.ErrorCode /\ b.dmaError = dev.dmaError
        /\ b.ris = dev.ris /\ b.dmaRis = dev.dmaRis
    BY <1>1 DEF DevType
  <2> HIDE DEF b, t
  <2>4. /\ x.ErrorCode = b.ErrorCode /\ x.dmaError = b.dmaError
        /\ x.ris = b.ris /\ x.dmaRis = b.dmaRis
    BY <2>2 DEF DevType
  <2>5. Clean(dev') => Clean(dev)
    BY <2>1, <2>3, <2>4 DEF Clean
  <2>6. main = "print" /\ main' = "stopped" /\ words' = words
    BY <1>6 DEF MainStop, history
  <2> QED
    BY <1>3, <2>5, <2>6 DEF Stage
<1>7. CASE DmaInterrupt
  <2>1. Honest(dev, dev') /\ UNCHANGED <<cam, main, words>>
    BY <1>1, <1>7, DmaHonest DEF DmaInterrupt, history
  <2> QED
    BY <1>3, <2>1, HonestStage
<1>8. CASE DcmiInterrupt
  <2>1. Honest(dev, dev') /\ UNCHANGED <<cam, main, words>>
    BY <1>1, <1>8, DcmiHonest DEF DcmiInterrupt, history
  <2> QED
    BY <1>3, <2>1, HonestStage
<1>9. CASE FrameStart
  <2>1. Honest(dev, dev')
    BY <1>1, <1>9 DEF FrameStart, Honest, Clean, DevType
  <2>2. cam'.sent = cam.sent /\ UNCHANGED <<main, words>>
    BY <1>1, <1>9 DEF FrameStart, history
  <2> QED
    BY <1>3, <2>1, <2>2 DEF Stage, Honest
<1>10. CASE LostWord
  <2>1. ~Clean(dev')
    BY <1>1, <1>10 DEF LostWord, Clean, DevType
  <2>2. UNCHANGED <<main, words>>
    BY <1>10 DEF LostWord, history
  <2> QED
    BY <1>3, <2>1, <2>2 DEF Stage
<1>11. CASE FrameEnd
  <2>1. Clean(dev') => Clean(dev)
    BY <1>1, <1>11 DEF FrameEnd, Clean, DevType
  <2>2. cam.sent = FrameWords /\ UNCHANGED <<main, words>>
    BY <1>11 DEF FrameEnd, history
  <2> QED
    BY <1>3, <2>1, <2>2 DEF Stage
<1>12. CASE Word
  <2>1. PICK l \in LineEnds : dev' = [Stored(dev) EXCEPT !.ris = @ \cup l]
    BY <1>12 DEF Word
  <2> DEFINE s == Stored(dev)
             r == s.ris \cup l
             n == dev.ndtr - 1
             t == IF dev.dbm THEN 1 - dev.ct ELSE dev.ct
  <2>2. s = IF dev.ndtr > 1 THEN [dev EXCEPT !.ndtr = n]
            ELSE [dev EXCEPT !.ndtr = dev.ndt, !.tc = TRUE, !.ct = t]
    BY DEF Stored
  <2>3. s \in DevType
    BY <1>1, StoredType
  <2>4. /\ s.ErrorCode = dev.ErrorCode /\ s.dmaError = dev.dmaError
        /\ s.ris = dev.ris /\ s.dmaRis = dev.dmaRis
        /\ s.flag_frame_end = dev.flag_frame_end
    <3> HIDE DEF n, t, s
    <3> QED
      BY <1>1, <2>2 DEF DevType
  <2>5. s.ris \subseteq r /\ ("FRAME" \in r => "FRAME" \in s.ris)
    BY DEF LineEnds
  <2>6. dev' = [s EXCEPT !.ris = r]
    BY <2>1
  <2> HIDE DEF s, r
  <2>7. Honest(dev, dev')
    BY <2>3, <2>4, <2>5, <2>6 DEF Honest, Clean, DevType
  <2>8. cam'.sent = cam.sent + 1 /\ cam.sent < FrameWords
    BY <1>1, <1>12 DEF Word, Grabbing
  <2>9. words' = IF words < FrameWords THEN words + 1 ELSE words
    BY <1>12 DEF Word
  <2>10. main' = main /\ main # "start"
    BY <1>12 DEF Word, Inv, Fresh
  <2> QED
    BY <1>1, <1>3, <2>7, <2>8, <2>9, <2>10 DEF Stage, Honest
<1>13. CASE DmaFault
  <2>1. PICK f \in {"TE", "FE"} :
          dev' = [dev EXCEPT !.dmaRis = @ \cup {f}, !.en = (f # "TE")]
    BY <1>13 DEF DmaFault
  <2> DEFINE x == dev.dmaRis \cup {f}
             y == f # "TE"
  <2>2. x # {} /\ dev' = [dev EXCEPT !.dmaRis = x, !.en = y]
    BY <2>1
  <2> HIDE DEF x, y
  <2>3. ~Clean(dev')
    BY <1>1, <2>2 DEF Clean, DevType
  <2>4. UNCHANGED <<main, words>>
    BY <1>13 DEF DmaFault, history
  <2> QED
    BY <1>3, <2>3, <2>4 DEF Stage
<1>14. CASE UNCHANGED vars
  BY <1>3, <1>14 DEF vars
<1> QED
  BY <1>4, <1>5, <1>6, <1>7, <1>8, <1>9, <1>10, <1>11, <1>12, <1>13, <1>14
     DEF Next, Camera

\* Whatever the length, the size of a frame and the order in which the two
\* interrupts are served: main() prints a buffer that holds a whole frame, or
\* the driver has an error to report.
THEOREM PrintsWholeFrameAlways == Spec => []PrintsWholeFrame
<1>1. Init => Whole
  BY DEF Init, Whole, Stage
<1>2. Inv /\ Whole /\ [Next]_vars => Whole'
  BY WholeStep
<1>3. Inv /\ Whole => PrintsWholeFrame
  <2> SUFFICES ASSUME Whole, main = "print", dev.ErrorCode = {},
                      dev.dmaError = {}, dev.ris \cap {"OVF"} = {},
                      dev.dmaRis = {}
               PROVE  words = FrameWords
    BY DEF PrintsWholeFrame
  <2>1. Clean(dev)
    BY DEF Clean
  <2> QED
    BY <2>1 DEF Whole, Stage
<1> QED
  BY <1>1, <1>2, <1>3, InvAlways, PTL DEF Spec
=============================================================================
