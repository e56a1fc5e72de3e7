--------------------------- MODULE UsbdCoreProofs ---------------------------
(***************************************************************************)
(* What UsbdCore promises if the handler is served in time, for every set  *)
(* of requests, every set of descriptors and every size of a packet: types,*)
(* the life of the class and its data; and, for a host that keeps to the   *)
(* USB requests (HostRequests), what the host sees: no completion is taken *)
(* for that of another request, every read is exact, device and host agree *)
(* on state and address, only named requests stay without an answer, and   *)
(* no bulk completion is lost on its way to the class.                     *)
(*                                                                         *)
(* Inv holds the types and which interrupts can be latched together, Told  *)
(* where a control transfer is (Talk), what the host believes (Belief) and *)
(* where a bulk completion is (Ferry).  The middle sections say what each  *)
(* request does to the handle; the steps of the handler and of the host    *)
(* follow, one lemma each.                                                 *)
(***************************************************************************)
EXTENDS UsbdCore, TLAPS

-----------------------------------------------------------------------------
(* Types.                                                                  *)

LEMMA Setups == SetupsOf \subseteq RequestType
<1>1. NoRequest \in RequestType
  BY DEF NoRequest, RequestType, Names
<1> QED
  BY <1>1, ConstantsAssumption DEF SetupsOf

LEMMA RequestFields ==
  ASSUME NEW r \in SetupsOf
  PROVE  /\ r.val \in Nat /\ r.idx \in Nat /\ r.len \in Nat
         /\ Source(r) \in Sources
BY Setups DEF RequestType, Source, Sources

LEMMA SpecialSources == Zlp \in Sources /\ Status \in Sources /\ None \in Sources
BY DEF Sources

LEMMA Min2Nat ==
  ASSUME NEW a \in Nat, NEW b \in Nat
  PROVE  Min2(a, b) \in Nat
BY DEF Min2

InType == [on : BOOLEAN, src : Sources, off : Nat, len : Nat]

LEMMA InField ==
  ASSUME NEW e \in DeviceType
  PROVE  e.in \in InType
BY DEF DeviceType, InType

LEMMA NoInTyped == NoIn \in InType
BY SpecialSources DEF NoIn, InType

LEMMA TransmitTyped ==
  ASSUME NEW e \in DeviceType, NEW src \in Sources, NEW off \in Nat, NEW len \in Nat
  PROVE  USBD_LL_Transmit(e, src, off, len) \in DeviceType
<1> DEFINE l == Min2(len, MaxPacket)
           i == [on |-> TRUE, src |-> src, off |-> off, len |-> l]
<1>1. l \in Nat
  BY Min2Nat, ConstantsAssumption
<1>2. USBD_LL_Transmit(e, src, off, len) = [e EXCEPT !.in = i]
  BY DEF USBD_LL_Transmit
<1> HIDE DEF l
<1>3. i \in InType
  BY <1>1 DEF InType
<1> HIDE DEF i
<1> QED
  BY <1>2, <1>3 DEF DeviceType, InType

LEMMA SendDataTyped ==
  ASSUME NEW e \in DeviceType, NEW r \in SetupsOf, NEW len \in Nat
  PROVE  USBD_CtlSendData(e, r, len) \in DeviceType
<1> DEFINE x == [e EXCEPT !.ep0 = "DATA_IN", !.dlen = r.len,
                          !.total = len, !.rem = len]
<1>1. x \in DeviceType
  BY RequestFields DEF DeviceType
<1>2. USBD_CtlSendData(e, r, len) = USBD_LL_Transmit(x, Source(r), 0, len)
  BY DEF USBD_CtlSendData
<1> HIDE DEF x
<1> QED
  BY <1>1, <1>2, RequestFields, TransmitTyped

LEMMA ContinueTyped ==
  ASSUME NEW e \in DeviceType, NEW len \in Nat
  PROVE  USBD_CtlContinueSendData(e, len) \in DeviceType
<1>1. e.in.src \in Sources /\ e.in.off + e.in.len \in Nat
  BY InField DEF InType
<1> QED
  BY <1>1, TransmitTyped DEF USBD_CtlContinueSendData

LEMMA SendStatusTyped ==
  ASSUME NEW e \in DeviceType
  PROVE  USBD_CtlSendStatus(e) \in DeviceType
<1> DEFINE x == [e EXCEPT !.ep0 = "STATUS_IN"]
<1>1. x \in DeviceType
  BY DEF DeviceType
<1>2. USBD_CtlSendStatus(e) = USBD_LL_Transmit(x, Status, 0, 0)
  BY DEF USBD_CtlSendStatus
<1> HIDE DEF x
<1> QED
  BY <1>1, <1>2, SpecialSources, TransmitTyped

LEMMA ForgetTyped ==
  ASSUME NEW e \in DeviceType
  PROVE  Forget(e) \in DeviceType
BY NoInTyped DEF Forget, DeviceType, InType

LEMMA ReceiveStatusTyped ==
  ASSUME NEW e \in DeviceType
  PROVE  USBD_CtlReceiveStatus(e) \in DeviceType
<1> DEFINE x == Forget(e)
<1>1. x \in DeviceType
  BY ForgetTyped
<1>2. USBD_CtlReceiveStatus(e) = [x EXCEPT !.ep0 = "STATUS_OUT", !.out = TRUE]
  BY DEF USBD_CtlReceiveStatus
<1> HIDE DEF x
<1> QED
  BY <1>1, <1>2 DEF DeviceType

LEMMA ErrorTyped ==
  ASSUME NEW e \in DeviceType
  PROVE  USBD_CtlError(e) \in DeviceType
BY DEF USBD_CtlError, DeviceType

LEMMA ClassConfigTyped ==
  ASSUME NEW e \in DeviceType
  PROVE  USBD_SetClassConfig(e) \in DeviceType /\ USBD_ClrClassConfig(e) \in DeviceType
<1>1. USBD_SetClassConfig(e) \in DeviceType
  BY DEF USBD_SetClassConfig, DeviceType
<1>2. USBD_ClrClassConfig(e) \in DeviceType
  <2> DEFINE b == IF e.bulk \in InFlight THEN "lost" ELSE "closed"
  <2>1. b \in {"closed", "outArmed", "inArmed", "lost"} \cup InFlight
    OBVIOUS
  <2>2. USBD_ClrClassConfig(e) = [e EXCEPT !.class = FALSE, !.bulk = b]
    BY DEF USBD_ClrClassConfig
  <2> HIDE DEF b
  <2> QED
    BY <2>1, <2>2 DEF DeviceType
<1> QED
  BY <1>1, <1>2

LEMMA FlushTyped ==
  ASSUME NEW e \in DeviceType
  PROVE  FlushRx(e) \in DeviceType
<1> DEFINE b == IF e.bulk = "outFifo" THEN "lost" ELSE e.bulk
<1>1. b \in {"closed", "outArmed", "inArmed", "lost"} \cup InFlight
  BY DEF DeviceType
<1>2. << >> \in Seq(Entries)
  OBVIOUS
<1>3. FlushRx(e) = [e EXCEPT !.rxq = << >>, !.bulk = b]
  BY DEF FlushRx
<1> HIDE DEF b
<1> QED
  BY <1>1, <1>2, <1>3 DEF DeviceType

LEMMA ClearFeatureTyped ==
  ASSUME NEW e \in DeviceType, NEW r
  PROVE  ClearFeature(e, r) \in DeviceType
<1>1. FlushRx(e) \in DeviceType
  BY FlushTyped
<1>2. [FlushRx(e) EXCEPT !.masked = TRUE] \in DeviceType
  BY <1>1 DEF DeviceType
<1> QED
  BY <1>1, <1>2 DEF ClearFeature

LEMMA ClassTyped ==
  ASSUME NEW e \in DeviceType, NEW r \in SetupsOf
  PROVE  USBD_MSC_Setup(e, r) \in DeviceType
<1> DEFINE u == IF UsesClassData(r) /\ ~e.class THEN e.nullUse \cup {r} ELSE e.nullUse
           x == [e EXCEPT !.nullUse = u]
<1>1. u \in SUBSET SetupsOf
  BY DEF DeviceType
<1>2. USBD_MSC_Setup(e, r) = ClassAnswer(x, r)
  BY DEF USBD_MSC_Setup
<1> HIDE DEF u
<1>3. x \in DeviceType
  BY <1>1 DEF DeviceType
<1> HIDE DEF x
<1>4. /\ USBD_CtlSendData(x, r, 1) \in DeviceType
      /\ ClearFeature(x, r) \in DeviceType
      /\ USBD_CtlError(x) \in DeviceType
  BY <1>3, SendDataTyped, ClearFeatureTyped, ErrorTyped
<1>5. ClassAnswer(x, r) \in DeviceType
  BY <1>3, <1>4 DEF ClassAnswer
<1> QED
  BY <1>2, <1>5

LEMMA SetConfigTyped ==
  ASSUME NEW e \in DeviceType, NEW r \in SetupsOf
  PROVE  USBD_SetConfig(e, r) \in DeviceType
<1> DEFINE a == [e EXCEPT !.config = r.val, !.state = "CONFIGURED"]
           b == [e EXCEPT !.config = 0, !.state = "ADDRESSED"]
           c == [USBD_ClrClassConfig(e) EXCEPT !.config = r.val]
<1>1. a \in DeviceType /\ b \in DeviceType
  BY RequestFields DEF DeviceType, States
<1>2. c \in DeviceType
  <2> DEFINE y == USBD_ClrClassConfig(e)
  <2>1. y \in DeviceType /\ r.val \in Nat
    BY RequestFields, ClassConfigTyped
  <2> HIDE DEF y
  <2>2. [y EXCEPT !.config = r.val] \in DeviceType
    BY <2>1 DEF DeviceType
  <2> QED
    BY <2>2 DEF y
<1> HIDE DEF a, b, c
<1>3. /\ USBD_CtlError(e) \in DeviceType
      /\ USBD_CtlSendStatus(USBD_SetClassConfig(a)) \in DeviceType
      /\ USBD_CtlSendStatus(USBD_ClrClassConfig(b)) \in DeviceType
      /\ USBD_CtlSendStatus(USBD_SetClassConfig(c)) \in DeviceType
      /\ USBD_CtlSendStatus(e) \in DeviceType
  BY <1>1, <1>2, ErrorTyped, ClassConfigTyped, SendStatusTyped
<1> QED
  BY <1>3 DEF USBD_SetConfig, a, b, c

LEMMA SetAddressTyped ==
  ASSUME NEW e \in DeviceType, NEW r \in SetupsOf
  PROVE  USBD_SetAddress(e, r) \in DeviceType
<1> DEFINE s == IF r.val # 0 THEN "ADDRESSED" ELSE "DEFAULT"
           x == USBD_CtlSendStatus(e)
<1>1. s \in States /\ r.val \in Nat
  BY RequestFields DEF States
<1>2. x \in DeviceType
  BY SendStatusTyped
<1>3. USBD_SetAddress(e, r) \in {[x EXCEPT !.addr = r.val, !.state = s], USBD_CtlError(e)}
  BY DEF USBD_SetAddress
<1> HIDE DEF s, x
<1>4. [x EXCEPT !.addr = r.val, !.state = s] \in DeviceType
  BY <1>1, <1>2 DEF DeviceType
<1> QED
  BY <1>3, <1>4, ErrorTyped

LEMMA GetDescriptorTyped ==
  ASSUME NEW e \in DeviceType, NEW r \in SetupsOf
  PROVE  USBD_GetDescriptor(e, r) \in DeviceType
<1> DEFINE l == Min2(DescLen[r.val], r.len)
<1>1. r.val \in DOMAIN DescLen => l \in Nat
  BY RequestFields, Min2Nat, ConstantsAssumption
<1> HIDE DEF l
<1>2. r.val \in DOMAIN DescLen => USBD_CtlSendData(e, r, l) \in DeviceType
  BY <1>1, SendDataTyped
<1>3. USBD_CtlError(e) \in DeviceType
  BY ErrorTyped
<1> QED
  BY <1>2, <1>3 DEF USBD_GetDescriptor, l

LEMMA DevReqTyped ==
  ASSUME NEW e \in DeviceType, NEW r \in SetupsOf
  PROVE  USBD_StdDevReq(e, r) \in DeviceType
<1>1. /\ USBD_CtlError(e) \in DeviceType
      /\ USBD_CtlSendData(e, r, 1) \in DeviceType
      /\ USBD_CtlSendData(e, r, 2) \in DeviceType
      /\ USBD_CtlSendStatus(USBD_MSC_Setup(e, r)) \in DeviceType
  BY ErrorTyped, SendDataTyped, SendStatusTyped, ClassTyped
<1>2. /\ USBD_GetConfig(e, r) \in DeviceType
      /\ USBD_GetStatus(e, r) \in DeviceType
      /\ USBD_SetFeature(e, r) \in DeviceType
      /\ USBD_ClrFeature(e, r) \in DeviceType
  BY <1>1 DEF USBD_GetConfig, USBD_GetStatus, USBD_SetFeature, USBD_ClrFeature
<1> QED
  BY <1>1, <1>2, GetDescriptorTyped, SetAddressTyped, SetConfigTyped
     DEF USBD_StdDevReq

LEMMA ItfReqTyped ==
  ASSUME NEW e \in DeviceType, NEW r \in SetupsOf
  PROVE  USBD_StdItfReq(e, r) \in DeviceType
BY ErrorTyped, SendStatusTyped, ClassTyped DEF USBD_StdItfReq

LEMMA EPReqTyped ==
  ASSUME NEW e \in DeviceType, NEW r \in SetupsOf
  PROVE  USBD_StdEPReq(e, r) \in DeviceType
<1>1. /\ USBD_CtlError(e) \in DeviceType
      /\ USBD_CtlSendData(e, r, 2) \in DeviceType
      /\ USBD_CtlSendStatus(USBD_MSC_Setup(e, r)) \in DeviceType
      /\ USBD_CtlSendStatus(e) \in DeviceType
  BY ErrorTyped, SendDataTyped, SendStatusTyped, ClassTyped
<1> QED
  BY <1>1 DEF USBD_StdEPReq

LEMMA SetupStageTyped ==
  ASSUME NEW e \in DeviceType, NEW r \in SetupsOf
  PROVE  USBD_LL_SetupStage(e, r) \in DeviceType
<1> DEFINE x == [Forget(e) EXCEPT !.ep0 = "SETUP"]
<1>1. x \in DeviceType
  <2> DEFINE y == Forget(e)
  <2>1. y \in DeviceType
    BY ForgetTyped
  <2> HIDE DEF y
  <2>2. [y EXCEPT !.ep0 = "SETUP"] \in DeviceType
    BY <2>1 DEF DeviceType
  <2> QED
    BY <2>2 DEF y
<1> HIDE DEF x
<1>2. [x EXCEPT !.stallIn = TRUE] \in DeviceType /\ [x EXCEPT !.stallOut = TRUE] \in DeviceType
  BY <1>1 DEF DeviceType
<1>3. /\ USBD_StdDevReq(x, r) \in DeviceType
      /\ USBD_StdItfReq(x, r) \in DeviceType
      /\ USBD_StdEPReq(x, r) \in DeviceType
  BY <1>1, DevReqTyped, ItfReqTyped, EPReqTyped
<1> QED
  BY <1>2, <1>3 DEF USBD_LL_SetupStage, x

LEMMA DataInTyped ==
  ASSUME NEW e \in DeviceType
  PROVE  DataIn0(e) \in DeviceType
<1> DEFINE l == e.rem - MaxPacket
           x == [e EXCEPT !.rem = @ - MaxPacket]
           y == [e EXCEPT !.dlen = 0]
<1>1. e.rem > MaxPacket => l \in Nat
  BY ConstantsAssumption DEF DeviceType
<1>2. /\ e.rem > MaxPacket => USBD_CtlContinueSendData(x, l) \in DeviceType
      /\ USBD_LL_Transmit(y, Zlp, 0, 0) \in DeviceType
      /\ USBD_CtlReceiveStatus(e) \in DeviceType
  <2>0. x = [e EXCEPT !.rem = l]
    OBVIOUS
  <2> HIDE DEF l, x
  <2>1. e.rem > MaxPacket => x \in DeviceType
    BY <1>1, <2>0 DEF DeviceType
  <2>2. y \in DeviceType
    BY DEF DeviceType
  <2> HIDE DEF y
  <2> QED
    BY <1>1, <2>1, <2>2, ContinueTyped, TransmitTyped, SpecialSources,
       ReceiveStatusTyped
<1>3. CASE e.ep0 = "DATA_IN" /\ e.rem > MaxPacket
  <2>1. DataIn0(e) = USBD_CtlContinueSendData(x, l)
    <3>1. /\ e.rem \in Nat /\ e.total \in Nat /\ e.dlen \in Nat
          /\ MaxPacket \in Nat /\ MaxPacket # 0
      BY ConstantsAssumption DEF DeviceType
    <3>2. e.ep0 = "DATA_IN" /\ e.rem > MaxPacket /\ ~(e.rem <= MaxPacket)
      BY <1>3, <3>1
    <3> QED
      BY <3>1, <3>2 DEF DataIn0
  <2> HIDE DEF l, x, y
  <2> QED
    BY <1>2, <1>3, <2>1
<1>4. CASE ~(e.ep0 = "DATA_IN" /\ e.rem > MaxPacket)
  <2>1. \/ DataIn0(e) = e
        \/ DataIn0(e) = USBD_LL_Transmit(y, Zlp, 0, 0)
        \/ DataIn0(e) = USBD_CtlReceiveStatus(e)
    BY <1>4 DEF DataIn0
  <2> HIDE DEF l, x, y
  <2> QED
    BY <1>2, <2>1
<1> QED
  BY <1>3, <1>4

LEMMA ToClassTyped ==
  ASSUME NEW e \in DeviceType, NEW next \in {"inArmed", "outArmed"}
  PROVE  ToClass(e, next) \in DeviceType
<1> DEFINE b == IF e.state = "CONFIGURED" THEN next ELSE "lost"
<1>1. b \in {"closed", "outArmed", "inArmed", "lost"} \cup InFlight
  OBVIOUS
<1>2. ToClass(e, next) = [e EXCEPT !.bulk = b]
  BY DEF ToClass
<1> HIDE DEF b
<1> QED
  BY <1>1, <1>2 DEF DeviceType

LEMMA ResetTyped ==
  ASSUME NEW e \in DeviceType
  PROVE  USBD_LL_Reset(e) \in DeviceType
<1> DEFINE x == [e EXCEPT !.state = "DEFAULT", !.masked = FALSE]
<1>1. x \in DeviceType
  BY DEF DeviceType, States
<1>2. USBD_LL_Reset(e) \in {x, USBD_ClrClassConfig(x)}
  BY DEF USBD_LL_Reset
<1> HIDE DEF x
<1> QED
  BY <1>1, <1>2, ClassConfigTyped

\* A resume needs a suspend before it: dev_old_state is 0 at first.
LEMMA ResumeTyped ==
  ASSUME NEW e \in DeviceType, e.old \in States
  PROVE  USBD_LL_Resume(e) \in DeviceType
BY DEF USBD_LL_Resume, DeviceType

-----------------------------------------------------------------------------
(* What the handling of a request does to the state and the class.         *)

\* What an answer on endpoint 0 leaves alone.
Core(e) == <<e.state, e.class, e.nullUse, e.old, e.wk, e.sp, e.rs, e.en>>

\* A device that is awake, and has its class exactly if it is configured.
Sound(e) ==
  /\ e \in DeviceType /\ e.state # "SUSPENDED"
  /\ e.class <=> e.state = "CONFIGURED"

LEMMA TransmitCore ==
  ASSUME NEW e \in DeviceType, NEW src, NEW off, NEW len
  PROVE  Core(USBD_LL_Transmit(e, src, off, len)) = Core(e)
BY DEF USBD_LL_Transmit, Core, DeviceType

LEMMA SendDataCore ==
  ASSUME NEW e \in DeviceType, NEW r \in SetupsOf, NEW len \in Nat
  PROVE  Core(USBD_CtlSendData(e, r, len)) = Core(e)
<1> DEFINE x == [e EXCEPT !.ep0 = "DATA_IN", !.dlen = r.len,
                          !.total = len, !.rem = len]
<1>1. x \in DeviceType
  BY RequestFields DEF DeviceType
<1>2. Core(x) = Core(e)
  BY DEF Core, DeviceType
<1>3. USBD_CtlSendData(e, r, len) = USBD_LL_Transmit(x, Source(r), 0, len)
  BY DEF USBD_CtlSendData
<1> HIDE DEF x
<1> QED
  BY <1>1, <1>2, <1>3, TransmitCore

LEMMA SendStatusCore ==
  ASSUME NEW e \in DeviceType
  PROVE  Core(USBD_CtlSendStatus(e)) = Core(e)
<1> DEFINE x == [e EXCEPT !.ep0 = "STATUS_IN"]
<1>1. x \in DeviceType /\ Core(x) = Core(e)
  BY DEF DeviceType, Core
<1>2. USBD_CtlSendStatus(e) = USBD_LL_Transmit(x, Status, 0, 0)
  BY DEF USBD_CtlSendStatus
<1> HIDE DEF x
<1> QED
  BY <1>1, <1>2, TransmitCore

LEMMA ForgetCore ==
  ASSUME NEW e \in DeviceType
  PROVE  Core(Forget(e)) = Core(e)
BY DEF Forget, Core, DeviceType

LEMMA ErrorCore ==
  ASSUME NEW e \in DeviceType
  PROVE  Core(USBD_CtlError(e)) = Core(e)
BY DEF USBD_CtlError, Core, DeviceType

LEMMA ClearFeatureCore ==
  ASSUME NEW e \in DeviceType, NEW r
  PROVE  Core(ClearFeature(e, r)) = Core(e)
<1> DEFINE f == FlushRx(e)
<1>1. f \in DeviceType
  BY FlushTyped
<1>2. Core(f) = Core(e)
  BY DEF FlushRx, Core, DeviceType
<1>3. ClearFeature(e, r) \in {[f EXCEPT !.masked = TRUE], f, e}
  BY DEF ClearFeature
<1> HIDE DEF f
<1>4. Core([f EXCEPT !.masked = TRUE]) = Core(f)
  BY <1>1 DEF Core, DeviceType
<1> QED
  BY <1>2, <1>3, <1>4

\* The class gives an answer, and the access to its data is recorded.
LEMMA ClassCore ==
  ASSUME NEW e \in DeviceType, NEW r \in SetupsOf
  PROVE  LET m == USBD_MSC_Setup(e, r)
         IN  /\ m.state = e.state /\ m.class = e.class /\ m.old = e.old
             /\ m.wk = e.wk /\ m.sp = e.sp /\ m.rs = e.rs /\ m.en = e.en
             /\ \/ m.nullUse = e.nullUse
                \/ /\ m.nullUse = e.nullUse \cup {r}
                   /\ UsesClassData(r) /\ ~e.class
<1> DEFINE u == IF UsesClassData(r) /\ ~e.class THEN e.nullUse \cup {r} ELSE e.nullUse
           x == [e EXCEPT !.nullUse = u]
           m == USBD_MSC_Setup(e, r)
<1>1. u \in SUBSET SetupsOf
  BY DEF DeviceType
<1>2. m = ClassAnswer(x, r)
  BY DEF USBD_MSC_Setup
<1>3. \/ u = e.nullUse
      \/ u = e.nullUse \cup {r} /\ UsesClassData(r) /\ ~e.class
  OBVIOUS
<1> HIDE DEF u
<1>4. x \in DeviceType
  BY <1>1 DEF DeviceType
<1>5. /\ x.state = e.state /\ x.class = e.class /\ x.old = e.old
      /\ x.wk = e.wk /\ x.sp = e.sp /\ x.rs = e.rs /\ x.en = e.en
      /\ x.nullUse = u
  BY DEF DeviceType
<1> HIDE DEF x
<1>6. \/ ClassAnswer(x, r) = x
      \/ ClassAnswer(x, r) = USBD_CtlSendData(x, r, 1)
      \/ ClassAnswer(x, r) = ClearFeature(x, r)
      \/ ClassAnswer(x, r) = USBD_CtlError(x)
  BY DEF ClassAnswer
<1>7. Core(m) = Core(x)
  BY <1>2, <1>4, <1>6, SendDataCore, ClearFeatureCore, ErrorCore
<1> HIDE DEF m
<1>8. /\ m.state = x.state /\ m.class = x.class /\ m.nullUse = x.nullUse
      /\ m.old = x.old /\ m.wk = x.wk /\ m.sp = x.sp /\ m.rs = x.rs /\ m.en = x.en
  BY <1>7 DEF Core
<1>9. /\ m.state = e.state /\ m.class = e.class /\ m.old = e.old
      /\ m.wk = e.wk /\ m.sp = e.sp /\ m.rs = e.rs /\ m.en = e.en
      /\ \/ m.nullUse = e.nullUse
         \/ /\ m.nullUse = e.nullUse \cup {r}
            /\ UsesClassData(r) /\ ~e.class
  BY <1>3, <1>5, <1>8
<1> QED
  BY <1>9 DEF m

\* A request to the device that uses the class data is one of these.
Exempt(r) == r.to = "device" /\ (r.req = "CLEAR_FEATURE" \/ r.kind = "class")

\* The outcome x of the request r in the state e.
Handled(e, r, x) ==
  /\ Sound(x)
  /\ x.wk = e.wk /\ x.sp = e.sp /\ x.rs = e.rs /\ x.en = e.en /\ x.old = e.old
  /\ \/ x.nullUse = e.nullUse
     \/ x.nullUse = e.nullUse \cup {r} /\ Exempt(r)

LEMMA CoreHandled ==
  ASSUME NEW e, Sound(e), NEW r, NEW x \in DeviceType, Core(x) = Core(e)
  PROVE  Handled(e, r, x)
BY DEF Core, Sound, Handled

\* Answers that change nothing but endpoint 0.
LEMMA Plain ==
  ASSUME NEW e, Sound(e), NEW r \in SetupsOf
  PROVE  /\ Handled(e, r, e)
         /\ Handled(e, r, USBD_CtlError(e))
         /\ Handled(e, r, USBD_CtlSendStatus(e))
         /\ \A n \in Nat : Handled(e, r, USBD_CtlSendData(e, r, n))
<1>1. e \in DeviceType
  BY DEF Sound
<1>2. Handled(e, r, e)
  BY <1>1, CoreHandled
<1>3. Handled(e, r, USBD_CtlError(e))
  BY <1>1, CoreHandled, ErrorTyped, ErrorCore
<1>4. Handled(e, r, USBD_CtlSendStatus(e))
  BY <1>1, CoreHandled, SendStatusTyped, SendStatusCore
<1>5. \A n \in Nat : Handled(e, r, USBD_CtlSendData(e, r, n))
  BY <1>1, CoreHandled, SendDataTyped, SendDataCore
<1> QED
  BY <1>2, <1>3, <1>4, <1>5

\* The status stage after something that was handled.
LEMMA ThenStatus ==
  ASSUME NEW e, NEW r, NEW y, Handled(e, r, y)
  PROVE  Handled(e, r, USBD_CtlSendStatus(y))
<1> DEFINE z == USBD_CtlSendStatus(y)
<1>1. y \in DeviceType
  BY DEF Handled, Sound
<1>2. z \in DeviceType /\ Core(z) = Core(y)
  BY <1>1, SendStatusTyped, SendStatusCore
<1> HIDE DEF z
<1>3. Handled(e, r, z)
  BY <1>2 DEF Core, Handled, Sound
<1> QED
  BY <1>3 DEF z

LEMMA ClassHandled ==
  ASSUME NEW e, Sound(e), NEW r \in SetupsOf,
         UsesClassData(r) => e.state = "CONFIGURED" \/ Exempt(r)
  PROVE  Handled(e, r, USBD_MSC_Setup(e, r))
<1> DEFINE m == USBD_MSC_Setup(e, r)
<1>1. m \in DeviceType
  BY ClassTyped DEF Sound
<1>2. /\ m.state = e.state /\ m.class = e.class /\ m.old = e.old
      /\ m.wk = e.wk /\ m.sp = e.sp /\ m.rs = e.rs /\ m.en = e.en
      /\ \/ m.nullUse = e.nullUse
         \/ /\ m.nullUse = e.nullUse \cup {r}
            /\ UsesClassData(r) /\ ~e.class
  BY ClassCore DEF Sound
<1> HIDE DEF m
<1>3. Handled(e, r, m)
  BY <1>1, <1>2 DEF Handled, Sound
<1> QED
  BY <1>3 DEF m

LEMMA AddressHandled ==
  ASSUME NEW e, Sound(e), NEW r \in SetupsOf
  PROVE  Handled(e, r, USBD_SetAddress(e, r))
<1> DEFINE s == IF r.val # 0 THEN "ADDRESSED" ELSE "DEFAULT"
           x == USBD_CtlSendStatus(e)
           y == [x EXCEPT !.addr = r.val, !.state = s]
<1>1. x \in DeviceType /\ Core(x) = Core(e)
  BY SendStatusTyped, SendStatusCore DEF Sound
<1>2. \/ USBD_SetAddress(e, r) = y /\ e.state # "CONFIGURED"
      \/ USBD_SetAddress(e, r) = USBD_CtlError(e)
  BY DEF USBD_SetAddress
<1>3. s \in {"ADDRESSED", "DEFAULT"} /\ r.val \in Nat
  BY RequestFields
<1> HIDE DEF s, x
<1>4. /\ y \in DeviceType /\ y.state = s /\ y.class = x.class
      /\ y.nullUse = x.nullUse /\ y.old = x.old
      /\ y.wk = x.wk /\ y.sp = x.sp /\ y.rs = x.rs /\ y.en = x.en
  BY <1>1, <1>3 DEF DeviceType, States
<1> HIDE DEF y
<1>5. e.state # "CONFIGURED" => Handled(e, r, y)
  BY <1>1, <1>3, <1>4 DEF Core, Handled, Sound
<1> QED
  BY <1>2, <1>5, Plain

LEMMA ConfigHandled ==
  ASSUME NEW e, Sound(e), NEW r \in SetupsOf
  PROVE  Handled(e, r, USBD_SetConfig(e, r))
<1> DEFINE a == [e EXCEPT !.config = r.val, !.state = "CONFIGURED"]
           b == [e EXCEPT !.config = 0, !.state = "ADDRESSED"]
           k == USBD_ClrClassConfig(e)
           c == [k EXCEPT !.config = r.val]
           x == USBD_SetClassConfig(a)
           y == USBD_ClrClassConfig(b)
           z == USBD_SetClassConfig(c)
<1>1. r.val \in Nat /\ e \in DeviceType
  BY RequestFields DEF Sound
<1>2. /\ k \in DeviceType /\ k.state = e.state
      /\ k.nullUse = e.nullUse /\ k.old = e.old
      /\ k.wk = e.wk /\ k.sp = e.sp /\ k.rs = e.rs /\ k.en = e.en
  <2>1. k \in DeviceType
    BY <1>1, ClassConfigTyped
  <2> QED
    BY <1>1, <2>1 DEF USBD_ClrClassConfig, DeviceType
<1> HIDE DEF k
<1>3. /\ a \in DeviceType /\ a.state = "CONFIGURED"
      /\ a.nullUse = e.nullUse /\ a.old = e.old
      /\ a.wk = e.wk /\ a.sp = e.sp /\ a.rs = e.rs /\ a.en = e.en
  BY <1>1 DEF DeviceType, States
<1>4. /\ b \in DeviceType /\ b.state = "ADDRESSED"
      /\ b.nullUse = e.nullUse /\ b.old = e.old
      /\ b.wk = e.wk /\ b.sp = e.sp /\ b.rs = e.rs /\ b.en = e.en
  BY <1>1 DEF DeviceType, States
<1>5. /\ c \in DeviceType /\ c.state = e.state
      /\ c.nullUse = e.nullUse /\ c.old = e.old
      /\ c.wk = e.wk /\ c.sp = e.sp /\ c.rs = e.rs /\ c.en = e.en
  BY <1>1, <1>2 DEF DeviceType
<1> HIDE DEF a, b, c
<1>6. /\ x \in DeviceType /\ x.state = a.state /\ x.class = TRUE
      /\ x.nullUse = a.nullUse /\ x.old = a.old
      /\ x.wk = a.wk /\ x.sp = a.sp /\ x.rs = a.rs /\ x.en = a.en
  <2>1. x \in DeviceType
    BY <1>3, ClassConfigTyped
  <2> QED
    BY <1>3, <2>1 DEF USBD_SetClassConfig, DeviceType
<1>7. /\ y \in DeviceType /\ y.state = b.state /\ y.class = FALSE
      /\ y.nullUse = b.nullUse /\ y.old = b.old
      /\ y.wk = b.wk /\ y.sp = b.sp /\ y.rs = b.rs /\ y.en = b.en
  <2>1. y \in DeviceType
    BY <1>4, ClassConfigTyped
  <2> QED
    BY <1>4, <2>1 DEF USBD_ClrClassConfig, DeviceType
<1>8. /\ z \in DeviceType /\ z.state = c.state /\ z.class = TRUE
      /\ z.nullUse = c.nullUse /\ z.old = c.old
      /\ z.wk = c.wk /\ z.sp = c.sp /\ z.rs = c.rs /\ z.en = c.en
  <2>1. z \in DeviceType
    BY <1>5, ClassConfigTyped
  <2> QED
    BY <1>5, <2>1 DEF USBD_SetClassConfig, DeviceType
<1>9. \/ USBD_SetConfig(e, r) = USBD_CtlError(e)
      \/ USBD_SetConfig(e, r) = USBD_CtlSendStatus(x)
      \/ USBD_SetConfig(e, r) = USBD_CtlSendStatus(y)
      \/ USBD_SetConfig(e, r) = USBD_CtlSendStatus(z) /\ e.state = "CONFIGURED"
      \/ USBD_SetConfig(e, r) = USBD_CtlSendStatus(e)
  BY DEF USBD_SetConfig, a, b, c, k
<1> HIDE DEF x, y, z
<1>10. /\ Handled(e, r, x) /\ Handled(e, r, y)
       /\ e.state = "CONFIGURED" => Handled(e, r, z)
  BY <1>3, <1>4, <1>5, <1>6, <1>7, <1>8 DEF Handled, Sound
<1> QED
  BY <1>9, <1>10, Plain, ThenStatus

LEMMA DescriptorHandled ==
  ASSUME NEW e, Sound(e), NEW r \in SetupsOf
  PROVE  Handled(e, r, USBD_GetDescriptor(e, r))
<1> DEFINE l == Min2(DescLen[r.val], r.len)
<1>1. r.val \in DOMAIN DescLen => l \in Nat
  BY RequestFields, Min2Nat, ConstantsAssumption
<1>2. \/ USBD_GetDescriptor(e, r) = USBD_CtlError(e)
      \/ /\ r.val \in DOMAIN DescLen
         /\ USBD_GetDescriptor(e, r) = USBD_CtlSendData(e, r, l)
      \/ USBD_GetDescriptor(e, r) = e
  BY DEF USBD_GetDescriptor
<1> HIDE DEF l
<1> QED
  BY <1>1, <1>2, Plain

LEMMA DevReqHandled ==
  ASSUME NEW e, Sound(e), NEW r \in SetupsOf, r.to = "device"
  PROVE  Handled(e, r, USBD_StdDevReq(e, r))
<1>1. /\ Handled(e, r, e)
      /\ Handled(e, r, USBD_CtlError(e))
      /\ Handled(e, r, USBD_CtlSendData(e, r, 1))
      /\ Handled(e, r, USBD_CtlSendData(e, r, 2))
  BY Plain
<1>2. r.req \in {"SET_FEATURE", "CLEAR_FEATURE"} =>
        Handled(e, r, USBD_CtlSendStatus(USBD_MSC_Setup(e, r)))
  <2>1. r.req \in {"SET_FEATURE", "CLEAR_FEATURE"} =>
          (UsesClassData(r) => Exempt(r))
    BY DEF UsesClassData, Exempt
  <2> QED
    BY <2>1, ClassHandled, ThenStatus
<1>3. r.req = "SET_FEATURE" => Handled(e, r, USBD_SetFeature(e, r))
  BY <1>1, <1>2 DEF USBD_SetFeature
<1>4. r.req = "CLEAR_FEATURE" => Handled(e, r, USBD_ClrFeature(e, r))
  BY <1>1, <1>2 DEF USBD_ClrFeature
<1>5. /\ Handled(e, r, USBD_GetConfig(e, r))
      /\ Handled(e, r, USBD_GetStatus(e, r))
  BY <1>1 DEF USBD_GetConfig, USBD_GetStatus
<1> QED
  BY <1>1, <1>3, <1>4, <1>5, DescriptorHandled, AddressHandled, ConfigHandled
     DEF USBD_StdDevReq

LEMMA ItfReqHandled ==
  ASSUME NEW e, Sound(e), NEW r \in SetupsOf
  PROVE  Handled(e, r, USBD_StdItfReq(e, r))
<1>1. e.state = "CONFIGURED" =>
        /\ Handled(e, r, USBD_MSC_Setup(e, r))
        /\ Handled(e, r, USBD_CtlSendStatus(USBD_MSC_Setup(e, r)))
  BY ClassHandled, ThenStatus
<1>2. Handled(e, r, USBD_CtlError(e))
  BY Plain
<1> QED
  BY <1>1, <1>2 DEF USBD_StdItfReq

LEMMA EPReqHandled ==
  ASSUME NEW e, Sound(e), NEW r \in SetupsOf
  PROVE  Handled(e, r, USBD_StdEPReq(e, r))
<1>1. e.state = "CONFIGURED" =>
        Handled(e, r, USBD_CtlSendStatus(USBD_MSC_Setup(e, r)))
  BY ClassHandled, ThenStatus
<1>2. /\ Handled(e, r, e)
      /\ Handled(e, r, USBD_CtlError(e))
      /\ Handled(e, r, USBD_CtlSendStatus(e))
      /\ Handled(e, r, USBD_CtlSendData(e, r, 2))
  BY Plain
<1> QED
  BY <1>1, <1>2 DEF USBD_StdEPReq

\* A SETUP packet served by a device that is awake leaves it sound.
LEMMA SetupStageHandled ==
  ASSUME NEW e, Sound(e), NEW r \in SetupsOf
  PROVE  Handled(e, r, USBD_LL_SetupStage(e, r))
<1> DEFINE f == Forget(e)
           x == [f EXCEPT !.ep0 = "SETUP"]
           s == USBD_LL_SetupStage(e, r)
<1>1. f \in DeviceType /\ Core(f) = Core(e)
  BY ForgetTyped, ForgetCore DEF Sound
<1> HIDE DEF f
<1>2. x \in DeviceType /\ Core(x) = Core(f)
  BY <1>1 DEF DeviceType, Core
<1>3. Sound(x)
  BY <1>1, <1>2 DEF Core, Sound
<1> HIDE DEF x
<1>4. /\ Handled(x, r, [x EXCEPT !.stallIn = TRUE])
      /\ Handled(x, r, [x EXCEPT !.stallOut = TRUE])
  <2>1. /\ [x EXCEPT !.stallIn = TRUE] \in DeviceType
        /\ Core([x EXCEPT !.stallIn = TRUE]) = Core(x)
    BY <1>2 DEF DeviceType, Core
  <2>2. /\ [x EXCEPT !.stallOut = TRUE] \in DeviceType
        /\ Core([x EXCEPT !.stallOut = TRUE]) = Core(x)
    BY <1>2 DEF DeviceType, Core
  <2> QED
    BY <1>3, <2>1, <2>2, CoreHandled
<1>5. /\ r.to = "device" => Handled(x, r, USBD_StdDevReq(x, r))
      /\ Handled(x, r, USBD_StdItfReq(x, r))
      /\ Handled(x, r, USBD_StdEPReq(x, r))
  BY <1>3, DevReqHandled, ItfReqHandled, EPReqHandled
<1>6. \/ s = USBD_StdDevReq(x, r) /\ r.to = "device"
      \/ s = USBD_StdItfReq(x, r)
      \/ s = USBD_StdEPReq(x, r)
      \/ s = [x EXCEPT !.stallIn = TRUE]
      \/ s = [x EXCEPT !.stallOut = TRUE]
  BY DEF USBD_LL_SetupStage, x, f
<1> HIDE DEF s
<1>7. Handled(x, r, s)
  BY <1>4, <1>5, <1>6
<1>8. Handled(e, r, s)
  BY <1>1, <1>2, <1>7 DEF Core, Handled
<1> QED
  BY <1>8 DEF s

-----------------------------------------------------------------------------
(* The invariant: in what order suspend, resume, reset and requests come to *)
(* the core if the handler is served in time.                              *)

\* No request is on its way to the core.
Calm == d.rxq = << >> /\ (d.masked \/ ~d.stup)

Order ==
  /\ d.state = "SUSPENDED" =>
       /\ bus \in {"suspended", "reset"} \/ d.wk \/ d.en
       /\ Calm /\ host.phase = "idle"
       /\ d.old \in States \ {"SUSPENDED"}
  /\ bus = "suspended" =>
       /\ d.sp \/ d.state = "SUSPENDED"
       /\ ~d.wk /\ ~d.en /\ ~d.rs /\ Calm /\ host.phase = "idle"
  /\ bus = "reset" => Calm /\ host.phase = "idle" /\ (d.rs \/ ~d.stup)
  /\ d.sp => bus = "suspended" /\ d.state # "SUSPENDED"
  /\ d.wk => d.state = "SUSPENDED" /\ ~d.en /\ ~d.sp
  /\ d.rs => bus = "reset"
  /\ d.en => ~d.stup /\ d.rxq = << >> /\ host.phase = "idle"

Inv == TypeOK /\ Order /\ ClassWhenConfigured

-----------------------------------------------------------------------------
(* The sections of the interrupt handler.                                  *)

\* What has come in for the core and is not served.
Latch(e) == <<e.rxq, e.stup, e.masked>>

LEMMA TransmitLatch ==
  ASSUME NEW e \in DeviceType, NEW src, NEW off, NEW len
  PROVE  Latch(USBD_LL_Transmit(e, src, off, len)) = Latch(e)
BY DEF USBD_LL_Transmit, Latch, DeviceType

\* The data stage of endpoint 0 goes on, and nothing else happens.
LEMMA DataInKeeps ==
  ASSUME NEW e \in DeviceType
  PROVE  Core(DataIn0(e)) = Core(e) /\ Latch(DataIn0(e)) = Latch(e)
<1> DEFINE l == e.rem - MaxPacket
           x == [e EXCEPT !.rem = @ - MaxPacket]
           y == [e EXCEPT !.dlen = 0]
           f == Forget(e)
           z == [f EXCEPT !.ep0 = "STATUS_OUT", !.out = TRUE]
<1>1. Core(x) = Core(e) /\ Latch(x) = Latch(e)
  BY DEF Core, Latch, DeviceType
<1>2. y \in DeviceType /\ Core(y) = Core(e) /\ Latch(y) = Latch(e)
  BY DEF Core, Latch, DeviceType
<1>3. Core(z) = Core(e) /\ Latch(z) = Latch(e)
  <2>1. f \in DeviceType /\ Core(f) = Core(e)
    BY ForgetTyped, ForgetCore
  <2>2. Latch(f) = Latch(e)
    BY DEF Forget, Latch, DeviceType
  <2> HIDE DEF f
  <2>3. Core(z) = Core(f) /\ Latch(z) = Latch(f)
    BY <2>1 DEF Core, Latch, DeviceType
  <2> QED
    BY <2>1, <2>2, <2>3
<1>4. CASE e.ep0 = "DATA_IN" /\ e.rem > MaxPacket
  <2>1. DataIn0(e) = USBD_CtlContinueSendData(x, l)
    <3>1. /\ e.rem \in Nat /\ e.total \in Nat /\ e.dlen \in Nat
          /\ MaxPacket \in Nat /\ MaxPacket # 0
      BY ConstantsAssumption DEF DeviceType
    <3>2. e.ep0 = "DATA_IN" /\ e.rem > MaxPacket /\ ~(e.rem <= MaxPacket)
      BY <1>4, <3>1
    <3> QED
      BY <3>1, <3>2 DEF DataIn0
  <2>2. x \in DeviceType
    <3>1. l \in Nat
      BY <1>4, ConstantsAssumption DEF DeviceType
    <3>2. x = [e EXCEPT !.rem = l]
      OBVIOUS
    <3> HIDE DEF l, x
    <3> QED
      BY <3>1, <3>2 DEF DeviceType
  <2> HIDE DEF l, x
  <2> QED
    BY <1>1, <2>1, <2>2, TransmitCore, TransmitLatch DEF USBD_CtlContinueSendData
<1>5. CASE ~(e.ep0 = "DATA_IN" /\ e.rem > MaxPacket)
  <2>1. \/ DataIn0(e) = e
        \/ DataIn0(e) = USBD_LL_Transmit(y, Zlp, 0, 0)
        \/ DataIn0(e) = USBD_CtlReceiveStatus(e)
    BY <1>5 DEF DataIn0
  <2>2. USBD_CtlReceiveStatus(e) = z
    BY DEF USBD_CtlReceiveStatus
  <2> HIDE DEF y, z
  <2> QED
    BY <1>2, <1>3, <2>1, <2>2, TransmitCore, TransmitLatch
<1> QED
  BY <1>4, <1>5

LEMMA ToClassKeeps ==
  ASSUME NEW e \in DeviceType, NEW next
  PROVE  Core(ToClass(e, next)) = Core(e) /\ Latch(ToClass(e, next)) = Latch(e)
BY DEF ToClass, Core, Latch, DeviceType

\* Steps after which the core has the same before it as it had.
LEMMA Unmoved ==
  ASSUME Inv, UNCHANGED <<host, bus>>, at' \in Sections,
         d' \in DeviceType, Core(d') = Core(d), Latch(d') = Latch(d)
  PROVE  Inv'
<1>1. /\ d'.state = d.state /\ d'.class = d.class /\ d'.old = d.old
      /\ d'.wk = d.wk /\ d'.sp = d.sp /\ d'.rs = d.rs /\ d'.en = d.en
  BY DEF Core
<1>2. d'.rxq = d.rxq /\ d'.stup = d.stup /\ d'.masked = d.masked
  BY DEF Latch
<1>3. Order'
  BY <1>1, <1>2 DEF Inv, Order, Calm
<1>4. ClassWhenConfigured'
  BY <1>1 DEF Inv, ClassWhenConfigured, Effective
<1>5. TypeOK'
  BY DEF Inv, TypeOK
<1> QED
  BY <1>3, <1>4, <1>5 DEF Inv

\* Steps that leave the device awake on a bus that is on, with nothing latched.
LEMMA Awake ==
  ASSUME TypeOK', bus' = "on", Sound(d'), ~d'.wk, ~d'.sp, ~d'.rs, ~d'.en
  PROVE  Inv'
BY DEF Inv, Order, ClassWhenConfigured, Effective, Sound

\* The class data that a step has used.
Grown ==
  \/ d'.nullUse \subseteq d.nullUse
  \/ \E r \in SetupsOf : Exempt(r) /\ d'.nullUse = d.nullUse \cup {r}

\* The SETUP packet is taken off its buffer: the rest of the device stays.
LEMMA DequeTyped ==
  ASSUME NEW e \in DeviceType, NoRequest \in SetupsOf
  PROVE  [e EXCEPT !.stup = FALSE, !.setup = NoRequest] \in DeviceType
BY DEF DeviceType

LEMMA DequeKeeps ==
  ASSUME NEW e \in DeviceType
  PROVE  Core([e EXCEPT !.stup = FALSE, !.setup = NoRequest]) = Core(e)
BY DEF DeviceType, Core

LEMMA HandleOutInv ==
  ASSUME Inv, HandleOut
  PROVE  Inv' /\ Grown
<1> DEFINE x == ServeOut0(d)
           o == [d EXCEPT !.xout = FALSE]
           s == USBD_LL_SetupStage(o, d.setup)
           t == [s EXCEPT !.stup = FALSE, !.setup = NoRequest]
<1>1. /\ d \in DeviceType /\ d.setup \in SetupsOf /\ NoRequest \in SetupsOf
      /\ UNCHANGED <<host, bus>> /\ at' \in Sections /\ d' = ServeOut(d)
  BY DEF Inv, TypeOK, HandleOut, Section, Sections, DeviceType, SetupsOf
<1>2. d' = x \/ d' = ToClass(x, "inArmed")
  BY <1>1 DEF ServeOut
<1>3. x \in DeviceType => d' \in DeviceType /\ Core(d') = Core(x) /\ Latch(d') = Latch(x)
  <2> HIDE DEF x
  <2> QED
    BY <1>2, ToClassTyped, ToClassKeeps
<1>4. o \in DeviceType /\ Core(o) = Core(d) /\ Latch(o) = Latch(d)
  BY <1>1 DEF Core, Latch, DeviceType
<1>5. CASE d.masked \/ ~d.stup
  <2>1. x = d \/ x = o
    BY <1>5 DEF ServeOut0
  <2> HIDE DEF x, o
  <2>2. d' \in DeviceType /\ Core(d') = Core(d) /\ Latch(d') = Latch(d)
    BY <1>1, <1>3, <1>4, <2>1
  <2>3. Grown
    BY <2>2 DEF Core, Grown
  <2> QED
    BY <1>1, <2>2, <2>3, Unmoved
<1>6. CASE ~d.masked /\ d.stup
  <2>1. x = t
    BY <1>6 DEF ServeOut0
  <2>2. /\ bus = "on" /\ d.state # "SUSPENDED"
        /\ ~d.wk /\ ~d.sp /\ ~d.rs /\ ~d.en
    BY <1>6 DEF Inv, TypeOK, Order, Calm
  <2>3. Sound(o) /\ ~o.wk /\ ~o.sp /\ ~o.rs /\ ~o.en /\ o.nullUse = d.nullUse
    BY <1>4, <2>2 DEF Core, Sound, Inv, ClassWhenConfigured, Effective
  <2> HIDE DEF x, o
  <2>4. Handled(o, d.setup, s)
    BY <1>1, <2>3, SetupStageHandled
  <2> HIDE DEF s
  <2>5. t \in DeviceType /\ Core(t) = Core(s)
    <3>1. s \in DeviceType
      BY <2>4 DEF Handled, Sound
    <3>2. NoRequest \in SetupsOf
      BY <1>1
    <3>3. t \in DeviceType
      BY <3>1, <3>2, DequeTyped
    <3>4. Core(t) = Core(s)
      BY <3>1, DequeKeeps
    <3> QED
      BY <3>3, <3>4
  <2> HIDE DEF t
  <2>6. d' \in DeviceType /\ Core(d') = Core(s)
    BY <1>3, <2>1, <2>5
  <2>7. Sound(d') /\ ~d'.wk /\ ~d'.sp /\ ~d'.rs /\ ~d'.en
    BY <2>3, <2>4, <2>6 DEF Core, Handled, Sound
  <2>8. Grown
    <3>1. d'.nullUse = s.nullUse
      BY <2>6 DEF Core
    <3>2. \/ s.nullUse = d.nullUse
          \/ s.nullUse = d.nullUse \cup {d.setup} /\ Exempt(d.setup)
      BY <2>3, <2>4 DEF Handled
    <3> QED
      BY <1>1, <3>1, <3>2 DEF Grown
  <2>9. TypeOK'
    BY <1>1, <2>6 DEF Inv, TypeOK
  <2> QED
    BY <1>1, <2>2, <2>7, <2>8, <2>9, Awake
<1> QED
  BY <1>1, <1>5, <1>6 DEF DeviceType

LEMMA HandleInInv ==
  ASSUME Inv, HandleIn
  PROVE  Inv' /\ Grown
<1> DEFINE n == [d EXCEPT !.xin = None]
           x == IF d.xin # None THEN DataIn0(n) ELSE d
<1>1. /\ d \in DeviceType /\ UNCHANGED <<host, bus>> /\ at' \in Sections
      /\ d' = ServeIn(d)
  BY DEF Inv, TypeOK, HandleIn, Section, Sections
<1>2. n \in DeviceType /\ Core(n) = Core(d) /\ Latch(n) = Latch(d)
  BY <1>1, SpecialSources DEF Core, Latch, DeviceType
<1>3. d' = x \/ d' = ToClass(x, "outArmed")
  BY <1>1 DEF ServeIn
<1> HIDE DEF n
<1>4. x \in DeviceType /\ Core(x) = Core(d) /\ Latch(x) = Latch(d)
  BY <1>1, <1>2, DataInTyped, DataInKeeps
<1> HIDE DEF x
<1>5. d' \in DeviceType /\ Core(d') = Core(d) /\ Latch(d') = Latch(d)
  BY <1>3, <1>4, ToClassTyped, ToClassKeeps
<1>6. Grown
  BY <1>5 DEF Core, Grown
<1> QED
  BY <1>1, <1>5, <1>6, Unmoved

\* Resume, and then suspend: never both in one pass.
LEMMA HandleSleepInv ==
  ASSUME Inv, HandleSleep
  PROVE  Inv' /\ Grown
<1>1. /\ d \in DeviceType /\ UNCHANGED <<host, bus>> /\ at' \in Sections
      /\ d' = ServeSuspend(ServeWakeup(d))
  BY DEF Inv, TypeOK, HandleSleep, Section, Sections
<1>2. CASE d.wk
  <2> DEFINE w == [d EXCEPT !.state = d.old, !.wk = FALSE]
             x == [w EXCEPT !.sp = FALSE]
  <2>1. /\ d.state = "SUSPENDED" /\ ~d.en /\ ~d.sp /\ bus # "suspended"
        /\ d.old \in States \ {"SUSPENDED"} /\ Calm /\ host.phase = "idle"
    BY <1>2 DEF Inv, Order
  <2>2. ServeWakeup(d) = w
    <3>1. USBD_LL_Resume(d) = [d EXCEPT !.state = d.old]
      BY DEF USBD_LL_Resume
    <3> DEFINE y == [d EXCEPT !.state = d.old]
    <3>2. [y EXCEPT !.wk = FALSE] = w
      OBVIOUS
    <3> HIDE DEF w
    <3> QED
      BY <1>2, <3>1, <3>2 DEF ServeWakeup
  <2>3. w \in DeviceType
    BY <1>1, <2>1 DEF DeviceType
  <2> HIDE DEF w
  <2>4. d' = x
    BY <1>1, <2>1, <2>2 DEF ServeSuspend
  <2>5. x \in DeviceType
    BY <2>3 DEF DeviceType
  <2>6. /\ x.state = d.old /\ x.class = d.class /\ x.old = d.old /\ ~x.wk
        /\ ~x.sp /\ x.rs = d.rs /\ x.en = d.en /\ x.nullUse = d.nullUse
        /\ x.rxq = d.rxq /\ x.stup = d.stup /\ x.masked = d.masked
    BY <1>1, <2>3 DEF DeviceType, w
  <2> HIDE DEF x
  <2>7. TypeOK'
    BY <1>1, <2>4, <2>5 DEF Inv, TypeOK
  <2>8. Order'
    BY <1>1, <2>1, <2>4, <2>6 DEF Inv, Order, Calm
  <2>9. ClassWhenConfigured'
    BY <2>1, <2>4, <2>6 DEF Inv, ClassWhenConfigured, Effective
  <2> QED
    BY <2>4, <2>6, <2>7, <2>8, <2>9 DEF Inv, Grown
<1>3. CASE ~d.wk /\ d.sp
  <2> DEFINE y == [d EXCEPT !.old = d.state, !.state = "SUSPENDED"]
             x == [y EXCEPT !.sp = FALSE]
  <2>1. /\ d.state # "SUSPENDED" /\ bus = "suspended" /\ ~d.en /\ ~d.rs
        /\ Calm /\ host.phase = "idle" /\ d.state \in States
    BY <1>3 DEF Inv, TypeOK, Order, DeviceType
  <2>2. d' = x
    <3>1. ServeWakeup(d) = d
      BY <1>3 DEF ServeWakeup
    <3>2. USBD_LL_Suspend(d) = y
      BY DEF USBD_LL_Suspend
    <3> HIDE DEF y
    <3> QED
      BY <1>1, <1>3, <2>1, <3>1, <3>2 DEF ServeSuspend
  <2>3. y \in DeviceType
    BY <1>1 DEF DeviceType, States
  <2>4. /\ y.state = "SUSPENDED" /\ y.class = d.class /\ y.old = d.state
        /\ y.wk = d.wk /\ y.rs = d.rs /\ y.en = d.en /\ y.nullUse = d.nullUse
        /\ y.rxq = d.rxq /\ y.stup = d.stup /\ y.masked = d.masked
    BY <1>1 DEF DeviceType
  <2> HIDE DEF y
  <2>5. x \in DeviceType
    BY <2>3 DEF DeviceType
  <2>6. /\ x.state = "SUSPENDED" /\ x.class = d.class /\ x.old = d.state /\ ~x.wk
        /\ ~x.sp /\ ~x.rs /\ ~x.en /\ x.nullUse = d.nullUse
        /\ x.rxq = d.rxq /\ x.stup = d.stup /\ x.masked = d.masked
    BY <1>3, <2>1, <2>3, <2>4 DEF DeviceType
  <2> HIDE DEF x
  <2>7. TypeOK'
    BY <1>1, <2>2, <2>5 DEF Inv, TypeOK
  <2>8. Order'
    BY <1>1, <2>1, <2>2, <2>6 DEF Inv, Order, Calm
  <2>9. ClassWhenConfigured'
    BY <2>1, <2>2, <2>6 DEF Inv, ClassWhenConfigured, Effective
  <2> QED
    BY <2>2, <2>6, <2>7, <2>8, <2>9 DEF Inv, Grown
<1>4. CASE ~d.wk /\ ~d.sp
  <2> DEFINE x == [d EXCEPT !.sp = FALSE]
  <2>1. d' = x
    BY <1>1, <1>4 DEF ServeSuspend, ServeWakeup
  <2>2. x \in DeviceType /\ Core(x) = Core(d) /\ Latch(x) = Latch(d)
    BY <1>1, <1>4 DEF DeviceType, Core, Latch
  <2> HIDE DEF x
  <2>3. Grown
    BY <2>1, <2>2 DEF Core, Grown
  <2> QED
    BY <1>1, <2>1, <2>2, <2>3, Unmoved
<1> QED
  BY <1>1, <1>2, <1>3, <1>4 DEF DeviceType

LEMMA ServeResetTyped ==
  ASSUME NEW e \in DeviceType
  PROVE  /\ ServeReset(e) \in DeviceType
         /\ ServeReset(e).state = e.state /\ ServeReset(e).class = e.class
         /\ ServeReset(e).old = e.old /\ ServeReset(e).wk = e.wk
         /\ ServeReset(e).sp = e.sp /\ ServeReset(e).en = e.en
         /\ ServeReset(e).rxq = e.rxq /\ ServeReset(e).rs = FALSE
         /\ ServeReset(e).nullUse \subseteq e.nullUse
         /\ IF e.rs THEN ServeReset(e).stup = FALSE
                    ELSE /\ ServeReset(e).stup = e.stup
                         /\ ServeReset(e).masked = e.masked
<1> DEFINE b == IF e.bulk \in {"outDone", "inDone", "lost"} THEN "closed" ELSE e.bulk
           x == [e EXCEPT !.rs = FALSE, !.xin = None, !.xout = FALSE, !.stup = FALSE,
                          !.masked = FALSE, !.addr = 0, !.nullUse = {}, !.bulk = b]
<1>1. CASE ~e.rs
  <2>1. ServeReset(e) = e /\ e.rs = FALSE
    BY <1>1 DEF ServeReset, DeviceType
  <2> QED
    BY <1>1, <2>1
<1>2. CASE e.rs
  <2>1. ServeReset(e) = x
    BY <1>2 DEF ServeReset
  <2>2. b \in {"closed", "outArmed", "inArmed", "lost"} \cup InFlight
    BY DEF DeviceType
  <2> HIDE DEF b
  <2>3. /\ x \in DeviceType /\ x.state = e.state /\ x.class = e.class
        /\ x.old = e.old /\ x.wk = e.wk /\ x.sp = e.sp /\ x.en = e.en
        /\ x.rxq = e.rxq /\ x.rs = FALSE /\ x.nullUse = {} /\ x.stup = FALSE
    <3> DEFINE y == [e EXCEPT !.rs = FALSE, !.xin = None, !.xout = FALSE,
                              !.stup = FALSE]
               z == [y EXCEPT !.masked = FALSE, !.addr = 0, !.nullUse = {},
                              !.bulk = b]
    <3>1. x = z
      OBVIOUS
    <3>2. /\ y \in DeviceType /\ y.state = e.state /\ y.class = e.class
          /\ y.old = e.old /\ y.wk = e.wk /\ y.sp = e.sp /\ y.en = e.en
          /\ y.rxq = e.rxq /\ y.rs = FALSE /\ y.stup = FALSE
      BY SpecialSources DEF DeviceType
    <3> HIDE DEF x, y
    <3>3. z \in DeviceType
      BY <2>2, <3>2 DEF DeviceType
    <3>4. /\ z.state = y.state /\ z.class = y.class
          /\ z.old = y.old /\ z.wk = y.wk /\ z.sp = y.sp /\ z.en = y.en
          /\ z.rxq = y.rxq /\ z.rs = y.rs /\ z.nullUse = {} /\ z.stup = y.stup
      BY <3>2 DEF DeviceType
    <3> HIDE DEF z
    <3> QED
      BY <3>1, <3>2, <3>3, <3>4
  <2> HIDE DEF x
  <2> QED
    BY <1>2, <2>1, <2>3
<1> QED
  BY <1>1, <1>2

LEMMA ResetDone ==
  ASSUME NEW e \in DeviceType
  PROVE  LET x == [USBD_LL_Reset(e) EXCEPT !.en = FALSE]
         IN  /\ x \in DeviceType /\ x.state = "DEFAULT" /\ x.class = FALSE
             /\ x.wk = e.wk /\ x.sp = e.sp /\ x.rs = e.rs /\ x.en = FALSE
             /\ x.rxq = e.rxq /\ x.stup = e.stup /\ x.nullUse = e.nullUse
<1> DEFINE a == [e EXCEPT !.state = "DEFAULT", !.masked = FALSE]
           c == USBD_ClrClassConfig(a)
           l == USBD_LL_Reset(e)
           x == [l EXCEPT !.en = FALSE]
<1>1. /\ a \in DeviceType /\ a.state = "DEFAULT"
      /\ a.wk = e.wk /\ a.sp = e.sp /\ a.rs = e.rs
      /\ a.rxq = e.rxq /\ a.stup = e.stup /\ a.nullUse = e.nullUse
  BY DEF DeviceType, States
<1>2. l = IF a.class THEN c ELSE a
  BY DEF USBD_LL_Reset
<1> HIDE DEF a
<1>3. /\ c \in DeviceType /\ c.state = a.state /\ c.class = FALSE
      /\ c.wk = a.wk /\ c.sp = a.sp /\ c.rs = a.rs
      /\ c.rxq = a.rxq /\ c.stup = a.stup /\ c.nullUse = a.nullUse
  <2>1. c \in DeviceType
    BY <1>1, ClassConfigTyped
  <2> QED
    BY <1>1, <2>1 DEF USBD_ClrClassConfig, DeviceType
<1>4. a.class \in BOOLEAN
  BY <1>1 DEF DeviceType
<1> HIDE DEF c, l
<1>5. /\ l \in DeviceType /\ l.state = "DEFAULT" /\ l.class = FALSE
      /\ l.wk = e.wk /\ l.sp = e.sp /\ l.rs = e.rs
      /\ l.rxq = e.rxq /\ l.stup = e.stup /\ l.nullUse = e.nullUse
  BY <1>1, <1>2, <1>3, <1>4
<1>6. /\ x \in DeviceType /\ x.state = "DEFAULT" /\ x.class = FALSE
      /\ x.wk = e.wk /\ x.sp = e.sp /\ x.rs = e.rs /\ x.en = FALSE
      /\ x.rxq = e.rxq /\ x.stup = e.stup /\ x.nullUse = e.nullUse
  BY <1>5 DEF DeviceType
<1> QED
  BY <1>6 DEF x, l

LEMMA HandleResetInv ==
  ASSUME Inv, HandleReset
  PROVE  Inv' /\ Grown
<1> DEFINE s == ServeReset(d)
           x == [USBD_LL_Reset(s) EXCEPT !.en = FALSE]
<1>1. /\ d \in DeviceType /\ UNCHANGED <<host, bus>> /\ at' \in Sections
      /\ d' = ServeEnumDone(s)
  BY DEF Inv, TypeOK, HandleReset, Section, Sections
<1>2. /\ s \in DeviceType /\ s.state = d.state /\ s.class = d.class
      /\ s.old = d.old /\ s.wk = d.wk /\ s.sp = d.sp /\ s.en = d.en
      /\ s.rxq = d.rxq /\ s.rs = FALSE /\ s.nullUse \subseteq d.nullUse
      /\ IF d.rs THEN s.stup = FALSE ELSE s.stup = d.stup /\ s.masked = d.masked
  BY <1>1, ServeResetTyped
<1> HIDE DEF s
<1>3. CASE d.en
  <2>1. d' = x
    BY <1>1, <1>2, <1>3 DEF ServeEnumDone
  <2>2. /\ x \in DeviceType /\ x.state = "DEFAULT" /\ x.class = FALSE
        /\ x.wk = s.wk /\ x.sp = s.sp /\ x.rs = s.rs /\ x.en = FALSE
        /\ x.rxq = s.rxq /\ x.stup = s.stup /\ x.nullUse = s.nullUse
    BY <1>2, ResetDone
  <2> HIDE DEF x
  <2>3. TypeOK'
    BY <1>1, <2>1, <2>2 DEF Inv, TypeOK
  <2>4. /\ ~d.wk /\ bus # "suspended" /\ ~d.sp /\ ~d.stup
    BY <1>3 DEF Inv, Order
  <2>5. ~x.stup
    BY <1>2, <2>2, <2>4
  <2>6. Order'
    BY <1>1, <1>2, <1>3, <2>1, <2>2, <2>4, <2>5 DEF Inv, Order, Calm
  <2>7. ClassWhenConfigured'
    BY <2>1, <2>2 DEF ClassWhenConfigured, Effective
  <2>8. Grown
    BY <1>2, <2>1, <2>2 DEF Grown
  <2> QED
    BY <2>3, <2>6, <2>7, <2>8 DEF Inv
<1>4. CASE ~d.en
  <2>1. d' = s
    BY <1>1, <1>2, <1>4 DEF ServeEnumDone
  <2>2. TypeOK'
    BY <1>1, <1>2, <2>1 DEF Inv, TypeOK
  <2>3. Order'
    BY <1>1, <1>2, <1>4, <2>1 DEF Inv, Order, Calm
  <2>4. ClassWhenConfigured'
    BY <1>2, <2>1 DEF Inv, ClassWhenConfigured, Effective
  <2>5. Grown
    BY <1>2, <2>1 DEF Grown
  <2> QED
    BY <2>2, <2>3, <2>4, <2>5 DEF Inv
<1> QED
  BY <1>1, <1>3, <1>4 DEF DeviceType

LEMMA PopTyped ==
  ASSUME NEW e \in DeviceType, e.rxq # << >>
  PROVE  /\ Pop(e) \in DeviceType /\ Core(Pop(e)) = Core(e)
<1> DEFINE h == Head(e.rxq)
           q == Tail(e.rxq)
           x == [e EXCEPT !.rxq = q]
<1>1. h \in Entries /\ q \in Seq(Entries)
  <2>1. e.rxq \in Seq(Entries)
    BY DEF DeviceType
  <2> QED
    BY <2>1
<1>2. h.what = "setup" => h.req \in SetupsOf
  BY <1>1 DEF Entries
<1> HIDE DEF q
<1>3. x \in DeviceType /\ Core(x) = Core(e)
  BY <1>1 DEF DeviceType, Core
<1>4. \/ h.what = "setup" /\ Pop(e) = [x EXCEPT !.setup = h.req]
      \/ Pop(e) = [x EXCEPT !.stup = TRUE]
      \/ Pop(e) = [x EXCEPT !.xout = TRUE]
      \/ Pop(e) = [x EXCEPT !.bulk = "outDone"]
  BY DEF Pop, q
<1> HIDE DEF h, x
<1>5. CASE h.what = "setup" /\ Pop(e) = [x EXCEPT !.setup = h.req]
  BY <1>2, <1>3, <1>5 DEF DeviceType, Core
<1>6. CASE Pop(e) = [x EXCEPT !.stup = TRUE]
  BY <1>3, <1>6 DEF DeviceType, Core
<1>7. CASE Pop(e) = [x EXCEPT !.xout = TRUE]
  BY <1>3, <1>7 DEF DeviceType, Core
<1>8. CASE Pop(e) = [x EXCEPT !.bulk = "outDone"]
  <2>1. "outDone" \in {"closed", "outArmed", "inArmed", "lost"} \cup InFlight
    BY DEF InFlight
  <2> QED
    BY <1>3, <1>8, <2>1 DEF DeviceType, Core
<1> QED
  BY <1>4, <1>5, <1>6, <1>7, <1>8

LEMMA HandleRxInv ==
  ASSUME Inv, HandleRx
  PROVE  Inv' /\ Grown
<1>1. /\ d \in DeviceType /\ UNCHANGED <<host, bus>> /\ at' \in Sections
      /\ d' = ServeRx(d)
  BY DEF Inv, TypeOK, HandleRx, Section, Sections
<1>2. CASE d.rxq = << >>
  <2>1. d' = d
    BY <1>1, <1>2 DEF ServeRx
  <2> QED
    BY <1>1, <2>1, Unmoved DEF Grown
<1>3. CASE d.rxq # << >>
  <2>1. d' \in DeviceType /\ Core(d') = Core(d)
    BY <1>1, <1>3, PopTyped DEF ServeRx
  <2>2. /\ bus = "on" /\ d.state # "SUSPENDED"
        /\ ~d.wk /\ ~d.sp /\ ~d.rs /\ ~d.en
    BY <1>3 DEF Inv, TypeOK, Order, Calm
  <2>3. Sound(d') /\ ~d'.wk /\ ~d'.sp /\ ~d'.rs /\ ~d'.en
    BY <2>1, <2>2 DEF Core, Sound, Inv, ClassWhenConfigured, Effective
  <2>4. TypeOK'
    BY <1>1, <2>1 DEF Inv, TypeOK
  <2>5. Grown
    BY <2>1 DEF Core, Grown
  <2> QED
    BY <1>1, <2>2, <2>3, <2>4, <2>5, Awake
<1> QED
  BY <1>2, <1>3

-----------------------------------------------------------------------------
(* The bus and the host.                                                   *)

\* The device is awake, and the bus is on.
Up == bus = "on" /\ d.state # "SUSPENDED" /\ ~d.wk /\ ~d.sp /\ ~d.rs /\ ~d.en

LEMMA UpWhenRecovered ==
  ASSUME Inv, Prompt, bus = "on", Recovered
  PROVE  Up
BY DEF Inv, TypeOK, Order, Recovered, Up

LEMMA UpWhenOpen ==
  ASSUME Inv, bus = "on", host.phase # "idle"
  PROVE  Up
BY DEF Inv, TypeOK, Order, Up

\* Steps of the host on a device that is up.
LEMMA StillUp ==
  ASSUME Inv, Up, UNCHANGED <<at, bus>>, host' \in HostType,
         d' \in DeviceType, Core(d') = Core(d)
  PROVE  Inv' /\ Grown
<1>1. /\ d'.state = d.state /\ d'.class = d.class /\ d'.nullUse = d.nullUse
      /\ d'.wk = d.wk /\ d'.sp = d.sp /\ d'.rs = d.rs /\ d'.en = d.en
  BY DEF Core
<1>2. Sound(d')
  BY <1>1 DEF Up, Sound, Inv, ClassWhenConfigured, Effective
<1>3. TypeOK'
  BY DEF Inv, TypeOK
<1>4. Inv'
  BY <1>1, <1>2, <1>3, Awake DEF Up
<1> QED
  BY <1>1, <1>4 DEF Grown

LEMMA IdleTyped ==
  ASSUME Inv
  PROVE  Idle \in HostType
<1>1. host \in HostType /\ NoRequest \in SetupsOf
  BY DEF Inv, TypeOK, SetupsOf
<1> QED
  BY <1>1 DEF Idle, HostType

LEMMA HostSetupInv ==
  ASSUME Inv, Prompt, NEW r \in Requests, HostSetup(r)
  PROVE  Inv' /\ Grown
<1> DEFINE a == [what |-> "setup", req |-> r]
           b == [what |-> "setupDone"]
           q == d.rxq \o <<a, b>>
           i == [d.in EXCEPT !.on = FALSE]
           p == IF r.dir = "in" /\ r.len # 0 THEN "data" ELSE "status_in"
<1>1. d \in DeviceType /\ host \in HostType /\ r \in SetupsOf
  BY DEF Inv, TypeOK, SetupsOf
<1>2. Up /\ UNCHANGED <<at, bus>>
  BY UpWhenRecovered DEF HostSetup
<1>3. host' \in HostType
  <2>1. host' = [host EXCEPT !.phase = p, !.req = r]
    BY DEF HostSetup
  <2>2. p \in {"idle", "data", "status_in", "status_out"}
    OBVIOUS
  <2> HIDE DEF p
  <2> QED
    BY <1>1, <2>1, <2>2 DEF HostType
<1>4. q \in Seq(Entries)
  <2>1. a \in Entries /\ b \in Entries
    BY <1>1 DEF Entries
  <2>2. d.rxq \in Seq(Entries)
    BY <1>1 DEF DeviceType
  <2> HIDE DEF a, b
  <2>3. <<a, b>> \in Seq(Entries)
    BY <2>1
  <2> QED
    BY <2>2, <2>3
<1>5. i \in InType
  BY <1>1, InField DEF InType
<1>6. d' = [d EXCEPT !.rxq = q, !.in = i, !.out = FALSE,
                     !.stallIn = FALSE, !.stallOut = FALSE]
  BY <1>1 DEF HostSetup, DeviceType
<1> HIDE DEF q, i
<1>7. d' \in DeviceType
  BY <1>1, <1>4, <1>5, <1>6 DEF DeviceType, InType
<1>8. Core(d') = Core(d)
  BY <1>1, <1>6 DEF DeviceType, Core
<1> QED
  BY <1>2, <1>3, <1>7, <1>8, StillUp

LEMMA TakeInTyped ==
  ASSUME NEW e \in DeviceType
  PROVE  LET x == [e EXCEPT !.in.on = FALSE, !.xin = e.in.src]
         IN  x \in DeviceType /\ Core(x) = Core(e)
<1> DEFINE i == [e.in EXCEPT !.on = FALSE]
           s == e.in.src
           y == [e EXCEPT !.in = i, !.xin = s]
           x == [e EXCEPT !.in.on = FALSE, !.xin = e.in.src]
<1>1. i \in InType /\ s \in Sources
  BY InField DEF InType
<1>2. x = y
  BY DEF DeviceType
<1> HIDE DEF i, s, x
<1>3. y \in DeviceType
  BY <1>1 DEF DeviceType, InType
<1>4. Core(y) = Core(e)
  BY DEF DeviceType, Core
<1> HIDE DEF y
<1>5. x \in DeviceType /\ Core(x) = Core(e)
  BY <1>2, <1>3, <1>4
<1> QED
  BY <1>5 DEF x

LEMMA ReceivedTyped ==
  ASSUME d \in DeviceType, NEW what \in {"status", "bulk"}
  PROVE  Received(what) \in DeviceType /\ Core(Received(what)) = Core(d)
<1> DEFINE b == [what |-> what]
           q == Append(d.rxq, b)
<1>1. q \in Seq(Entries)
  <2>1. b \in Entries
    BY DEF Entries
  <2>2. d.rxq \in Seq(Entries)
    BY DEF DeviceType
  <2> HIDE DEF b
  <2> QED
    BY <2>1, <2>2
<1> DEFINE y == [d EXCEPT !.rxq = q]
<1>2. Received(what) = y
  BY DEF Received
<1> HIDE DEF q
<1>3. y \in DeviceType
  BY <1>1 DEF DeviceType
<1>4. Core(y) = Core(d)
  BY DEF DeviceType, Core
<1> QED
  BY <1>2, <1>3, <1>4

LEMMA HostMovesInv ==
  ASSUME Inv, HostMoves
  PROVE  Inv' /\ Grown
<1>1. Up /\ UNCHANGED <<at, bus>> /\ d \in DeviceType /\ host \in HostType
  BY UpWhenOpen DEF HostMoves, HostDataIn, HostStatusIn, HostStatusOut,
     HostStalled, HostTimesOut, InVain, Inv, TypeOK
<1>2. Idle \in HostType
  BY IdleTyped
<1>3. TakeIn \in DeviceType /\ Core(TakeIn) = Core(d)
  BY <1>1, TakeInTyped DEF TakeIn
<1>4. CASE HostDataIn
  <2> DEFINE g == host.got + d.in.len
             o == host.ok /\ (\/ d.in.src = Source(host.req) /\ d.in.off = host.got
                              \/ d.in.src = Zlp)
             p == IF d.in.len < MaxPacket \/ host.got + d.in.len >= host.req.len
                  THEN "status_out" ELSE "data"
  <2>1. g \in Nat
    BY <1>1, InField DEF HostType, InType
  <2>2. o \in BOOLEAN
    OBVIOUS
  <2>3. p \in {"idle", "data", "status_in", "status_out"}
    OBVIOUS
  <2>4. host' = [host EXCEPT !.got = g, !.ok = o, !.phase = p]
    BY <1>4, <1>1 DEF HostDataIn, HostType
  <2> HIDE DEF g, o, p
  <2>5. host' \in HostType
    BY <1>1, <2>1, <2>2, <2>3, <2>4 DEF HostType
  <2>6. d' = TakeIn
    BY <1>4 DEF HostDataIn
  <2> QED
    BY <1>1, <1>3, <2>5, <2>6, StillUp
<1>5. CASE HostStatusIn
  <2> DEFINE v == View(host.req)
             n == IF host.req.req = "SET_ADDRESS" THEN host.req.val ELSE Idle.addr
  <2>1. v \in {"attached", "default", "addressed", "configured"}
    BY <1>1 DEF View, HostType
  <2>2. n \in Nat
    BY <1>1, <1>2, RequestFields DEF HostType
  <2>3. host' = [Idle EXCEPT !.view = v, !.addr = n]
    <3> DEFINE j == Idle
    <3>1. j \in HostType
      BY <1>2
    <3>2. host' = [j EXCEPT !.view = View(host.req),
                    !.addr = IF host.req.req = "SET_ADDRESS" THEN host.req.val ELSE @]
      BY <1>5 DEF HostStatusIn
    <3> HIDE DEF j
    <3>3. host' = [j EXCEPT !.view = View(host.req),
                    !.addr = IF host.req.req = "SET_ADDRESS" THEN host.req.val ELSE j.addr]
      BY <3>1, <3>2 DEF HostType
    <3> QED
      BY <3>3 DEF j
  <2> HIDE DEF v, n
  <2>4. host' \in HostType
    <3> DEFINE j == Idle
    <3>1. j \in HostType
      BY <1>2
    <3> HIDE DEF j
    <3>2. [j EXCEPT !.view = v, !.addr = n] \in HostType
      BY <2>1, <2>2, <3>1 DEF HostType
    <3> QED
      BY <2>3, <3>2 DEF j
  <2>5. d' = TakeIn
    BY <1>5 DEF HostStatusIn
  <2> QED
    BY <1>1, <1>3, <2>4, <2>5, StillUp
<1>6. CASE HostStatusOut
  <2> DEFINE y == Received("status")
  <2>1. y \in DeviceType /\ Core(y) = Core(d)
    BY <1>1, ReceivedTyped
  <2>2. d' = [y EXCEPT !.out = FALSE] /\ host' = Idle
    BY <1>6 DEF HostStatusOut
  <2> HIDE DEF y
  <2>3. d' \in DeviceType /\ Core(d') = Core(y)
    BY <2>1, <2>2 DEF DeviceType, Core
  <2> QED
    BY <1>1, <1>2, <2>1, <2>2, <2>3, StillUp
<1>7. CASE HostStalled \/ HostTimesOut
  <2>1. d' = d /\ host' = Idle
    BY <1>7 DEF HostStalled, HostTimesOut
  <2> QED
    BY <1>1, <1>2, <2>1, StillUp
<1> QED
  BY <1>4, <1>5, <1>6, <1>7 DEF HostMoves

LEMMA HostBulkInv ==
  ASSUME Inv, Prompt, HostBulkOut \/ HostBulkIn
  PROVE  Inv' /\ Grown
<1>1. Up /\ UNCHANGED <<at, bus, host>> /\ d \in DeviceType /\ host \in HostType
  BY UpWhenRecovered DEF HostBulkOut, HostBulkIn, BulkRuns, Inv, TypeOK
<1>2. /\ "outFifo" \in {"closed", "outArmed", "inArmed", "lost"} \cup InFlight
      /\ "inDone" \in {"closed", "outArmed", "inArmed", "lost"} \cup InFlight
  BY DEF InFlight
<1>3. CASE HostBulkOut
  <2> DEFINE y == Received("bulk")
  <2>1. y \in DeviceType /\ Core(y) = Core(d)
    BY <1>1, ReceivedTyped
  <2>2. d' = [y EXCEPT !.bulk = "outFifo"]
    BY <1>3 DEF HostBulkOut
  <2> HIDE DEF y
  <2>3. d' \in DeviceType /\ Core(d') = Core(y)
    BY <1>2, <2>1, <2>2 DEF DeviceType, Core
  <2> QED
    BY <1>1, <2>1, <2>3, StillUp
<1>4. CASE HostBulkIn
  <2>1. d' = [d EXCEPT !.bulk = "inDone"]
    BY <1>4 DEF HostBulkIn
  <2>2. d' \in DeviceType /\ Core(d') = Core(d)
    BY <1>1, <1>2, <2>1 DEF DeviceType, Core
  <2> QED
    BY <1>1, <2>2, StillUp
<1> QED
  BY <1>3, <1>4

\* What the bus can count on when the handler has nothing to do.
LEMMA SettledMeans ==
  ASSUME Inv, Settled
  PROVE  ~d.wk /\ ~d.sp /\ ~d.rs /\ ~d.en /\ Calm
BY DEF Settled, Pending, Calm

\* The four steps of the bus raise one interrupt each.
LEMMA Raised ==
  ASSUME Inv, NEW w \in BOOLEAN, NEW s \in BOOLEAN, NEW r \in BOOLEAN,
         NEW n \in BOOLEAN,
         d' = [d EXCEPT !.wk = w, !.sp = s, !.rs = r, !.en = n]
  PROVE  /\ d' \in DeviceType /\ d'.state = d.state /\ d'.class = d.class
         /\ d'.old = d.old /\ d'.nullUse = d.nullUse /\ Latch(d') = Latch(d)
         /\ d'.wk = w /\ d'.sp = s /\ d'.rs = r /\ d'.en = n
<1>1. d \in DeviceType
  BY DEF Inv, TypeOK
<1>2. d' \in DeviceType
  <2> DEFINE x == [d EXCEPT !.wk = w, !.sp = s]
             y == [x EXCEPT !.rs = r, !.en = n]
  <2>1. d' = y
    OBVIOUS
  <2>2. x \in DeviceType
    BY <1>1 DEF DeviceType
  <2> HIDE DEF x
  <2>3. y \in DeviceType
    BY <2>2 DEF DeviceType
  <2> QED
    BY <2>1, <2>3
<1>3. /\ d'.state = d.state /\ d'.class = d.class
      /\ d'.old = d.old /\ d'.nullUse = d.nullUse
      /\ d'.wk = w /\ d'.sp = s /\ d'.rs = r /\ d'.en = n
  BY <1>1 DEF DeviceType
<1>4. Latch(d') = Latch(d)
  BY <1>1 DEF DeviceType, Latch
<1> QED
  BY <1>2, <1>3, <1>4

LEMMA BusInv ==
  ASSUME Inv, Prompt, HostSuspend \/ HostResume \/ HostReset \/ HostResetEnds
  PROVE  Inv' /\ Grown
<1>1. d \in DeviceType /\ host \in HostType /\ UNCHANGED at
      /\ at \in Sections
  BY DEF Inv, TypeOK, HostSuspend, HostResume, HostReset, HostResetEnds
<1>2. /\ d.wk \in BOOLEAN /\ d.sp \in BOOLEAN /\ d.rs \in BOOLEAN
      /\ d.en \in BOOLEAN
  BY <1>1 DEF DeviceType
<1>3. CASE HostSuspend
  <2>1. ~d.wk /\ ~d.sp /\ ~d.rs /\ ~d.en /\ Calm
    BY <1>3, SettledMeans DEF HostSuspend
  <2>2. d' = [d EXCEPT !.wk = FALSE, !.sp = TRUE, !.rs = FALSE, !.en = FALSE]
    BY <1>1, <1>2, <1>3, <2>1 DEF HostSuspend, DeviceType
  <2>3. /\ d' \in DeviceType /\ d'.state = d.state /\ d'.class = d.class
        /\ d'.old = d.old /\ d'.nullUse = d.nullUse /\ Latch(d') = Latch(d)
        /\ d'.wk = FALSE /\ d'.sp = TRUE /\ d'.rs = FALSE /\ d'.en = FALSE
    BY <2>2, Raised
  <2>4. bus = "on" /\ bus' = "suspended" /\ host' = host /\ host.phase = "idle"
    BY <1>3 DEF HostSuspend
  <2>5. d.state # "SUSPENDED"
    BY <2>1, <2>4 DEF Inv, Order
  <2>6. Order'
    BY <2>1, <2>3, <2>4, <2>5 DEF Order, Calm, Latch
  <2> QED
    BY <1>1, <2>3, <2>4, <2>6 DEF Inv, TypeOK, ClassWhenConfigured, Effective, Grown
<1>4. CASE HostResume
  <2>1. ~d.wk /\ ~d.sp /\ ~d.rs /\ ~d.en /\ Calm
    BY <1>4, SettledMeans DEF HostResume
  <2>2. d' = [d EXCEPT !.wk = TRUE, !.sp = FALSE, !.rs = FALSE, !.en = FALSE]
    BY <1>1, <1>2, <1>4, <2>1 DEF HostResume, DeviceType
  <2>3. /\ d' \in DeviceType /\ d'.state = d.state /\ d'.class = d.class
        /\ d'.old = d.old /\ d'.nullUse = d.nullUse /\ Latch(d') = Latch(d)
        /\ d'.wk = TRUE /\ d'.sp = FALSE /\ d'.rs = FALSE /\ d'.en = FALSE
    BY <2>2, Raised
  <2>4. bus = "suspended" /\ bus' = "on" /\ host' = host
    BY <1>4 DEF HostResume
  <2>5. d.state = "SUSPENDED"
    BY <2>1, <2>4 DEF Inv, Order
  <2>6. Order'
    BY <2>1, <2>3, <2>4, <2>5 DEF Inv, Order, Calm, Latch
  <2> QED
    BY <1>1, <2>3, <2>4, <2>6 DEF Inv, TypeOK, ClassWhenConfigured, Effective, Grown
<1>5. CASE HostReset
  <2>1. PICK w \in {FALSE, bus = "suspended"} :
          d' = [d EXCEPT !.rs = TRUE, !.wk = @ \/ w]
    BY <1>5 DEF HostReset
  <2>2. w \in BOOLEAN
    OBVIOUS
  <2> DEFINE k == d.wk \/ w
  <2>3. k \in BOOLEAN
    OBVIOUS
  <2>4. d' = [d EXCEPT !.wk = k, !.sp = d.sp, !.rs = TRUE, !.en = d.en]
    BY <1>1, <2>1 DEF DeviceType
  <2> HIDE DEF k
  <2>5. /\ d' \in DeviceType /\ d'.state = d.state /\ d'.class = d.class
        /\ d'.old = d.old /\ d'.nullUse = d.nullUse /\ Latch(d') = Latch(d)
        /\ d'.wk = k /\ d'.sp = d.sp /\ d'.rs = TRUE /\ d'.en = d.en
    BY <1>2, <2>3, <2>4, Raised
  <2>6. /\ bus # "reset" /\ bus' = "reset" /\ ~d.sp /\ Calm
        /\ host' = [Idle EXCEPT !.view = "default", !.addr = 0]
    BY <1>5 DEF HostReset, Calm
  <2>7. host' \in HostType /\ host'.phase = "idle"
    <3> DEFINE j == Idle
    <3>1. j \in HostType
      BY IdleTyped
    <3>2. j.phase = "idle"
      BY <1>1 DEF Idle, HostType
    <3> HIDE DEF j
    <3>3. /\ [j EXCEPT !.view = "default", !.addr = 0] \in HostType
          /\ [j EXCEPT !.view = "default", !.addr = 0].phase = "idle"
      BY <3>1, <3>2 DEF HostType
    <3> QED
      BY <2>6, <3>3 DEF j
  <2>8. k => d.state = "SUSPENDED" /\ ~d.en
    <3>1. w => bus = "suspended"
      BY <2>1
    <3> QED
      BY <2>6, <3>1 DEF k, Inv, Order
  <2>9. Order'
    BY <2>5, <2>6, <2>7, <2>8 DEF Inv, Order, Calm, Latch
  <2> QED
    BY <1>1, <2>5, <2>6, <2>7, <2>9 DEF Inv, TypeOK, ClassWhenConfigured, Effective, Grown
<1>6. CASE HostResetEnds
  <2>1. ~d.wk /\ ~d.sp /\ ~d.rs /\ ~d.en /\ Calm
    BY <1>6, SettledMeans DEF HostResetEnds
  <2>2. d' = [d EXCEPT !.wk = FALSE, !.sp = FALSE, !.rs = FALSE, !.en = TRUE]
    BY <1>1, <1>2, <1>6, <2>1 DEF HostResetEnds, DeviceType
  <2>3. /\ d' \in DeviceType /\ d'.state = d.state /\ d'.class = d.class
        /\ d'.old = d.old /\ d'.nullUse = d.nullUse /\ Latch(d') = Latch(d)
        /\ d'.wk = FALSE /\ d'.sp = FALSE /\ d'.rs = FALSE /\ d'.en = TRUE
    BY <2>2, Raised
  <2>4. bus = "reset" /\ bus' = "on" /\ host' = host
    BY <1>6 DEF HostResetEnds
  <2>5. host.phase = "idle" /\ ~d.stup
    BY <2>1, <2>4 DEF Inv, Order
  <2>6. Order'
    BY <2>1, <2>3, <2>4, <2>5 DEF Inv, Order, Calm, Latch
  <2> QED
    BY <1>1, <2>3, <2>4, <2>6 DEF Inv, TypeOK, ClassWhenConfigured, Effective, Grown
<1> QED
  BY <1>3, <1>4, <1>5, <1>6

-----------------------------------------------------------------------------
(* The first step and every step keep the invariant.                       *)

LEMMA InitInv == Init => Inv /\ d.nullUse = {}
<1> SUFFICES ASSUME Init PROVE Inv /\ d.nullUse = {}
  OBVIOUS
<1>1. << >> \in Seq(Entries) /\ NoRequest \in SetupsOf
  BY DEF SetupsOf
<1>2. d \in DeviceType
  BY <1>1, NoInTyped, SpecialSources DEF Init, DeviceType, InType, States
<1>3. host \in HostType
  BY <1>1 DEF Init, HostType
<1>4. TypeOK
  BY <1>2, <1>3 DEF Init, TypeOK, Sections
<1>5. Order /\ ClassWhenConfigured /\ d.nullUse = {}
  BY DEF Init, Order, ClassWhenConfigured, Effective
<1> QED
  BY <1>4, <1>5 DEF Inv

LEMMA StepInv ==
  ASSUME Prompt, Inv, [Next]_vars
  PROVE  Inv' /\ Grown
<1>1. CASE HAL_PCD_IRQHandler
  BY <1>1, HandleOutInv, HandleInInv, HandleSleepInv, HandleResetInv, HandleRxInv
     DEF HAL_PCD_IRQHandler
<1>2. CASE HostMoves
  BY <1>2, HostMovesInv
<1>3. CASE \E r \in Requests : HostSetup(r)
  BY <1>3, HostSetupInv
<1>4. CASE HostBulkOut \/ HostBulkIn
  BY <1>4, HostBulkInv
<1>5. CASE HostSuspend \/ HostResume \/ HostReset \/ HostResetEnds
  BY <1>5, BusInv
<1>6. CASE UNCHANGED vars
  BY <1>6 DEF vars, Inv, TypeOK, Order, Calm, ClassWhenConfigured, Effective, Grown
<1> QED
  BY <1>1, <1>2, <1>3, <1>4, <1>5, <1>6 DEF Next

-----------------------------------------------------------------------------
(* A control transfer, from the host's request to its end.                 *)

\* What the device answers a state of the host with.
StateOf(v) == CASE v = "default"   -> "DEFAULT"
                [] v = "addressed" -> "ADDRESSED"
                [] OTHER           -> "CONFIGURED"

\* The device is in the state the host believes it to be in.
Agreed(e, v, n) == e.state = StateOf(v) /\ e.addr = n

\* The receive FIFO: no request in it; one, with the bulk data of a host that
\* stops before it; its first half read; bulk data.
Quiet(q) == \A i \in DOMAIN q : q[i].what \notin {"setup", "setupDone"}

Waiting(q, r) ==
  \E i \in DOMAIN q :
    /\ i + 1 \in DOMAIN q
    /\ q[i].what = "setup" /\ q[i].req = r /\ q[i + 1].what = "setupDone"
    /\ \A j \in DOMAIN q : q[j].what \in {"setup", "setupDone"} => j \in {i, i + 1}
    /\ StopsBulk(r) => \A j \in DOMAIN q : q[j].what = "bulk" => j < i

Popped(q) ==
  q # << >> /\ Head(q).what = "setupDone" /\ Quiet(Tail(q))

Bulky(q) == \E i \in DOMAIN q : q[i].what = "bulk"
OneBulk(q) ==
  \A i, j \in DOMAIN q : q[i].what = "bulk" /\ q[j].what = "bulk" => i = j

\* The request is on its way: in the FIFO, half read, or read.
Before(e, h, a) ==
  \/ Waiting(e.rxq, h.req) /\ ~e.stup
  \/ /\ Popped(e.rxq) /\ ~e.stup /\ e.setup = h.req
     /\ e.xin # None => a \in {"out", "in"}
     /\ StopsBulk(h.req) => e.bulk \notin {"outFifo", "outDone"}
     /\ StopsBulk(h.req) /\ e.bulk = "inDone" => a \in {"out", "in"}
  \/ /\ e.stup /\ a = "out" /\ Quiet(e.rxq) /\ e.setup = h.req /\ e.xin = None
     /\ StopsBulk(h.req) => e.bulk \notin InFlight

FirstPhase(r) == IF r.dir = "in" /\ r.len # 0 THEN "data" ELSE "status_in"

OnItsWay(e, h, a) ==
  /\ ~e.in.on /\ ~e.out /\ ~e.stallIn /\ ~e.stallOut
  /\ h.got = 0 /\ h.ok /\ h.phase = FirstPhase(h.req)
  /\ Agreed(e, h.view, h.addr)
  /\ e.xin # None => e.ep0 # "DATA_IN"
  /\ Before(e, h, a)

\* A data stage: a packet is offered, it is taken and more are to come, the
\* empty packet is offered, or the last one is taken.
Wanted(r) == Min2(Answer(r), r.len)

Offer(e, h) ==
  /\ e.in.on /\ e.xin = None /\ e.in.src = Source(h.req)
  /\ e.in.len = Min2(e.rem, MaxPacket) /\ e.in.off + e.rem = e.total
  /\ e.in.off % MaxPacket = 0 /\ e.rem >= 1
  /\ h.got = e.in.off /\ e.dlen = h.req.len

More(e, h) ==
  /\ ~e.in.on /\ e.xin = e.in.src /\ e.in.src = Source(h.req)
  /\ e.in.len = MaxPacket /\ e.in.off + e.rem = e.total
  /\ e.in.off % MaxPacket = 0
  /\ h.got = e.in.off + MaxPacket /\ e.dlen = h.req.len
  /\ e.rem >= MaxPacket
  /\ e.rem = MaxPacket => e.total < e.dlen

Empty(e, h) ==
  /\ e.in.on /\ e.xin = None /\ e.in.src = Zlp /\ e.in.len = 0
  /\ e.dlen = 0 /\ e.rem <= MaxPacket /\ h.got = e.total

Sending(e, h) ==
  /\ e.ep0 = "DATA_IN" /\ ~e.out /\ ~e.stallIn /\ ~e.stallOut
  /\ h.phase = "data" /\ h.ok /\ e.total = Wanted(h.req)
  /\ Offer(e, h) \/ More(e, h) \/ Empty(e, h)

LastTaken(e) ==
  /\ e.ep0 = "DATA_IN" /\ ~e.out /\ ~e.in.on /\ e.xin = e.in.src
  /\ e.xin # None /\ e.rem <= MaxPacket
  /\ ~(e.total % MaxPacket = 0 /\ e.total >= MaxPacket /\ e.total < e.dlen)

\* The other outcomes.
Refused(e) == e.stallIn /\ e.ep0 # "DATA_IN" /\ e.xin = None

Silent(e, h) ==
  /\ ~e.in.on /\ ~e.stallIn /\ e.ep0 # "DATA_IN" /\ e.xin = None
  /\ NoAnswer(h.view, h.req)

ViewAfter(v, r) ==
  CASE r.req = "SET_ADDRESS" -> IF r.val = 0 THEN "default" ELSE "addressed"
    [] r.req = "SET_CONFIGURATION" ->
         IF r.val = 0 THEN "addressed" ELSE "configured"
    [] OTHER -> v
AddrAfter(n, r) == IF r.req = "SET_ADDRESS" THEN r.val ELSE n

Acked(e, h) ==
  /\ ~e.stallIn /\ e.in.on /\ e.in.src = Status
  /\ e.ep0 # "DATA_IN" /\ e.xin = None
  /\ h.phase = "status_in"
  /\ Agreed(e, ViewAfter(h.view, h.req), AddrAfter(h.addr, h.req))
  /\ h.req.req = "SET_ADDRESS" => h.view # "configured"

Ended(e, h) ==
  /\ h.phase = "status_out" /\ ~e.stallOut /\ Agreed(e, h.view, h.addr)
  /\ h.ok /\ h.got = Wanted(h.req)
  /\ LastTaken(e) \/ (e.out /\ e.ep0 = "STATUS_OUT" /\ e.xin = None)

Served(e, h) ==
  /\ ~e.stup /\ Quiet(e.rxq)
  /\ \/ /\ h.phase \in {"data", "status_in"} /\ Agreed(e, h.view, h.addr)
        /\ Refused(e) \/ Silent(e, h) \/ Sending(e, h)
     \/ Acked(e, h)
     \/ Ended(e, h)

\* The control endpoint is masked: no request is served any more.
Deaf(e, h) ==
  /\ e.ep0 # "DATA_IN" /\ h.phase # "status_out"
  /\ h.phase = "data" => ~e.in.on
  /\ e.in.on => e.in.src = Status
  /\ h.phase # "idle" => Agreed(e, h.view, h.addr)
  /\ h.phase = "status_in" /\ e.in.on =>
       ViewAfter(h.view, h.req) = h.view /\ AddrAfter(h.addr, h.req) = h.addr

\* Between two requests; a reset may have cut the last one short.
Between(e) ==
  /\ ~e.stup /\ Quiet(e.rxq)
  /\ e.ep0 = "DATA_IN" /\ e.xin # None => e.rs /\ e.xin = e.in.src

Talk(e, h, a) ==
  /\ e.masked => Deaf(e, h)
  /\ ~e.masked /\ h.phase = "idle" => Between(e)
  /\ ~e.masked /\ h.phase # "idle" => OnItsWay(e, h, a) \/ Served(e, h)

\* What the host believes, and is right about unless a reset is in progress.
EffectiveOf(e) == IF e.state = "SUSPENDED" THEN e.old ELSE e.state

Belief(e, h, b) ==
  /\ h.view = "attached" => h.phase = "idle"
  /\ h.phase = "idle" => h.got = 0 /\ h.ok
  /\ b = "reset" \/ e.en => h.view = "default"
  /\ b = "reset" => h.addr = 0
  /\ h.phase = "idle" /\ h.view # "attached" =>
       /\ b # "reset" /\ ~e.en => EffectiveOf(e) = StateOf(h.view)
       /\ ~e.rs => e.addr = h.addr

\* A bulk completion on its way belongs to a device that is configured and
\* awake; the FIFO holds at most one.
Ferry(e, a, b) ==
  /\ e.bulk = "outDone" => a = "out"
  /\ OneBulk(e.rxq) /\ (Bulky(e.rxq) <=> e.bulk = "outFifo")
  /\ e.bulk \in InFlight =>
       e.state = "CONFIGURED" /\ b # "suspended" /\ ~e.en
  /\ e.bulk = "lost" => e.masked /\ ~e.en /\ (b = "reset" => e.rs)

Told == Talk(d, host, at) /\ Belief(d, host, bus) /\ Ferry(d, at, bus)

-----------------------------------------------------------------------------
(* The receive FIFO.                                                       *)

Elem(q) == DOMAIN q = 1 .. Len(q) /\ Len(q) \in Nat

LEMMA Indexed ==
  ASSUME NEW q \in Seq(Entries)
  PROVE  Elem(q)
BY DEF Elem

LEMMA HeadFirst ==
  ASSUME NEW q \in Seq(Entries), Len(q) >= 1
  PROVE  q # << >> /\ Head(q) = q[1]
<1>1. q # << >>
  OBVIOUS
<1> QED
  BY <1>1

LEMMA Enqueued ==
  ASSUME NEW q \in Seq(Entries), NEW w \in {"status", "bulk"},
         NEW p, p = Append(q, [what |-> w])
  PROVE  /\ Quiet(q) => Quiet(p)
         /\ Popped(q) => Popped(p)
         /\ Bulky(p) <=> Bulky(q) \/ w = "bulk"
         /\ OneBulk(q) /\ (w = "status" \/ ~Bulky(q)) => OneBulk(p)
         /\ \A r : Waiting(q, r) /\ ~(StopsBulk(r) /\ w = "bulk") => Waiting(p, r)
<1> DEFINE x == [what |-> w]
<1>1. x \in Entries /\ x.what = w
  BY DEF Entries
<1> HIDE DEF x
<1>2. /\ p \in Seq(Entries) /\ Len(p) = Len(q) + 1
      /\ \A i \in 1 .. Len(q) : p[i] = q[i]
      /\ p[Len(q) + 1] = x
  BY <1>1 DEF x
<1>3. Elem(q) /\ Elem(p)
  BY <1>2, Indexed
<1>4. Quiet(q) => Quiet(p)
  BY <1>1, <1>2, <1>3 DEF Quiet, Elem
<1>5. Popped(q) => Popped(p)
  <2> SUFFICES ASSUME Popped(q) PROVE Popped(p)
    OBVIOUS
  <2>1. q # << >> /\ Head(q).what = "setupDone" /\ Quiet(Tail(q))
    BY DEF Popped
  <2>2. p # << >> /\ Head(p) = Head(q) /\ Tail(p) = Append(Tail(q), x)
    BY <1>1, <2>1 DEF x
  <2>3. Tail(q) \in Seq(Entries) /\ Tail(p) \in Seq(Entries)
    BY <1>2, <2>1, <2>2
  <2> DEFINE y == Tail(q)
             z == Tail(p)
  <2>4. /\ Len(z) = Len(y) + 1 /\ Elem(y) /\ Elem(z)
        /\ \A i \in 1 .. Len(y) : z[i] = y[i]
        /\ z[Len(y) + 1] = x
    <3>1. y \in Seq(Entries) /\ z \in Seq(Entries) /\ z = Append(y, x)
      BY <2>2, <2>3
    <3> HIDE DEF y, z
    <3>2. Elem(y) /\ Elem(z)
      BY <3>1, Indexed
    <3> QED
      BY <1>1, <3>1, <3>2
  <2>5. Quiet(y)
    BY <2>1
  <2> HIDE DEF y, z
  <2>6. Quiet(z)
    BY <1>1, <2>4, <2>5 DEF Quiet, Elem
  <2> QED
    BY <2>1, <2>2, <2>6 DEF Popped, z
<1>6. Bulky(p) <=> Bulky(q) \/ w = "bulk"
  BY <1>1, <1>2, <1>3 DEF Bulky, Elem
<1>7. OneBulk(q) /\ (w = "status" \/ ~Bulky(q)) => OneBulk(p)
  BY <1>1, <1>2, <1>3 DEF OneBulk, Bulky, Elem
<1>8. ASSUME NEW r, Waiting(q, r), ~(StopsBulk(r) /\ w = "bulk")
      PROVE  Waiting(p, r)
  <2>1. PICK i \in DOMAIN q :
          /\ i + 1 \in DOMAIN q
          /\ q[i].what = "setup" /\ q[i].req = r /\ q[i + 1].what = "setupDone"
          /\ \A j \in DOMAIN q : q[j].what \in {"setup", "setupDone"} => j \in {i, i + 1}
          /\ StopsBulk(r) => \A j \in DOMAIN q : q[j].what = "bulk" => j < i
    BY <1>8 DEF Waiting
  <2>2. /\ i \in DOMAIN p /\ i + 1 \in DOMAIN p
        /\ p[i].what = "setup" /\ p[i].req = r /\ p[i + 1].what = "setupDone"
    BY <1>2, <1>3, <2>1 DEF Elem
  <2>3. \A j \in DOMAIN p : (j \in DOMAIN q /\ p[j] = q[j]) \/ p[j].what = w
    BY <1>1, <1>2, <1>3 DEF Elem
  <2>4. \A j \in DOMAIN p : p[j].what \in {"setup", "setupDone"} => j \in {i, i + 1}
    BY <2>1, <2>3
  <2>5. StopsBulk(r) => \A j \in DOMAIN p : p[j].what = "bulk" => j < i
    BY <1>8, <2>1, <2>3
  <2> QED
    BY <2>2, <2>4, <2>5 DEF Waiting
<1> QED
  BY <1>4, <1>5, <1>6, <1>7, <1>8

LEMMA Requested ==
  ASSUME NEW q \in Seq(Entries), NEW r \in SetupsOf,
         NEW p, p = q \o <<[what |-> "setup", req |-> r], [what |-> "setupDone"]>>
  PROVE  /\ Quiet(q) => Waiting(p, r)
         /\ Bulky(p) <=> Bulky(q)
         /\ OneBulk(q) => OneBulk(p)
<1> DEFINE x == [what |-> "setup", req |-> r]
           y == [what |-> "setupDone"]
           i == Len(q) + 1
<1>1. x \in Entries /\ y \in Entries /\ x.what = "setup" /\ x.req = r /\ y.what = "setupDone"
  BY DEF Entries
<1> HIDE DEF x, y
<1>2. p = q \o <<x, y>>
  BY DEF x, y
<1>3. /\ p \in Seq(Entries) /\ Len(p) = Len(q) + 2
      /\ \A j \in 1 .. Len(q) : p[j] = q[j]
      /\ p[i] = x /\ p[i + 1] = y
  BY <1>1, <1>2
<1>4. Elem(q) /\ Elem(p)
  BY <1>3, Indexed
<1>5. i \in DOMAIN p /\ i + 1 \in DOMAIN p
  BY <1>3, <1>4 DEF Elem
<1>6. \A j \in DOMAIN p : (j \in DOMAIN q /\ p[j] = q[j] /\ j < i) \/ j = i \/ j = i + 1
  BY <1>3, <1>4 DEF Elem
<1>7. \A j \in DOMAIN q : j \in DOMAIN p /\ p[j] = q[j]
  BY <1>3, <1>4 DEF Elem
<1> HIDE DEF i
<1>8. Quiet(q) => Waiting(p, r)
  <2> SUFFICES ASSUME Quiet(q) PROVE Waiting(p, r)
    OBVIOUS
  <2>1. \A j \in DOMAIN p : p[j].what \in {"setup", "setupDone"} => j \in {i, i + 1}
    BY <1>6 DEF Quiet
  <2>2. \A j \in DOMAIN p : p[j].what = "bulk" => j < i
    BY <1>1, <1>3, <1>6
  <2> QED
    BY <1>1, <1>3, <1>5, <2>1, <2>2 DEF Waiting
<1>9. Bulky(p) <=> Bulky(q)
  BY <1>1, <1>3, <1>6, <1>7 DEF Bulky
<1>10. OneBulk(q) => OneBulk(p)
  BY <1>1, <1>3, <1>6, <1>7 DEF OneBulk
<1> QED
  BY <1>8, <1>9, <1>10

LEMMA Dequeued ==
  ASSUME NEW q \in Seq(Entries), q # << >>, NEW p, p = Tail(q)
  PROVE  LET w == Head(q).what
         IN  /\ Quiet(q) => Quiet(p) /\ w \notin {"setup", "setupDone"}
             /\ Popped(q) => Quiet(p) /\ w = "setupDone"
             /\ Bulky(q) <=> Bulky(p) \/ w = "bulk"
             /\ OneBulk(q) => OneBulk(p) /\ ~(Bulky(p) /\ w = "bulk")
             /\ \A r : Waiting(q, r) =>
                  /\ w # "setupDone"
                  /\ w # "setup" => Waiting(p, r)
                  /\ w = "setup" => Popped(p) /\ Head(q).req = r
                  /\ w = "setup" /\ StopsBulk(r) => ~Bulky(q)
<1> DEFINE h == Head(q)
<1>1. /\ p \in Seq(Entries) /\ Len(p) = Len(q) - 1 /\ Len(q) >= 1
      /\ h = q[1] /\ \A j \in 1 .. Len(p) : p[j] = q[j + 1]
  OBVIOUS
<1>2. Elem(q) /\ Elem(p)
  BY <1>1, Indexed
<1> HIDE DEF h
<1>3. 1 \in DOMAIN q /\ \A j \in DOMAIN p : j + 1 \in DOMAIN q /\ p[j] = q[j + 1] /\ j \in Nat
  BY <1>1, <1>2 DEF Elem
<1>4. \A j \in DOMAIN q : j = 1 \/ (j - 1 \in DOMAIN p /\ q[j] = p[j - 1] /\ j \in Nat)
  BY <1>1, <1>2 DEF Elem
<1>5. Quiet(q) => Quiet(p) /\ h.what \notin {"setup", "setupDone"}
  BY <1>1, <1>3 DEF Quiet
<1>6. Popped(q) => Quiet(p) /\ h.what = "setupDone"
  BY DEF Popped, h
<1>7. Bulky(q) <=> Bulky(p) \/ h.what = "bulk"
  BY <1>1, <1>3, <1>4 DEF Bulky
<1>8. OneBulk(q) => OneBulk(p) /\ ~(Bulky(p) /\ h.what = "bulk")
  BY <1>1, <1>3 DEF OneBulk, Bulky
<1>9. ASSUME NEW r, Waiting(q, r)
      PROVE  /\ h.what # "setupDone"
             /\ h.what # "setup" => Waiting(p, r)
             /\ h.what = "setup" => Popped(p) /\ h.req = r
             /\ h.what = "setup" /\ StopsBulk(r) => ~Bulky(q)
  <2>1. PICK i \in DOMAIN q :
          /\ i + 1 \in DOMAIN q
          /\ q[i].what = "setup" /\ q[i].req = r /\ q[i + 1].what = "setupDone"
          /\ \A j \in DOMAIN q : q[j].what \in {"setup", "setupDone"} => j \in {i, i + 1}
          /\ StopsBulk(r) => \A j \in DOMAIN q : q[j].what = "bulk" => j < i
    BY <1>9 DEF Waiting
  <2>2. i \in Nat /\ i >= 1
    BY <1>2 DEF Elem
  <2>3. CASE i = 1
    <3>1. h.what = "setup" /\ h.req = r
      BY <1>1, <2>1, <2>3
    <3>2. StopsBulk(r) => ~Bulky(q)
      BY <1>2, <2>1, <2>3 DEF Bulky, Elem
    <3>3. p # << >> /\ Head(p) = p[1] /\ p[1] = q[2]
      <4>1. 2 \in DOMAIN q
        BY <2>1, <2>3
      <4>2. Len(q) >= 2 /\ Len(p) >= 1
        BY <1>1, <1>2, <4>1 DEF Elem
      <4>3. p[1] = q[2]
        <5>1. 1 \in 1 .. Len(p) /\ 1 + 1 = 2
          BY <1>1, <4>2
        <5> QED
          BY <1>1, <5>1
      <4>4. p # << >> /\ Head(p) = p[1]
        BY <1>1, <4>2, HeadFirst
      <4> QED
        BY <4>3, <4>4
    <3>4. Quiet(Tail(p))
      <4>1. /\ Elem(Tail(p))
            /\ \A j \in 1 .. Len(Tail(p)) : j + 1 \in DOMAIN p /\ Tail(p)[j] = p[j + 1]
        <5>1. Tail(p) \in Seq(Entries)
          BY <1>1, <3>3
        <5>2. Elem(Tail(p))
          BY <5>1, Indexed
        <5>3. \A j \in 1 .. Len(Tail(p)) : j + 1 \in DOMAIN p /\ Tail(p)[j] = p[j + 1]
          BY <1>1, <3>3
        <5> QED
          BY <5>2, <5>3
      <4>2. \A j \in DOMAIN Tail(p) : j \in Nat /\ j >= 1 /\ j + 1 + 1 \in DOMAIN q /\ Tail(p)[j] = q[j + 1 + 1]
        BY <1>3, <4>1 DEF Elem
      <4> DEFINE t == Tail(p)
      <4> HIDE DEF t
      <4>3. \A j \in DOMAIN t : t[j].what \notin {"setup", "setupDone"}
        <5> TAKE j \in DOMAIN t
        <5>1. j \in Nat /\ j >= 1 /\ j + 1 + 1 \in DOMAIN q /\ t[j] = q[j + 1 + 1]
          BY <4>2 DEF t
        <5>2. j + 1 + 1 # i /\ j + 1 + 1 # i + 1
          BY <2>3, <5>1
        <5> QED
          BY <2>1, <5>1, <5>2
      <4> QED
        BY <4>3 DEF Quiet, t
    <3>5. Popped(p)
      BY <2>1, <2>3, <3>3, <3>4 DEF Popped
    <3> QED
      BY <3>1, <3>2, <3>5
  <2>4. CASE i # 1
    <3>1. h.what \notin {"setup", "setupDone"}
      <4>1. 1 # i /\ 1 # i + 1
        BY <2>2, <2>4
      <4> QED
        BY <1>1, <1>3, <2>1, <4>1
    <3> DEFINE k == i - 1
    <3>2. k \in DOMAIN p /\ k + 1 \in DOMAIN p /\ p[k] = q[i] /\ p[k + 1] = q[i + 1]
      <4>1. i + 1 # 1 /\ i + 1 - 1 = k + 1
        BY <2>2
      <4> QED
        BY <1>4, <2>1, <2>4, <4>1
    <3>3. \A j \in DOMAIN p : p[j].what \in {"setup", "setupDone"} => j \in {k, k + 1}
      <4> SUFFICES ASSUME NEW j \in DOMAIN p, p[j].what \in {"setup", "setupDone"}
                   PROVE  j \in {k, k + 1}
        OBVIOUS
      <4>1. j \in Nat /\ j + 1 \in DOMAIN q /\ p[j] = q[j + 1]
        BY <1>3
      <4>2. j + 1 \in {i, i + 1}
        BY <2>1, <4>1
      <4> QED
        BY <2>2, <4>1, <4>2
    <3>4. StopsBulk(r) => \A j \in DOMAIN p : p[j].what = "bulk" => j < k
      <4> SUFFICES ASSUME StopsBulk(r), NEW j \in DOMAIN p, p[j].what = "bulk"
                   PROVE  j < k
        OBVIOUS
      <4>1. j \in Nat /\ j + 1 \in DOMAIN q /\ p[j] = q[j + 1]
        BY <1>3
      <4>2. j + 1 < i
        BY <2>1, <4>1
      <4> QED
        BY <2>2, <4>1, <4>2
    <3> HIDE DEF k
    <3>5. Waiting(p, r)
      BY <2>1, <3>2, <3>3, <3>4 DEF Waiting
    <3> QED
      BY <3>1, <3>5
  <2> QED
    BY <2>3, <2>4
<1> QED
  BY <1>5, <1>6, <1>7, <1>8, <1>9 DEF h

LEMMA Nothing == Quiet(<< >>) /\ ~Bulky(<< >>) /\ OneBulk(<< >>)
BY DEF Quiet, Bulky, OneBulk

-----------------------------------------------------------------------------
(* What the handling of a request answers, and what it does to the rest.   *)

\* Where the device is; what a request leaves alone; what it may flush; the
\* data stage; the halts.
Place(e) == <<e.state, e.addr>>
Desk(e)  == <<e.old, e.setup, e.stup, e.rs, e.en, e.xin, e.out>>
Cargo(e) == <<e.bulk, e.rxq, e.masked>>
Line(e)  == <<e.ep0, e.dlen, e.total, e.rem, e.in>>
Halts(e) == <<e.stallIn, e.stallOut>>
Alike(e, y) ==
  /\ Place(y) = Place(e) /\ Desk(y) = Desk(e) /\ Cargo(y) = Cargo(e)
  /\ Line(y) = Line(e) /\ Halts(y) = Halts(e)

\* A device that is about to answer.
Ready(e) ==
  /\ e \in DeviceType /\ e.state # "SUSPENDED" /\ e.ep0 = "SETUP"
  /\ ~e.in.on /\ ~e.stallIn /\ ~e.stallOut

Proper(r) ==
  r \in SetupsOf /\ Legal(r) /\ (r.kind = "class" => r.to = "interface")

\* The answers: data, a status, a halt or nothing.
Began(e, r, y) ==
  /\ y.ep0 = "DATA_IN" /\ y.in.on /\ y.in.src = Source(r) /\ y.in.off = 0
  /\ y.in.len = Min2(y.rem, MaxPacket) /\ y.total = y.rem
  /\ y.rem = Wanted(r) /\ y.rem >= 1 /\ y.dlen = r.len
  /\ ~y.stallIn /\ ~y.stallOut /\ FirstPhase(r) = "data" /\ Place(y) = Place(e)

StateAfter(s, r) ==
  CASE r.req = "SET_ADDRESS" -> IF r.val = 0 THEN "DEFAULT" ELSE "ADDRESSED"
    [] r.req = "SET_CONFIGURATION" ->
         IF r.val = 0 THEN "ADDRESSED" ELSE "CONFIGURED"
    [] OTHER -> s

Thanked(e, r, y) ==
  /\ ~y.stallIn /\ y.in.on /\ y.in.src = Status /\ y.ep0 # "DATA_IN"
  /\ FirstPhase(r) = "status_in"
  /\ y.state = StateAfter(e.state, r) /\ y.addr = AddrAfter(e.addr, r)
  /\ r.req = "SET_ADDRESS" => e.state # "CONFIGURED"

Denied(e, y) == y.stallIn /\ y.ep0 # "DATA_IN" /\ Place(y) = Place(e)

Ignored(e, v, r, y) ==
  /\ ~y.stallIn /\ ~y.in.on /\ y.ep0 # "DATA_IN" /\ Place(y) = Place(e)
  /\ NoAnswer(v, r)

\* The bulk endpoints and the FIFO, for a host that stops before some requests.
Hauled(e, r, y) ==
  \/ /\ y.masked = e.masked
     /\ y.rxq = e.rxq \/ (y.rxq = << >> /\ StopsBulk(r))
     /\ y.bulk = e.bulk \/ (y.bulk \in {"closed", "outArmed"} /\ StopsBulk(r))
  \/ /\ y.masked /\ y.rxq = << >> /\ r.req = "CLEAR_FEATURE" /\ ~StopsBulk(r)
     /\ y.bulk = IF e.bulk = "outFifo" THEN "lost" ELSE e.bulk
     /\ Thanked(e, r, y)

Reply(v, e, r, y) ==
  /\ y \in DeviceType /\ Desk(y) = Desk(e) /\ Hauled(e, r, y)
  /\ Began(e, r, y) \/ Thanked(e, r, y) \/ Denied(e, y) \/ Ignored(e, v, r, y)

LEMMA TransmitGives ==
  ASSUME NEW e \in DeviceType, NEW src, NEW off, NEW len
  PROVE  LET x == USBD_LL_Transmit(e, src, off, len)
         IN  /\ x.in.on /\ x.in.src = src /\ x.in.off = off
             /\ x.in.len = Min2(len, MaxPacket)
             /\ Place(x) = Place(e) /\ Desk(x) = Desk(e) /\ Cargo(x) = Cargo(e)
             /\ Halts(x) = Halts(e)
             /\ x.ep0 = e.ep0 /\ x.dlen = e.dlen /\ x.total = e.total /\ x.rem = e.rem
<1> DEFINE i == [on |-> TRUE, src |-> src, off |-> off, len |-> Min2(len, MaxPacket)]
           x == [e EXCEPT !.in = i]
<1>1. USBD_LL_Transmit(e, src, off, len) = x
  BY DEF USBD_LL_Transmit
<1> HIDE DEF i
<1>2. /\ x.in = i
      /\ Place(x) = Place(e) /\ Desk(x) = Desk(e) /\ Cargo(x) = Cargo(e)
      /\ Halts(x) = Halts(e)
      /\ x.ep0 = e.ep0 /\ x.dlen = e.dlen /\ x.total = e.total /\ x.rem = e.rem
  BY DEF DeviceType, Place, Desk, Cargo, Halts
<1> QED
  BY <1>1, <1>2 DEF i

LEMMA SendDataGives ==
  ASSUME NEW e \in DeviceType, NEW r \in SetupsOf, NEW len \in Nat
  PROVE  LET x == USBD_CtlSendData(e, r, len)
         IN  /\ x.in.on /\ x.in.src = Source(r) /\ x.in.off = 0
             /\ x.in.len = Min2(len, MaxPacket)
             /\ Place(x) = Place(e) /\ Desk(x) = Desk(e) /\ Cargo(x) = Cargo(e)
             /\ Halts(x) = Halts(e)
             /\ x.ep0 = "DATA_IN" /\ x.dlen = r.len /\ x.total = len /\ x.rem = len
<1> DEFINE y == [e EXCEPT !.ep0 = "DATA_IN", !.dlen = r.len,
                          !.total = len, !.rem = len]
           x == USBD_LL_Transmit(y, Source(r), 0, len)
<1>1. USBD_CtlSendData(e, r, len) = x
  BY DEF USBD_CtlSendData
<1>2. y \in DeviceType
  BY RequestFields DEF DeviceType
<1>3. /\ Place(y) = Place(e) /\ Desk(y) = Desk(e) /\ Cargo(y) = Cargo(e)
      /\ Halts(y) = Halts(e)
      /\ y.ep0 = "DATA_IN" /\ y.dlen = r.len /\ y.total = len /\ y.rem = len
  BY DEF DeviceType, Place, Desk, Cargo, Halts
<1> HIDE DEF y
<1>4. /\ x.in.on /\ x.in.src = Source(r) /\ x.in.off = 0
             /\ x.in.len = Min2(len, MaxPacket)
      /\ Place(x) = Place(y) /\ Desk(x) = Desk(y) /\ Cargo(x) = Cargo(y)
      /\ Halts(x) = Halts(y)
      /\ x.ep0 = y.ep0 /\ x.dlen = y.dlen /\ x.total = y.total /\ x.rem = y.rem
  BY <1>2, RequestFields, TransmitGives
<1> HIDE DEF x
<1>5. /\ x.in.on /\ x.in.src = Source(r) /\ x.in.off = 0
             /\ x.in.len = Min2(len, MaxPacket)
      /\ Place(x) = Place(e) /\ Desk(x) = Desk(e) /\ Cargo(x) = Cargo(e)
      /\ Halts(x) = Halts(e)
      /\ x.ep0 = "DATA_IN" /\ x.dlen = r.len /\ x.total = len /\ x.rem = len
  BY <1>3, <1>4
<1> QED
  BY <1>1, <1>5

LEMMA SendStatusGives ==
  ASSUME NEW e \in DeviceType
  PROVE  LET x == USBD_CtlSendStatus(e)
         IN  /\ x \in DeviceType /\ x.in.on /\ x.in.src = Status
             /\ Place(x) = Place(e) /\ Desk(x) = Desk(e) /\ Cargo(x) = Cargo(e)
             /\ Halts(x) = Halts(e) /\ x.ep0 = "STATUS_IN"
<1> DEFINE y == [e EXCEPT !.ep0 = "STATUS_IN"]
           x == USBD_LL_Transmit(y, Status, 0, 0)
<1>1. USBD_CtlSendStatus(e) = x
  BY DEF USBD_CtlSendStatus
<1>2. y \in DeviceType
  BY DEF DeviceType
<1>3. /\ Place(y) = Place(e) /\ Desk(y) = Desk(e) /\ Cargo(y) = Cargo(e)
      /\ Halts(y) = Halts(e) /\ y.ep0 = "STATUS_IN"
  BY DEF DeviceType, Place, Desk, Cargo, Halts
<1> HIDE DEF y
<1>4. /\ x.in.on /\ x.in.src = Status /\ x.in.off = 0
             /\ x.in.len = Min2(0, MaxPacket)
      /\ Place(x) = Place(y) /\ Desk(x) = Desk(y) /\ Cargo(x) = Cargo(y)
      /\ Halts(x) = Halts(y) /\ x.ep0 = y.ep0
  BY <1>2, SpecialSources, TransmitGives
<1>5. x \in DeviceType
  BY <1>1, SendStatusTyped
<1> HIDE DEF x
<1>6. /\ x \in DeviceType /\ x.in.on /\ x.in.src = Status
      /\ Place(x) = Place(e) /\ Desk(x) = Desk(e) /\ Cargo(x) = Cargo(e)
      /\ Halts(x) = Halts(e) /\ x.ep0 = "STATUS_IN"
  BY <1>3, <1>4, <1>5
<1> QED
  BY <1>1, <1>6

LEMMA ErrorGives ==
  ASSUME NEW e \in DeviceType
  PROVE  LET x == USBD_CtlError(e)
         IN  /\ x \in DeviceType /\ x.stallIn
             /\ Place(x) = Place(e) /\ Desk(x) = Desk(e) /\ Cargo(x) = Cargo(e)
             /\ Line(x) = Line(e)
<1>1. USBD_CtlError(e) \in DeviceType
  BY ErrorTyped
<1> QED
  BY <1>1 DEF USBD_CtlError, DeviceType, Place, Desk, Cargo, Line

LEMMA FlushGives ==
  ASSUME NEW e \in DeviceType
  PROVE  LET x == FlushRx(e)
         IN  /\ x \in DeviceType /\ Place(x) = Place(e) /\ Desk(x) = Desk(e)
             /\ Line(x) = Line(e) /\ Halts(x) = Halts(e) /\ x.masked = e.masked
             /\ x.rxq = << >>
             /\ x.bulk = IF e.bulk = "outFifo" THEN "lost" ELSE e.bulk
<1> DEFINE b == IF e.bulk = "outFifo" THEN "lost" ELSE e.bulk
           x == [e EXCEPT !.rxq = << >>, !.bulk = b]
<1>1. FlushRx(e) = x /\ FlushRx(e) \in DeviceType
  BY FlushTyped DEF FlushRx
<1> HIDE DEF b
<1>2. /\ Place(x) = Place(e) /\ Desk(x) = Desk(e)
      /\ Line(x) = Line(e) /\ Halts(x) = Halts(e) /\ x.masked = e.masked
      /\ x.rxq = << >> /\ x.bulk = b
  BY DEF DeviceType, Place, Desk, Line, Halts
<1> HIDE DEF x
<1> QED
  BY <1>1, <1>2 DEF b

\* CLEAR_FEATURE flushes the FIFO, and masks the control endpoint.
Flushed(e, r, m) ==
  /\ Place(m) = Place(e) /\ Desk(m) = Desk(e)
  /\ Line(m) = Line(e) /\ Halts(m) = Halts(e)
  /\ m.masked \in BOOLEAN /\ (m.masked <=> e.masked \/ r.idx = 0)
  /\ IF r.idx \in {0, MSC_EPOUT}
     THEN /\ m.rxq = << >>
          /\ m.bulk = IF e.bulk = "outFifo" THEN "lost" ELSE e.bulk
     ELSE m.rxq = e.rxq /\ m.bulk = e.bulk

LEMMA ClearFeatureGives ==
  ASSUME NEW e \in DeviceType, NEW r, NEW m, m = ClearFeature(e, r)
  PROVE  Flushed(e, r, m)
<1> DEFINE f == FlushRx(e)
           x == [f EXCEPT !.masked = TRUE]
<1>1. /\ f \in DeviceType /\ Place(f) = Place(e) /\ Desk(f) = Desk(e)
      /\ Line(f) = Line(e) /\ Halts(f) = Halts(e) /\ f.masked = e.masked
      /\ f.rxq = << >>
      /\ f.bulk = IF e.bulk = "outFifo" THEN "lost" ELSE e.bulk
  BY FlushGives
<1>2. \/ r.idx = 0 /\ m = x
      \/ r.idx = MSC_EPOUT /\ r.idx # 0 /\ m = f
      \/ r.idx \notin {0, MSC_EPOUT} /\ m = e
  BY DEF ClearFeature, MSC_EPOUT
<1> HIDE DEF f
<1>3. /\ Place(x) = Place(f) /\ Desk(x) = Desk(f)
      /\ Line(x) = Line(f) /\ Halts(x) = Halts(f) /\ x.masked = TRUE
      /\ x.rxq = f.rxq /\ x.bulk = f.bulk
  BY <1>1 DEF DeviceType, Place, Desk, Line, Halts
<1>4. e.masked \in BOOLEAN
  BY DEF DeviceType
<1> HIDE DEF x
<1>5. CASE r.idx = 0 /\ m = x
  BY <1>1, <1>3, <1>5 DEF Flushed
<1>6. CASE r.idx = MSC_EPOUT /\ r.idx # 0 /\ m = f
  BY <1>1, <1>4, <1>6 DEF Flushed
<1>7. CASE r.idx \notin {0, MSC_EPOUT} /\ m = e
  BY <1>4, <1>7 DEF Flushed
<1> QED
  BY <1>2, <1>5, <1>6, <1>7

LEMMA ProperFields ==
  ASSUME NEW r, Proper(r)
  PROVE  /\ r \in SetupsOf /\ r.to \in {"device", "interface", "endpoint", "other"}
         /\ r.kind \in {"standard", "class"} /\ r.dir \in {"in", "out"}
         /\ r.val \in Nat /\ r.idx \in Nat /\ r.len \in Nat /\ r.req \in Names
         /\ Legal(r) /\ (r.kind = "class" => r.to = "interface")
BY Setups DEF Proper, RequestType

\* The answers that are data.
LEMMA DataReply ==
  ASSUME NEW e, Ready(e), NEW r, Proper(r), NEW n \in Nat, n >= 1, n = Wanted(r),
         FirstPhase(r) = "data"
  PROVE  LET x == USBD_CtlSendData(e, r, n)
         IN  x \in DeviceType /\ Began(e, r, x) /\ Desk(x) = Desk(e) /\ Cargo(x) = Cargo(e)
<1> DEFINE x == USBD_CtlSendData(e, r, n)
<1>1. e \in DeviceType /\ r \in SetupsOf /\ ~e.stallIn /\ ~e.stallOut
  BY DEF Ready, Proper
<1>2. x \in DeviceType
  BY <1>1, SendDataTyped
<1>3. /\ x.in.on /\ x.in.src = Source(r) /\ x.in.off = 0
      /\ x.in.len = Min2(n, MaxPacket)
      /\ Place(x) = Place(e) /\ Desk(x) = Desk(e) /\ Cargo(x) = Cargo(e)
      /\ Halts(x) = Halts(e)
      /\ x.ep0 = "DATA_IN" /\ x.dlen = r.len /\ x.total = n /\ x.rem = n
  BY <1>1, SendDataGives
<1> HIDE DEF x
<1>4. ~x.stallIn /\ ~x.stallOut
  BY <1>1, <1>3 DEF Halts
<1>5. Began(e, r, x)
  BY <1>3, <1>4 DEF Began
<1> QED
  BY <1>2, <1>3, <1>5 DEF x

LEMMA ErrorReply ==
  ASSUME NEW e, Ready(e)
  PROVE  LET x == USBD_CtlError(e)
         IN  x \in DeviceType /\ Denied(e, x) /\ Desk(x) = Desk(e) /\ Cargo(x) = Cargo(e)
<1> DEFINE x == USBD_CtlError(e)
<1>1. /\ x \in DeviceType /\ x.stallIn
      /\ Place(x) = Place(e) /\ Desk(x) = Desk(e) /\ Cargo(x) = Cargo(e)
      /\ Line(x) = Line(e)
  BY ErrorGives DEF Ready
<1> HIDE DEF x
<1>2. x.ep0 # "DATA_IN"
  BY <1>1 DEF Line, Ready
<1>3. Denied(e, x)
  BY <1>1, <1>2 DEF Denied
<1> QED
  BY <1>1, <1>3 DEF x

\* The answer of the class, before the status that may follow it.
ClassReply(e, r, m) ==
  /\ m \in DeviceType /\ Desk(m) = Desk(e)
  /\ \/ /\ Alike(e, m)
        /\ r.req \notin {"GET_INTERFACE", "CLEAR_FEATURE"} \/ r.kind = "class"
        /\ r.kind = "class" => r.req = "BOT_RESET"
     \/ Began(e, r, m) /\ Cargo(m) = Cargo(e)
     \/ Denied(e, m) /\ Cargo(m) = Cargo(e) /\ r.kind = "class"
     \/ Flushed(e, r, m) /\ r.req = "CLEAR_FEATURE" /\ r.kind = "standard"

LEMMA WantedOne ==
  ASSUME NEW r, Proper(r), r.req \in {"GET_INTERFACE", "GET_MAX_LUN", "GET_CONFIGURATION"}
  PROVE  Wanted(r) = 1 /\ FirstPhase(r) = "data"
<1>1. r.dir = "in" /\ r.len = 1
  BY DEF Proper, Legal
<1>2. Answer(r) = 1
  BY DEF Answer
<1> QED
  BY <1>1, <1>2 DEF Wanted, Min2, FirstPhase

LEMMA ClassGives ==
  ASSUME NEW e, Ready(e), NEW r, Proper(r), NEW m, m = USBD_MSC_Setup(e, r)
  PROVE  ClassReply(e, r, m)
<1> DEFINE u == IF UsesClassData(r) /\ ~e.class THEN e.nullUse \cup {r} ELSE e.nullUse
           x == [e EXCEPT !.nullUse = u]
<1>1. m = ClassAnswer(x, r)
  BY DEF USBD_MSC_Setup
<1>2. e \in DeviceType /\ r \in SetupsOf /\ r.kind \in {"standard", "class"}
  BY ProperFields DEF Ready
<1>3. m \in DeviceType
  BY <1>2, ClassTyped
<1>4. u \in SUBSET SetupsOf
  BY <1>2 DEF DeviceType
<1> HIDE DEF u
<1>5. x \in DeviceType /\ Alike(e, x)
  BY <1>2, <1>4 DEF DeviceType, Alike, Place, Desk, Cargo, Line, Halts
<1> HIDE DEF x
<1>6. Ready(x)
  BY <1>5 DEF Ready, Alike, Place, Line, Halts
<1>7. CASE m = USBD_CtlSendData(x, r, 1) /\ r.req \in {"GET_INTERFACE", "GET_MAX_LUN"}
  <2>1. Wanted(r) = 1 /\ FirstPhase(r) = "data"
    BY <1>7, WantedOne
  <2>2. Began(x, r, m) /\ Desk(m) = Desk(x) /\ Cargo(m) = Cargo(x)
    BY <1>6, <1>7, <2>1, DataReply
  <2> QED
    BY <1>3, <1>5, <2>2 DEF ClassReply, Began, Alike, Place
<1>8. CASE m = x /\ (r.kind = "class" => r.req = "BOT_RESET")
             /\ (r.req \notin {"GET_INTERFACE", "CLEAR_FEATURE"} \/ r.kind = "class")
  <2> QED
    BY <1>3, <1>5, <1>8 DEF ClassReply, Alike
<1>9. CASE m = ClearFeature(x, r) /\ r.req = "CLEAR_FEATURE" /\ r.kind = "standard"
  <2>1. Flushed(x, r, m)
    BY <1>5, <1>9, ClearFeatureGives
  <2>2. Flushed(e, r, m) /\ Desk(m) = Desk(e)
    BY <1>5, <2>1 DEF Flushed, Alike, Cargo
  <2> QED
    BY <1>3, <1>9, <2>2 DEF ClassReply
<1>10. CASE m = USBD_CtlError(x) /\ r.kind = "class"
  <2>1. Denied(x, m) /\ Desk(m) = Desk(x) /\ Cargo(m) = Cargo(x)
    BY <1>6, <1>10, ErrorReply
  <2> QED
    BY <1>3, <1>5, <1>10, <2>1 DEF ClassReply, Denied, Alike
<1>11. \/ m = USBD_CtlSendData(x, r, 1) /\ r.req \in {"GET_INTERFACE", "GET_MAX_LUN"}
       \/ m = x /\ (r.kind = "class" => r.req = "BOT_RESET")
            /\ (r.req \notin {"GET_INTERFACE", "CLEAR_FEATURE"} \/ r.kind = "class")
       \/ m = ClearFeature(x, r) /\ r.req = "CLEAR_FEATURE" /\ r.kind = "standard"
       \/ m = USBD_CtlError(x) /\ r.kind = "class"
  <2>1. CASE r.kind = "class"
    BY <1>1, <2>1 DEF ClassAnswer
  <2>2. CASE r.kind = "standard"
    BY <1>1, <2>2 DEF ClassAnswer
  <2> QED
    BY <1>2, <2>1, <2>2
<1> QED
  BY <1>7, <1>8, <1>9, <1>10, <1>11

\* The host is right, and has stopped its bulk traffic where it should.
Known(v, e, r) ==
  /\ v \in {"default", "addressed", "configured"} /\ e.state = StateOf(v)
  /\ StopsBulk(r) => e.bulk \notin InFlight

LEMMA DataReplies ==
  ASSUME NEW e, Ready(e), NEW r, Proper(r), NEW v, NEW n \in Nat, n >= 1, n = Wanted(r),
         FirstPhase(r) = "data", NEW y, y = USBD_CtlSendData(e, r, n)
  PROVE  Reply(v, e, r, y)
<1>1. y \in DeviceType /\ Began(e, r, y) /\ Desk(y) = Desk(e) /\ Cargo(y) = Cargo(e)
  BY DataReply
<1> QED
  BY <1>1 DEF Reply, Hauled, Cargo

LEMMA ErrorReplies ==
  ASSUME NEW e, Ready(e), NEW r, NEW v, NEW y, y = USBD_CtlError(e)
  PROVE  Reply(v, e, r, y)
<1>1. y \in DeviceType /\ Denied(e, y) /\ Desk(y) = Desk(e) /\ Cargo(y) = Cargo(e)
  BY ErrorReply
<1> QED
  BY <1>1 DEF Reply, Hauled, Cargo

LEMMA NoReplies ==
  ASSUME NEW e, Ready(e), NEW r, NEW v, NoAnswer(v, r)
  PROVE  Reply(v, e, r, e)
BY DEF Reply, Hauled, Ignored, Ready

LEMMA StatusReplies ==
  ASSUME NEW e, NEW r, NEW v, NEW m \in DeviceType, Desk(m) = Desk(e), ~m.stallIn,
         FirstPhase(r) = "status_in",
         m.state = StateAfter(e.state, r), m.addr = AddrAfter(e.addr, r),
         r.req # "SET_ADDRESS",
         \/ /\ m.masked = e.masked
            /\ m.rxq = e.rxq \/ (m.rxq = << >> /\ StopsBulk(r))
            /\ m.bulk = e.bulk \/ (m.bulk \in {"closed", "outArmed"} /\ StopsBulk(r))
         \/ /\ m.masked /\ m.rxq = << >> /\ r.req = "CLEAR_FEATURE" /\ ~StopsBulk(r)
            /\ m.bulk = IF e.bulk = "outFifo" THEN "lost" ELSE e.bulk,
         NEW y, y = USBD_CtlSendStatus(m)
  PROVE  Reply(v, e, r, y)
<1>1. /\ y \in DeviceType /\ y.in.on /\ y.in.src = Status
      /\ Place(y) = Place(m) /\ Desk(y) = Desk(m) /\ Cargo(y) = Cargo(m)
      /\ Halts(y) = Halts(m) /\ y.ep0 = "STATUS_IN"
  BY SendStatusGives
<1>2. /\ y.state = m.state /\ y.addr = m.addr /\ y.stallIn = m.stallIn
      /\ y.bulk = m.bulk /\ y.rxq = m.rxq /\ y.masked = m.masked
  BY <1>1 DEF Place, Cargo, Halts
<1>3. Thanked(e, r, y)
  BY <1>1, <1>2 DEF Thanked
<1>4. Hauled(e, r, y)
  BY <1>2, <1>3 DEF Hauled
<1> QED
  BY <1>1, <1>3, <1>4 DEF Reply

LEMMA StillPlace ==
  ASSUME NEW r, r.req \notin {"SET_ADDRESS", "SET_CONFIGURATION"}
  PROVE  /\ \A s : StateAfter(s, r) = s
         /\ \A n : AddrAfter(n, r) = n
         /\ \A v : ViewAfter(v, r) = v
BY DEF StateAfter, AddrAfter, ViewAfter

LEMMA ClassStatusReplies ==
  ASSUME NEW e, Ready(e), NEW r, Proper(r), NEW v, Known(v, e, r),
         FirstPhase(r) = "status_in",
         r.req \notin {"SET_ADDRESS", "SET_CONFIGURATION"},
         r.req = "CLEAR_FEATURE" =>
           (r.to = "device" /\ r.idx = 0) \/ (r.to = "endpoint" /\ r.idx # 0),
         NEW y, y = USBD_CtlSendStatus(USBD_MSC_Setup(e, r))
  PROVE  Reply(v, e, r, y)
<1> DEFINE m == USBD_MSC_Setup(e, r)
<1>1. ClassReply(e, r, m)
  BY ClassGives
<1>2. y = USBD_CtlSendStatus(m)
  OBVIOUS
<1>3. e \in DeviceType /\ ~e.stallIn
  BY DEF Ready
<1> HIDE DEF m
<1>4. m \in DeviceType /\ Desk(m) = Desk(e)
  BY <1>1 DEF ClassReply
<1>5. CASE Alike(e, m)
  <2>1. /\ ~m.stallIn /\ m.state = e.state /\ m.addr = e.addr
        /\ m.masked = e.masked /\ m.rxq = e.rxq /\ m.bulk = e.bulk
    BY <1>3, <1>5 DEF Alike, Halts, Place, Cargo
  <2>2. m.state = StateAfter(e.state, r) /\ m.addr = AddrAfter(e.addr, r)
    BY <2>1, StillPlace
  <2> QED
    BY <1>2, <1>4, <2>1, <2>2, StatusReplies
<1>6. CASE Began(e, r, m)
  BY <1>6 DEF Began
<1>7. CASE Denied(e, m) /\ Cargo(m) = Cargo(e)
  <2>1. /\ y \in DeviceType
        /\ Place(y) = Place(m) /\ Desk(y) = Desk(m) /\ Cargo(y) = Cargo(m)
        /\ Halts(y) = Halts(m) /\ y.ep0 = "STATUS_IN"
    BY <1>2, <1>4, SendStatusGives
  <2>2. y.stallIn
    BY <1>7, <2>1 DEF Halts, Denied
  <2>3. Denied(e, y)
    BY <1>7, <2>1, <2>2 DEF Denied
  <2>4. Hauled(e, r, y)
    BY <1>7, <2>1 DEF Hauled, Cargo
  <2> QED
    BY <1>4, <2>1, <2>3, <2>4 DEF Reply
<1>8. CASE Flushed(e, r, m) /\ r.req = "CLEAR_FEATURE"
  <2>1. /\ ~m.stallIn /\ m.state = e.state /\ m.addr = e.addr
    BY <1>3, <1>8 DEF Flushed, Halts, Place
  <2>2. m.state = StateAfter(e.state, r) /\ m.addr = AddrAfter(e.addr, r)
    BY <2>1, StillPlace
  <2>3. CASE r.to = "device" /\ r.idx = 0
    <3>1. ~StopsBulk(r)
      BY <1>8, <2>3 DEF StopsBulk
    <3>2. /\ m.masked /\ m.rxq = << >>
          /\ m.bulk = IF e.bulk = "outFifo" THEN "lost" ELSE e.bulk
      BY <1>8, <2>3 DEF Flushed
    <3> QED
      BY <1>2, <1>4, <1>8, <2>1, <2>2, <3>1, <3>2, StatusReplies
  <2>4. CASE r.to = "endpoint" /\ r.idx # 0
    <3>1. StopsBulk(r) /\ e.bulk # "outFifo"
      BY <2>4 DEF StopsBulk, Known, InFlight
    <3>2. e.masked \in BOOLEAN
      BY <1>3 DEF DeviceType
    <3>3. m.masked = e.masked
      BY <1>8, <2>4, <3>2 DEF Flushed
    <3>4. m.bulk = e.bulk /\ (m.rxq = e.rxq \/ m.rxq = << >>)
      BY <1>8, <3>1 DEF Flushed
    <3> QED
      BY <1>2, <1>4, <2>1, <2>2, <3>1, <3>3, <3>4, StatusReplies
  <2> QED
    BY <1>8, <2>3, <2>4
<1> QED
  BY <1>1, <1>5, <1>6, <1>7, <1>8 DEF ClassReply

\* The class answers a request with a data stage.
LEMMA ClassReplies ==
  ASSUME NEW e, Ready(e), NEW r, Proper(r), NEW v, Known(v, e, r),
         r.to = "interface", r.len # 0, r.idx <= USBD_MAX_NUM_INTERFACES,
         v = "configured",
         NEW y, y = USBD_MSC_Setup(e, r)
  PROVE  Reply(v, e, r, y)
<1>1. ClassReply(e, r, y)
  BY ClassGives
<1>2. Legal(r) /\ r.kind \in {"standard", "class"}
  BY ProperFields
<1>3. y \in DeviceType /\ Desk(y) = Desk(e)
  BY <1>1 DEF ClassReply
<1>4. CASE /\ Alike(e, y)
           /\ r.req \notin {"GET_INTERFACE", "CLEAR_FEATURE"} \/ r.kind = "class"
           /\ r.kind = "class" => r.req = "BOT_RESET"
  <2>1. r.kind = "standard" /\ r.req # "GET_INTERFACE"
    BY <1>2, <1>4 DEF Legal
  <2>2. NoAnswer(v, r)
    BY <2>1 DEF NoAnswer
  <2>3. ~y.stallIn /\ ~y.in.on /\ y.ep0 # "DATA_IN"
    BY <1>4 DEF Alike, Halts, Line, Ready
  <2>4. Ignored(e, v, r, y)
    BY <1>4, <2>2, <2>3 DEF Ignored, Alike
  <2>5. Hauled(e, r, y)
    BY <1>4 DEF Hauled, Alike, Cargo
  <2> QED
    BY <1>3, <2>4, <2>5 DEF Reply
<1>5. CASE (Began(e, r, y) \/ Denied(e, y)) /\ Cargo(y) = Cargo(e)
  BY <1>3, <1>5 DEF Reply, Hauled, Cargo
<1>6. CASE r.req = "CLEAR_FEATURE"
  BY <1>2, <1>6 DEF Legal
<1> QED
  BY <1>1, <1>4, <1>5, <1>6 DEF ClassReply

\* Ready, known and proper: what the lemmas of the requests assume.
Asked(v, e, r) == Ready(e) /\ Proper(r) /\ Known(v, e, r) /\ HostRequests

LEMMA StateKnown ==
  ASSUME NEW v, NEW e, NEW r, Known(v, e, r)
  PROVE  /\ e.state = "DEFAULT" <=> v = "default"
         /\ e.state = "ADDRESSED" <=> v = "addressed"
         /\ e.state = "CONFIGURED" <=> v = "configured"
BY DEF Known, StateOf

LEMMA DescriptorReply ==
  ASSUME NEW v, NEW e, NEW r, Asked(v, e, r), r.to = "device",
         r.req = "GET_DESCRIPTOR", NEW y, y = USBD_GetDescriptor(e, r)
  PROVE  Reply(v, e, r, y)
<1> DEFINE l == Min2(DescLen[r.val], r.len)
<1>1. /\ Ready(e) /\ Proper(r) /\ r.dir = "in" /\ r.len \in Nat
      /\ \A k \in DOMAIN DescLen : DescLen[k] # 0 /\ DescLen[k] \in Nat
  BY ProperFields, ConstantsAssumption DEF Asked, HostRequests, Legal
<1>2. l = Wanted(r)
  BY DEF Wanted, Answer
<1>3. CASE r.val \notin DOMAIN DescLen
  <2>1. y = USBD_CtlError(e)
    BY <1>3 DEF USBD_GetDescriptor
  <2> QED
    BY <1>1, <2>1, ErrorReplies
<1>4. CASE r.val \in DOMAIN DescLen /\ r.len # 0
  <2>1. l \in Nat /\ l >= 1
    BY <1>1, <1>4 DEF Min2
  <2>2. y = USBD_CtlSendData(e, r, l)
    BY <1>1, <1>4 DEF USBD_GetDescriptor
  <2>3. FirstPhase(r) = "data"
    BY <1>1, <1>4 DEF FirstPhase
  <2> HIDE DEF l
  <2> QED
    BY <1>1, <1>2, <2>1, <2>2, <2>3, DataReplies
<1>5. CASE r.val \in DOMAIN DescLen /\ r.len = 0
  <2>1. y = e
    BY <1>1, <1>5 DEF USBD_GetDescriptor
  <2>2. NoAnswer(v, r)
    BY <1>5 DEF NoAnswer
  <2> QED
    BY <1>1, <2>1, <2>2, NoReplies
<1> QED
  BY <1>3, <1>4, <1>5

LEMMA AddressReply ==
  ASSUME NEW v, NEW e, NEW r, Asked(v, e, r),
         r.req = "SET_ADDRESS", NEW y, y = USBD_SetAddress(e, r)
  PROVE  Reply(v, e, r, y)
<1> DEFINE s == IF r.val # 0 THEN "ADDRESSED" ELSE "DEFAULT"
           x == USBD_CtlSendStatus(e)
           z == [x EXCEPT !.addr = r.val, !.state = s]
<1>1. /\ Ready(e) /\ Proper(r) /\ r.dir = "out" /\ r.val \in Nat
      /\ e \in DeviceType /\ ~e.stallIn
  BY ProperFields DEF Asked, Ready, Legal
<1>2. CASE y = USBD_CtlError(e)
  BY <1>1, <1>2, ErrorReplies
<1>3. CASE y = z /\ e.state # "CONFIGURED"
  <2>1. /\ x \in DeviceType /\ x.in.on /\ x.in.src = Status
        /\ Desk(x) = Desk(e) /\ Cargo(x) = Cargo(e)
        /\ Halts(x) = Halts(e) /\ x.ep0 = "STATUS_IN"
    BY <1>1, SendStatusGives
  <2> HIDE DEF x
  <2>2. s \in States /\ s = StateAfter(e.state, r) /\ r.val = AddrAfter(e.addr, r)
    BY DEF StateAfter, AddrAfter, States
  <2> HIDE DEF s
  <2>3. /\ z \in DeviceType /\ z.in = x.in /\ Desk(z) = Desk(x) /\ Cargo(z) = Cargo(x)
        /\ Halts(z) = Halts(x) /\ z.ep0 = x.ep0 /\ z.state = s /\ z.addr = r.val
    BY <1>1, <2>1, <2>2 DEF DeviceType, Desk, Cargo, Halts
  <2> HIDE DEF z
  <2>4. FirstPhase(r) = "status_in"
    BY <1>1 DEF FirstPhase
  <2>5. Thanked(e, r, z)
    BY <1>1, <1>3, <2>1, <2>2, <2>3, <2>4 DEF Thanked, Halts
  <2>6. Hauled(e, r, z)
    BY <2>1, <2>3 DEF Hauled, Cargo
  <2> QED
    BY <1>3, <2>1, <2>3, <2>5, <2>6 DEF Reply
<1>4. y = USBD_CtlError(e) \/ (y = z /\ e.state # "CONFIGURED")
  BY DEF USBD_SetAddress
<1> QED
  BY <1>2, <1>3, <1>4

LEMMA ConfigReply ==
  ASSUME NEW v, NEW e, NEW r, Asked(v, e, r),
         r.req = "SET_CONFIGURATION", NEW y, y = USBD_SetConfig(e, r)
  PROVE  Reply(v, e, r, y)
<1> DEFINE a == [e EXCEPT !.config = r.val, !.state = "CONFIGURED"]
           b == [e EXCEPT !.config = 0, !.state = "ADDRESSED"]
           k == USBD_ClrClassConfig(e)
           c == [k EXCEPT !.config = r.val]
           p == USBD_SetClassConfig(a)
           q == USBD_ClrClassConfig(b)
           z == USBD_SetClassConfig(c)
<1>1. /\ Ready(e) /\ r.dir = "out" /\ r.val \in Nat
      /\ e \in DeviceType /\ ~e.stallIn /\ StopsBulk(r) /\ e.bulk \notin InFlight
  BY ProperFields DEF Asked, Ready, Known, Legal, Proper, StopsBulk
<1>2. /\ k \in DeviceType /\ k.state = e.state /\ k.addr = e.addr
      /\ Desk(k) = Desk(e) /\ k.masked = e.masked
      /\ k.rxq = e.rxq /\ k.stallIn = e.stallIn
  <2>1. k \in DeviceType
    BY <1>1, ClassConfigTyped
  <2> QED
    BY <1>1, <2>1 DEF USBD_ClrClassConfig, DeviceType, Desk
<1> HIDE DEF k
<1>3. /\ a \in DeviceType /\ a.state = "CONFIGURED" /\ a.addr = e.addr
      /\ Desk(a) = Desk(e) /\ a.masked = e.masked
      /\ a.rxq = e.rxq /\ a.stallIn = e.stallIn
  BY <1>1 DEF DeviceType, States, Desk
<1>4. /\ b \in DeviceType /\ b.state = "ADDRESSED" /\ b.addr = e.addr
      /\ Desk(b) = Desk(e) /\ b.masked = e.masked
      /\ b.rxq = e.rxq /\ b.stallIn = e.stallIn /\ b.bulk = e.bulk
  BY <1>1 DEF DeviceType, States, Desk
<1>5. /\ c \in DeviceType /\ c.state = e.state /\ c.addr = e.addr
      /\ Desk(c) = Desk(e) /\ c.masked = e.masked
      /\ c.rxq = e.rxq /\ c.stallIn = e.stallIn
  BY <1>1, <1>2 DEF DeviceType, Desk
<1> HIDE DEF a, b, c
<1>6. /\ p \in DeviceType /\ p.state = a.state /\ p.addr = a.addr
      /\ Desk(p) = Desk(a) /\ p.masked = a.masked
      /\ p.rxq = a.rxq /\ p.stallIn = a.stallIn /\ p.bulk = "outArmed"
  <2>1. p \in DeviceType
    BY <1>3, ClassConfigTyped
  <2> QED
    BY <1>3, <2>1 DEF USBD_SetClassConfig, DeviceType, Desk
<1>7. /\ q \in DeviceType /\ q.state = b.state /\ q.addr = b.addr
      /\ Desk(q) = Desk(b) /\ q.masked = b.masked
      /\ q.rxq = b.rxq /\ q.stallIn = b.stallIn /\ q.bulk = "closed"
  <2>1. q \in DeviceType
    BY <1>4, ClassConfigTyped
  <2> QED
    BY <1>1, <1>4, <2>1 DEF USBD_ClrClassConfig, DeviceType, Desk
<1>8. /\ z \in DeviceType /\ z.state = c.state /\ z.addr = c.addr
      /\ Desk(z) = Desk(c) /\ z.masked = c.masked
      /\ z.rxq = c.rxq /\ z.stallIn = c.stallIn /\ z.bulk = "outArmed"
  <2>1. z \in DeviceType
    BY <1>5, ClassConfigTyped
  <2> QED
    BY <1>5, <2>1 DEF USBD_SetClassConfig, DeviceType, Desk
<1>9. \/ y = USBD_CtlError(e)
      \/ y = USBD_CtlSendStatus(p) /\ r.val # 0
      \/ y = USBD_CtlSendStatus(q) /\ r.val = 0
      \/ y = USBD_CtlSendStatus(z) /\ e.state = "CONFIGURED" /\ r.val # 0
      \/ /\ y = USBD_CtlSendStatus(e)
         /\ e.state = IF r.val = 0 THEN "ADDRESSED" ELSE "CONFIGURED"
  <2>1. \/ r.val > USBD_MAX_NUM_CONFIGURATION
           \/ e.state \notin {"ADDRESSED", "CONFIGURED"}
        \/ e.state = "ADDRESSED" /\ r.val = 1
        \/ e.state = "ADDRESSED" /\ r.val = 0
        \/ e.state = "CONFIGURED" /\ r.val = 0
        \/ e.state = "CONFIGURED" /\ r.val = 1
    BY <1>1 DEF USBD_MAX_NUM_CONFIGURATION
  <2> QED
    BY <2>1 DEF USBD_SetConfig, USBD_MAX_NUM_CONFIGURATION, p, q, z, a, b, c, k
<1> HIDE DEF p, q, z
<1>10. FirstPhase(r) = "status_in" /\ \A n : AddrAfter(n, r) = n
  BY <1>1 DEF FirstPhase, AddrAfter
<1>11. \A s : StateAfter(s, r) = IF r.val = 0 THEN "ADDRESSED" ELSE "CONFIGURED"
  BY DEF StateAfter
<1>12. CASE y = USBD_CtlError(e)
  BY <1>1, <1>12, ErrorReplies
<1>13. CASE y = USBD_CtlSendStatus(p) /\ r.val # 0
  BY <1>1, <1>3, <1>6, <1>10, <1>11, <1>13, StatusReplies
<1>14. CASE y = USBD_CtlSendStatus(q) /\ r.val = 0
  BY <1>1, <1>4, <1>7, <1>10, <1>11, <1>14, StatusReplies
<1>15. CASE y = USBD_CtlSendStatus(z) /\ e.state = "CONFIGURED" /\ r.val # 0
  BY <1>1, <1>5, <1>8, <1>10, <1>11, <1>15, StatusReplies
<1>16. CASE /\ y = USBD_CtlSendStatus(e)
            /\ e.state = IF r.val = 0 THEN "ADDRESSED" ELSE "CONFIGURED"
  BY <1>1, <1>10, <1>11, <1>16, StatusReplies
<1> QED
  BY <1>9, <1>12, <1>13, <1>14, <1>15, <1>16

LEMMA DevReqReply ==
  ASSUME NEW v, NEW e, NEW r, Asked(v, e, r), r.to = "device",
         NEW y, y = USBD_StdDevReq(e, r)
  PROVE  Reply(v, e, r, y)
<1>1. /\ Ready(e) /\ Proper(r) /\ Known(v, e, r) /\ Legal(r) /\ r.len \in Nat
      /\ r.req \in Names
  BY ProperFields DEF Asked
<1>2. y = USBD_CtlError(e) => Reply(v, e, r, y)
  BY <1>1, ErrorReplies
<1>3. y = e /\ NoAnswer(v, r) => Reply(v, e, r, y)
  BY <1>1, NoReplies
<1>4. CASE r.req = "GET_DESCRIPTOR"
  <2>1. y = USBD_GetDescriptor(e, r)
    BY <1>4 DEF USBD_StdDevReq
  <2> QED
    BY <1>4, <2>1, DescriptorReply
<1>5. CASE r.req = "SET_ADDRESS"
  <2>1. y = USBD_SetAddress(e, r)
    BY <1>5 DEF USBD_StdDevReq
  <2> QED
    BY <1>5, <2>1, AddressReply
<1>6. CASE r.req = "SET_CONFIGURATION"
  <2>1. y = USBD_SetConfig(e, r)
    BY <1>6 DEF USBD_StdDevReq
  <2> QED
    BY <1>6, <2>1, ConfigReply
<1>7. CASE r.req = "GET_CONFIGURATION"
  <2>1. Wanted(r) = 1 /\ FirstPhase(r) = "data"
    BY <1>1, <1>7, WantedOne
  <2>2. y = USBD_CtlError(e) \/ y = USBD_CtlSendData(e, r, 1)
    BY <1>7 DEF USBD_StdDevReq, USBD_GetConfig
  <2>3. y = USBD_CtlSendData(e, r, 1) => Reply(v, e, r, y)
    BY <1>1, <2>1, DataReplies
  <2> QED
    BY <1>2, <2>2, <2>3
<1>8. CASE r.req = "GET_STATUS"
  <2>1. Wanted(r) = 2 /\ FirstPhase(r) = "data"
    BY <1>1, <1>8 DEF Wanted, Answer, Legal, Min2, FirstPhase
  <2>2. y = USBD_CtlError(e) \/ y = USBD_CtlSendData(e, r, 2)
    BY <1>8 DEF USBD_StdDevReq, USBD_GetStatus
  <2>3. y = USBD_CtlSendData(e, r, 2) => Reply(v, e, r, y)
    BY <1>1, <2>1, DataReplies
  <2> QED
    BY <1>2, <2>2, <2>3
<1>9. r.req \in {"SET_FEATURE", "CLEAR_FEATURE"} /\ y = USBD_CtlSendStatus(USBD_MSC_Setup(e, r))
        => Reply(v, e, r, y)
  <2> SUFFICES ASSUME r.req \in {"SET_FEATURE", "CLEAR_FEATURE"},
                      y = USBD_CtlSendStatus(USBD_MSC_Setup(e, r))
               PROVE  Reply(v, e, r, y)
    OBVIOUS
  <2>1. FirstPhase(r) = "status_in"
    BY <1>1 DEF FirstPhase, Legal
  <2>2. r.req = "CLEAR_FEATURE" =>
          (r.to = "device" /\ r.idx = 0) \/ (r.to = "endpoint" /\ r.idx # 0)
    BY <1>1 DEF Legal
  <2>3. r.req \notin {"SET_ADDRESS", "SET_CONFIGURATION"}
    OBVIOUS
  <2>4. y = USBD_CtlSendStatus(USBD_MSC_Setup(e, r))
    OBVIOUS
  <2> QED
    BY ONLY <1>1, <2>1, <2>2, <2>3, <2>4, ClassStatusReplies
<1>10. CASE r.req = "SET_FEATURE"
  <2>1. \/ r.val = REMOTE_WAKEUP /\ y = USBD_CtlSendStatus(USBD_MSC_Setup(e, r))
        \/ r.val # REMOTE_WAKEUP /\ y = e
    BY <1>10 DEF USBD_StdDevReq, USBD_SetFeature
  <2>2. r.val # REMOTE_WAKEUP => NoAnswer(v, r)
    BY <1>10 DEF NoAnswer
  <2> QED
    BY <1>3, <1>9, <1>10, <2>1, <2>2
<1>11. CASE r.req = "CLEAR_FEATURE"
  <2>1. \/ y = USBD_CtlError(e)
        \/ r.val = REMOTE_WAKEUP /\ y = USBD_CtlSendStatus(USBD_MSC_Setup(e, r))
        \/ r.val # REMOTE_WAKEUP /\ e.state \in {"ADDRESSED", "CONFIGURED"} /\ y = e
    BY <1>11 DEF USBD_StdDevReq, USBD_ClrFeature
  <2>2. r.val # REMOTE_WAKEUP /\ e.state \in {"ADDRESSED", "CONFIGURED"} => NoAnswer(v, r)
    BY <1>1, <1>11, StateKnown DEF NoAnswer
  <2> QED
    BY <1>2, <1>3, <1>9, <1>11, <2>1, <2>2
<1>12. CASE r.req \notin {"GET_DESCRIPTOR", "SET_ADDRESS", "SET_CONFIGURATION",
                          "GET_CONFIGURATION", "GET_STATUS", "SET_FEATURE",
                          "CLEAR_FEATURE"}
  <2>1. y = USBD_CtlError(e)
    BY <1>12 DEF USBD_StdDevReq
  <2> QED
    BY <1>2, <2>1
<1> QED
  BY <1>4, <1>5, <1>6, <1>7, <1>8, <1>10, <1>11, <1>12

LEMMA ItfReqReply ==
  ASSUME NEW v, NEW e, NEW r, Asked(v, e, r), r.to = "interface",
         NEW y, y = USBD_StdItfReq(e, r)
  PROVE  Reply(v, e, r, y)
<1>1. /\ Ready(e) /\ Proper(r) /\ Known(v, e, r) /\ Legal(r)
  BY DEF Asked, Proper
<1>2. CASE y = USBD_CtlError(e)
  BY <1>1, <1>2, ErrorReplies
<1>3. CASE r.len = 0 /\ y = USBD_CtlSendStatus(USBD_MSC_Setup(e, r))
  <2>1. /\ FirstPhase(r) = "status_in"
        /\ r.req \notin {"SET_ADDRESS", "SET_CONFIGURATION", "CLEAR_FEATURE"}
    BY <1>1, <1>3 DEF FirstPhase, Legal
  <2> QED
    BY <1>1, <1>3, <2>1, ClassStatusReplies
<1>4. CASE /\ r.len # 0 /\ r.idx <= USBD_MAX_NUM_INTERFACES
           /\ e.state = "CONFIGURED" /\ y = USBD_MSC_Setup(e, r)
  <2>1. v = "configured"
    BY <1>1, <1>4, StateKnown
  <2> QED
    BY <1>1, <1>4, <2>1, ClassReplies
<1> QED
  BY <1>2, <1>3, <1>4 DEF USBD_StdItfReq

LEMMA EPReqReply ==
  ASSUME NEW v, NEW e, NEW r, Asked(v, e, r), r.to = "endpoint",
         NEW y, y = USBD_StdEPReq(e, r)
  PROVE  Reply(v, e, r, y)
<1>1. /\ Ready(e) /\ Proper(r) /\ Known(v, e, r) /\ Legal(r) /\ StopsBulk(r)
      /\ e \in DeviceType /\ ~e.stallIn /\ r.idx \in Nat
  BY ProperFields DEF Asked, Ready, StopsBulk
<1>2. y = USBD_CtlError(e) => Reply(v, e, r, y)
  BY <1>1, ErrorReplies
<1>3. y = e /\ NoAnswer(v, r) => Reply(v, e, r, y)
  BY <1>1, NoReplies
<1>4. CASE r.req \notin {"SET_FEATURE", "CLEAR_FEATURE", "GET_STATUS"}
  <2>1. y = e
    BY <1>4 DEF USBD_StdEPReq
  <2>2. NoAnswer(v, r)
    BY <1>4 DEF NoAnswer
  <2> QED
    BY <1>3, <2>1, <2>2
<1>5. CASE /\ r.req \in {"SET_FEATURE", "CLEAR_FEATURE", "GET_STATUS"}
           /\ e.state \notin {"ADDRESSED", "CONFIGURED"}
  <2>1. y = USBD_CtlError(e)
    BY <1>5 DEF USBD_StdEPReq
  <2> QED
    BY <1>2, <2>1
<1>6. CASE /\ r.req \in {"SET_FEATURE", "CLEAR_FEATURE", "GET_STATUS"}
           /\ e.state = "ADDRESSED"
  <2>1. y = e
    BY <1>6 DEF USBD_StdEPReq
  <2>2. NoAnswer(v, r)
    BY <1>1, <1>6, StateKnown DEF NoAnswer
  <2> QED
    BY <1>3, <2>1, <2>2
<1>7. CASE r.req = "SET_FEATURE" /\ e.state = "CONFIGURED"
  <2>1. y = USBD_CtlSendStatus(USBD_MSC_Setup(e, r))
    BY <1>7 DEF USBD_StdEPReq
  <2>2. FirstPhase(r) = "status_in"
    BY <1>1, <1>7 DEF FirstPhase, Legal
  <2> QED
    BY <1>1, <1>7, <2>1, <2>2, ClassStatusReplies
<1>8. CASE r.req = "CLEAR_FEATURE" /\ e.state = "CONFIGURED"
  <2>1. FirstPhase(r) = "status_in"
    BY <1>1, <1>8 DEF FirstPhase, Legal
  <2>2. CASE r.val # EP_HALT
    <3>1. y = e
      BY <1>8, <2>2 DEF USBD_StdEPReq
    <3>2. NoAnswer(v, r)
      BY <1>1, <1>8, <2>2, StateKnown DEF NoAnswer
    <3> QED
      BY <1>3, <3>1, <3>2
  <2>3. CASE r.val = EP_HALT /\ r.idx % 128 # 0
    <3>1. y = USBD_CtlSendStatus(USBD_MSC_Setup(e, r))
      BY <1>8, <2>3 DEF USBD_StdEPReq
    <3>2. r.idx # 0
      BY <1>1, <2>3
    <3> QED
      BY <1>1, <1>8, <2>1, <3>1, <3>2, ClassStatusReplies
  <2>4. CASE r.val = EP_HALT /\ r.idx % 128 = 0
    <3>1. y = USBD_CtlSendStatus(e)
      BY <1>8, <2>4 DEF USBD_StdEPReq
    <3>2. e.state = StateAfter(e.state, r) /\ e.addr = AddrAfter(e.addr, r)
      BY <1>8, StillPlace
    <3> QED
      BY <1>1, <1>8, <2>1, <3>1, <3>2, StatusReplies
  <2> QED
    BY <2>2, <2>3, <2>4
<1>9. CASE r.req = "GET_STATUS" /\ e.state = "CONFIGURED"
  <2>1. Wanted(r) = 2 /\ FirstPhase(r) = "data"
    BY <1>1, <1>9 DEF Wanted, Answer, Legal, Min2, FirstPhase
  <2>2. y = USBD_CtlSendData(e, r, 2)
    BY <1>9 DEF USBD_StdEPReq
  <2> QED
    BY <1>1, <2>1, <2>2, DataReplies
<1> QED
  BY <1>4, <1>5, <1>6, <1>7, <1>8, <1>9

\* A SETUP packet: the device is cleared for an answer, and gives one.
LEMMA SetupReply ==
  ASSUME NEW v, NEW c \in DeviceType, NEW r, Proper(r), Known(v, c, r), HostRequests,
         ~c.stallIn, ~c.stallOut, c.state # "SUSPENDED",
         NEW y, y = USBD_LL_SetupStage(c, r)
  PROVE  \E e : /\ Ready(e) /\ Reply(v, e, r, y)
                /\ Place(e) = Place(c) /\ Desk(e) = Desk(c) /\ Cargo(e) = Cargo(c)
<1> DEFINE f == Forget(c)
           e == [f EXCEPT !.ep0 = "SETUP"]
<1>1. /\ f \in DeviceType /\ ~f.in.on /\ Place(f) = Place(c) /\ Desk(f) = Desk(c)
      /\ Cargo(f) = Cargo(c) /\ Halts(f) = Halts(c)
  <2>1. f \in DeviceType
    BY ForgetTyped
  <2> QED
    BY <2>1 DEF Forget, NoIn, DeviceType, Place, Desk, Cargo, Halts
<1>2. \/ y = USBD_StdDevReq(e, r) /\ r.to = "device"
      \/ y = USBD_StdItfReq(e, r) /\ r.to = "interface"
      \/ y = USBD_StdEPReq(e, r) /\ r.to = "endpoint"
      \/ y = [e EXCEPT !.stallIn = TRUE] /\ r.to = "other" /\ r.dir = "in"
      \/ y = [e EXCEPT !.stallOut = TRUE] /\ r.to = "other" /\ r.dir = "out"
  <2>1. /\ r.to \in {"device", "interface", "endpoint", "other"}
        /\ r.dir \in {"in", "out"}
    BY ProperFields
  <2> QED
    BY <2>1 DEF USBD_LL_SetupStage
<1> HIDE DEF f
<1>3. /\ e \in DeviceType /\ e.ep0 = "SETUP" /\ e.in = f.in /\ Place(e) = Place(f)
      /\ Desk(e) = Desk(f) /\ Cargo(e) = Cargo(f) /\ Halts(e) = Halts(f)
  BY <1>1 DEF DeviceType, Place, Desk, Cargo, Halts
<1> HIDE DEF e
<1>4. Ready(e)
  BY <1>1, <1>3 DEF Ready, Place, Halts
<1>5. Known(v, e, r)
  BY <1>1, <1>3 DEF Known, Place, Cargo
<1>6. Asked(v, e, r)
  BY <1>4, <1>5 DEF Asked
<1>7. CASE y = [e EXCEPT !.stallIn = TRUE] /\ r.to = "other" /\ r.dir = "in"
  <2>1. /\ y \in DeviceType /\ y.stallIn /\ y.ep0 = e.ep0 /\ Place(y) = Place(e)
        /\ Desk(y) = Desk(e) /\ Cargo(y) = Cargo(e)
    <3>1. y \in DeviceType
      BY <1>3, <1>7 DEF DeviceType
    <3>2. y.stallIn = TRUE /\ y.ep0 = e.ep0
      BY <1>3, <1>7 DEF DeviceType
    <3>3. Place(y) = Place(e) /\ Desk(y) = Desk(e) /\ Cargo(y) = Cargo(e)
      BY <1>3, <1>7 DEF DeviceType, Place, Desk, Cargo
    <3> QED
      BY <3>1, <3>2, <3>3
  <2>2. Denied(e, y) /\ Hauled(e, r, y)
    BY <1>3, <2>1 DEF Denied, Hauled, Cargo
  <2>3. Reply(v, e, r, y)
    BY <2>1, <2>2 DEF Reply
  <2> QED
    BY <1>1, <1>3, <1>4, <2>3
<1>8. CASE y = [e EXCEPT !.stallOut = TRUE] /\ r.to = "other" /\ r.dir = "out"
  <2>1. /\ y \in DeviceType /\ y.stallIn = e.stallIn /\ y.in = e.in /\ y.ep0 = e.ep0
        /\ Place(y) = Place(e) /\ Desk(y) = Desk(e) /\ Cargo(y) = Cargo(e)
    <3>1. y \in DeviceType
      BY <1>3, <1>8 DEF DeviceType
    <3>2. y.stallIn = e.stallIn /\ y.in = e.in /\ y.ep0 = e.ep0
      BY <1>3, <1>8 DEF DeviceType
    <3>3. Place(y) = Place(e) /\ Desk(y) = Desk(e) /\ Cargo(y) = Cargo(e)
      BY <1>3, <1>8 DEF DeviceType, Place, Desk, Cargo
    <3> QED
      BY <3>1, <3>2, <3>3
  <2>2. NoAnswer(v, r)
    BY <1>8 DEF NoAnswer
  <2>3. Ignored(e, v, r, y) /\ Hauled(e, r, y)
    BY <1>4, <2>1, <2>2 DEF Ignored, Hauled, Cargo, Ready
  <2>4. Reply(v, e, r, y)
    BY <2>1, <2>3 DEF Reply
  <2> QED
    BY <1>1, <1>3, <1>4, <2>4
<1>9. CASE y = USBD_StdDevReq(e, r) /\ r.to = "device"
  BY <1>1, <1>3, <1>4, <1>6, <1>9, DevReqReply
<1>10. CASE y = USBD_StdItfReq(e, r) /\ r.to = "interface"
  BY <1>1, <1>3, <1>4, <1>6, <1>10, ItfReqReply
<1>11. CASE y = USBD_StdEPReq(e, r) /\ r.to = "endpoint"
  BY <1>1, <1>3, <1>4, <1>6, <1>11, EPReqReply
<1> QED
  BY <1>2, <1>7, <1>8, <1>9, <1>10, <1>11

-----------------------------------------------------------------------------
(* The data stage of endpoint 0 and the turns of the bulk endpoints.       *)

\* What DataIn0 leaves alone, and the next packet, the empty packet or the
\* status stage.
Shelf(e) == <<e.old, e.setup, e.stup, e.rs, e.en>>

Handed(e, y) ==
  \/ /\ e.rem > MaxPacket /\ y.ep0 = "DATA_IN" /\ y.out = e.out
     /\ y.dlen = e.dlen /\ y.total = e.total /\ y.rem = e.rem - MaxPacket
     /\ y.in.on /\ y.in.src = e.in.src /\ y.in.off = e.in.off + e.in.len
     /\ y.in.len = Min2(y.rem, MaxPacket)
  \/ /\ e.rem <= MaxPacket /\ y.ep0 = "DATA_IN" /\ y.out = e.out
     /\ e.total % MaxPacket = 0 /\ e.total >= MaxPacket /\ e.total < e.dlen
     /\ y.dlen = 0 /\ y.total = e.total /\ y.rem = e.rem
     /\ y.in.on /\ y.in.src = Zlp /\ y.in.len = 0
  \/ /\ e.rem <= MaxPacket /\ y.ep0 = "STATUS_OUT" /\ y.out
     /\ ~(e.total % MaxPacket = 0 /\ e.total >= MaxPacket /\ e.total < e.dlen)

LEMMA ToClassGives ==
  ASSUME NEW e \in DeviceType, NEW next, NEW y, y = ToClass(e, next)
  PROVE  /\ Place(y) = Place(e) /\ Desk(y) = Desk(e) /\ Line(y) = Line(e)
         /\ Halts(y) = Halts(e) /\ y.rxq = e.rxq /\ y.masked = e.masked
         /\ y.bulk = IF e.state = "CONFIGURED" THEN next ELSE "lost"
BY DEF ToClass, DeviceType, Place, Desk, Line, Halts

LEMMA DataInGives ==
  ASSUME NEW e \in DeviceType, e.ep0 = "DATA_IN", NEW y, y = DataIn0(e)
  PROVE  /\ Place(y) = Place(e) /\ Shelf(y) = Shelf(e) /\ Cargo(y) = Cargo(e)
         /\ Halts(y) = Halts(e) /\ y.xin = e.xin /\ Handed(e, y)
<1> DEFINE l == e.rem - MaxPacket
           a == [e EXCEPT !.rem = l]
           b == [e EXCEPT !.dlen = 0]
           f == Forget(e)
           z == [f EXCEPT !.ep0 = "STATUS_OUT", !.out = TRUE]
<1>1. /\ e.rem \in Nat /\ e.total \in Nat /\ e.dlen \in Nat
      /\ MaxPacket \in Nat /\ MaxPacket # 0
  BY ConstantsAssumption DEF DeviceType
<1>2. CASE e.rem > MaxPacket
  <2>1. y = USBD_LL_Transmit(a, a.in.src, a.in.off + a.in.len, l)
    <3>1. ~(e.rem <= MaxPacket)
      BY <1>1, <1>2
    <3>2. y = USBD_CtlContinueSendData([e EXCEPT !.rem = @ - MaxPacket], e.rem - MaxPacket)
      BY <1>1, <1>2, <3>1 DEF DataIn0
    <3> QED
      BY <3>2 DEF USBD_CtlContinueSendData
  <2>2. l \in Nat
    BY <1>1, <1>2
  <2> HIDE DEF l
  <2>3. /\ a \in DeviceType /\ Place(a) = Place(e) /\ Desk(a) = Desk(e)
        /\ Cargo(a) = Cargo(e) /\ Halts(a) = Halts(e) /\ a.ep0 = e.ep0
        /\ a.dlen = e.dlen /\ a.total = e.total /\ a.rem = l /\ a.in = e.in
    BY <2>2 DEF DeviceType, Place, Desk, Cargo, Halts
  <2> HIDE DEF a
  <2>4. /\ y.in.on /\ y.in.src = a.in.src /\ y.in.off = a.in.off + a.in.len
        /\ y.in.len = Min2(l, MaxPacket)
        /\ Place(y) = Place(a) /\ Desk(y) = Desk(a) /\ Cargo(y) = Cargo(a)
        /\ Halts(y) = Halts(a)
        /\ y.ep0 = a.ep0 /\ y.dlen = a.dlen /\ y.total = a.total /\ y.rem = a.rem
    BY <2>1, <2>3, TransmitGives
  <2>5. Shelf(y) = Shelf(e) /\ y.out = e.out /\ y.xin = e.xin
    BY <2>3, <2>4 DEF Desk, Shelf
  <2>6. /\ y.ep0 = "DATA_IN" /\ y.dlen = e.dlen /\ y.total = e.total
        /\ y.rem = l /\ y.in.on /\ y.in.src = e.in.src
        /\ y.in.off = e.in.off + e.in.len
        /\ y.in.len = Min2(y.rem, MaxPacket)
        /\ Place(y) = Place(e) /\ Cargo(y) = Cargo(e) /\ Halts(y) = Halts(e)
    BY <2>3, <2>4
  <2> QED
    BY <1>2, <2>5, <2>6 DEF l, Handed
<1>3. CASE /\ e.rem <= MaxPacket
           /\ e.total % MaxPacket = 0 /\ e.total >= MaxPacket /\ e.total < e.dlen
  <2>1. y = USBD_LL_Transmit(b, Zlp, 0, 0)
    <3>1. ~(e.rem > MaxPacket)
      BY <1>1, <1>3
    <3> QED
      BY <1>3, <3>1 DEF DataIn0
  <2>2. /\ b \in DeviceType /\ Place(b) = Place(e) /\ Desk(b) = Desk(e)
        /\ Cargo(b) = Cargo(e) /\ Halts(b) = Halts(e) /\ b.ep0 = e.ep0
        /\ b.dlen = 0 /\ b.total = e.total /\ b.rem = e.rem
    BY DEF DeviceType, Place, Desk, Cargo, Halts
  <2> HIDE DEF b
  <2>3. /\ y.in.on /\ y.in.src = Zlp /\ y.in.off = 0
        /\ y.in.len = Min2(0, MaxPacket)
        /\ Place(y) = Place(b) /\ Desk(y) = Desk(b) /\ Cargo(y) = Cargo(b)
        /\ Halts(y) = Halts(b)
        /\ y.ep0 = b.ep0 /\ y.dlen = b.dlen /\ y.total = b.total /\ y.rem = b.rem
    BY <2>1, <2>2, TransmitGives
  <2>4. Shelf(y) = Shelf(e) /\ y.out = e.out /\ y.xin = e.xin
    BY <2>2, <2>3 DEF Desk, Shelf
  <2>5. Min2(0, MaxPacket) = 0
    BY <1>1 DEF Min2
  <2> QED
    BY <1>3, <2>2, <2>3, <2>4, <2>5 DEF Handed
<1>4. CASE /\ e.rem <= MaxPacket
           /\ ~(e.total % MaxPacket = 0 /\ e.total >= MaxPacket /\ e.total < e.dlen)
  <2>1. y = USBD_CtlReceiveStatus(e)
    <3>1. ~(e.rem > MaxPacket)
      BY <1>1, <1>4
    <3> QED
      BY <1>4, <3>1 DEF DataIn0
  <2>2. y = z
    BY <2>1 DEF USBD_CtlReceiveStatus
  <2>3. f \in DeviceType
    BY ForgetTyped
  <2>4. Place(f) = Place(e) /\ Desk(f) = Desk(e) /\ Cargo(f) = Cargo(e) /\ Halts(f) = Halts(e)
    BY DEF Forget, DeviceType, Place, Desk, Cargo, Halts
  <2> HIDE DEF f
  <2>5. /\ Place(z) = Place(f) /\ Shelf(z) = Shelf(f) /\ Cargo(z) = Cargo(f)
        /\ Halts(z) = Halts(f) /\ z.ep0 = "STATUS_OUT" /\ z.out /\ z.xin = f.xin
    BY <2>3 DEF DeviceType, Place, Shelf, Cargo, Halts
  <2>6. Shelf(f) = Shelf(e) /\ f.xin = e.xin
    BY <2>4 DEF Shelf, Desk
  <2> HIDE DEF z
  <2> QED
    BY <1>4, <2>2, <2>4, <2>5, <2>6 DEF Handed
<1> QED
  BY <1>1, <1>2, <1>3, <1>4

\* Whole packets.
LEMMA DivMod ==
  ASSUME NEW a \in Int, NEW p \in Nat \ {0}
  PROVE  a \div p \in Int /\ a = p * (a \div p) + (a % p)
OBVIOUS

LEMMA ModUnique ==
  ASSUME NEW p \in Nat \ {0}, NEW q \in Int, NEW r \in 0 .. p - 1
  PROVE  (p * q + r) % p = r
OBVIOUS

LEMMA WholePackets ==
  ASSUME NEW a \in Nat, NEW k \in Nat, a % MaxPacket = 0, k <= MaxPacket
  PROVE  (a + k) % MaxPacket = IF k = MaxPacket THEN 0 ELSE k
<1> DEFINE m == MaxPacket
           q == a \div m
<1>1. m \in Nat \ {0}
  BY ConstantsAssumption
<1> HIDE DEF m
<1>2. q \in Int /\ a = m * q
  <2>1. q \in Int /\ a = m * q + (a % m)
    BY <1>1, DivMod
  <2> HIDE DEF q
  <2>2. a % m = 0
    BY DEF m
  <2>3. m * q \in Int
    BY <1>1, <2>1
  <2> QED
    BY <2>1, <2>2, <2>3
<1> HIDE DEF q
<1>3. CASE k = m
  <2>1. a + k = m * (q + 1) + 0
    <3>1. m * (q + 1) = m * q + m
      BY <1>1, <1>2
    <3>2. m * (q + 1) \in Int
      BY <1>1, <1>2
    <3> QED
      BY <1>1, <1>2, <1>3, <3>1, <3>2
  <2>2. (m * (q + 1) + 0) % m = 0
    <3>1. q + 1 \in Int /\ 0 \in 0 .. m - 1
      BY <1>1, <1>2
    <3> QED
      BY <1>1, <3>1, ModUnique
  <2>3. (a + k) % m = 0
    BY <2>1, <2>2
  <2> QED
    BY <1>3, <2>3 DEF m
<1>4. CASE k # m
  <2>1. k \in 0 .. m - 1
    BY <1>1, <1>4 DEF m
  <2>2. a + k = m * q + k
    BY <1>2
  <2>3. (m * q + k) % m = k
    BY <1>1, <1>2, <2>1, ModUnique
  <2>4. (a + k) % m = k
    BY <2>2, <2>3
  <2> QED
    BY <1>4, <2>4 DEF m
<1> QED
  BY <1>3, <1>4

LEMMA InGives ==
  ASSUME NEW e \in DeviceType, NEW y, y = ServeIn(e)
  PROVE  /\ Place(y) = Place(e) /\ Shelf(y) = Shelf(e) /\ Halts(y) = Halts(e)
         /\ y.rxq = e.rxq /\ y.masked = e.masked /\ y.xin = None
         /\ y.bulk = IF e.bulk = "inDone"
                     THEN IF e.state = "CONFIGURED" THEN "outArmed" ELSE "lost"
                     ELSE e.bulk
         /\ \/ (e.xin = None \/ e.ep0 # "DATA_IN") /\ Line(y) = Line(e) /\ y.out = e.out
            \/ e.xin # None /\ e.ep0 = "DATA_IN" /\ Handed(e, y)
<1> DEFINE n == [e EXCEPT !.xin = None]
           x == IF e.xin # None THEN DataIn0(n) ELSE e
<1>1. y = IF x.bulk = "inDone" THEN ToClass(x, "outArmed") ELSE x
  BY DEF ServeIn
<1>2. /\ n \in DeviceType /\ n.xin = None
      /\ Place(n) = Place(e) /\ Shelf(n) = Shelf(e) /\ Halts(n) = Halts(e)
      /\ Cargo(n) = Cargo(e) /\ Line(n) = Line(e) /\ n.out = e.out
  BY SpecialSources DEF DeviceType, Place, Shelf, Halts, Cargo, Line
<1> HIDE DEF n
<1>3. /\ x \in DeviceType /\ x.xin = None
      /\ Place(x) = Place(e) /\ Shelf(x) = Shelf(e) /\ Halts(x) = Halts(e)
      /\ Cargo(x) = Cargo(e)
      /\ \/ (e.xin = None \/ e.ep0 # "DATA_IN") /\ Line(x) = Line(e) /\ x.out = e.out
         \/ e.xin # None /\ e.ep0 = "DATA_IN" /\ Handed(e, x)
  <2>1. CASE e.xin = None
    <3>1. x = e
      BY <2>1
    <3> HIDE DEF x
    <3> QED
      BY <2>1, <3>1
  <2>2. CASE e.xin # None /\ e.ep0 # "DATA_IN"
    <3>1. x = n
      BY <1>2, <2>2 DEF DataIn0, Line
    <3> HIDE DEF x
    <3> QED
      BY <1>2, <2>2, <3>1
  <2>3. CASE e.xin # None /\ e.ep0 = "DATA_IN"
    <3>1. x = DataIn0(n)
      BY <2>3
    <3> HIDE DEF x
    <3>2. n.ep0 = "DATA_IN"
      BY <1>2, <2>3 DEF Line
    <3>3. /\ Place(x) = Place(n) /\ Shelf(x) = Shelf(n) /\ Cargo(x) = Cargo(n)
          /\ Halts(x) = Halts(n) /\ x.xin = n.xin /\ Handed(n, x)
      BY <1>2, <3>1, <3>2, DataInGives
    <3>4. /\ n.rem = e.rem /\ n.out = e.out /\ n.dlen = e.dlen
          /\ n.total = e.total /\ n.in = e.in
      BY <1>2 DEF Line
    <3>5. Handed(e, x)
      BY <3>3, <3>4 DEF Handed
    <3>6. x \in DeviceType
      BY <1>2, <3>1, DataInTyped
    <3> QED
      BY <1>2, <2>3, <3>3, <3>5, <3>6
  <2> QED
    BY <2>1, <2>2, <2>3
<1> HIDE DEF x
<1>4. x.bulk = e.bulk /\ x.rxq = e.rxq /\ x.masked = e.masked /\ x.state = e.state
  BY <1>3 DEF Cargo, Place
<1>5. CASE e.bulk # "inDone"
  <2>1. y = x
    BY <1>1, <1>4, <1>5
  <2> QED
    BY <1>3, <1>4, <1>5, <2>1
<1>6. CASE e.bulk = "inDone"
  <2>1. y = ToClass(x, "outArmed")
    BY <1>1, <1>4, <1>6
  <2>2. /\ Place(y) = Place(x) /\ Desk(y) = Desk(x) /\ Line(y) = Line(x)
        /\ Halts(y) = Halts(x) /\ y.rxq = x.rxq /\ y.masked = x.masked
        /\ y.bulk = IF x.state = "CONFIGURED" THEN "outArmed" ELSE "lost"
    BY <1>3, <2>1, ToClassGives
  <2>3. /\ Shelf(y) = Shelf(x) /\ y.xin = x.xin /\ y.out = x.out
        /\ y.ep0 = x.ep0 /\ y.dlen = x.dlen /\ y.total = x.total /\ y.rem = x.rem
        /\ y.in = x.in
    BY <2>2 DEF Desk, Shelf, Line
  <2>4. Handed(e, x) => Handed(e, y)
    BY <2>3 DEF Handed
  <2> QED
    BY <1>3, <1>4, <1>6, <2>2, <2>3, <2>4
<1> QED
  BY <1>5, <1>6

\* The answer to a request is not the mark of an empty register.
LEMMA SourceNamed ==
  ASSUME NEW r \in SetupsOf
  PROVE  Source(r) \notin {None, Zlp, Status}
BY Setups DEF RequestType, Names, Source, None, Zlp, Status

LEMMA SendingOn ==
  ASSUME NEW e \in DeviceType, NEW h \in HostType, Sending(e, h), e.xin # None,
         NEW y, Handed(e, y), Halts(y) = Halts(e), y.xin = None
  PROVE  Sending(y, h)
<1>1. /\ MaxPacket \in Nat /\ MaxPacket # 0 /\ e.rem \in Nat /\ e.total \in Nat
      /\ e.dlen \in Nat /\ e.in.off \in Nat /\ h.got \in Nat
  BY ConstantsAssumption, InField DEF DeviceType, InType, HostType
<1>2. More(e, h)
  BY DEF Sending, Offer, Empty
<1>3. /\ ~y.stallIn /\ ~y.stallOut /\ ~e.out /\ h.phase = "data" /\ h.ok
      /\ e.total = Wanted(h.req)
  BY DEF Sending, Halts
<1>4. CASE e.rem > MaxPacket
  <2>1. /\ y.ep0 = "DATA_IN" /\ y.out = e.out
        /\ y.dlen = e.dlen /\ y.total = e.total /\ y.rem = e.rem - MaxPacket
        /\ y.in.on /\ y.in.src = e.in.src /\ y.in.off = e.in.off + e.in.len
        /\ y.in.len = Min2(y.rem, MaxPacket)
    BY <1>1, <1>4 DEF Handed
  <2>2. (e.in.off + MaxPacket) % MaxPacket = 0
    BY <1>1, <1>2, WholePackets DEF More
  <2>3. Offer(y, h)
    BY <1>1, <1>2, <1>4, <2>1, <2>2 DEF More, Offer
  <2> QED
    BY <1>3, <2>1, <2>3 DEF Sending
<1>5. CASE e.rem = MaxPacket
  <2>1. e.total = e.in.off + MaxPacket /\ e.total < e.dlen /\ h.got = e.total
    BY <1>1, <1>2, <1>5 DEF More
  <2>2. e.total % MaxPacket = 0 /\ e.total >= MaxPacket
    <3>1. (e.in.off + MaxPacket) % MaxPacket = 0
      BY <1>1, <1>2, WholePackets DEF More
    <3>2. e.total % MaxPacket = 0
      BY <2>1, <3>1
    <3>3. e.in.off + MaxPacket >= MaxPacket
      BY <1>1
    <3> QED
      BY <2>1, <3>2, <3>3
  <2>3. /\ y.ep0 = "DATA_IN" /\ y.out = e.out
        /\ y.dlen = 0 /\ y.total = e.total /\ y.rem = e.rem
        /\ y.in.on /\ y.in.src = Zlp /\ y.in.len = 0
    BY <1>1, <1>5, <2>1, <2>2 DEF Handed
  <2>4. Empty(y, h)
    BY <1>1, <1>5, <2>1, <2>3 DEF Empty
  <2> QED
    BY <1>3, <2>3, <2>4 DEF Sending
<1> QED
  BY <1>1, <1>2, <1>4, <1>5 DEF More

LEMMA LastOn ==
  ASSUME NEW e \in DeviceType, LastTaken(e), NEW y, Handed(e, y)
  PROVE  y.out /\ y.ep0 = "STATUS_OUT"
<1>1. MaxPacket \in Nat /\ e.rem \in Nat
  BY ConstantsAssumption DEF DeviceType
<1> QED
  BY <1>1 DEF LastTaken, Handed

LEMMA TalkIn ==
  ASSUME NEW e \in DeviceType, NEW h \in HostType, Talk(e, h, "in"),
         NEW y, y = ServeIn(e)
  PROVE  Talk(y, h, "wkup")
<1>1. /\ Place(y) = Place(e) /\ Shelf(y) = Shelf(e) /\ Halts(y) = Halts(e)
      /\ y.rxq = e.rxq /\ y.masked = e.masked /\ y.xin = None
      /\ y.bulk = IF e.bulk = "inDone"
                  THEN IF e.state = "CONFIGURED" THEN "outArmed" ELSE "lost"
                  ELSE e.bulk
      /\ \/ (e.xin = None \/ e.ep0 # "DATA_IN") /\ Line(y) = Line(e) /\ y.out = e.out
         \/ e.xin # None /\ e.ep0 = "DATA_IN" /\ Handed(e, y)
  BY InGives
<1>2. /\ y.state = e.state /\ y.addr = e.addr /\ y.setup = e.setup
      /\ y.stup = e.stup /\ y.stallIn = e.stallIn /\ y.stallOut = e.stallOut
  BY <1>1 DEF Place, Shelf, Halts
<1>3. (e.xin = None \/ e.ep0 # "DATA_IN") =>
        /\ y.ep0 = e.ep0 /\ y.dlen = e.dlen /\ y.total = e.total /\ y.rem = e.rem
        /\ y.in = e.in /\ y.out = e.out
  BY <1>1 DEF Line
<1>4. e.masked => Deaf(y, h)
  <2> SUFFICES ASSUME e.masked PROVE Deaf(y, h)
    OBVIOUS
  <2>1. Deaf(e, h)
    BY DEF Talk
  <2> QED
    BY <1>2, <1>3, <2>1 DEF Deaf, Agreed
<1>5. ~e.masked /\ h.phase = "idle" => Between(y)
  BY <1>1, <1>2 DEF Talk, Between
<1>6. ASSUME OnItsWay(e, h, "in")
      PROVE  OnItsWay(y, h, "wkup")
  <2>1. Before(y, h, "wkup")
    BY <1>1, <1>2, <1>6 DEF OnItsWay, Before
  <2> QED
    BY <1>1, <1>2, <1>3, <1>6, <2>1 DEF OnItsWay, Agreed
<1>7. ASSUME Served(e, h)
      PROVE  Served(y, h)
  <2>1. ~y.stup /\ Quiet(y.rxq)
    BY <1>1, <1>2, <1>7 DEF Served
  <2>2. Agreed(e, h.view, h.addr) => Agreed(y, h.view, h.addr)
    BY <1>2 DEF Agreed
  <2>3. Refused(e) => Refused(y)
    BY <1>1, <1>2, <1>3 DEF Refused
  <2>4. Silent(e, h) => Silent(y, h)
    BY <1>1, <1>2, <1>3 DEF Silent
  <2>5. Sending(e, h) => Sending(y, h)
    <3>1. CASE e.xin = None
      BY <1>1, <1>2, <1>3, <3>1 DEF Sending, Offer, More, Empty
    <3>2. CASE e.xin # None
      <4>1. Sending(e, h) => e.ep0 = "DATA_IN"
        BY DEF Sending
      <4> QED
        BY <1>1, <3>2, <4>1, SendingOn
    <3> QED
      BY <3>1, <3>2
  <2>6. Acked(e, h) => Acked(y, h)
    BY <1>1, <1>2, <1>3 DEF Acked, Agreed
  <2>7. Ended(e, h) => Ended(y, h)
    <3> SUFFICES ASSUME Ended(e, h) PROVE Ended(y, h)
      OBVIOUS
    <3>1. CASE LastTaken(e)
      <4>1. Handed(e, y)
        BY <1>1, <3>1 DEF LastTaken
      <4>2. y.out /\ y.ep0 = "STATUS_OUT"
        BY <3>1, <4>1, LastOn
      <4> QED
        BY <1>1, <1>2, <4>2 DEF Ended, Agreed
    <3>2. CASE e.out /\ e.ep0 = "STATUS_OUT" /\ e.xin = None
      BY <1>1, <1>2, <1>3, <3>2 DEF Ended, Agreed
    <3> QED
      BY <3>1, <3>2 DEF Ended
  <2> QED
    BY <1>7, <2>1, <2>2, <2>3, <2>4, <2>5, <2>6, <2>7 DEF Served
<1> QED
  BY <1>1, <1>4, <1>5, <1>6, <1>7 DEF Talk

\* What a step leaves of the host's belief: where the device is, and the latches.
LEMMA BeliefSame ==
  ASSUME NEW e, NEW h, NEW b, Belief(e, h, b),
         NEW y, Place(y) = Place(e), Shelf(y) = Shelf(e)
  PROVE  Belief(y, h, b)
<1>1. y.state = e.state /\ y.addr = e.addr /\ y.old = e.old /\ y.rs = e.rs /\ y.en = e.en
  BY DEF Place, Shelf
<1> QED
  BY <1>1 DEF Belief, EffectiveOf

LEMMA FerryIn ==
  ASSUME NEW e \in DeviceType, NEW b, Ferry(e, "in", b), NEW y, y = ServeIn(e)
  PROVE  Ferry(y, "wkup", b)
<1>1. /\ Place(y) = Place(e) /\ Shelf(y) = Shelf(e)
      /\ y.rxq = e.rxq /\ y.masked = e.masked
      /\ y.bulk = IF e.bulk = "inDone"
                  THEN IF e.state = "CONFIGURED" THEN "outArmed" ELSE "lost"
                  ELSE e.bulk
  BY InGives
<1>2. y.state = e.state /\ y.rs = e.rs /\ y.en = e.en
  BY <1>1 DEF Place, Shelf
<1> QED
  BY <1>1, <1>2 DEF Ferry, InFlight

LEMMA HandleInTold ==
  ASSUME Inv, Told, HandleIn
  PROVE  Told'
<1>1. /\ d \in DeviceType /\ host \in HostType
      /\ at = "in" /\ at' = "wkup" /\ d' = ServeIn(d) /\ host' = host /\ bus' = bus
  BY DEF Inv, TypeOK, HandleIn, Section
<1>2. Talk(d, host, "in") /\ Belief(d, host, bus) /\ Ferry(d, "in", bus)
  BY <1>1 DEF Told
<1>3. Talk(d', host, "wkup")
  BY <1>1, <1>2, TalkIn
<1>4. Belief(d', host, bus)
  <2>1. Place(d') = Place(d) /\ Shelf(d') = Shelf(d)
    BY <1>1, InGives
  <2> QED
    BY <1>2, <2>1, BeliefSame
<1>5. Ferry(d', "wkup", bus)
  BY <1>1, <1>2, FerryIn
<1> QED
  BY <1>1, <1>3, <1>4, <1>5 DEF Told

\* A SETUP packet is served: the answer is that of the core, the packet is gone.
Freed(s) == [s EXCEPT !.stup = FALSE, !.setup = NoRequest]

Answers(v, e, r, y) ==
  Began(e, r, y) \/ Thanked(e, r, y) \/ Denied(e, y) \/ Ignored(e, v, r, y)

LEMMA PacketTaken ==
  ASSUME NEW s \in DeviceType, NEW v, NEW e, NEW r, Reply(v, e, r, s),
         NEW y, y = Freed(s)
  PROVE  /\ y \in DeviceType /\ Hauled(e, r, y) /\ Answers(v, e, r, y) /\ ~y.stup
         /\ y.old = e.old /\ y.rs = e.rs /\ y.en = e.en /\ y.xin = e.xin /\ y.out = e.out
<1>1. /\ Place(y) = Place(s) /\ Line(y) = Line(s) /\ Halts(y) = Halts(s)
      /\ Cargo(y) = Cargo(s) /\ ~y.stup
      /\ y.old = s.old /\ y.rs = s.rs /\ y.en = s.en /\ y.xin = s.xin /\ y.out = s.out
  BY DEF Freed, DeviceType, Place, Line, Halts, Cargo
<1>2. /\ y.state = s.state /\ y.addr = s.addr
      /\ y.ep0 = s.ep0 /\ y.dlen = s.dlen /\ y.total = s.total /\ y.rem = s.rem
      /\ y.in = s.in /\ y.stallIn = s.stallIn /\ y.stallOut = s.stallOut
      /\ y.bulk = s.bulk /\ y.rxq = s.rxq /\ y.masked = s.masked
  BY <1>1 DEF Place, Line, Halts, Cargo
<1>3. Desk(s) = Desk(e) /\ Hauled(e, r, s) /\ Answers(v, e, r, s)
  BY DEF Reply, Answers
<1>4. Thanked(e, r, s) <=> Thanked(e, r, y)
  BY <1>2 DEF Thanked
<1>5. Hauled(e, r, y)
  BY <1>2, <1>3, <1>4 DEF Hauled
<1>6. Answers(v, e, r, y)
  BY <1>1, <1>2, <1>3, <1>4 DEF Answers, Began, Denied, Ignored
<1>7. y \in DeviceType
  BY DequeTyped DEF Freed, SetupsOf
<1> QED
  BY <1>1, <1>3, <1>5, <1>6, <1>7 DEF Desk

LEMMA HostAsksProper ==
  ASSUME HostRequests, NEW h \in HostType
  PROVE  Proper(h.req)
<1>1. h.req \in SetupsOf
  BY DEF HostType
<1>2. Legal(NoRequest) /\ NoRequest.kind # "class"
  BY DEF Legal, NoRequest
<1> QED
  BY <1>1, <1>2 DEF SetupsOf, HostRequests, ClassToInterface, Proper

LEMMA OutAnswers ==
  ASSUME HostRequests, NEW e \in DeviceType, NEW h \in HostType, Talk(e, h, "out"),
         ~e.masked, e.stup, e.state # "SUSPENDED",
         h.view = "attached" => h.phase = "idle", NEW y, y = ServeOut0(e)
  PROVE  /\ h.phase # "idle" /\ OnItsWay(e, h, "out")
         /\ e.setup = h.req /\ e.xin = None /\ Quiet(e.rxq)
         /\ StopsBulk(h.req) => e.bulk \notin InFlight
         /\ \E c : /\ Place(c) = Place(e) /\ Cargo(c) = Cargo(e)
                   /\ Hauled(c, h.req, y) /\ Answers(h.view, c, h.req, y)
         /\ y \in DeviceType /\ ~y.stup
         /\ y.old = e.old /\ y.rs = e.rs /\ y.en = e.en
         /\ y.xin = e.xin /\ y.out = e.out
<1>1. h.phase # "idle" /\ OnItsWay(e, h, "out")
  BY DEF Talk, Between, Served
<1>2. /\ e.setup = h.req /\ e.xin = None /\ Quiet(e.rxq)
      /\ StopsBulk(h.req) => e.bulk \notin InFlight
  BY <1>1 DEF OnItsWay, Before
<1> DEFINE x == [e EXCEPT !.xout = FALSE]
           s == USBD_LL_SetupStage(x, h.req)
<1>3. y = Freed(s)
  BY <1>2 DEF ServeOut0, Freed
<1>4. /\ x \in DeviceType /\ Place(x) = Place(e) /\ Desk(x) = Desk(e)
      /\ Cargo(x) = Cargo(e) /\ Halts(x) = Halts(e)
  BY DEF DeviceType, Place, Desk, Cargo, Halts
<1> HIDE DEF x
<1>5. x.state = e.state /\ x.bulk = e.bulk /\ ~x.stallIn /\ ~x.stallOut
  BY <1>1, <1>4 DEF Place, Cargo, Halts, OnItsWay
<1>6. Proper(h.req)
  BY HostAsksProper
<1>7. Known(h.view, x, h.req)
  <2>1. h.view \in {"default", "addressed", "configured"}
    BY <1>1 DEF HostType
  <2>2. e.state = StateOf(h.view)
    BY <1>1 DEF OnItsWay, Agreed
  <2> QED
    BY <1>2, <1>5, <2>1, <2>2 DEF Known
<1>8. \E c : /\ Ready(c) /\ Reply(h.view, c, h.req, s)
             /\ Place(c) = Place(x) /\ Desk(c) = Desk(x) /\ Cargo(c) = Cargo(x)
  BY <1>4, <1>5, <1>6, <1>7, SetupReply
<1>9. PICK c : /\ Ready(c) /\ Reply(h.view, c, h.req, s)
               /\ Place(c) = Place(x) /\ Desk(c) = Desk(x) /\ Cargo(c) = Cargo(x)
  BY <1>8
<1> HIDE DEF s
<1>10. /\ y \in DeviceType /\ Hauled(c, h.req, y) /\ Answers(h.view, c, h.req, y) /\ ~y.stup
       /\ y.old = c.old /\ y.rs = c.rs /\ y.en = c.en /\ y.xin = c.xin /\ y.out = c.out
  <2>1. s \in DeviceType
    BY <1>9 DEF Reply
  <2> QED
    BY <1>3, <1>9, <2>1, PacketTaken
<1>11. Place(c) = Place(e) /\ Cargo(c) = Cargo(e) /\ Desk(c) = Desk(e)
  BY <1>4, <1>9
<1>12. y.old = e.old /\ y.rs = e.rs /\ y.en = e.en /\ y.xin = e.xin /\ y.out = e.out
  BY <1>10, <1>11 DEF Desk
<1> QED
  BY <1>1, <1>2, <1>10, <1>11, <1>12

LEMMA OutElse ==
  ASSUME NEW e \in DeviceType, e.masked \/ ~e.stup, NEW y, y = ServeOut0(e)
  PROVE  /\ Place(y) = Place(e) /\ Desk(y) = Desk(e) /\ Cargo(y) = Cargo(e)
         /\ Line(y) = Line(e) /\ Halts(y) = Halts(e)
<1> DEFINE x == [e EXCEPT !.xout = FALSE]
<1>1. y = e \/ y = x
  BY DEF ServeOut0
<1>2. /\ Place(x) = Place(e) /\ Desk(x) = Desk(e) /\ Cargo(x) = Cargo(e)
      /\ Line(x) = Line(e) /\ Halts(x) = Halts(e)
  BY DEF DeviceType, Place, Desk, Cargo, Line, Halts
<1> QED
  BY <1>1, <1>2

\* Steps that leave alone what a control transfer is made of.
LEMMA TalkKept ==
  ASSUME NEW e \in DeviceType, NEW h \in HostType, NEW a, NEW a2, Talk(e, h, a),
         a = "out" => a2 \in {"out", "in"} \/ e.masked \/ ~e.stup,
         a \in {"out", "in"} => a2 \in {"out", "in"} \/ e.xin = None,
         e.bulk = "inDone" => (a \in {"out", "in"} => a2 \in {"out", "in"}),
         a2 = a \/ e.masked \/ ~e.stup,
         NEW y, Place(y) = Place(e), Desk(y) = Desk(e), Line(y) = Line(e),
         Halts(y) = Halts(e), y.rxq = e.rxq, y.masked = e.masked,
         y.bulk = e.bulk \/ y.bulk \notin InFlight
  PROVE  Talk(y, h, a2)
<1>1. /\ y.state = e.state /\ y.addr = e.addr /\ y.setup = e.setup
      /\ y.stup = e.stup /\ y.rs = e.rs /\ y.xin = e.xin /\ y.out = e.out
      /\ y.ep0 = e.ep0 /\ y.dlen = e.dlen /\ y.total = e.total /\ y.rem = e.rem
      /\ y.in = e.in /\ y.stallIn = e.stallIn /\ y.stallOut = e.stallOut
  BY DEF Place, Desk, Line, Halts
<1>2. e.masked => Deaf(y, h)
  BY <1>1 DEF Talk, Deaf, Agreed
<1>3. ~e.masked /\ h.phase = "idle" => Between(y)
  BY <1>1 DEF Talk, Between
<1>4. ASSUME ~e.masked, OnItsWay(e, h, a)
      PROVE  OnItsWay(y, h, a2)
  <2>1. Before(y, h, a2)
    BY <1>1, <1>4 DEF OnItsWay, Before, InFlight
  <2> QED
    BY <1>1, <1>4, <2>1 DEF OnItsWay, Agreed
<1>5. ASSUME Served(e, h)
      PROVE  Served(y, h)
  <2>1. Agreed(e, h.view, h.addr) => Agreed(y, h.view, h.addr)
    BY <1>1 DEF Agreed
  <2>2. /\ Refused(e) => Refused(y)
        /\ Silent(e, h) => Silent(y, h)
    BY <1>1 DEF Refused, Silent
  <2>3. Sending(e, h) => Sending(y, h)
    BY <1>1 DEF Sending, Offer, More, Empty
  <2>4. Acked(e, h) => Acked(y, h)
    BY <1>1 DEF Acked, Agreed
  <2>5. Ended(e, h) => Ended(y, h)
    BY <1>1 DEF Ended, LastTaken, Agreed
  <2> QED
    BY <1>1, <1>5, <2>1, <2>2, <2>3, <2>4, <2>5 DEF Served
<1> QED
  BY <1>2, <1>3, <1>4, <1>5 DEF Talk

LEMMA ServedAfter ==
  ASSUME NEW e \in DeviceType, NEW h \in HostType, OnItsWay(e, h, "out"), ~e.masked,
         Quiet(e.rxq), e.xin = None, h.phase # "idle",
         NEW c, Place(c) = Place(e), Cargo(c) = Cargo(e),
         NEW y \in DeviceType, Hauled(c, h.req, y), Answers(h.view, c, h.req, y),
         ~y.stup, y.xin = e.xin, y.out = e.out
  PROVE  Talk(y, h, "in")
<1>1. /\ h.got = 0 /\ h.ok /\ h.phase = FirstPhase(h.req) /\ ~e.out
      /\ Agreed(e, h.view, h.addr)
  BY DEF OnItsWay
<1>2. /\ c.state = e.state /\ c.addr = e.addr /\ c.rxq = e.rxq /\ ~c.masked
      /\ c.bulk = e.bulk
  BY DEF Place, Cargo
<1>3. c.state = StateOf(h.view) /\ c.addr = h.addr
  BY <1>1, <1>2 DEF Agreed
<1>4. Place(y) = Place(c) => Agreed(y, h.view, h.addr)
  BY <1>3 DEF Place, Agreed
<1>5. h.phase \in {"data", "status_in"}
  BY <1>1 DEF FirstPhase
<1>6. ASSUME Thanked(c, h.req, y)
      PROVE  /\ ~y.stallIn /\ y.in.on /\ y.in.src = Status /\ y.ep0 # "DATA_IN"
             /\ h.phase = "status_in"
             /\ Agreed(y, ViewAfter(h.view, h.req), AddrAfter(h.addr, h.req))
             /\ h.req.req = "SET_ADDRESS" => h.view # "configured"
  <2>1. /\ ~y.stallIn /\ y.in.on /\ y.in.src = Status /\ y.ep0 # "DATA_IN"
        /\ FirstPhase(h.req) = "status_in"
        /\ y.state = StateAfter(c.state, h.req) /\ y.addr = AddrAfter(c.addr, h.req)
        /\ h.req.req = "SET_ADDRESS" => c.state # "CONFIGURED"
    BY <1>6 DEF Thanked
  <2>2. y.state = StateOf(ViewAfter(h.view, h.req))
    BY <1>3, <2>1 DEF StateAfter, StateOf, ViewAfter
  <2>3. h.view = "configured" => c.state = "CONFIGURED"
    BY <1>3 DEF StateOf
  <2> QED
    BY <1>1, <1>3, <2>1, <2>2, <2>3 DEF Agreed
<1>7. CASE y.masked
  <2>1. h.req.req = "CLEAR_FEATURE" /\ Thanked(c, h.req, y)
    BY <1>2, <1>7 DEF Hauled
  <2>2. ViewAfter(h.view, h.req) = h.view /\ AddrAfter(h.addr, h.req) = h.addr
    BY <2>1 DEF ViewAfter, AddrAfter
  <2>3. Deaf(y, h)
    BY <1>6, <2>1, <2>2 DEF Deaf
  <2> QED
    BY <1>7, <2>3 DEF Talk
<1>8. CASE ~y.masked
  <2>1. Quiet(y.rxq)
    BY <1>2, <1>8, Nothing DEF Hauled
  <2>2. ASSUME Began(c, h.req, y)
        PROVE  Sending(y, h) /\ Agreed(y, h.view, h.addr)
    <3>1. /\ y.ep0 = "DATA_IN" /\ y.in.on /\ y.in.src = Source(h.req) /\ y.in.off = 0
          /\ y.in.len = Min2(y.rem, MaxPacket) /\ y.total = y.rem
          /\ y.rem = Wanted(h.req) /\ y.rem >= 1 /\ y.dlen = h.req.len
          /\ ~y.stallIn /\ ~y.stallOut /\ FirstPhase(h.req) = "data"
          /\ Place(y) = Place(c)
      BY <2>2 DEF Began
    <3>2. 0 % MaxPacket = 0
      BY ConstantsAssumption
    <3>3. 0 + y.rem = y.total
      <4>1. y.rem \in Nat
        BY DEF DeviceType
      <4> QED
        BY <3>1, <4>1
    <3>4. Offer(y, h)
      BY <1>1, <3>1, <3>2, <3>3 DEF Offer
    <3> QED
      BY <1>1, <1>4, <3>1, <3>4 DEF Sending
  <2>3. Thanked(c, h.req, y) => Acked(y, h)
    BY <1>6 DEF Acked
  <2>4. Denied(c, y) => Refused(y) /\ Agreed(y, h.view, h.addr)
    BY <1>4 DEF Denied, Refused
  <2>5. Ignored(c, h.view, h.req, y) => Silent(y, h) /\ Agreed(y, h.view, h.addr)
    BY <1>4 DEF Ignored, Silent
  <2>6. Served(y, h)
    BY <1>5, <2>1, <2>2, <2>3, <2>4, <2>5 DEF Served, Answers
  <2> QED
    BY <1>8, <2>6 DEF Talk
<1> QED
  BY <1>7, <1>8

LEMMA FerrySame ==
  ASSUME NEW e, NEW a, NEW b, Ferry(e, a, b),
         NEW y, NEW a2, y.bulk = "outDone" => a2 = "out",
         y.state = e.state, y.rs = e.rs, y.en = e.en,
         y.bulk = e.bulk, y.rxq = e.rxq, y.masked = e.masked
  PROVE  Ferry(y, a2, b)
BY DEF Ferry

LEMMA FerryAnswered ==
  ASSUME NEW e, NEW b, Ferry(e, "out", b), ~e.masked, b # "reset",
         NEW r, StopsBulk(r) => e.bulk \notin InFlight,
         NEW c, Place(c) = Place(e), Cargo(c) = Cargo(e), NEW v,
         NEW y, Hauled(c, r, y), Answers(v, c, r, y), y.rs = e.rs, y.en = e.en
  PROVE  Ferry(y, "out", b)
<1>1. /\ c.state = e.state /\ c.rxq = e.rxq /\ c.masked = e.masked
      /\ c.bulk = e.bulk
  BY DEF Place, Cargo
<1>2. /\ OneBulk(e.rxq) /\ (Bulky(e.rxq) <=> e.bulk = "outFifo")
      /\ e.bulk \in InFlight => e.state = "CONFIGURED" /\ b # "suspended" /\ ~e.en
      /\ e.bulk # "lost"
  BY DEF Ferry
<1>3. OneBulk(y.rxq) /\ (Bulky(y.rxq) <=> y.bulk = "outFifo")
  <2>1. CASE y.rxq = e.rxq /\ y.bulk = e.bulk
    BY <1>2, <2>1
  <2>2. CASE y.rxq = << >> /\ y.bulk # "outFifo"
    BY <2>2, Nothing
  <2>3. CASE /\ y.rxq = e.rxq /\ y.bulk \in {"closed", "outArmed"}
             /\ e.bulk \notin InFlight
    BY <1>2, <2>3 DEF InFlight
  <2> QED
    BY <1>1, <2>1, <2>2, <2>3 DEF Hauled, InFlight
<1>4. ASSUME y.bulk \in InFlight
      PROVE  y.state = "CONFIGURED" /\ b # "suspended" /\ ~y.en
  <2>1. y.bulk = e.bulk /\ ~StopsBulk(r)
    BY <1>1, <1>4 DEF Hauled, InFlight
  <2>2. e.state = "CONFIGURED" /\ b # "suspended" /\ ~e.en
    BY <1>2, <1>4, <2>1
  <2>3. y.state = c.state
    <3>1. r.req # "SET_CONFIGURATION"
      BY <2>1 DEF StopsBulk
    <3>2. Place(y) = Place(c) => y.state = c.state
      BY DEF Place
    <3> QED
      BY <1>1, <2>2, <3>1, <3>2
         DEF Answers, Began, Thanked, Denied, Ignored, StateAfter
  <2> QED
    BY <1>1, <2>2, <2>3
<1>5. ASSUME y.bulk = "lost"
      PROVE  y.masked /\ ~y.en
  <2>1. y.masked /\ e.bulk = "outFifo"
    BY <1>1, <1>2, <1>5 DEF Hauled
  <2> QED
    BY <1>2, <2>1 DEF InFlight
<1> QED
  BY <1>3, <1>4, <1>5 DEF Ferry

\* The turn of the OUT endpoint: the class has the completion, and goes on.
LEMMA TurnOut ==
  ASSUME NEW x \in DeviceType, NEW h \in HostType, NEW b,
         Talk(x, h, "in"), Belief(x, h, b), Ferry(x, "out", b),
         NEW y, y = IF x.bulk = "outDone" THEN ToClass(x, "inArmed") ELSE x
  PROVE  Talk(y, h, "in") /\ Belief(y, h, b) /\ Ferry(y, "in", b)
<1>1. CASE x.bulk # "outDone"
  <2>1. y = x
    BY <1>1
  <2> QED
    BY <1>1, <2>1, FerrySame
<1>2. CASE x.bulk = "outDone"
  <2>1. y = ToClass(x, "inArmed")
    BY <1>2
  <2>2. x.state = "CONFIGURED"
    BY <1>2 DEF Ferry, InFlight
  <2>3. /\ Place(y) = Place(x) /\ Desk(y) = Desk(x) /\ Line(y) = Line(x)
        /\ Halts(y) = Halts(x) /\ y.rxq = x.rxq /\ y.masked = x.masked
        /\ y.bulk = "inArmed"
    BY <2>1, <2>2, ToClassGives
  <2>4. Talk(y, h, "in")
    BY <2>3, TalkKept DEF InFlight
  <2>5. Shelf(y) = Shelf(x)
    BY <2>3 DEF Desk, Shelf
  <2>6. Belief(y, h, b)
    BY <2>3, <2>5, BeliefSame
  <2>7. Ferry(y, "in", b)
    <3>1. OneBulk(x.rxq) /\ ~Bulky(x.rxq)
      BY <1>2 DEF Ferry
    <3> QED
      BY <2>3, <3>1 DEF Ferry, InFlight
  <2> QED
    BY <2>4, <2>6, <2>7
<1> QED
  BY <1>1, <1>2

LEMMA HandleOutTold ==
  ASSUME HostRequests, Inv, Told, HandleOut
  PROVE  Told'
<1>1. /\ d \in DeviceType /\ host \in HostType
      /\ at = "out" /\ at' = "in" /\ d' = ServeOut(d) /\ host' = host /\ bus' = bus
  BY DEF Inv, TypeOK, HandleOut, Section
<1>2. Talk(d, host, "out") /\ Belief(d, host, bus) /\ Ferry(d, "out", bus)
  BY <1>1 DEF Told
<1> DEFINE x == ServeOut0(d)
<1>3. d' = IF x.bulk = "outDone" THEN ToClass(x, "inArmed") ELSE x
  BY <1>1 DEF ServeOut
<1>4. /\ x \in DeviceType /\ Talk(x, host, "in") /\ Belief(x, host, bus)
      /\ Ferry(x, "out", bus)
  <2>1. CASE d.masked \/ ~d.stup
    <3>1. /\ Place(x) = Place(d) /\ Desk(x) = Desk(d) /\ Cargo(x) = Cargo(d)
          /\ Line(x) = Line(d) /\ Halts(x) = Halts(d)
      BY <1>1, <2>1, OutElse
    <3>2. x \in DeviceType
      BY <1>1, <2>1 DEF ServeOut0, DeviceType
    <3> HIDE DEF x
    <3>3. /\ x.rxq = d.rxq /\ x.masked = d.masked /\ x.bulk = d.bulk
          /\ x.state = d.state /\ x.rs = d.rs /\ x.en = d.en
      BY <3>1 DEF Place, Desk, Cargo
    <3>4. Talk(x, host, "in")
      BY <1>1, <1>2, <2>1, <3>1, <3>3, TalkKept
    <3>5. Shelf(x) = Shelf(d)
      BY <3>1 DEF Desk, Shelf
    <3>6. Belief(x, host, bus)
      BY <1>2, <3>1, <3>5, BeliefSame
    <3>7. Ferry(x, "out", bus)
      BY <1>2, <3>3, FerrySame
    <3> QED
      BY <3>2, <3>4, <3>6, <3>7
  <2>2. CASE ~d.masked /\ d.stup
    <3>1. d.state # "SUSPENDED"
      BY <2>2 DEF Inv, Order, Calm
    <3>2. host.view = "attached" => host.phase = "idle"
      BY <1>2 DEF Belief
    <3> HIDE DEF x
    <3>3. /\ host.phase # "idle" /\ OnItsWay(d, host, "out")
          /\ d.setup = host.req /\ d.xin = None /\ Quiet(d.rxq)
          /\ StopsBulk(host.req) => d.bulk \notin InFlight
          /\ \E c : /\ Place(c) = Place(d) /\ Cargo(c) = Cargo(d)
                    /\ Hauled(c, host.req, x) /\ Answers(host.view, c, host.req, x)
          /\ x \in DeviceType /\ ~x.stup
          /\ x.old = d.old /\ x.rs = d.rs /\ x.en = d.en
          /\ x.xin = d.xin /\ x.out = d.out
      BY <1>1, <1>2, <2>2, <3>1, <3>2, OutAnswers DEF x
    <3>4. PICK c : /\ Place(c) = Place(d) /\ Cargo(c) = Cargo(d)
                   /\ Hauled(c, host.req, x) /\ Answers(host.view, c, host.req, x)
      BY <3>3
    <3>5. Talk(x, host, "in")
      BY <1>1, <2>2, <3>3, <3>4, ServedAfter
    <3>6. Belief(x, host, bus)
      BY <1>2, <3>3 DEF Belief
    <3>7. bus # "reset"
      BY <3>3 DEF Inv, Order
    <3>8. Ferry(x, "out", bus)
      BY <1>2, <2>2, <3>3, <3>4, <3>7, FerryAnswered
    <3> QED
      BY <3>3, <3>5, <3>6, <3>8
  <2> QED
    BY <2>1, <2>2
<1> HIDE DEF x
<1>5. Talk(d', host, "in") /\ Belief(d', host, bus) /\ Ferry(d', "in", bus)
  BY <1>1, <1>3, <1>4, TurnOut
<1> QED
  BY <1>1, <1>5 DEF Told

\* Only the first section sees a SETUP packet that is not served.
LEMMA NoPacket ==
  ASSUME NEW e, NEW h, NEW a, Talk(e, h, a), a # "out"
  PROVE  e.masked \/ ~e.stup
BY DEF Talk, Between, OnItsWay, Before, Served

\* Suspend and resume: only the state moves, and it comes back.
Settle(e) == <<e.addr, e.setup, e.stup, e.rs, e.en, e.xin, e.out>>

LEMMA SleepGives ==
  ASSUME Inv, HandleSleep
  PROVE  /\ Settle(d') = Settle(d) /\ Line(d') = Line(d) /\ Halts(d') = Halts(d)
         /\ Cargo(d') = Cargo(d)
         /\ \/ d'.state = d.state /\ d'.old = d.old
            \/ /\ host.phase = "idle" /\ d.state = "SUSPENDED" /\ d'.state = d.old
               /\ d.old # "SUSPENDED"
            \/ /\ host.phase = "idle" /\ bus = "suspended" /\ d.state # "SUSPENDED"
               /\ d'.state = "SUSPENDED" /\ d'.old = d.state
<1>1. d \in DeviceType /\ d' = ServeSuspend(ServeWakeup(d))
  BY DEF Inv, TypeOK, HandleSleep, Section
<1>2. CASE d.wk
  <2> DEFINE y == [d EXCEPT !.state = d.old]
             w == [y EXCEPT !.wk = FALSE]
             x == [w EXCEPT !.sp = FALSE]
  <2>1. /\ d.state = "SUSPENDED" /\ ~d.sp
        /\ d.old \in States \ {"SUSPENDED"} /\ host.phase = "idle"
    BY <1>2 DEF Inv, Order
  <2>2. ServeWakeup(d) = w
    BY <1>2 DEF ServeWakeup, USBD_LL_Resume
  <2>3. /\ y \in DeviceType /\ y.state = d.old /\ y.old = d.old /\ y.sp = d.sp
        /\ Settle(y) = Settle(d)
        /\ Line(y) = Line(d) /\ Halts(y) = Halts(d) /\ Cargo(y) = Cargo(d)
    BY <1>1, <2>1 DEF DeviceType, Settle, Line, Halts, Cargo
  <2> HIDE DEF y
  <2>4. /\ w \in DeviceType /\ w.state = y.state /\ w.old = y.old /\ w.sp = y.sp
        /\ Settle(w) = Settle(y)
        /\ Line(w) = Line(y) /\ Halts(w) = Halts(y) /\ Cargo(w) = Cargo(y)
    BY <2>3 DEF DeviceType, Settle, Line, Halts, Cargo
  <2> HIDE DEF w
  <2>5. d' = x
    BY <1>1, <2>1, <2>2, <2>3, <2>4 DEF ServeSuspend
  <2>6. /\ x.state = w.state /\ x.old = w.old /\ Settle(x) = Settle(w)
        /\ Line(x) = Line(w) /\ Halts(x) = Halts(w) /\ Cargo(x) = Cargo(w)
    BY <2>4 DEF DeviceType, Settle, Line, Halts, Cargo
  <2> HIDE DEF x
  <2> QED
    BY <2>1, <2>3, <2>4, <2>5, <2>6
<1>3. CASE ~d.wk /\ d.sp
  <2> DEFINE y == [d EXCEPT !.old = d.state, !.state = "SUSPENDED"]
             x == [y EXCEPT !.sp = FALSE]
  <2>1. d.state # "SUSPENDED" /\ bus = "suspended" /\ host.phase = "idle"
    BY <1>3 DEF Inv, TypeOK, Order
  <2>2. d' = x
    <3>1. ServeWakeup(d) = d
      BY <1>3 DEF ServeWakeup
    <3>2. USBD_LL_Suspend(d) = y
      BY DEF USBD_LL_Suspend
    <3> HIDE DEF y
    <3> QED
      BY <1>1, <1>3, <2>1, <3>1, <3>2 DEF ServeSuspend
  <2>3. /\ y \in DeviceType /\ y.state = "SUSPENDED" /\ y.old = d.state
        /\ Settle(y) = Settle(d)
        /\ Line(y) = Line(d) /\ Halts(y) = Halts(d) /\ Cargo(y) = Cargo(d)
    BY <1>1 DEF DeviceType, States, Settle, Line, Halts, Cargo
  <2> HIDE DEF y
  <2>4. /\ x.state = y.state /\ x.old = y.old /\ Settle(x) = Settle(y)
        /\ Line(x) = Line(y) /\ Halts(x) = Halts(y) /\ Cargo(x) = Cargo(y)
    BY <2>3 DEF DeviceType, Settle, Line, Halts, Cargo
  <2> HIDE DEF x
  <2> QED
    BY <2>1, <2>2, <2>3, <2>4
<1>4. CASE ~d.wk /\ ~d.sp
  <2> DEFINE x == [d EXCEPT !.sp = FALSE]
  <2>1. d' = x
    BY <1>1, <1>4 DEF ServeSuspend, ServeWakeup
  <2>2. /\ x.state = d.state /\ x.old = d.old /\ Settle(x) = Settle(d)
        /\ Line(x) = Line(d) /\ Halts(x) = Halts(d) /\ Cargo(x) = Cargo(d)
    BY <1>1 DEF DeviceType, Settle, Line, Halts, Cargo
  <2> HIDE DEF x
  <2> QED
    BY <2>1, <2>2
<1> QED
  BY <1>1, <1>2, <1>3, <1>4 DEF DeviceType

LEMMA HandleSleepTold ==
  ASSUME Inv, Told, HandleSleep
  PROVE  Told'
<1>1. /\ d \in DeviceType /\ host \in HostType
      /\ at = "wkup" /\ at' = "rst" /\ host' = host /\ bus' = bus
  BY DEF Inv, TypeOK, HandleSleep, Section
<1>2. Talk(d, host, "wkup") /\ Belief(d, host, bus) /\ Ferry(d, "wkup", bus)
  BY <1>1 DEF Told
<1>3. /\ Settle(d') = Settle(d) /\ Line(d') = Line(d) /\ Halts(d') = Halts(d)
      /\ Cargo(d') = Cargo(d)
      /\ \/ d'.state = d.state /\ d'.old = d.old
         \/ /\ host.phase = "idle" /\ d.state = "SUSPENDED" /\ d'.state = d.old
            /\ d.old # "SUSPENDED"
         \/ /\ host.phase = "idle" /\ bus = "suspended" /\ d.state # "SUSPENDED"
            /\ d'.state = "SUSPENDED" /\ d'.old = d.state
  BY SleepGives
<1>4. /\ d'.addr = d.addr /\ d'.setup = d.setup /\ d'.stup = d.stup /\ d'.rs = d.rs
      /\ d'.en = d.en /\ d'.xin = d.xin /\ d'.out = d.out
      /\ d'.ep0 = d.ep0 /\ d'.in = d.in
      /\ d'.rxq = d.rxq /\ d'.bulk = d.bulk /\ d'.masked = d.masked
  BY <1>3 DEF Settle, Line, Cargo
<1>5. Talk(d', host, "rst")
  <2>1. CASE d'.state = d.state /\ d'.old = d.old
    <3>1. Place(d') = Place(d) /\ Desk(d') = Desk(d)
      BY <1>4, <2>1 DEF Place, Desk
    <3>2. d.masked \/ ~d.stup
      BY <1>2, NoPacket
    <3> QED
      BY <1>1, <1>2, <1>3, <1>4, <3>1, <3>2, TalkKept
  <2>2. CASE host.phase = "idle"
    <3>1. d.masked => Deaf(d', host)
      BY <1>2, <1>4, <2>2 DEF Talk, Deaf
    <3>2. ~d.masked => Between(d')
      BY <1>2, <1>4, <2>2 DEF Talk, Between
    <3> QED
      BY <1>4, <2>2, <3>1, <3>2 DEF Talk
  <2> QED
    BY <1>3, <2>1, <2>2
<1>6. Belief(d', host, bus)
  <2>1. EffectiveOf(d') = EffectiveOf(d)
    BY <1>3 DEF EffectiveOf
  <2> QED
    BY <1>2, <1>4, <2>1 DEF Belief
<1>7. Ferry(d', "rst", bus)
  BY <1>2, <1>3, <1>4 DEF Ferry, InFlight
<1> QED
  BY <1>1, <1>5, <1>6, <1>7 DEF Told

\* The two interrupts of a reset.
LEMMA ResetGives ==
  ASSUME NEW e \in DeviceType, e.rs, NEW y, y = ServeReset(e)
  PROVE  /\ y.ep0 = e.ep0 /\ y.in = e.in /\ y.rxq = e.rxq /\ y.state = e.state
         /\ y.old = e.old /\ y.en = e.en
         /\ ~y.rs /\ y.xin = None /\ ~y.stup /\ ~y.masked /\ y.addr = 0
         /\ y.bulk = IF e.bulk \in {"outDone", "inDone", "lost"} THEN "closed"
                     ELSE e.bulk
<1> DEFINE b == IF e.bulk \in {"outDone", "inDone", "lost"} THEN "closed" ELSE e.bulk
           w == [e EXCEPT !.rs = FALSE, !.xin = None, !.xout = FALSE, !.stup = FALSE]
           z == [w EXCEPT !.masked = FALSE, !.addr = 0, !.nullUse = {}, !.bulk = b]
<1>1. y = z
  BY DEF ServeReset
<1> HIDE DEF b, z
<1>2. /\ w \in DeviceType /\ w.ep0 = e.ep0 /\ w.in = e.in /\ w.rxq = e.rxq
      /\ w.state = e.state /\ w.old = e.old /\ w.en = e.en
      /\ ~w.rs /\ w.xin = None /\ ~w.stup
  <2>1. w \in DeviceType
    BY SpecialSources DEF DeviceType
  <2>2. w.rs = FALSE /\ w.stup = FALSE /\ w.xin = None
    BY DEF DeviceType
  <2> QED
    BY <2>1, <2>2 DEF DeviceType
<1> HIDE DEF w
<1>3. /\ z.ep0 = w.ep0 /\ z.in = w.in /\ z.rxq = w.rxq
      /\ z.state = w.state /\ z.old = w.old /\ z.en = w.en
      /\ z.rs = w.rs /\ z.xin = w.xin /\ z.stup = w.stup
      /\ ~z.masked /\ z.addr = 0 /\ z.bulk = b
  BY <1>2 DEF DeviceType, z
<1> QED
  BY <1>1, <1>2, <1>3 DEF b

LEMMA EnumGives ==
  ASSUME NEW e \in DeviceType, e.bulk \notin InFlight,
         NEW y, y = [USBD_LL_Reset(e) EXCEPT !.en = FALSE]
  PROVE  /\ y.ep0 = e.ep0 /\ y.in = e.in /\ y.rxq = e.rxq /\ y.state = "DEFAULT"
         /\ ~y.en /\ y.rs = e.rs /\ y.xin = e.xin /\ y.stup = e.stup /\ ~y.masked
         /\ y.addr = e.addr /\ y.bulk \in {e.bulk, "closed"}
<1> DEFINE a == [e EXCEPT !.state = "DEFAULT", !.masked = FALSE]
           c == USBD_ClrClassConfig(a)
           l == USBD_LL_Reset(e)
<1>1. /\ a \in DeviceType /\ a.ep0 = e.ep0 /\ a.in = e.in /\ a.rxq = e.rxq
      /\ a.state = "DEFAULT" /\ a.rs = e.rs /\ a.xin = e.xin
      /\ a.stup = e.stup /\ ~a.masked /\ a.addr = e.addr /\ a.bulk = e.bulk
  BY DEF DeviceType, States
<1>2. l = IF a.class THEN c ELSE a
  BY DEF USBD_LL_Reset
<1> HIDE DEF a
<1>3. /\ c \in DeviceType /\ c.ep0 = a.ep0 /\ c.in = a.in /\ c.rxq = a.rxq
      /\ c.state = a.state /\ c.rs = a.rs /\ c.xin = a.xin
      /\ c.stup = a.stup /\ c.masked = a.masked /\ c.addr = a.addr
      /\ c.bulk = "closed"
  <2>1. c \in DeviceType
    BY <1>1, ClassConfigTyped
  <2> QED
    BY <1>1, <2>1 DEF USBD_ClrClassConfig, DeviceType
<1> HIDE DEF c, l
<1>4. /\ l \in DeviceType /\ l.ep0 = e.ep0 /\ l.in = e.in /\ l.rxq = e.rxq
      /\ l.state = "DEFAULT" /\ l.rs = e.rs /\ l.xin = e.xin
      /\ l.stup = e.stup /\ ~l.masked /\ l.addr = e.addr
      /\ l.bulk \in {e.bulk, "closed"}
  BY <1>1, <1>2, <1>3 DEF DeviceType
<1>5. y = [l EXCEPT !.en = FALSE]
  BY DEF l
<1> QED
  BY <1>4, <1>5 DEF DeviceType

LEMMA HandleResetTold ==
  ASSUME Inv, Told, HandleReset
  PROVE  Told'
<1> DEFINE s == ServeReset(d)
           x == [USBD_LL_Reset(s) EXCEPT !.en = FALSE]
<1>1. /\ d \in DeviceType /\ host \in HostType
      /\ at = "rst" /\ at' = "rx" /\ host' = host /\ bus' = bus
      /\ d' = IF s.en THEN x ELSE s
  BY DEF Inv, TypeOK, HandleReset, Section, ServeEnumDone
<1>2. Talk(d, host, "rst") /\ Belief(d, host, bus) /\ Ferry(d, "rst", bus)
  BY <1>1 DEF Told
<1>3. s \in DeviceType
  BY <1>1, ServeResetTyped
<1>4. /\ Talk(s, host, "rx") /\ Belief(s, host, bus) /\ Ferry(s, "rx", bus)
      /\ s.en => host.phase = "idle" /\ ~s.stup /\ s.rxq = << >> /\ ~s.rs
  <2>1. CASE ~d.rs
    <3>1. s = d
      BY <2>1 DEF ServeReset
    <3> HIDE DEF s
    <3>2. d.masked \/ ~d.stup
      BY <1>2, NoPacket
    <3>3. Talk(d, host, "rx")
      BY <1>1, <1>2, <3>2, TalkKept
    <3>4. Ferry(d, "rx", bus)
      BY <1>2 DEF Ferry
    <3>5. d.en => host.phase = "idle" /\ ~d.stup /\ d.rxq = << >>
      BY DEF Inv, Order
    <3> QED
      BY <1>2, <2>1, <3>1, <3>3, <3>4, <3>5
  <2>2. CASE d.rs
    <3>1. /\ s.ep0 = d.ep0 /\ s.in = d.in /\ s.rxq = d.rxq /\ s.state = d.state
          /\ s.old = d.old /\ s.en = d.en
          /\ ~s.rs /\ s.xin = None /\ ~s.stup /\ ~s.masked /\ s.addr = 0
          /\ s.bulk = IF d.bulk \in {"outDone", "inDone", "lost"} THEN "closed"
                      ELSE d.bulk
      BY <1>1, <2>2, ResetGives
    <3> HIDE DEF s
    <3>2. bus = "reset" /\ d.rxq = << >> /\ host.phase = "idle"
      BY <2>2 DEF Inv, Order, Calm
    <3>3. Talk(s, host, "rx")
      BY <3>1, <3>2, Nothing DEF Talk, Between
    <3>4. Belief(s, host, bus)
      BY <1>2, <3>1, <3>2 DEF Belief
    <3>5. Ferry(s, "rx", bus)
      <4>1. s.bulk \notin InFlight \cup {"lost"}
        BY <1>2, <3>1, <3>2, Nothing DEF Ferry, InFlight
      <4> QED
        BY <3>1, <3>2, <4>1, Nothing DEF Ferry, InFlight
    <3> QED
      BY <3>1, <3>2, <3>3, <3>4, <3>5
  <2> QED
    BY <2>1, <2>2
<1> HIDE DEF s
<1>5. CASE ~s.en
  <2>1. d' = s
    BY <1>1, <1>5
  <2> QED
    BY <1>1, <1>4, <2>1 DEF Told
<1>6. CASE s.en
  <2>1. d' = x
    BY <1>1, <1>6
  <2>2. s.bulk \notin InFlight \cup {"lost"}
    BY <1>4, <1>6 DEF Ferry
  <2>3. /\ x.ep0 = s.ep0 /\ x.in = s.in /\ x.rxq = s.rxq /\ x.state = "DEFAULT"
        /\ ~x.en /\ x.rs = s.rs /\ x.xin = s.xin /\ x.stup = s.stup /\ ~x.masked
        /\ x.addr = s.addr /\ x.bulk \in {s.bulk, "closed"}
    BY <1>3, <2>2, EnumGives
  <2> HIDE DEF x
  <2>4. /\ host.phase = "idle" /\ ~s.stup /\ s.rxq = << >> /\ ~s.rs
    BY <1>4, <1>6
  <2>5. ~(s.ep0 = "DATA_IN" /\ s.xin # None)
    BY <1>4, <2>4 DEF Talk, Deaf, Between
  <2>6. Talk(x, host, "rx")
    BY <2>3, <2>4, <2>5, Nothing DEF Talk, Between
  <2>7. Belief(x, host, bus)
    <3>1. host.view = "default"
      BY <1>4, <1>6 DEF Belief
    <3>2. EffectiveOf(x) = StateOf(host.view)
      BY <2>3, <3>1 DEF EffectiveOf, StateOf
    <3> QED
      BY <1>4, <2>3, <2>4, <3>1, <3>2 DEF Belief
  <2>8. Ferry(x, "rx", bus)
    BY <2>2, <2>3, <2>4, Nothing DEF Ferry, InFlight
  <2> QED
    BY <1>1, <2>1, <2>6, <2>7, <2>8 DEF Told
<1> QED
  BY <1>5, <1>6

\* An entry of the receive FIFO is read.
LEMMA PopGives ==
  ASSUME NEW e \in DeviceType, e.rxq # << >>, NEW w, w = Head(e.rxq).what, NEW y, y = Pop(e)
  PROVE  /\ Place(y) = Place(e) /\ Line(y) = Line(e) /\ Halts(y) = Halts(e)
         /\ y.old = e.old /\ y.rs = e.rs /\ y.en = e.en /\ y.xin = e.xin
         /\ y.out = e.out /\ y.masked = e.masked /\ y.rxq = Tail(e.rxq)
         /\ w \in {"setup", "setupDone", "status", "bulk"}
         /\ y.setup = IF w = "setup" THEN Head(e.rxq).req ELSE e.setup
         /\ y.stup <=> e.stup \/ w = "setupDone"
         /\ y.bulk = IF w = "bulk" THEN "outDone" ELSE e.bulk
<1> DEFINE h == Head(e.rxq)
           q == Tail(e.rxq)
           x == [e EXCEPT !.rxq = q]
<1>1. h \in Entries /\ q \in Seq(Entries)
  <2>1. e.rxq \in Seq(Entries)
    BY DEF DeviceType
  <2> QED
    BY <2>1
<1>2. w \in {"setup", "setupDone", "status", "bulk"}
  BY <1>1 DEF Entries
<1> HIDE DEF q
<1>3. /\ x \in DeviceType /\ x.rxq = q
      /\ Place(x) = Place(e) /\ Line(x) = Line(e) /\ Halts(x) = Halts(e)
      /\ x.old = e.old /\ x.rs = e.rs /\ x.en = e.en /\ x.xin = e.xin
      /\ x.out = e.out /\ x.masked = e.masked /\ x.setup = e.setup
      /\ x.stup = e.stup /\ x.bulk = e.bulk
  BY <1>1 DEF DeviceType, Place, Line, Halts
<1>4. \/ w = "setup" /\ y = [x EXCEPT !.setup = h.req]
      \/ w = "setupDone" /\ y = [x EXCEPT !.stup = TRUE]
      \/ w = "status" /\ y = [x EXCEPT !.xout = TRUE]
      \/ w = "bulk" /\ y = [x EXCEPT !.bulk = "outDone"]
  BY <1>2 DEF Pop, q
<1> HIDE DEF h, x
<1>5. CASE w = "setup" /\ y = [x EXCEPT !.setup = h.req]
  BY <1>2, <1>3, <1>5 DEF DeviceType, Place, Line, Halts, h, q
<1>6. CASE w = "setupDone" /\ y = [x EXCEPT !.stup = TRUE]
  BY <1>2, <1>3, <1>6 DEF DeviceType, Place, Line, Halts, q
<1>7. CASE w = "status" /\ y = [x EXCEPT !.xout = TRUE]
  BY <1>2, <1>3, <1>7 DEF DeviceType, Place, Line, Halts, q
<1>8. CASE w = "bulk" /\ y = [x EXCEPT !.bulk = "outDone"]
  BY <1>2, <1>3, <1>8 DEF DeviceType, Place, Line, Halts, q
<1> QED
  BY <1>4, <1>5, <1>6, <1>7, <1>8

LEMMA HandleRxTold ==
  ASSUME Inv, Told, HandleRx
  PROVE  Told'
<1>1. /\ d \in DeviceType /\ host \in HostType
      /\ at = "rx" /\ at' = "out" /\ host' = host /\ bus' = bus /\ d' = ServeRx(d)
  BY DEF Inv, TypeOK, HandleRx, Section
<1>2. Talk(d, host, "rx") /\ Belief(d, host, bus) /\ Ferry(d, "rx", bus)
  BY <1>1 DEF Told
<1>3. d.masked \/ ~d.stup
  BY <1>2, NoPacket
<1>4. CASE d.rxq = << >>
  <2>1. d' = d
    BY <1>1, <1>4 DEF ServeRx
  <2>2. Talk(d, host, "out")
    BY <1>1, <1>2, <1>3, TalkKept
  <2>3. Ferry(d, "out", bus)
    BY <1>2 DEF Ferry
  <2> QED
    BY <1>1, <1>2, <2>1, <2>2, <2>3 DEF Told
<1>5. CASE d.rxq # << >>
  <2> DEFINE w == Head(d.rxq).what
             q == d.rxq
             y == Pop(d)
  <2>1. d' = y
    BY <1>1, <1>5 DEF ServeRx
  <2>2. /\ Place(y) = Place(d) /\ Line(y) = Line(d) /\ Halts(y) = Halts(d)
        /\ y.old = d.old /\ y.rs = d.rs /\ y.en = d.en /\ y.xin = d.xin
        /\ y.out = d.out /\ y.masked = d.masked /\ y.rxq = Tail(q)
        /\ w \in {"setup", "setupDone", "status", "bulk"}
        /\ y.setup = IF w = "setup" THEN Head(q).req ELSE d.setup
        /\ y.stup <=> d.stup \/ w = "setupDone"
        /\ y.bulk = IF w = "bulk" THEN "outDone" ELSE d.bulk
    BY <1>1, <1>5, PopGives
  <2>3. /\ Quiet(q) => Quiet(Tail(q)) /\ w \notin {"setup", "setupDone"}
        /\ Popped(q) => Quiet(Tail(q)) /\ w = "setupDone"
        /\ Bulky(q) <=> Bulky(Tail(q)) \/ w = "bulk"
        /\ OneBulk(q) => OneBulk(Tail(q)) /\ ~(Bulky(Tail(q)) /\ w = "bulk")
        /\ \A r : Waiting(q, r) =>
             /\ w # "setupDone"
             /\ w # "setup" => Waiting(Tail(q), r)
             /\ w = "setup" => Popped(Tail(q)) /\ Head(q).req = r
             /\ w = "setup" /\ StopsBulk(r) => ~Bulky(q)
    <3>1. q \in Seq(Entries)
      BY <1>1 DEF DeviceType
    <3> QED
      BY <1>5, <3>1, Dequeued
  <2> DEFINE p == Tail(q)
  <2> HIDE DEF w, y, p
  <2>4. /\ y.state = d.state /\ y.addr = d.addr /\ y.ep0 = d.ep0 /\ y.dlen = d.dlen
        /\ y.total = d.total /\ y.rem = d.rem /\ y.in = d.in
        /\ y.stallIn = d.stallIn /\ y.stallOut = d.stallOut
    BY <2>2 DEF Place, Line, Halts
  <2>5. Talk(y, host, "out")
    <3>1. d.masked => Deaf(y, host)
      BY <1>2, <2>2, <2>4 DEF Talk, Deaf, Agreed
    <3>2. Quiet(q) /\ ~d.stup => Quiet(p) /\ ~y.stup
      BY <2>2, <2>3 DEF p
    <3>3. ~d.masked /\ host.phase = "idle" => Between(y)
      BY <1>2, <2>2, <2>4, <3>2 DEF Talk, Between, p
    <3>4. ASSUME OnItsWay(d, host, "rx")
          PROVE  OnItsWay(y, host, "out")
      <4>1. Before(d, host, "rx")
        BY <3>4 DEF OnItsWay
      <4>2. d.bulk # "outDone" /\ (Bulky(q) <=> d.bulk = "outFifo")
        BY <1>2 DEF Ferry
      <4>3. CASE Waiting(q, host.req) /\ ~d.stup /\ w # "setup"
        <5>1. Waiting(p, host.req) /\ w # "setupDone"
          BY <2>3, <4>3 DEF p
        <5>2. y.rxq = p /\ ~y.stup
          BY <2>2, <4>3, <5>1 DEF p
        <5>3. Before(y, host, "out")
          BY <5>1, <5>2 DEF Before
        <5> QED
          BY <2>2, <2>4, <3>4, <5>3 DEF OnItsWay, Agreed
      <4>4. CASE Waiting(q, host.req) /\ ~d.stup /\ w = "setup"
        <5>1. /\ Popped(p) /\ Head(q).req = host.req
              /\ StopsBulk(host.req) => ~Bulky(q)
          BY <2>3, <4>4 DEF p
        <5>2. y.rxq = p /\ ~y.stup /\ y.setup = host.req /\ y.bulk = d.bulk
          BY <2>2, <4>4, <5>1 DEF p
        <5>3. Before(y, host, "out")
          BY <4>2, <5>1, <5>2 DEF Before
        <5> QED
          BY <2>2, <2>4, <3>4, <5>3 DEF OnItsWay, Agreed
      <4>5. CASE /\ Popped(q) /\ d.setup = host.req
                 /\ d.xin # None => "rx" \in {"out", "in"}
                 /\ StopsBulk(host.req) => d.bulk \notin {"outFifo", "outDone"}
                 /\ StopsBulk(host.req) /\ d.bulk = "inDone" => "rx" \in {"out", "in"}
        <5>1. Quiet(p) /\ w = "setupDone"
          BY <2>3, <4>5 DEF p
        <5>2. /\ y.rxq = p /\ y.stup /\ y.setup = host.req /\ y.xin = None
              /\ y.bulk = d.bulk
          BY <2>2, <4>5, <5>1 DEF p
        <5>3. StopsBulk(host.req) => d.bulk \notin InFlight
          BY <4>5 DEF InFlight
        <5>4. Before(y, host, "out")
          BY <5>1, <5>2, <5>3 DEF Before
        <5> QED
          BY <2>2, <2>4, <3>4, <5>4 DEF OnItsWay, Agreed
      <4> QED
        BY <4>1, <4>3, <4>4, <4>5 DEF Before
    <3>5. ASSUME Served(d, host)
          PROVE  Served(y, host)
      <4>1. Quiet(p) /\ ~y.stup /\ y.rxq = p
        BY <2>2, <3>2, <3>5 DEF Served, p
      <4>2. Agreed(d, host.view, host.addr) => Agreed(y, host.view, host.addr)
        BY <2>4 DEF Agreed
      <4>3. /\ Refused(d) => Refused(y)
            /\ Silent(d, host) => Silent(y, host)
        BY <2>2, <2>4 DEF Refused, Silent
      <4>4. Sending(d, host) => Sending(y, host)
        BY <2>2, <2>4 DEF Sending, Offer, More, Empty
      <4>5. Acked(d, host) => Acked(y, host)
        BY <2>2, <2>4 DEF Acked, Agreed
      <4>6. Ended(d, host) => Ended(y, host)
        BY <2>2, <2>4 DEF Ended, LastTaken, Agreed
      <4> QED
        BY <3>5, <4>1, <4>2, <4>3, <4>4, <4>5, <4>6 DEF Served
    <3> QED
      BY <1>2, <2>2, <3>1, <3>3, <3>4, <3>5 DEF Talk
  <2>6. Belief(y, host, bus)
    BY <1>2, <2>2, <2>4 DEF Belief, EffectiveOf
  <2>7. Ferry(y, "out", bus)
    <3>1. OneBulk(p) /\ (Bulky(p) <=> y.bulk = "outFifo")
      BY <1>2, <2>2, <2>3 DEF Ferry, p
    <3>3. y.bulk \in InFlight => d.bulk \in InFlight
      <4>1. w = "bulk" => d.bulk = "outFifo"
        BY <1>2, <2>3 DEF Ferry
      <4> QED
        BY <2>2, <4>1 DEF InFlight
    <3>4. y.bulk = "lost" => d.bulk = "lost"
      BY <2>2
    <3> QED
      BY <1>2, <2>2, <2>4, <3>1, <3>3, <3>4 DEF Ferry, p
  <2> QED
    BY <1>1, <2>1, <2>5, <2>6, <2>7 DEF Told
<1> QED
  BY <1>4, <1>5

-----------------------------------------------------------------------------
(* The host's part of a control transfer.                                  *)

LEMMA SetupTaken ==
  ASSUME Inv, NEW r \in Requests, HostSetup(r)
  PROVE  /\ d'.rxq = d.rxq \o <<[what |-> "setup", req |-> r], [what |-> "setupDone"]>>
         /\ ~d'.in.on /\ ~d'.out /\ ~d'.stallIn /\ ~d'.stallOut
         /\ d'.state = d.state /\ d'.addr = d.addr /\ d'.ep0 = d.ep0
         /\ d'.stup = d.stup /\ d'.rs = d.rs /\ d'.en = d.en /\ d'.xin = d.xin
         /\ d'.bulk = d.bulk /\ d'.masked = d.masked
         /\ host'.phase = FirstPhase(r) /\ host'.req = r /\ host'.got = host.got
         /\ host'.ok = host.ok /\ host'.view = host.view /\ host'.addr = host.addr
<1> DEFINE q == d.rxq \o <<[what |-> "setup", req |-> r], [what |-> "setupDone"]>>
           i == [d.in EXCEPT !.on = FALSE]
           p == FirstPhase(r)
<1>1. d \in DeviceType /\ host \in HostType
  BY DEF Inv, TypeOK
<1>2. i.on = FALSE
  BY <1>1, InField DEF InType
<1>3. d' = [d EXCEPT !.rxq = q, !.in = i, !.out = FALSE,
                     !.stallIn = FALSE, !.stallOut = FALSE]
  BY <1>1 DEF HostSetup, DeviceType
<1>4. host' = [host EXCEPT !.phase = p, !.req = r]
  BY DEF HostSetup, FirstPhase
<1> HIDE DEF q, i, p
<1>5. /\ host'.phase = p /\ host'.req = r /\ host'.got = host.got
      /\ host'.ok = host.ok /\ host'.view = host.view /\ host'.addr = host.addr
  BY <1>1, <1>4 DEF HostType
<1>6. /\ d'.rxq = q /\ d'.in = i /\ ~d'.out /\ ~d'.stallIn /\ ~d'.stallOut
      /\ d'.state = d.state /\ d'.addr = d.addr /\ d'.ep0 = d.ep0
  BY <1>1, <1>3 DEF DeviceType
<1>7. /\ d'.stup = d.stup /\ d'.rs = d.rs /\ d'.en = d.en /\ d'.xin = d.xin
      /\ d'.bulk = d.bulk /\ d'.masked = d.masked
  BY <1>1, <1>3 DEF DeviceType
<1> QED
  BY <1>2, <1>5, <1>6, <1>7 DEF q, p

LEMMA HostSetupTold ==
  ASSUME Prompt, Inv, Told, NEW r \in Requests, HostSetup(r)
  PROVE  Told'
<1>1. /\ d \in DeviceType /\ r \in SetupsOf /\ at' = at /\ bus' = bus
      /\ bus = "on" /\ host.phase = "idle" /\ host.view # "attached"
      /\ host.addr = d.addr
  BY DEF Inv, TypeOK, HostSetup, SetupsOf
<1>2. Talk(d, host, at) /\ Belief(d, host, bus) /\ Ferry(d, at, bus)
  BY DEF Told
<1>3. Up
  BY UpWhenRecovered DEF HostSetup
<1> DEFINE q == d.rxq \o <<[what |-> "setup", req |-> r], [what |-> "setupDone"]>>
<1>4. /\ d'.rxq = q /\ ~d'.in.on /\ ~d'.out /\ ~d'.stallIn /\ ~d'.stallOut
      /\ d'.state = d.state /\ d'.addr = d.addr /\ d'.ep0 = d.ep0
      /\ d'.stup = d.stup /\ d'.rs = d.rs /\ d'.en = d.en /\ d'.xin = d.xin
      /\ d'.bulk = d.bulk /\ d'.masked = d.masked
      /\ host'.phase = FirstPhase(r) /\ host'.req = r /\ host'.got = host.got
      /\ host'.ok = host.ok /\ host'.view = host.view /\ host'.addr = host.addr
  BY SetupTaken
<1>5. /\ Quiet(d.rxq) => Waiting(q, r)
      /\ Bulky(q) <=> Bulky(d.rxq)
      /\ OneBulk(d.rxq) => OneBulk(q)
  <2>1. d.rxq \in Seq(Entries)
    BY <1>1 DEF DeviceType
  <2> QED
    BY <1>1, <2>1, Requested
<1> HIDE DEF q
<1>6. Agreed(d, host.view, host.addr) /\ host.got = 0 /\ host.ok
  BY <1>1, <1>2, <1>3 DEF Up, Belief, EffectiveOf, Agreed
<1>7. Talk(d', host', at)
  <2>1. d.masked => Deaf(d', host')
    BY <1>2, <1>4, <1>6 DEF Talk, Deaf, Agreed, FirstPhase
  <2>2. ~d.masked => OnItsWay(d', host', at)
    <3> SUFFICES ASSUME ~d.masked PROVE OnItsWay(d', host', at)
      OBVIOUS
    <3>1. Between(d)
      BY <1>1, <1>2 DEF Talk
    <3>2. ~d.stup /\ Quiet(d.rxq) /\ (d.xin # None => d.ep0 # "DATA_IN")
      BY <1>3, <3>1 DEF Between, Up
    <3>3. Before(d', host', at)
      BY <1>4, <1>5, <3>2 DEF Before
    <3> QED
      BY <1>4, <1>6, <3>2, <3>3 DEF OnItsWay, Agreed
  <2>3. host'.phase # "idle"
    BY <1>4 DEF FirstPhase
  <2> QED
    BY <1>4, <2>1, <2>2, <2>3 DEF Talk
<1>8. Belief(d', host', bus)
  <2>1. host'.phase # "idle"
    BY <1>4 DEF FirstPhase
  <2> QED
    BY <1>1, <1>2, <1>4, <2>1 DEF Belief
<1>9. Ferry(d', at, bus)
  BY <1>2, <1>4, <1>5 DEF Ferry
<1> QED
  BY <1>1, <1>7, <1>8, <1>9 DEF Told

\* A packet of the control endpoint is taken.
LEMMA TakeInGives ==
  ASSUME d \in DeviceType, NEW y, y = TakeIn
  PROVE  /\ ~y.in.on /\ y.xin = d.in.src /\ y.in.src = d.in.src
         /\ y.in.off = d.in.off /\ y.in.len = d.in.len
         /\ Place(y) = Place(d) /\ Cargo(y) = Cargo(d) /\ Halts(y) = Halts(d)
         /\ y.ep0 = d.ep0 /\ y.dlen = d.dlen /\ y.total = d.total /\ y.rem = d.rem
         /\ y.stup = d.stup /\ y.rs = d.rs /\ y.en = d.en /\ y.out = d.out
<1> DEFINE i == [d.in EXCEPT !.on = FALSE]
           s == d.in.src
           x == [d EXCEPT !.in = i, !.xin = s]
<1>1. i.on = FALSE /\ i.src = d.in.src /\ i.off = d.in.off /\ i.len = d.in.len
  BY InField DEF InType
<1>2. y = x
  BY DEF TakeIn, DeviceType
<1> HIDE DEF i, s
<1>3. /\ x.in = i /\ x.xin = s
      /\ Place(x) = Place(d) /\ Cargo(x) = Cargo(d) /\ Halts(x) = Halts(d)
      /\ x.ep0 = d.ep0 /\ x.dlen = d.dlen /\ x.total = d.total /\ x.rem = d.rem
      /\ x.stup = d.stup /\ x.rs = d.rs /\ x.en = d.en /\ x.out = d.out
  BY DEF DeviceType, Place, Cargo, Halts
<1> HIDE DEF x
<1> QED
  BY <1>1, <1>2, <1>3 DEF s

LEMMA Min2Least ==
  ASSUME NEW a, NEW b \in Nat, Min2(a, b) \in Nat
  PROVE  Min2(a, b) <= b
BY DEF Min2

\* A packet of the data stage: more are to come, or it was the last.
LEMMA OfferTaken ==
  ASSUME NEW e \in DeviceType, NEW h \in HostType, Sending(e, h), e.in.on,
         NEW y, ~y.in.on, y.xin = e.in.src, y.in.src = e.in.src,
         y.in.off = e.in.off, y.in.len = e.in.len, Halts(y) = Halts(e),
         y.ep0 = e.ep0, y.dlen = e.dlen, y.total = e.total, y.rem = e.rem, y.out = e.out,
         NEW g, g.req = h.req, g.got = h.got + e.in.len,
         g.ok <=> h.ok /\ (\/ e.in.src = Source(h.req) /\ e.in.off = h.got
                           \/ e.in.src = Zlp),
         g.phase = IF e.in.len < MaxPacket \/ h.got + e.in.len >= h.req.len
                   THEN "status_out" ELSE "data"
  PROVE  \/ Sending(y, g)
         \/ /\ g.phase = "status_out" /\ LastTaken(y) /\ ~y.stallOut
            /\ g.ok /\ g.got = Wanted(g.req)
<1>1. /\ MaxPacket \in Nat /\ MaxPacket # 0 /\ e.rem \in Nat /\ e.total \in Nat
      /\ e.dlen \in Nat /\ e.in.off \in Nat /\ h.got \in Nat /\ h.req \in SetupsOf
  BY ConstantsAssumption, InField DEF DeviceType, InType, HostType
<1>2. h.req.len \in Nat
  BY <1>1, RequestFields
<1>3. /\ e.ep0 = "DATA_IN" /\ ~e.out /\ ~y.stallIn /\ ~y.stallOut
      /\ h.phase = "data" /\ h.ok /\ e.total = Wanted(h.req)
  BY DEF Sending, Halts
<1>4. Source(h.req) # None /\ Zlp # None
  BY <1>1, SourceNamed DEF Zlp, None
<1>5. CASE Offer(e, h)
  <2>1. /\ e.in.src = Source(h.req)
        /\ e.in.len = Min2(e.rem, MaxPacket) /\ e.in.off + e.rem = e.total
        /\ e.in.off % MaxPacket = 0 /\ e.rem >= 1
        /\ h.got = e.in.off /\ e.dlen = h.req.len
    BY <1>5 DEF Offer
  <2>2. g.ok
    BY <1>3, <2>1
  <2>3. CASE e.rem < MaxPacket
    <3>1. e.in.len = e.rem
      BY <1>1, <2>1, <2>3 DEF Min2
    <3>2. g.phase = "status_out" /\ g.got = e.total
      BY <1>1, <1>2, <2>1, <2>3, <3>1
    <3>3. (e.in.off + e.rem) % MaxPacket = e.rem
      BY <1>1, <2>1, <2>3, WholePackets
    <3>4. e.total % MaxPacket # 0
      BY <1>1, <2>1, <3>3
    <3>5. LastTaken(y)
      BY <1>1, <1>3, <1>4, <2>1, <2>3, <3>4 DEF LastTaken
    <3> QED
      BY <1>3, <2>2, <3>2, <3>5
  <2>4. CASE e.rem = MaxPacket /\ e.total >= e.dlen
    <3>1. e.in.len = MaxPacket
      BY <1>1, <2>1, <2>4 DEF Min2
    <3>2. g.phase = "status_out" /\ g.got = e.total
      BY <1>1, <1>2, <2>1, <2>4, <3>1
    <3>3. LastTaken(y)
      BY <1>1, <1>3, <1>4, <2>1, <2>4 DEF LastTaken
    <3> QED
      BY <1>3, <2>2, <3>2, <3>3
  <2>5. CASE e.rem > MaxPacket \/ (e.rem = MaxPacket /\ e.total < e.dlen)
    <3>1. e.in.len = MaxPacket
      BY <1>1, <2>1, <2>5 DEF Min2
    <3>2. e.total <= h.req.len
      <4>1. Wanted(h.req) <= h.req.len
        BY <1>1, <1>2, <1>3, Min2Least DEF Wanted
      <4> QED
        BY <1>3, <4>1
    <3>3. g.phase = "data" /\ g.got = e.in.off + MaxPacket
      <4>1. ~(e.in.len < MaxPacket)
        BY <1>1, <3>1
      <4>2. ~(h.got + e.in.len >= h.req.len)
        BY <1>1, <1>2, <2>1, <2>5, <3>1, <3>2
      <4> QED
        BY <2>1, <3>1, <4>1, <4>2
    <3>4. More(y, g)
      BY <1>1, <2>1, <2>5, <3>1, <3>3 DEF More
    <3> QED
      BY <1>3, <2>2, <3>3, <3>4 DEF Sending
  <2> QED
    BY <1>1, <2>3, <2>4, <2>5
<1>6. CASE Empty(e, h)
  <2>1. /\ e.in.src = Zlp /\ e.in.len = 0
        /\ e.dlen = 0 /\ e.rem <= MaxPacket /\ h.got = e.total
    BY <1>6 DEF Empty
  <2>2. g.phase = "status_out" /\ g.got = e.total /\ g.ok
    BY <1>1, <1>3, <2>1
  <2>3. LastTaken(y)
    BY <1>1, <1>3, <1>4, <2>1 DEF LastTaken
  <2> QED
    BY <1>3, <2>2, <2>3
<1> QED
  BY <1>5, <1>6 DEF Sending, More

LEMMA QuietMeans ==
  ASSUME NEW q \in Seq(Entries), Quiet(q)
  PROVE  ~Popped(q) /\ \A r : ~Waiting(q, r)
<1>1. ~Popped(q)
  <2>1. q # << >> => Head(q).what \notin {"setup", "setupDone"}
    BY Dequeued
  <2> QED
    BY <2>1 DEF Popped
<1>2. \A r : ~Waiting(q, r)
  BY DEF Waiting, Quiet
<1> QED
  BY <1>1, <1>2

LEMMA HostDataInTold ==
  ASSUME Inv, Told, HostDataIn
  PROVE  Told'
<1>1. /\ d \in DeviceType /\ host \in HostType /\ at' = at /\ bus' = bus
      /\ bus = "on" /\ host.phase = "data" /\ d.in.on /\ ~d.stallIn /\ d' = TakeIn
  BY DEF Inv, TypeOK, HostDataIn, InReady
<1>2. Talk(d, host, at) /\ Belief(d, host, bus) /\ Ferry(d, at, bus)
  BY DEF Told
<1>3. /\ ~d'.in.on /\ d'.xin = d.in.src /\ d'.in.src = d.in.src
      /\ d'.in.off = d.in.off /\ d'.in.len = d.in.len
      /\ Place(d') = Place(d) /\ Cargo(d') = Cargo(d) /\ Halts(d') = Halts(d)
      /\ d'.ep0 = d.ep0 /\ d'.dlen = d.dlen /\ d'.total = d.total /\ d'.rem = d.rem
      /\ d'.stup = d.stup /\ d'.rs = d.rs /\ d'.en = d.en /\ d'.out = d.out
  BY <1>1, TakeInGives
<1>4. /\ host'.got = host.got + d.in.len
      /\ host'.ok <=> host.ok /\ (\/ d.in.src = Source(host.req) /\ d.in.off = host.got
                                  \/ d.in.src = Zlp)
      /\ host'.phase = IF d.in.len < MaxPacket \/ host.got + d.in.len >= host.req.len
                       THEN "status_out" ELSE "data"
      /\ host'.req = host.req /\ host'.view = host.view /\ host'.addr = host.addr
  <2> DEFINE g == host.got + d.in.len
             o == host.ok /\ (\/ d.in.src = Source(host.req) /\ d.in.off = host.got
                              \/ d.in.src = Zlp)
             p == IF d.in.len < MaxPacket \/ host.got + d.in.len >= host.req.len
                  THEN "status_out" ELSE "data"
  <2>1. host' = [host EXCEPT !.got = g, !.ok = o, !.phase = p]
    BY <1>1 DEF HostDataIn, HostType
  <2> HIDE DEF g, o, p
  <2>2. /\ host'.got = g /\ host'.ok = o /\ host'.phase = p
        /\ host'.req = host.req /\ host'.view = host.view /\ host'.addr = host.addr
    BY <1>1, <2>1 DEF HostType
  <2> QED
    BY <2>2 DEF g, o, p
<1>5. /\ ~d.masked /\ ~d.stup /\ Quiet(d.rxq)
      /\ Agreed(d, host.view, host.addr) /\ Sending(d, host)
  BY <1>1, <1>2 DEF Talk, Deaf, OnItsWay, Served, Refused, Silent, Acked, Ended
<1>6. /\ d'.state = d.state /\ d'.addr = d.addr /\ d'.bulk = d.bulk
      /\ d'.rxq = d.rxq /\ d'.masked = d.masked
  BY <1>3 DEF Place, Cargo
<1>7. \/ Sending(d', host')
      \/ /\ host'.phase = "status_out" /\ LastTaken(d') /\ ~d'.stallOut
         /\ host'.ok /\ host'.got = Wanted(host'.req)
  BY <1>1, <1>3, <1>4, <1>5, OfferTaken
<1>8. Agreed(d', host'.view, host'.addr)
  BY <1>4, <1>5, <1>6 DEF Agreed
<1>9. Served(d', host')
  <2>1. CASE Sending(d', host')
    BY <1>3, <1>5, <1>6, <1>8, <2>1 DEF Served, Sending
  <2>2. CASE /\ host'.phase = "status_out" /\ LastTaken(d') /\ ~d'.stallOut
             /\ host'.ok /\ host'.got = Wanted(host'.req)
    BY <1>3, <1>5, <1>6, <1>8, <2>2 DEF Served, Ended
  <2> QED
    BY <1>7, <2>1, <2>2
<1>10. host'.phase # "idle"
  BY <1>4
<1>11. Talk(d', host', at)
  BY <1>5, <1>6, <1>9, <1>10 DEF Talk
<1>12. Belief(d', host', bus)
  BY <1>1, <1>2, <1>3, <1>4, <1>10 DEF Belief
<1>13. Ferry(d', at, bus)
  BY <1>2, <1>3, <1>6 DEF Ferry
<1> QED
  BY <1>1, <1>11, <1>12, <1>13 DEF Told

LEMMA IdleGives ==
  ASSUME NEW j, j = Idle, host \in HostType
  PROVE  /\ j \in HostType /\ j.phase = "idle" /\ j.got = 0 /\ j.ok = TRUE
         /\ j.view = host.view /\ j.addr = host.addr
<1>1. NoRequest \in SetupsOf
  BY DEF SetupsOf
<1> QED
  BY <1>1 DEF Idle, HostType

\* A transfer has ended and the host is right about the device.
LEMMA BackToIdle ==
  ASSUME NEW e, Up, bus = "on", NEW a, NEW g, g.phase = "idle", g.got = 0, g.ok,
         Agreed(e, g.view, g.addr), e.state = d.state, e.en = d.en, e.rs = d.rs,
         e.masked => e.ep0 # "DATA_IN" /\ (e.in.on => e.in.src = Status),
         ~e.masked => ~e.stup /\ Quiet(e.rxq) /\ (e.xin # None => e.ep0 # "DATA_IN")
  PROVE  Talk(e, g, a) /\ Belief(e, g, bus)
<1>1. ~e.en /\ ~e.rs /\ e.state # "SUSPENDED"
  BY DEF Up
<1>2. e.masked => Deaf(e, g)
  BY DEF Deaf
<1>3. ~e.masked => Between(e)
  BY DEF Between
<1>4. Belief(e, g, bus)
  BY <1>1 DEF Belief, EffectiveOf, Agreed
<1> QED
  BY <1>2, <1>3, <1>4 DEF Talk

LEMMA HostStatusInTold ==
  ASSUME Inv, Told, HostStatusIn
  PROVE  Told'
<1>1. /\ d \in DeviceType /\ host \in HostType /\ at' = at /\ bus' = bus
      /\ bus = "on" /\ host.phase = "status_in" /\ d.in.on /\ ~d.stallIn /\ d' = TakeIn
  BY DEF Inv, TypeOK, HostStatusIn, InReady
<1>2. Talk(d, host, at) /\ Belief(d, host, bus) /\ Ferry(d, at, bus)
  BY DEF Told
<1>3. Up
  BY <1>1, UpWhenOpen
<1>4. /\ ~d'.in.on /\ d'.xin = d.in.src
      /\ Place(d') = Place(d) /\ Cargo(d') = Cargo(d)
      /\ d'.ep0 = d.ep0 /\ d'.stup = d.stup /\ d'.rs = d.rs /\ d'.en = d.en
  BY <1>1, TakeInGives
<1>5. /\ d'.state = d.state /\ d'.addr = d.addr /\ d'.bulk = d.bulk
      /\ d'.rxq = d.rxq /\ d'.masked = d.masked
  BY <1>4 DEF Place, Cargo
<1>6. /\ host'.phase = "idle" /\ host'.got = 0 /\ host'.ok
      /\ host'.view = ViewAfter(host.view, host.req)
      /\ host'.addr = AddrAfter(host.addr, host.req)
  <2> DEFINE j == Idle
             v == View(host.req)
             n == IF host.req.req = "SET_ADDRESS" THEN host.req.val ELSE host.addr
  <2>1. /\ j \in HostType /\ j.phase = "idle" /\ j.got = 0 /\ j.ok = TRUE
        /\ j.view = host.view /\ j.addr = host.addr
    BY <1>1, IdleGives
  <2>2. host' = [j EXCEPT !.view = View(host.req),
                  !.addr = IF host.req.req = "SET_ADDRESS" THEN host.req.val ELSE @]
    BY DEF HostStatusIn
  <2> HIDE DEF j
  <2>3. host' = [j EXCEPT !.view = v, !.addr = n]
    BY <2>1, <2>2 DEF HostType
  <2>4. v = ViewAfter(host.view, host.req) /\ n = AddrAfter(host.addr, host.req)
    BY DEF View, ViewAfter, AddrAfter
  <2> HIDE DEF v, n
  <2>5. host'.phase = j.phase /\ host'.got = j.got /\ host'.ok = j.ok
        /\ host'.view = v /\ host'.addr = n
    BY <2>1, <2>3 DEF HostType
  <2> QED
    BY <2>1, <2>4, <2>5
<1>7. Agreed(d, host'.view, host'.addr) /\ d.ep0 # "DATA_IN"
  BY <1>1, <1>2, <1>6
     DEF Talk, Deaf, OnItsWay, Served, Refused, Silent, Sending, Acked, Ended
<1>8. ~d.masked => ~d.stup /\ Quiet(d.rxq)
  BY <1>1, <1>2 DEF Talk, OnItsWay, Served
<1>9. Agreed(d', host'.view, host'.addr)
  BY <1>5, <1>7 DEF Agreed
<1>10. Talk(d', host', at) /\ Belief(d', host', bus)
  BY <1>1, <1>3, <1>4, <1>5, <1>6, <1>7, <1>8, <1>9, BackToIdle
<1>11. Ferry(d', at, bus)
  BY <1>2, <1>4, <1>5 DEF Ferry
<1> QED
  BY <1>1, <1>10, <1>11 DEF Told

LEMMA ReceivedGives ==
  ASSUME NEW e \in DeviceType, NEW q, NEW y, y = [e EXCEPT !.rxq = q]
  PROVE  /\ y.rxq = q /\ Place(y) = Place(e) /\ Desk(y) = Desk(e)
         /\ Line(y) = Line(e) /\ Halts(y) = Halts(e)
         /\ y.masked = e.masked /\ y.bulk = e.bulk
BY DEF DeviceType, Place, Desk, Line, Halts

LEMMA HostStatusOutTold ==
  ASSUME Inv, Told, HostStatusOut
  PROVE  Told'
<1>1. /\ d \in DeviceType /\ host \in HostType /\ at' = at /\ bus' = bus
      /\ bus = "on" /\ host.phase = "status_out" /\ d.out /\ ~d.stallOut
      /\ d' = [Received("status") EXCEPT !.out = FALSE] /\ host' = Idle
  BY DEF Inv, TypeOK, HostStatusOut
<1>2. Talk(d, host, at) /\ Belief(d, host, bus) /\ Ferry(d, at, bus)
  BY DEF Told
<1>3. Up
  BY <1>1, UpWhenOpen
<1> DEFINE q == Append(d.rxq, [what |-> "status"])
           y == [d EXCEPT !.rxq = q]
<1>4. y = Received("status")
  BY DEF Received
<1>5. /\ Quiet(d.rxq) => Quiet(q)
      /\ Bulky(q) <=> Bulky(d.rxq)
      /\ OneBulk(d.rxq) => OneBulk(q)
  <2>1. d.rxq \in Seq(Entries)
    BY <1>1 DEF DeviceType
  <2> QED
    BY <2>1, Enqueued
<1> HIDE DEF q
<1>6. /\ y.rxq = q /\ Place(y) = Place(d) /\ Desk(y) = Desk(d)
      /\ Line(y) = Line(d) /\ Halts(y) = Halts(d)
      /\ y.masked = d.masked /\ y.bulk = d.bulk
  BY <1>1, ReceivedGives
<1>7. y \in DeviceType
  BY <1>1, <1>4, ReceivedTyped
<1> HIDE DEF y
<1>8. /\ d'.rxq = q /\ d'.masked = d.masked /\ d'.bulk = d.bulk
      /\ d'.state = d.state /\ d'.addr = d.addr /\ d'.ep0 = d.ep0
      /\ d'.stup = d.stup /\ d'.rs = d.rs /\ d'.en = d.en /\ d'.xin = d.xin
  <2>1. /\ d'.rxq = y.rxq /\ d'.masked = y.masked /\ d'.bulk = y.bulk
        /\ d'.state = y.state /\ d'.addr = y.addr /\ d'.ep0 = y.ep0
        /\ d'.stup = y.stup /\ d'.rs = y.rs /\ d'.en = y.en /\ d'.xin = y.xin
    BY <1>1, <1>4, <1>7 DEF DeviceType
  <2> QED
    BY <1>6, <2>1 DEF Place, Desk, Line
<1>9. /\ ~d.masked /\ ~d.stup /\ Quiet(d.rxq) /\ Ended(d, host)
  BY <1>1, <1>2
     DEF Talk, Deaf, OnItsWay, FirstPhase, Served, Acked
<1>10. d.ep0 = "STATUS_OUT" /\ d.xin = None /\ Agreed(d, host.view, host.addr)
  BY <1>1, <1>9 DEF Ended, LastTaken
<1>11. /\ host'.phase = "idle" /\ host'.got = 0 /\ host'.ok
       /\ host'.view = host.view /\ host'.addr = host.addr
  BY <1>1, IdleGives
<1>12. Agreed(d', host'.view, host'.addr)
  BY <1>8, <1>10, <1>11 DEF Agreed
<1>13. Talk(d', host', at) /\ Belief(d', host', bus)
  BY <1>1, <1>3, <1>5, <1>8, <1>9, <1>10, <1>11, <1>12, BackToIdle
<1>14. Ferry(d', at, bus)
  BY <1>2, <1>5, <1>8 DEF Ferry
<1> QED
  BY <1>1, <1>13, <1>14 DEF Told

\* A host waits in vain only for what the core does not answer.
LEMMA VainIsSilent ==
  ASSUME Inv, Talk(d, host, at), InVain, ~d.masked
  PROVE  Served(d, host) /\ Silent(d, host) /\ Agreed(d, host.view, host.addr)
<1>1. d \in DeviceType /\ host \in HostType /\ host.phase # "idle"
  BY DEF Inv, TypeOK, InVain
<1>2. /\ d.xin = None /\ ~d.stup /\ Quiet(d.rxq)
      /\ host.phase \in {"data", "status_in"} => ~d.in.on /\ ~d.stallIn
      /\ host.phase = "status_out" => ~d.out /\ ~d.stallOut
  BY DEF InVain, Ep0Settled, Quiet
<1>3. ~Before(d, host, at)
  <2>1. d.rxq \in Seq(Entries)
    BY <1>1 DEF DeviceType
  <2>2. ~Popped(d.rxq) /\ ~Waiting(d.rxq, host.req)
    BY <1>2, <2>1, QuietMeans
  <2> QED
    BY <1>2, <2>2 DEF Before
<1>4. Served(d, host)
  BY <1>1, <1>3 DEF Talk, OnItsWay
<1>5. Source(host.req) # None
  BY <1>1, SourceNamed DEF HostType
<1>6. ~Sending(d, host) /\ ~Acked(d, host)
  BY <1>2, <1>5 DEF Sending, Offer, More, Empty, Acked
<1>7. ~Ended(d, host)
  BY <1>2 DEF Ended, LastTaken
<1>8. Silent(d, host) /\ Agreed(d, host.view, host.addr)
  BY <1>2, <1>4, <1>6, <1>7 DEF Served, Refused
<1> QED
  BY <1>4, <1>8

LEMMA HostGivesUpTold ==
  ASSUME Inv, Told, HostStalled \/ HostTimesOut
  PROVE  Told'
<1>1. /\ d \in DeviceType /\ host \in HostType /\ at' = at /\ bus' = bus
      /\ bus = "on" /\ host.phase # "idle" /\ d' = d /\ host' = Idle
  BY DEF Inv, TypeOK, HostStalled, HostTimesOut, InVain
<1>2. Talk(d, host, at) /\ Belief(d, host, bus) /\ Ferry(d, at, bus)
  BY DEF Told
<1>3. Up
  BY <1>1, UpWhenOpen
<1>4. /\ host'.phase = "idle" /\ host'.got = 0 /\ host'.ok
      /\ host'.view = host.view /\ host'.addr = host.addr
  BY <1>1, IdleGives
<1>5. CASE d.masked
  <2>1. /\ d.ep0 # "DATA_IN" /\ (d.in.on => d.in.src = Status)
        /\ Agreed(d, host.view, host.addr)
    BY <1>1, <1>2, <1>5 DEF Talk, Deaf
  <2>2. Agreed(d, host'.view, host'.addr)
    BY <1>4, <2>1
  <2>3. Talk(d, host', at) /\ Belief(d, host', bus)
    BY <1>1, <1>3, <1>4, <1>5, <2>1, <2>2, BackToIdle
  <2> QED
    BY <1>1, <1>2, <2>3 DEF Told
<1>6. CASE ~d.masked
  <2>1. /\ ~d.stup /\ Quiet(d.rxq) /\ Agreed(d, host.view, host.addr)
        /\ Refused(d) \/ Silent(d, host)
    <3>1. CASE HostStalled
      <4>1. ~OnItsWay(d, host, at)
        BY <1>1, <3>1 DEF HostStalled, OnItsWay
      <4>2. Served(d, host)
        BY <1>1, <1>2, <1>6, <4>1 DEF Talk
      <4>3. ~Acked(d, host) /\ ~Ended(d, host) /\ ~Sending(d, host)
        BY <3>1 DEF HostStalled, Acked, Ended, Sending
      <4> QED
        BY <4>2, <4>3 DEF Served
    <3>2. CASE HostTimesOut
      <4>1. Served(d, host) /\ Silent(d, host) /\ Agreed(d, host.view, host.addr)
        BY <1>2, <1>6, <3>2, VainIsSilent DEF HostTimesOut
      <4> QED
        BY <4>1 DEF Served
    <3> QED
      BY <3>1, <3>2
  <2>2. d.ep0 # "DATA_IN"
    BY <2>1 DEF Refused, Silent
  <2>3. Agreed(d, host'.view, host'.addr)
    BY <1>4, <2>1
  <2>4. Talk(d, host', at) /\ Belief(d, host', bus)
    BY <1>1, <1>3, <1>4, <1>6, <2>1, <2>2, <2>3, BackToIdle
  <2> QED
    BY <1>1, <1>2, <2>4 DEF Told
<1> QED
  BY <1>5, <1>6

\* The bulk traffic of the host.
LEMMA BulkConfigured ==
  ASSUME Inv, Prompt, Told, BulkRuns
  PROVE  d.state = "CONFIGURED" /\ Up /\ bus = "on"
<1>1. Up /\ bus = "on" /\ host.view = "configured"
  BY UpWhenRecovered DEF BulkRuns
<1>2. Talk(d, host, at) /\ Belief(d, host, bus)
  BY DEF Told
<1>3. CASE host.phase = "idle"
  <2>1. EffectiveOf(d) = StateOf(host.view)
    BY <1>1, <1>2, <1>3 DEF Up, Belief
  <2> QED
    BY <1>1, <2>1 DEF Up, EffectiveOf, StateOf
<1>4. CASE host.phase # "idle"
  <2>1. ~StopsBulk(host.req)
    BY <1>4 DEF BulkRuns
  <2>2. Acked(d, host) => d.state = "CONFIGURED"
    BY <1>1, <2>1 DEF Acked, Agreed, ViewAfter, StateOf, StopsBulk
  <2>3. Agreed(d, host.view, host.addr) => d.state = "CONFIGURED"
    BY <1>1 DEF Agreed, StateOf
  <2> QED
    BY <1>1, <1>2, <1>4, <2>2, <2>3 DEF Talk, Deaf, OnItsWay, Served, Ended
<1> QED
  BY <1>3, <1>4

LEMMA TalkBulk ==
  ASSUME NEW e, NEW h, NEW a, Talk(e, h, a), h.phase # "idle" => ~StopsBulk(h.req),
         NEW y, Place(y) = Place(e), Desk(y) = Desk(e), Line(y) = Line(e),
         Halts(y) = Halts(e), y.masked = e.masked,
         Quiet(e.rxq) => Quiet(y.rxq), Popped(e.rxq) => Popped(y.rxq),
         ~StopsBulk(h.req) /\ Waiting(e.rxq, h.req) => Waiting(y.rxq, h.req)
  PROVE  Talk(y, h, a)
<1>1. /\ y.state = e.state /\ y.addr = e.addr /\ y.setup = e.setup
      /\ y.stup = e.stup /\ y.rs = e.rs /\ y.xin = e.xin /\ y.out = e.out
      /\ y.ep0 = e.ep0 /\ y.dlen = e.dlen /\ y.total = e.total /\ y.rem = e.rem
      /\ y.in = e.in /\ y.stallIn = e.stallIn /\ y.stallOut = e.stallOut
  BY DEF Place, Desk, Line, Halts
<1>2. e.masked => Deaf(y, h)
  BY <1>1 DEF Talk, Deaf, Agreed
<1>3. ~e.masked /\ h.phase = "idle" => Between(y)
  BY <1>1 DEF Talk, Between
<1>4. ASSUME ~e.masked, h.phase # "idle", OnItsWay(e, h, a)
      PROVE  OnItsWay(y, h, a)
  <2>1. Before(y, h, a)
    BY <1>1, <1>4 DEF OnItsWay, Before
  <2> QED
    BY <1>1, <1>4, <2>1 DEF OnItsWay, Agreed
<1>5. ASSUME Served(e, h)
      PROVE  Served(y, h)
  <2>1. Agreed(e, h.view, h.addr) => Agreed(y, h.view, h.addr)
    BY <1>1 DEF Agreed
  <2>2. /\ Refused(e) => Refused(y)
        /\ Silent(e, h) => Silent(y, h)
    BY <1>1 DEF Refused, Silent
  <2>3. Sending(e, h) => Sending(y, h)
    BY <1>1 DEF Sending, Offer, More, Empty
  <2>4. Acked(e, h) => Acked(y, h)
    BY <1>1 DEF Acked, Agreed
  <2>5. Ended(e, h) => Ended(y, h)
    BY <1>1 DEF Ended, LastTaken, Agreed
  <2> QED
    BY <1>1, <1>5, <2>1, <2>2, <2>3, <2>4, <2>5 DEF Served
<1> QED
  BY <1>2, <1>3, <1>4, <1>5 DEF Talk

LEMMA HostBulkOutTold ==
  ASSUME Inv, Prompt, Told, HostBulkOut
  PROVE  Told'
<1>1. /\ d \in DeviceType /\ at' = at /\ bus' = bus /\ host' = host
      /\ BulkRuns /\ d.bulk = "outArmed"
      /\ d' = [Received("bulk") EXCEPT !.bulk = "outFifo"]
  BY DEF Inv, TypeOK, HostBulkOut
<1>2. Talk(d, host, at) /\ Belief(d, host, bus) /\ Ferry(d, at, bus)
  BY DEF Told
<1>3. d.state = "CONFIGURED" /\ Up /\ bus = "on"
  BY <1>1, BulkConfigured
<1> DEFINE q == Append(d.rxq, [what |-> "bulk"])
           y == [d EXCEPT !.rxq = q]
<1>4. y = Received("bulk")
  BY DEF Received
<1>5. OneBulk(d.rxq) /\ ~Bulky(d.rxq)
  BY <1>1, <1>2 DEF Ferry
<1>6. /\ Quiet(d.rxq) => Quiet(q)
      /\ Popped(d.rxq) => Popped(q)
      /\ Bulky(q) /\ OneBulk(q)
      /\ ~StopsBulk(host.req) /\ Waiting(d.rxq, host.req) => Waiting(q, host.req)
  <2>1. d.rxq \in Seq(Entries)
    BY <1>1 DEF DeviceType
  <2> QED
    BY <1>5, <2>1, Enqueued
<1> HIDE DEF q
<1>7. /\ y.rxq = q /\ Place(y) = Place(d) /\ Desk(y) = Desk(d)
      /\ Line(y) = Line(d) /\ Halts(y) = Halts(d) /\ y.masked = d.masked
  BY <1>1, ReceivedGives
<1>8. y \in DeviceType
  BY <1>1, <1>4, ReceivedTyped
<1> HIDE DEF y
<1>9. /\ d'.rxq = y.rxq /\ d'.bulk = "outFifo" /\ Place(d') = Place(y)
      /\ Desk(d') = Desk(y)
      /\ Line(d') = Line(y) /\ Halts(d') = Halts(y) /\ d'.masked = y.masked
  BY <1>1, <1>4, <1>8 DEF DeviceType, Place, Desk, Line, Halts
<1>10. Talk(d', host, at)
  <2>1. host.phase # "idle" => ~StopsBulk(host.req)
    BY <1>1 DEF BulkRuns
  <2> QED
    BY <1>2, <1>6, <1>7, <1>9, <2>1, TalkBulk
<1>11. Place(d') = Place(d) /\ Shelf(d') = Shelf(d)
  BY <1>7, <1>9 DEF Desk, Shelf
<1>12. Belief(d', host, bus)
  BY <1>2, <1>11, BeliefSame
<1>13. Ferry(d', at, bus)
  BY <1>3, <1>6, <1>7, <1>9, <1>11 DEF Ferry, InFlight, Up, Place, Shelf
<1> QED
  BY <1>1, <1>10, <1>12, <1>13 DEF Told

LEMMA HostBulkInTold ==
  ASSUME Inv, Prompt, Told, HostBulkIn
  PROVE  Told'
<1>1. /\ d \in DeviceType /\ at' = at /\ bus' = bus /\ host' = host
      /\ BulkRuns /\ d.bulk = "inArmed" /\ d' = [d EXCEPT !.bulk = "inDone"]
  BY DEF Inv, TypeOK, HostBulkIn
<1>2. Talk(d, host, at) /\ Belief(d, host, bus) /\ Ferry(d, at, bus)
  BY DEF Told
<1>3. d.state = "CONFIGURED" /\ Up /\ bus = "on"
  BY <1>1, BulkConfigured
<1>4. /\ d'.rxq = d.rxq /\ d'.bulk = "inDone" /\ Place(d') = Place(d)
      /\ Desk(d') = Desk(d)
      /\ Line(d') = Line(d) /\ Halts(d') = Halts(d) /\ d'.masked = d.masked
  BY <1>1 DEF DeviceType, Place, Desk, Line, Halts
<1>5. Talk(d', host, at)
  <2>1. host.phase # "idle" => ~StopsBulk(host.req)
    BY <1>1 DEF BulkRuns
  <2> QED
    BY <1>2, <1>4, <2>1, TalkBulk
<1>6. Shelf(d') = Shelf(d)
  BY <1>4 DEF Desk, Shelf
<1>7. Belief(d', host, bus)
  BY <1>2, <1>4, <1>6, BeliefSame
<1>8. Ferry(d', at, bus)
  BY <1>1, <1>2, <1>3, <1>4, <1>6 DEF Ferry, InFlight, Up, Place, Shelf
<1> QED
  BY <1>1, <1>5, <1>7, <1>8 DEF Told

\* The steps of the bus.
LEMMA RaisedKeeps ==
  ASSUME d \in DeviceType, NEW w, NEW s, NEW r, NEW n,
         d' = [d EXCEPT !.wk = w, !.sp = s, !.rs = r, !.en = n]
  PROVE  /\ d'.rs = r /\ d'.en = n /\ d'.old = d.old /\ d'.setup = d.setup
         /\ d'.stup = d.stup /\ d'.xin = d.xin /\ d'.out = d.out
         /\ d'.state = d.state /\ d'.addr = d.addr /\ d'.ep0 = d.ep0 /\ d'.in = d.in
         /\ d'.rxq = d.rxq /\ d'.bulk = d.bulk /\ d'.masked = d.masked
BY DEF DeviceType

\* Nothing is on its way when the handler has nothing to do.
LEMMA SettledEmpty ==
  ASSUME Settled, NEW b, Ferry(d, at, b)
  PROVE  d.bulk \notin InFlight /\ d.rxq = << >>
BY Nothing DEF Settled, Pending, Ferry, InFlight

LEMMA BusTold ==
  ASSUME Inv, Prompt, Told, HostSuspend \/ HostResume \/ HostReset \/ HostResetEnds
  PROVE  Told'
<1>1. d \in DeviceType /\ host \in HostType /\ at' = at
  BY DEF Inv, TypeOK, HostSuspend, HostResume, HostReset, HostResetEnds
<1>2. Talk(d, host, at) /\ Belief(d, host, bus) /\ Ferry(d, at, bus)
  BY DEF Told
<1>3. ASSUME HostSuspend \/ HostResume \/ HostResetEnds
      PROVE  /\ ~d.rs /\ ~d.en /\ d.bulk \notin InFlight
             /\ host' = host /\ host.phase = "idle"
             /\ d'.rs = d.rs /\ (d'.en = d.en \/ (HostResetEnds /\ d'.en))
             /\ d'.old = d.old /\ d'.setup = d.setup
             /\ d'.stup = d.stup /\ d'.xin = d.xin /\ d'.out = d.out
             /\ d'.state = d.state /\ d'.addr = d.addr /\ d'.ep0 = d.ep0
             /\ d'.in = d.in
             /\ d'.rxq = d.rxq /\ d'.bulk = d.bulk /\ d'.masked = d.masked
  <2>1. Settled /\ host' = host
    BY <1>3 DEF HostSuspend, HostResume, HostResetEnds
  <2>2. ~d.wk /\ ~d.sp /\ ~d.rs /\ ~d.en
    BY <2>1, SettledMeans
  <2>3. d.bulk \notin InFlight
    BY <1>2, <2>1, SettledEmpty
  <2>4. host.phase = "idle"
    BY <1>3 DEF HostSuspend, HostResume, HostResetEnds, Inv, Order
  <2>5. d' = [d EXCEPT !.sp = TRUE] \/ d' = [d EXCEPT !.wk = TRUE]
          \/ (HostResetEnds /\ d' = [d EXCEPT !.en = TRUE])
    BY <1>3 DEF HostSuspend, HostResume, HostResetEnds
  <2>6. CASE d' = [d EXCEPT !.sp = TRUE]
    BY <1>1, <2>1, <2>2, <2>3, <2>4, <2>6 DEF DeviceType
  <2>7. CASE d' = [d EXCEPT !.wk = TRUE]
    BY <1>1, <2>1, <2>2, <2>3, <2>4, <2>7 DEF DeviceType
  <2>8. CASE HostResetEnds /\ d' = [d EXCEPT !.en = TRUE]
    BY <1>1, <2>1, <2>2, <2>3, <2>4, <2>8 DEF DeviceType
  <2> QED
    BY <2>5, <2>6, <2>7, <2>8
<1>4. CASE HostSuspend \/ HostResume \/ HostResetEnds
  <2>1. Talk(d', host, at)
    <3>1. d.masked => Deaf(d', host)
      BY <1>2, <1>3, <1>4 DEF Talk, Deaf
    <3>2. ~d.masked => Between(d')
      BY <1>2, <1>3, <1>4 DEF Talk, Between
    <3> QED
      BY <1>3, <1>4, <3>1, <3>2 DEF Talk
  <2>2. Belief(d', host, bus')
    <3>1. CASE HostSuspend \/ HostResume
      <4>1. bus # "reset" /\ bus' # "reset"
        BY <3>1 DEF HostSuspend, HostResume
      <4>2. d'.en = d.en
        BY <1>1, <1>3, <3>1 DEF HostSuspend, HostResume, DeviceType
      <4> QED
        BY <1>2, <1>3, <3>1, <4>1, <4>2 DEF Belief, EffectiveOf
    <3>2. CASE HostResetEnds
      <4>1. bus = "reset" /\ bus' = "on" /\ d' = [d EXCEPT !.en = TRUE]
        BY <3>2 DEF HostResetEnds
      <4>2. d'.en
        BY <1>1, <4>1 DEF DeviceType
      <4> QED
        BY <1>2, <1>3, <3>2, <4>1, <4>2 DEF Belief
    <3> QED
      BY <1>4, <3>1, <3>2
  <2>3. Ferry(d', at, bus')
    <3>1. d.bulk = "lost" => d.masked /\ ~d.en /\ bus # "reset"
      BY <1>2, <1>3, <1>4 DEF Ferry
    <3>2. HostResetEnds => bus = "reset"
      BY DEF HostResetEnds
    <3>3. bus' # "reset"
      BY <1>4 DEF HostSuspend, HostResume, HostResetEnds
    <3> QED
      BY <1>2, <1>3, <1>4, <3>1, <3>2, <3>3 DEF Ferry, InFlight
  <2> QED
    BY <1>1, <1>3, <1>4, <2>1, <2>2, <2>3 DEF Told
<1>5. CASE HostReset
  <2>1. PICK w \in {FALSE, bus = "suspended"} :
          d' = [d EXCEPT !.rs = TRUE, !.wk = @ \/ w]
    BY <1>5 DEF HostReset
  <2> DEFINE k == d.wk \/ w
  <2>2. d' = [d EXCEPT !.wk = k, !.sp = d.sp, !.rs = TRUE, !.en = d.en]
    BY <1>1, <2>1 DEF DeviceType
  <2> HIDE DEF k
  <2>3. /\ d'.rs = TRUE /\ d'.en = d.en /\ d'.old = d.old /\ d'.setup = d.setup
        /\ d'.stup = d.stup /\ d'.xin = d.xin /\ d'.out = d.out
        /\ d'.state = d.state /\ d'.addr = d.addr /\ d'.ep0 = d.ep0 /\ d'.in = d.in
        /\ d'.rxq = d.rxq /\ d'.bulk = d.bulk /\ d'.masked = d.masked
    BY <1>1, <2>2, RaisedKeeps
  <2>4. /\ bus' = "reset" /\ d.rxq = << >> /\ (d.masked \/ ~d.stup)
        /\ host' = [Idle EXCEPT !.view = "default", !.addr = 0]
    BY <1>5 DEF HostReset
  <2>5. /\ host'.phase = "idle" /\ host'.got = 0 /\ host'.ok
        /\ host'.view = "default" /\ host'.addr = 0
    <3> DEFINE j == Idle
    <3>1. /\ j \in HostType /\ j.phase = "idle" /\ j.got = 0 /\ j.ok = TRUE
      BY <1>1, IdleGives
    <3> HIDE DEF j
    <3>2. host' = [j EXCEPT !.view = "default", !.addr = 0]
      BY <2>4 DEF j
    <3> QED
      BY <3>1, <3>2 DEF HostType
  <2>6. Talk(d', host', at)
    <3>1. d.masked => Deaf(d', host')
      BY <1>2, <2>3, <2>5 DEF Talk, Deaf
    <3>2. ASSUME ~d.masked, d.ep0 = "DATA_IN", d.xin # None
          PROVE  d.xin = d.in.src
      BY <1>2, <3>2 DEF Talk, Between, OnItsWay, Served, Refused, Silent, Sending,
         Offer, More, Empty, Acked, Ended, LastTaken
    <3>3. ~d.masked => Between(d')
      BY <2>3, <2>4, <3>2, Nothing DEF Between
    <3> QED
      BY <2>3, <2>5, <3>1, <3>3 DEF Talk
  <2>7. Belief(d', host', bus')
    BY <2>3, <2>4, <2>5 DEF Belief
  <2>8. Ferry(d', at, bus')
    BY <1>2, <2>3, <2>4 DEF Ferry
  <2> QED
    BY <1>1, <2>6, <2>7, <2>8 DEF Told
<1> QED
  BY <1>4, <1>5

LEMMA InitTold == Init => Told
<1> SUFFICES ASSUME Init PROVE Told
  OBVIOUS
<1>1. /\ d.ep0 = "IDLE" /\ d.masked /\ d.in = NoIn /\ d.bulk = "closed"
      /\ d.rxq = << >> /\ ~d.en
      /\ host.phase = "idle" /\ host.got = 0 /\ host.ok /\ host.view = "attached"
      /\ bus = "on"
  BY DEF Init
<1>2. Talk(d, host, at)
  BY <1>1 DEF Talk, Deaf, NoIn
<1>3. Belief(d, host, bus)
  BY <1>1 DEF Belief
<1>4. Ferry(d, at, bus)
  BY <1>1, Nothing DEF Ferry, InFlight
<1> QED
  BY <1>2, <1>3, <1>4 DEF Told

LEMMA StepTold ==
  ASSUME Prompt, HostRequests, Inv, Told, [Next]_vars
  PROVE  Told'
<1>1. CASE HAL_PCD_IRQHandler
  BY <1>1, HandleOutTold, HandleInTold, HandleSleepTold, HandleResetTold, HandleRxTold
     DEF HAL_PCD_IRQHandler
<1>2. CASE HostMoves
  BY <1>2, HostDataInTold, HostStatusInTold, HostStatusOutTold, HostGivesUpTold
     DEF HostMoves
<1>3. CASE \E r \in Requests : HostSetup(r)
  BY <1>3, HostSetupTold
<1>4. CASE HostBulkOut \/ HostBulkIn
  BY <1>4, HostBulkOutTold, HostBulkInTold
<1>5. CASE HostSuspend \/ HostResume \/ HostReset \/ HostResetEnds
  BY <1>5, BusTold
<1>6. CASE UNCHANGED vars
  BY <1>6 DEF vars, Told
<1> QED
  BY <1>1, <1>2, <1>3, <1>4, <1>5, <1>6 DEF Next

LEMMA ToldAlways ==
  ASSUME Prompt, HostRequests
  PROVE  Spec => [](Inv /\ Told)
<1>1. Init => Inv /\ Told
  BY InitInv, InitTold
<1>2. Inv /\ Told /\ [Next]_vars => (Inv /\ Told)'
  BY StepInv, StepTold
<1> QED
  BY <1>1, <1>2, PTL DEF Spec

-----------------------------------------------------------------------------
(* The theorems.                                                           *)

\* If the handler is served in time, the variables keep their types: the bytes
\* left of a data stage never go below zero (USBD_LL_DataInStage), and no
\* resume comes without its suspend (USBD_LL_Resume).
THEOREM TypeCorrect == ASSUME Prompt PROVE Spec => []TypeOK
<1>1. Init => Inv
  BY InitInv
<1>2. Inv /\ [Next]_vars => Inv'
  BY StepInv
<1>3. Inv => TypeOK
  BY DEF Inv
<1> QED
  BY <1>1, <1>2, <1>3, PTL DEF Spec

\* If the handler is served in time, the class has its data and its endpoints
\* exactly while the device is configured (USBD_SetConfig, USBD_LL_Reset,
\* USBD_LL_Suspend, USBD_LL_Resume).
THEOREM ClassAlways == ASSUME Prompt PROVE Spec => []ClassWhenConfigured
<1>1. Init => Inv
  BY InitInv
<1>2. Inv /\ [Next]_vars => Inv'
  BY StepInv
<1>3. Inv => ClassWhenConfigured
  BY DEF Inv
<1> QED
  BY <1>1, <1>2, <1>3, PTL DEF Spec

\* If moreover class requests name the interface, the class data is never used
\* where there is none, except by CLEAR_FEATURE(remote wakeup) (USBD_ClrFeature,
\* USBD_MSC_Setup).
THEOREM NoNullUseAlways ==
  ASSUME Prompt, ClassToInterface
  PROVE  Spec => []NoNullUse
<1>1. Init => Inv /\ NoNullUse
  BY InitInv DEF NoNullUse
<1>2. Inv /\ NoNullUse /\ [Next]_vars => Inv' /\ NoNullUse'
  <2> SUFFICES ASSUME Inv, NoNullUse, [Next]_vars PROVE Inv' /\ NoNullUse'
    OBVIOUS
  <2>1. Inv' /\ Grown
    BY StepInv
  <2>2. \A r \in SetupsOf : Exempt(r) => r.to = "device" /\ r.req = "CLEAR_FEATURE"
    BY DEF Exempt, SetupsOf, NoRequest, ClassToInterface
  <2> QED
    BY <2>1, <2>2 DEF Grown, NoNullUse
<1> QED
  BY <1>1, <1>2, PTL DEF Spec

\* For a host that keeps to the USB requests, and a handler served in time:
\* what USBD_LL_DataInStage takes for a step of the data stage is a completion
\* of the request it is serving.
THEOREM OwnCompletionAlways ==
  ASSUME Prompt, HostRequests
  PROVE  Spec => []OwnCompletion
<1>1. Inv /\ Told => OwnCompletion
  BY DEF Told, Talk, Deaf, Between, OnItsWay, Served, Refused, Silent, Sending,
     Offer, More, Empty, Acked, Ended, LastTaken, OwnCompletion
<1> QED
  BY <1>1, ToldAlways, PTL

\* For such a host every control read that ends has delivered the answer to its
\* own request, in order and as far as it was asked for, in any number of
\* packets (USBD_CtlSendData, USBD_LL_DataInStage); what ends a request without
\* data is a status stage (USBD_CtlSendStatus).
THEOREM ReadExactAlways ==
  ASSUME Prompt, HostRequests
  PROVE  Spec => []ReadExact
<1>1. Inv /\ Told => ReadExact
  <2> SUFFICES ASSUME Inv, Told PROVE ReadExact
    OBVIOUS
  <2>1. Talk(d, host, at)
    BY DEF Told
  <2>2. host.phase = "status_out" => host.ok /\ host.got = Wanted(host.req)
    BY <2>1 DEF Talk, Deaf, OnItsWay, FirstPhase, Served, Acked, Ended
  <2>3. host.phase = "status_in" /\ InReady => d.in.src = Status
    BY <2>1 DEF InReady, Talk, Deaf, OnItsWay, Served, Refused, Silent, Sending,
       Acked, Ended
  <2> QED
    BY <2>2, <2>3 DEF ReadExact, Wanted
<1> QED
  BY <1>1, ToldAlways, PTL

\* For such a host, and whatever suspends, resumes and resets come in between:
\* once the device has settled it is in the state and at the address the host
\* believes (USBD_SetAddress, USBD_SetConfig, USBD_LL_Reset, USBD_LL_Resume).
THEOREM HostAgreesAlways ==
  ASSUME Prompt, HostRequests
  PROVE  Spec => []HostAgrees
<1>1. Inv /\ Told => HostAgrees
  <2> SUFFICES ASSUME Inv, Told, Settled, host.phase = "idle", bus # "reset"
               PROVE  /\ d.state = "SUSPENDED" <=> bus = "suspended"
                      /\ host.view # "attached" =>
                           /\ Effective = StateOf(host.view)
                           /\ d.addr = host.addr
    BY DEF HostAgrees, StateOf
  <2>1. ~d.wk /\ ~d.sp /\ ~d.rs /\ ~d.en
    BY SettledMeans
  <2>2. d.state = "SUSPENDED" <=> bus = "suspended"
    BY <2>1 DEF Inv, Order
  <2>3. Belief(d, host, bus)
    BY DEF Told
  <2> QED
    BY <2>1, <2>2, <2>3 DEF Belief, Effective, EffectiveOf
<1> QED
  BY <1>1, ToldAlways, PTL

\* Such a host never waits in vain, but for the requests that NoAnswer names
\* (USBD_StdDevReq, USBD_StdItfReq, USBD_StdEPReq) or once a CLEAR_FEATURE to the
\* device has masked the control endpoint.
THEOREM AnsweredOrNamedAlways ==
  ASSUME Prompt, HostRequests
  PROVE  Spec => []AnsweredOrNamed
<1>1. Inv /\ Told => AnsweredOrNamed
  <2> SUFFICES ASSUME Inv, Told, InVain, ~d.masked
               PROVE  NoAnswer(host.view, host.req)
    BY DEF AnsweredOrNamed
  <2>1. Silent(d, host)
    BY VainIsSilent DEF Told
  <2> QED
    BY <2>1 DEF Silent
<1> QED
  BY <1>1, ToldAlways, PTL

\* For such a host a bulk completion that the device has taken reaches the
\* class, unless that same CLEAR_FEATURE closed or flushed its endpoint
\* (USBD_LL_DataInStage, USBD_LL_DataOutStage, USBD_ClrClassConfig).
THEOREM BulkKeptAlways ==
  ASSUME Prompt, HostRequests
  PROVE  Spec => []BulkKept
<1>1. Inv /\ Told => BulkKept
  BY DEF Told, Ferry, BulkKept
<1> QED
  BY <1>1, ToldAlways, PTL
=============================================================================
