--------------------------- MODULE MscBotService ---------------------------
(***************************************************************************)
(* MscBot implements BlockService.  A command is open from its wrapper to  *)
(* its status or to the end of a reset; what has moved is what the host    *)
(* has received (READ10) or what has reached a medium (WRITE10).           *)
(***************************************************************************)
EXTENDS MscBot

Received == {<<hcmd.lun, hcmd.lba + i - 1, hrecv[i]>> : i \in DOMAIN hrecv}

Service == INSTANCE BlockService WITH
  Requests <- CBWType,
  open     <- hphase # "idle" /\ hres = "none",
  request  <- hcmd,
  moved    <- IF hcmd.op = "READ10" THEN Received ELSE dev.written,
  verdict  <- hres

\* Whatever fails, is late or is reset in the transport below, the host only
\* ever sees the behaviour BlockService allows: in particular no block is
\* written after the command it belongs to has ended.
ImplementsService == Service!ServiceSpec
=============================================================================
