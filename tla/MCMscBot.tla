------------------------------ MODULE MCMscBot ------------------------------
(* Small instances of MscBot: two-unit blocks, a two-block media buffer,   *)
(* media of three and two blocks, transfers of up to three blocks.         *)
EXTENDS MscBotService, TLC

OneLun  == (0 :> 3)
TwoLuns == (0 :> 3 @@ 1 :> 2)

Command(o, l, b, n, r, m) ==
  [op |-> o, lun |-> l, lba |-> b, nblk |-> n, dir |-> r, dlen |-> m,
   alloc |-> 1, flag |-> FALSE, ok |-> TRUE]

Capacity10(l) == Command("READ_CAPACITY10", l, 0, 0, "in", 1)

\* Transfers longer than the media buffer, and of one block.
Transfers(l) ==
  {Command("READ10", l, 0, 3, "in", 6), Command("WRITE10", l, 0, 3, "out", 6),
   Command("WRITE10", l, 1, 1, "out", 2)}

\* What an operating system sends beside them.  INQUIRY asks for more than
\* there is, so it is answered short.
Short(l) ==
  {Capacity10(l),
   Command("TEST_UNIT_READY", l, 0, 0, "out", 0),
   Command("INQUIRY", l, 0, 0, "in", 2),
   Command("REQUEST_SENSE", l, 0, 0, "in", 1)}

\* Commands the device must refuse: unknown, past the end of the medium,
\* or with a wrong direction or length.
Refused(l) ==
  {Command("UNKNOWN", l, 0, 0, "in", 1),
   Command("READ10", l, 2, 2, "in", 4),
   Command("WRITE10", l, 0, 1, "in", 2),
   Command("READ10", l, 0, 1, "in", 4),
   Command("TEST_UNIT_READY", l, 0, 0, "in", 1),
   [Command("VERIFY10", l, 0, 1, "out", 0) EXCEPT !.flag = TRUE]}

\* Not a valid wrapper.
BadWrapper(l) == {[Command("READ10", l, 0, 1, "in", 2) EXCEPT !.ok = FALSE]}

\* Faults and time-outs: one command of each way through the transport.  The
\* INQUIRY and the READ10 ask for nothing and get an empty packet where a
\* status is due; the WRITE10 of no blocks gets no answer at all.
RecoveryCommands ==
  {Capacity10(0), Command("INQUIRY", 0, 0, 0, "in", 0),
   Command("READ10", 0, 0, 3, "in", 6),
   Command("WRITE10", 0, 0, 3, "out", 6), Command("READ10", 0, 0, 1, "in", 4),
   Command("WRITE10", 0, 2, 2, "out", 4),
   Command("READ10", 0, 0, 0, "in", 0), Command("WRITE10", 0, 1, 0, "out", 0)}
    \cup BadWrapper(0)

\* Everything a host may legally send, refused or not.
AllCommands == Transfers(0) \cup Short(0) \cup Refused(0)

PortResetCommands ==
  {Capacity10(0), Command("READ10", 0, 0, 3, "in", 6),
   Command("WRITE10", 0, 0, 3, "out", 6), Command("UNKNOWN", 0, 0, 0, "in", 1),
   Command("MODE_SENSE6", 0, 0, 0, "in", 1),
   Command("START_STOP_UNIT", 0, 0, 0, "out", 0)}

\* Two units: the second one is smaller.
TwoLunCommands ==
  {Capacity10(0), Capacity10(1), Command("READ10", 0, 0, 1, "in", 2),
   Command("READ10", 1, 2, 1, "in", 2)}

FaultCommands == {Capacity10(0), Command("WRITE10", 0, 0, 3, "out", 6),
                  Command("UNKNOWN", 0, 0, 0, "in", 1)}

\* The hypothesis of the theorems of MscBotServiceProofs holds in every run.
ASSUME HostAssumption == HostCommands

\* ... and that of the theorems about verdicts where verdicts are checked.
ASSUME VerdictAssumption == AutoSense => WellFormed
=============================================================================
