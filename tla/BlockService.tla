---------------------------- MODULE BlockService ----------------------------
(***************************************************************************)
(* What the mass-storage function promises the host: one command at a time *)
(* is open; blocks move for it in the order of their addresses, each block *)
(* at most once and only inside the medium; nothing moves when no command  *)
(* is open; and a command is only reported PASSED when all of its blocks   *)
(* have moved.  It says nothing of endpoints, buffers, wrappers or of the  *)
(* reset protocol.                                                         *)
(***************************************************************************)
EXTENDS Integers

CONSTANTS
  Capacity,  \* [LUN -> blocks]
  Requests   \* the commands: records with fields op, lun, lba and nblk

VARIABLES
  open,     \* is a command open?
  request,  \* the command that is open, or was open last
  moved,    \* <<lun, address, content>> of every block moved for it
  verdict   \* how it ended

svars == <<open, request, moved, verdict>>

\* What a block of the command holds: the number of the medium's block for a
\* read, its place in the host's data for a write.
Content(c, i) == [blk |-> IF c.op = "READ10" THEN c.lba + i ELSE i]

\* The first n blocks of a command.
Prefix(c, n) == {<<c.lun, c.lba + i, Content(c, i)>> : i \in 0 .. n - 1}

Length(c) == IF c.op \in {"READ10", "WRITE10"} THEN c.nblk ELSE 0

ServiceInit ==
  /\ ~open
  /\ moved = {}
  /\ verdict = "none"

Begin ==
  /\ ~open
  /\ open'
  /\ request' \in Requests
  /\ moved' = {}
  /\ verdict' = "none"

Move ==
  /\ open
  /\ \E n \in 1 .. Length(request) :
       /\ request.lba + n <= Capacity[request.lun]
       /\ moved \subseteq Prefix(request, n)
       /\ moved' = Prefix(request, n)
  /\ UNCHANGED <<open, request, verdict>>

Finish ==
  /\ open
  /\ ~open'
  /\ verdict' \in {"PASSED", "FAILED", "RESET"}
  /\ verdict' = "PASSED" => moved = Prefix(request, Length(request))
  /\ UNCHANGED <<request, moved>>

\* A reset may also come when no command is open.
Reset ==
  /\ ~open
  /\ verdict' = "RESET"
  /\ UNCHANGED <<open, request, moved>>

ServiceNext == Begin \/ Move \/ Finish \/ Reset

ServiceSpec == ServiceInit /\ [][ServiceNext]_svars
=============================================================================
