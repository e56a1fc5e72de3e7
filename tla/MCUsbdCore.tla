----------------------------- MODULE MCUsbdCore -----------------------------
(* A small instance of UsbdCore: packets of three bytes; descriptors       *)
(* shorter than a packet, of one, of two and of a little more than two     *)
(* packets; the standard and class requests, well formed or not.           *)
EXTENDS UsbdCore, TLC

Descriptors == (1 :> 2 @@ 2 :> 3 @@ 3 :> 7)

R(to, kind, dir, req, val, idx, len) ==
  [to |-> to, kind |-> kind, dir |-> dir, req |-> req,
   val |-> val, idx |-> idx, len |-> len]
Dev(dir, req, val, len)      == R("device", "standard", dir, req, val, 0, len)
Itf(kind, dir, req, val, len) == R("interface", kind, dir, req, val, 0, len)
Ep(dir, req, val, idx, len)  == R("endpoint", "standard", dir, req, val, idx, len)

Reads ==
  {Dev("in", "GET_DESCRIPTOR", 1, 6), Dev("in", "GET_DESCRIPTOR", 2, 3),
   Dev("in", "GET_DESCRIPTOR", 2, 6), Dev("in", "GET_DESCRIPTOR", 3, 6),
   Dev("in", "GET_DESCRIPTOR", 3, 5),
   Dev("in", "GET_DESCRIPTOR", 4, 3), Dev("in", "GET_DESCRIPTOR", 1, 0)}

Enumeration ==
  {Dev("out", "SET_ADDRESS", 0, 0), Dev("out", "SET_ADDRESS", 1, 0),
   Dev("out", "SET_CONFIGURATION", 0, 0), Dev("out", "SET_CONFIGURATION", 1, 0),
   Dev("out", "SET_CONFIGURATION", 2, 0),
   Dev("in", "GET_CONFIGURATION", 0, 1), Dev("in", "GET_STATUS", 0, 2)}

Features ==
  {Dev("out", "SET_FEATURE", REMOTE_WAKEUP, 0), Dev("out", "SET_FEATURE", 2, 0),
   Dev("out", "CLEAR_FEATURE", REMOTE_WAKEUP, 0),
   Dev("out", "CLEAR_FEATURE", 2, 0),
   Ep("out", "SET_FEATURE", EP_HALT, MSC_EPIN, 0),
   Ep("out", "CLEAR_FEATURE", EP_HALT, MSC_EPIN, 0),
   Ep("out", "CLEAR_FEATURE", EP_HALT, MSC_EPOUT, 0),
   Ep("in", "GET_STATUS", 0, 0, 2), Ep("in", "UNKNOWN", 0, 0, 2)}

Interface ==
  {Itf("standard", "in", "GET_INTERFACE", 0, 1),
   Itf("standard", "out", "SET_INTERFACE", 0, 0),
   Itf("standard", "in", "GET_STATUS", 0, 2),
   Itf("class", "in", "GET_MAX_LUN", 0, 1),
   Itf("class", "out", "BOT_RESET", 0, 0), Itf("class", "out", "BOT_RESET", 1, 0),
   R("interface", "class", "in", "GET_MAX_LUN", 0, 2, 1),
   R("other", "standard", "in", "UNKNOWN", 0, 0, 1),
   R("other", "standard", "out", "UNKNOWN", 0, 0, 0)}

AllRequests == Reads \cup Enumeration \cup Features \cup Interface

\* The theorems speak of this instance too.
ASSUME HostAssumption == HostRequests
=============================================================================
