----------------------------- MODULE DeviceService -----------------------------
(***************************************************************************)
(* What ioctl_device promises its requests, without a mutex, references or *)
(* places in the code: they are served one at a time, only while the       *)
(* module is in, and its removal waits for the one being served.           *)
(* EntryPoints implements this by what custom_ioctl and the module loader  *)
(* do, VectorSystem by the guards of its requests.                         *)
(***************************************************************************)
CONSTANT Task

VARIABLES
  serving,  \* the tasks whose request is being served
  device    \* the module: absent, live or going

vars == <<serving, device>>

Init == serving = {} /\ device = "absent"

Serve(t) ==
  /\ device = "live"
  /\ serving = {}
  /\ serving' = {t}
  /\ UNCHANGED device

Finish(t) ==
  /\ serving = {t}
  /\ serving' = {}
  /\ UNCHANGED device

Insert ==
  /\ device = "absent"
  /\ device' = "live"
  /\ UNCHANGED serving

RemovalBegins ==
  /\ device = "live"
  /\ serving = {}
  /\ device' = "going"
  /\ UNCHANGED serving

RemovalEnds ==
  /\ device = "going"
  /\ device' = "absent"
  /\ UNCHANGED serving

Next ==
  \/ Insert \/ RemovalBegins \/ RemovalEnds
  \/ \E t \in Task : Serve(t) \/ Finish(t)

Spec == Init /\ [][Next]_vars
===============================================================================
