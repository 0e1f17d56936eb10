------------------------------ MODULE RootHub ------------------------------
(***************************************************************************)
(* The root hub inside the USB host controller, drivers/isp116x-hcd.c:     *)
(* isp116x_submit_rh_msg translates a hub request into a write to a port   *)
(* register, in which each bit has one meaning when read and another when  *)
(* written.  The chip's ports, what happens on them, and the USB core that *)
(* makes the requests are external.  The core's requests do not wait for   *)
(* events, so events come between any two of them, and during a reset.     *)
(***************************************************************************)
EXTENDS Integers

CONSTANTS
  NPorts,      \* ports of the hub: 2 of this chip
  MaxEvents    \* bound: what happens on the ports

HubSizes == NPorts \in Nat \ {0} /\ MaxEvents \in Nat

VARIABLES
  ports,       \* the bits set in HCRHPORT1, HCRHPORT2, and "resuming"
  rh_devnum,   \* the hub's address
  req,         \* the port and place of a reset in progress
  core,        \* the USB core: whether started, the address it gave the hub
  events,      \* those so far
  asked,       \* history: the ports of a hub that does what it is asked
  unreset      \* history: usb_lowlevel_init did not reset the chip

vars == <<ports, rh_devnum, req, core, events, asked, unreset>>

Ports   == 1..NPorts
Changes == {"CSC", "PESC", "PSSC", "OCIC", "PRSC"}
Bits    == {"CCS", "PES", "PSS", "POCI", "PRS", "PPS", "resuming"} \cup Changes
NoReq   == [port |-> 0, place |-> "none"]

---------------------------------------------------------------------------
(* What a port can be made to do, on the bits s of its register. *)
Disable(s)  == s \ {"PES"}
IfDevice(s, b) == s \cup {IF "CCS" \in s THEN b ELSE "CSC"}
Enable(s)   == IfDevice(s, "PES")
Suspend(s)  == IfDevice(s, "PSS")
Reset(s)    == IfDevice(s, "PRS")
Resume(s)   == IF "PSS" \in s THEN s \cup {"resuming"} ELSE s
PowerOn(s)  == s \cup {"PPS"}
PowerOff(s) == s \cap (Changes \cup {"POCI"})

(* The chip: the meaning of a bit that is written. *)
Written(s, bit) ==
  CASE bit = "CCS"  -> Disable(s)
    [] bit = "PES"  -> Enable(s)
    [] bit = "PSS"  -> Suspend(s)
    [] bit = "POCI" -> Resume(s)
    [] bit = "PRS"  -> Reset(s)
    [] bit = "PPS"  -> PowerOn(s)
    [] bit = "LSDA" -> PowerOff(s)
    [] bit \in Changes -> s \ {bit}

(* What the USB specification says a feature that is cleared or set does.  The    *)
(* exception is the code's: it clears no over-current change, and resumes.        *)
Promised(s, what, feature) ==
  CASE feature = "enable"  -> IF what = "set" THEN Enable(s) ELSE Disable(s)
    [] feature = "suspend" -> IF what = "set" THEN Suspend(s) ELSE Resume(s)
    [] feature = "power"   -> IF what = "set" THEN PowerOn(s) ELSE PowerOff(s)
    [] feature = "reset"   -> Reset(s)
    [] feature = "c_connection"   -> s \ {"CSC"}
    [] feature = "c_enable"       -> s \ {"PESC"}
    [] feature = "c_suspend"      -> s \ {"PSSC"}
    [] feature = "c_over_current" -> Resume(s)
    [] feature = "c_reset"        -> s \ {"PRSC"}

---------------------------------------------------------------------------
(* What happens on a port. *)
Gone(s) ==
  (s \ {"CCS", "PES", "PSS", "PRS", "resuming"})
    \cup (IF "PES" \in s THEN {"PESC"} ELSE {})

Happens(s) ==
  [attach  |-> IF {"PPS"} = s \cap {"PPS", "CCS"} THEN s \cup {"CCS", "CSC"} ELSE s,
   detach  |-> IF "CCS" \in s THEN Gone(s) \cup {"CSC"} ELSE s,
   babble  |-> IF "PES" \in s THEN (s \ {"PES"}) \cup {"PESC"} ELSE s,
   overload |-> IF "PPS" \in s THEN (Gone(s) \ {"PPS"}) \cup {"POCI", "OCIC"} ELSE s,
   cooled  |-> IF "POCI" \in s THEN (s \ {"POCI"}) \cup {"OCIC"} ELSE s,
   wakes   |-> IF "PSS" \in s THEN (s \ {"PSS", "resuming"}) \cup {"PSSC"} ELSE s,
   resumed |-> IF "resuming" \in s THEN (s \ {"PSS", "resuming"}) \cup {"PSSC"} ELSE s,
   reset   |-> IF "PRS" \in s
                 THEN (s \ {"PRS", "PSS", "resuming"}) \cup {"PES", "PRSC"} ELSE s]

Counted == {"attach", "detach", "babble", "overload", "cooled", "wakes"}

Event(p, e) ==
  /\ Happens(ports[p])[e] # ports[p]
  /\ e \in Counted => events < MaxEvents
  /\ ports' = [ports EXCEPT ![p] = Happens(@)[e]]
  /\ asked' = [asked EXCEPT ![p] = Happens(@)[e]]
  /\ events' = IF e \in Counted THEN events + 1 ELSE events
  /\ UNCHANGED <<rh_devnum, req, core, unreset>>

---------------------------------------------------------------------------
(* Requests of the core; submit_control_msg gives those to rh_devnum to the hub. *)
ToHub == core.started /\ req = NoReq /\ core.hub = rh_devnum

Write(p, bit) == ports' = [ports EXCEPT ![p] = Written(@, bit)]
Asks(p, what, feature) ==
  asked' = [asked EXCEPT ![p] = Promised(@, what, feature)]

(* The bit written to clear a feature.  That for c_over_current is RH_PS_POCI,   *)
(* which resumes a port, and not RH_PS_OCIC (line 933).                          *)
ClearBit ==
  [enable |-> "CCS", suspend |-> "POCI", power |-> "LSDA", c_connection |-> "CSC",
   c_enable |-> "PESC", c_suspend |-> "PSSC", c_over_current |-> "POCI",
   c_reset |-> "PRSC"]

(* A mutant of SetBit: the bit of the suspend request's clear. *)
SetsCleared ==
  [suspend |-> "POCI", power |-> "PPS", enable |-> "PES", reset |-> "PRS"]

SetBit ==
  [suspend |-> "PSS", power |-> "PPS", enable |-> "PES", reset |-> "PRS"]

ClearFeature(p, feature) ==
  /\ ToHub
  /\ Write(p, ClearBit[feature]) /\ Asks(p, "clear", feature)
  /\ UNCHANGED <<rh_devnum, req, core, events, unreset>>

SetFeature(p, feature) ==
  /\ ToHub /\ feature # "reset"
  /\ Write(p, SetBit[feature]) /\ Asks(p, "set", feature)
  /\ UNCHANGED <<rh_devnum, req, core, events, unreset>>

(* A reset: it waits for the end of an earlier one, begins, and takes 100 ms, in *)
(* which the chip ends it.                                                       *)
ResetPort(p) ==
  /\ ToHub
  /\ req' = [port |-> p, place |-> "spin"]
  /\ UNCHANGED <<ports, rh_devnum, core, events, asked, unreset>>

ResetBegins ==
  /\ req.place = "spin" /\ "PRS" \notin ports[req.port]
  /\ Write(req.port, SetBit["reset"]) /\ Asks(req.port, "set", "reset")
  /\ req' = [req EXCEPT !.place = "wait"]
  /\ UNCHANGED <<rh_devnum, core, events, unreset>>

ResetEnds ==
  /\ req.place = "wait" /\ "PRS" \notin ports[req.port]
  /\ req' = [req EXCEPT !.place = "back"]
  /\ UNCHANGED <<ports, rh_devnum, core, events, asked, unreset>>

ResetReturns ==
  /\ req.place = "back"
  /\ req' = NoReq
  /\ UNCHANGED <<ports, rh_devnum, core, events, asked, unreset>>

(* The core numbers the hub first. *)
SetAddress ==
  /\ ToHub /\ core.hub = 0
  /\ rh_devnum' = 1
  /\ core' = [core EXCEPT !.hub = 1]
  /\ UNCHANGED <<ports, req, events, asked, unreset>>

---------------------------------------------------------------------------
(* isp116x_sw_reset: a chip that does not answer in time may be reset or not. *)
SwReset(ok) == IF ok THEN {[p \in Ports |-> {}]} ELSE {[p \in Ports |-> {}], ports}

(* isp116x_start disables the ports of the chip, reset or not. *)
Started(chip) == [p \in Ports |-> Written(chip[p], "CCS")]

(* usb_lowlevel_init does not look at the result of isp116x_reset, which sets    *)
(* rh_devnum only when the chip was reset.                                       *)
LowlevelInit ==
  /\ ~core.started
  /\ \E ok \in BOOLEAN :
       /\ \E chip \in SwReset(ok) : ports' = Started(chip) /\ asked' = Started(chip)
       /\ rh_devnum' = IF ok THEN 0 ELSE rh_devnum
       /\ unreset' = ~ok
  /\ core' = [started |-> TRUE, hub |-> 0]
  /\ UNCHANGED <<req, events>>

(* isp116x_stop takes the power from the ports and resets the chip. *)
LowlevelStop ==
  /\ core.started /\ req = NoReq
  /\ ports' = [p \in Ports |-> {}] /\ asked' = ports'
  /\ core' = [core EXCEPT !.started = FALSE]
  /\ UNCHANGED <<rh_devnum, req, events, unreset>>

Init ==
  /\ ports = [p \in Ports |-> {}] /\ asked = ports
  /\ rh_devnum = 0 /\ req = NoReq /\ events = 0
  /\ core = [started |-> FALSE, hub |-> 0]
  /\ unreset = FALSE

Next ==
  \/ \E p \in Ports, e \in {"attach", "detach", "babble", "overload", "cooled", "wakes",
                            "resumed", "reset"} : Event(p, e)
  \/ \E p \in Ports :
       \/ \E f \in DOMAIN ClearBit : ClearFeature(p, f)
       \/ \E f \in DOMAIN SetBit : SetFeature(p, f)
       \/ ResetPort(p)
  \/ ResetBegins \/ ResetEnds \/ ResetReturns
  \/ SetAddress
  \/ LowlevelInit \/ LowlevelStop

Spec == Init /\ [][Next]_vars

---------------------------------------------------------------------------
(* Every register and number has its type. *)
HubTypeOK ==
  /\ ports \in [Ports -> SUBSET Bits] /\ asked \in [Ports -> SUBSET Bits]
  /\ rh_devnum \in {0, 1} /\ core.hub \in {0, 1} /\ events \in 0..MaxEvents
  /\ req.port \in {0} \cup Ports /\ req.place \in {"none", "spin", "wait", "back"}

(* isp116x_submit_rh_msg: the ports are as the core's requests and the events     *)
(* left them, no change is lost or acknowledged unasked, whichever events came    *)
(* between the requests; a reset that returns has enabled the port or a change    *)
(* tells that its device is gone; and the core reaches the hub at the address it  *)
(* gave it.  The exceptions: a request to clear an over-current change clears     *)
(* none (see Promised), and a chip that was not reset keeps its old address.      *)
HubAsAsked ==
  /\ ports = asked
  /\ req.place = "back" =>
       ports[req.port] \cap {"CSC", "PESC", "OCIC", "PRSC"} # {}
  /\ core.started /\ ~unreset => core.hub = rh_devnum
=============================================================================
