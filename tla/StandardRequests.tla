-------------------------- MODULE StandardRequests --------------------------
(***************************************************************************)
(* Chapter 9 of both USB devices: the standard requests, with which a PC   *)
(* finds, names and configures the box before an upgrade.  The PDIUSBD12   *)
(* dispatches them by table, the NET2270 by direction; UsbD12 and          *)
(* UsbNet2270 model how a request reaches its handler, this module what    *)
(* the handler leaves in the flags and in the controller, and what the PC  *)
(* is told.  Requests come one at a time, without an OUT data stage, and   *)
(* name the two bulk endpoints.                                            *)
(***************************************************************************)
EXTENDS Naturals, FiniteSetsExt

CONSTANTS
  Drivers,  \* those that run: "d12", "net"
  Ends,     \* bulk endpoints that are asked about
  Asked     \* the wLengths a PC asks a descriptor with

RequestSizes ==
  /\ Drivers \subseteq {"d12", "net"} /\ Asked \subseteq Nat
  /\ Ends \cap {"device", "interface", "other"} = {}

VARIABLES
  usb,   \* bEPPflags, the endpoint descriptors and the controller
  pc,    \* what a PC may conclude from the requests the box acknowledged
  fast,  \* the speed of the bus
  last   \* the last request and its answer

vars == <<usb, pc, fast, last>>

D12   == usb.driver = "d12"

---------------------------------------------------------------------------
(* Requests, by bRequest; the recipient, wValue, wIndex where they matter. *)

Req(req, dirin, to, value) ==
  [req |-> req, dirin |-> dirin, class |-> FALSE, to |-> to, value |-> value, length |-> 2]

Recipients == {"device", "interface", "other"} \cup Ends
Requests ==
  {Req("get_status", TRUE, to, 0) : to \in Recipients}
  \cup {Req(r, FALSE, to, 0) : r \in {"clear_feature", "set_feature"}, to \in Ends \cup {"interface"}}
  \cup {Req(r, FALSE, "device", v) : r \in {"clear_feature", "set_feature"}, v \in {0, 1}}
  \cup {Req("set_address", FALSE, "device", 5)}
  \cup {[Req("get_descriptor", TRUE, "device", v) EXCEPT !.length = n] : v \in 1..3, n \in Asked}
  \cup {Req("set_configuration", FALSE, "device", v) : v \in 0..2}
  \cup {Req("set_interface", FALSE, "interface", v) : v \in {0, 1}}
  \cup {Req(r, TRUE, "device", 0) : r \in {"get_configuration", "get_interface", "synch_frame"}}
  \cup {[Req("get_status", dirin, "interface", 0) EXCEPT !.class = TRUE] : dirin \in BOOLEAN}

(* What is in an answer: its first number and its bytes. *)
Data(value, size) == [is |-> "data", value |-> value, size |-> size]
Done  == [is |-> "done", value |-> 0, size |-> 0]
Stall == [is |-> "stall", value |-> 0, size |-> 0]
Mute  == [is |-> "mute", value |-> 0, size |-> 0]   \* the PC times out

(* code_transmit clamps wLength; single_transmit and send_fifo do not.      *)
Clamped(r, value, size) == Data(value, Min({r.length, size}))

---------------------------------------------------------------------------
(* What the PC concludes.  "sure" says of the configuration and of wakeup   *)
(* that no reset came since the PC last set them.                           *)

Acknowledged(r, a) ==
  CASE a.is = "done" /\ ~r.class /\ r.req = "set_configuration" ->
         [pc EXCEPT !.configuration = r.value, !.sure = @ \cup {"configuration"},
                    !.packet = IF r.value = 1 THEN pc.read ELSE 0]
    [] a.is = "done" /\ r.req = "set_address" -> [pc EXCEPT !.address = r.value]
    [] a.is = "done" /\ r.to = "device" /\ r.req \in {"set_feature", "clear_feature"} ->
         [pc EXCEPT !.wakeup = r.req = "set_feature", !.sure = @ \cup {"wakeup"}]
    [] a.is = "done" /\ r.to \in Ends /\ r.req = "set_feature" -> [pc EXCEPT !.halted = @ \cup {r.to}]
    [] a.is = "done" /\ r.to \in Ends /\ r.req = "clear_feature" -> [pc EXCEPT !.halted = @ \ {r.to}]
    [] a.is = "data" /\ r.req = "get_descriptor" /\ r.value = 2 /\ a.size > 24 ->
         [pc EXCEPT !.read = a.value]
    [] OTHER -> pc

Answer(r, a) ==
  /\ last' = [request |-> r, answer |-> a]
  /\ pc' = Acknowledged(r, a)
  /\ UNCHANGED fast

(* The table of the PDIUSBD12 takes any direction; stall is for the rest.   *)
(* The NET2270 neither answers nor stalls a class request, and then lets    *)
(* its status stage pass.                                                   *)
Served == {"get_status", "clear_feature", "set_feature", "set_address", "get_descriptor",
           "get_configuration", "set_configuration", "get_interface", "set_interface"}
NetIn  == {"get_status", "clear_feature", "set_feature", "get_descriptor",
           "get_configuration", "get_interface"}
NetOut == {"clear_feature", "set_feature", "set_address", "set_configuration", "set_interface"}
NetServes(r) == r.req \in (IF r.dirin THEN NetIn ELSE NetOut)
Serves(r)    == ~r.class /\ (IF D12 THEN r.req \in Served ELSE NetServes(r))
Goes(r, req) == r.req = req /\ Serves(r)

NotServed(r) ==
  /\ ~Serves(r)
  /\ Answer(r, IF D12 \/ ~r.class THEN Stall ELSE IF r.dirin THEN Mute ELSE Done)
  /\ UNCHANGED usb

---------------------------------------------------------------------------
(* chap_9.c of both. *)

(* D12_SelectEndpoint and D12_SetEndpointStatus. *)
Halted(end)  == end \in usb.halted
Stalled(end) == [usb EXCEPT !.halted = @ \cup {end}]

(* An endpoint of the NET2270 is always said to be halted. *)
GetStatus(r) ==
  /\ Goes(r, "get_status")
  /\ Answer(r, CASE r.to = "device"    -> Data(IF usb.wakeup THEN 3 ELSE 1, 2)
                 [] r.to = "interface" -> Data(0, 2)
                 [] r.to \in Ends      -> Data(IF D12 /\ ~Halted(r.to) THEN 0 ELSE 1, 2)
                 [] r.to = "other"     -> Stall)
  /\ UNCHANGED usb

Wakeup(r) == r.to = "device" /\ r.value = 1
Halt(r)   == r.to \in Ends /\ r.value = 0

(* The PDIUSBD12 returns at once, and the PC waits for the status stage.    *)
ClearFeature(r) ==
  /\ Goes(r, "clear_feature")
  /\ IF D12
     THEN Answer(r, Mute) /\ UNCHANGED usb
     ELSE \/ Wakeup(r) /\ usb' = [usb EXCEPT !.wakeup = FALSE] /\ Answer(r, Done)
          \/ Halt(r) /\ usb' = [usb EXCEPT !.halted = @ \ {r.to}, !.naking = @ \ {r.to}]
                     /\ Answer(r, Done)
          \/ ~Wakeup(r) /\ ~Halt(r) /\ UNCHANGED usb /\ Answer(r, Stall)

(* The NET2270 is set to NAK what it should halt. *)
SetFeature(r) ==
  /\ Goes(r, "set_feature")
  /\ \/ Wakeup(r) /\ usb' = [usb EXCEPT !.wakeup = TRUE] /\ Answer(r, Done)
     \/ /\ Halt(r)
        /\ usb' = IF D12 THEN Stalled(r.to)
                         ELSE [usb EXCEPT !.naking = @ \cup {r.to}]
        /\ Answer(r, Done)
     \/ ~Wakeup(r) /\ ~Halt(r) /\ UNCHANGED usb /\ Answer(r, Stall)

SetAddress(r) ==
  /\ Goes(r, "set_address")
  /\ usb' = [usb EXCEPT !.address = r.value % 128]
  /\ Answer(r, Done)

(* The configuration's descriptor takes its packet sizes from the speed of  *)
(* the bus now, and full_speed with them.                                   *)
SizeNow == IF D12 \/ ~fast THEN 64 ELSE 512
GetDescriptor(r) ==
  /\ Goes(r, "get_descriptor")
  /\ \/ /\ r.value = 1
        /\ Answer(r, Clamped(r, IF D12 THEN 16 ELSE 64, 18))
        /\ UNCHANGED usb
     \/ /\ r.value = 2
        /\ usb' = [usb EXCEPT !.descr = SizeNow, !.fullSpeed = ~D12 /\ ~fast]
        /\ Answer(r, Clamped(r, SizeNow, IF D12 THEN 46 ELSE 39))
     \/ r.value = 3 /\ Answer(r, Stall) /\ UNCHANGED usb

GetConfiguration(r) ==
  /\ Goes(r, "get_configuration")
  /\ Answer(r, Data(usb.configuration, 1))
  /\ UNCHANGED usb

(* A mutant of Configured: the packet size stays that of the high speed. *)
KeepsPacket(c) ==
  IF D12 THEN [usb EXCEPT !.enabled = c = 1, !.configuration = c]
  ELSE IF c = 1 THEN [usb EXCEPT !.enabled = TRUE, !.fifo = 512, !.configuration = 1]
  ELSE [usb EXCEPT !.configuration = c]

(* init_unconfig and init_config; Configuration_Handler, which the NET2270  *)
(* never undoes, and which also turns on the interrupts of its endpoints.   *)
Configured(c) ==
  IF D12 THEN [usb EXCEPT !.enabled = c = 1, !.configuration = c]
  ELSE IF c = 1 THEN [usb EXCEPT !.enabled = TRUE, !.fifo = usb.descr, !.configuration = 1]
  ELSE [usb EXCEPT !.configuration = c]
SetConfiguration(r) ==
  /\ Goes(r, "set_configuration")
  /\ \/ r.value \in {0, 1} /\ usb' = Configured(r.value) /\ Answer(r, Done)
     \/ r.value \notin {0, 1} /\ UNCHANGED usb /\ Answer(r, Stall)

GetInterface(r) == Goes(r, "get_interface") /\ Answer(r, Data(0, 1)) /\ UNCHANGED usb
SetInterface(r) ==
  /\ Goes(r, "set_interface")
  /\ Answer(r, IF r.value = 0 THEN Done ELSE Stall)
  /\ UNCHANGED usb

---------------------------------------------------------------------------
(* The bus.  A reset clears the address and what is halted in the           *)
(* controller, may disable the endpoints and settles the speed anew; the    *)
(* PDIUSBD12's interrupt only notes it, the main loop only prints that, and *)
(* the NET2270's does not ask for it.                                       *)

PcForgets(sure) == [configuration |-> 0, wakeup |-> FALSE, address |-> 0, halted |-> {},
                    read |-> 0, packet |-> 0, sure |-> sure]
NoRequest == [request |-> Req("none", FALSE, "other", 0), answer |-> Mute]

BusReset ==
  /\ \E on \in {usb.enabled, FALSE} :
       usb' = [usb EXCEPT !.address = 0, !.halted = {}, !.naking = {}, !.enabled = on]
  /\ fast' \in (IF D12 THEN {FALSE} ELSE BOOLEAN)
  /\ pc' = PcForgets({})
  /\ last' = NoRequest

(* The key that reconnects the PDIUSBD12: the flags start anew, and the PC  *)
(* sees another device.                                                     *)
Reconnect ==
  /\ D12
  /\ usb' = [usb EXCEPT !.configuration = 0, !.wakeup = FALSE,
                        !.address = 0, !.halted = {}, !.enabled = FALSE]
  /\ pc' = PcForgets({"configuration", "wakeup"})
  /\ last' = NoRequest
  /\ UNCHANGED fast

DeviceInit ==
  /\ \E d \in Drivers : usb = [driver |-> d, configuration |-> 0, wakeup |-> FALSE,
       fullSpeed |-> FALSE, address |-> 0, enabled |-> FALSE,
       descr |-> IF d = "d12" THEN 64 ELSE 512, fifo |-> IF d = "d12" THEN 64 ELSE 0,
       halted |-> {}, naking |-> {}]
  /\ fast \in (IF D12 THEN {FALSE} ELSE BOOLEAN)
  /\ pc = PcForgets({"configuration", "wakeup"})
  /\ last = NoRequest

Handle(r) ==
  \/ GetStatus(r) \/ ClearFeature(r) \/ SetFeature(r) \/ SetAddress(r) \/ GetDescriptor(r)
  \/ GetConfiguration(r) \/ SetConfiguration(r) \/ GetInterface(r) \/ SetInterface(r)
  \/ NotServed(r)

DeviceNext == (\E r \in Requests : Handle(r)) \/ BusReset \/ Reconnect

DeviceSpec == DeviceInit /\ [][DeviceNext]_vars

---------------------------------------------------------------------------
(* The controller's registers and the flags stay within their values. *)
DeviceOK ==
  /\ usb.driver \in Drivers /\ usb.configuration \in 0..1 /\ usb.address \in 0..127
  /\ usb.descr \in {64, 512} /\ usb.fifo \in {0, 64, 512}
  /\ usb.halted \subseteq Ends /\ usb.naking \subseteq Ends
  /\ {usb.wakeup, usb.fullSpeed, usb.enabled, fast} \subseteq BOOLEAN
  /\ pc.configuration \in 0..1 /\ pc.sure \subseteq {"configuration", "wakeup"}
  /\ last.answer.is \in {"data", "done", "stall", "mute"}

(* What the PC was told holds of the box: its address; the configuration    *)
(* and wakeup, until a reset of which the code keeps nothing; endpoints     *)
(* that are enabled once it configured them and, on the PDIUSBD12, not      *)
(* before, with the packet size of the descriptor it read since the reset;  *)
(* what it halted does not pass data.                                       *)
BoxIsAsTold ==
  /\ usb.address = pc.address
  /\ "configuration" \in pc.sure =>
       /\ usb.configuration = pc.configuration
       /\ pc.configuration = 1 => usb.enabled
       /\ D12 /\ pc.configuration = 0 => ~usb.enabled
  /\ "wakeup" \in pc.sure => usb.wakeup = pc.wakeup
  /\ pc.packet # 0 => usb.fifo = pc.packet /\ pc.packet = SizeNow
  /\ pc.read # 0 => usb.fullSpeed = (~D12 /\ ~fast)
  /\ pc.halted = IF D12 THEN usb.halted ELSE usb.naking

(* And each answer agrees with what the PC knows, but for what the two      *)
(* devices do not do: the PDIUSBD12 never answers a            *)
(* CLEAR_FEATURE, the NET2270 says of any endpoint that it is halted, and   *)
(* does not refuse a class request.                                         *)
Refused(r) ==
  \/ r.class \/ r.req = "synch_frame"
  \/ r.to = "other"
  \/ r.req \in {"set_feature", "clear_feature"} /\ ~Wakeup(r) /\ ~Halt(r)
  \/ r.req = "get_descriptor" /\ r.value = 3
  \/ r.req = "set_configuration" /\ r.value = 2
  \/ r.req = "set_interface" /\ r.value = 1
Departs(r) == IF D12 THEN r.req = "clear_feature" 
              ELSE r.class \/ (r.req = "get_status" /\ r.to \in Ends)
AnsweredRightly ==
  LET r == last.request  a == last.answer IN
  r.req # "none" /\ ~Departs(r) =>
    /\ (a.is = "stall") = Refused(r)
    /\ a.is # "mute" /\ (a.is = "data" => r.dirin) /\ (a.is = "done" => ~r.dirin)
    /\ r.req = "get_configuration" /\ "configuration" \in pc.sure => a.value = pc.configuration
    /\ a.is = "data" /\ r.req = "get_status" =>
         CASE r.to = "device" -> "wakeup" \in pc.sure => (a.value = 3) = pc.wakeup
           [] r.to \in Ends   -> (a.value = 1) = (r.to \in pc.halted)
           [] OTHER           -> a.value = 0
    /\ a.is = "data" => a.size <= r.length

AsStandard == BoxIsAsTold /\ AnsweredRightly
=============================================================================
