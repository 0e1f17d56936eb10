------------------------------ MODULE MCUsbD12 ------------------------------
(* Small instances of UsbD12: a host that only enumerates and may give a       *)
(* transfer up, and one that downloads a file that fits and one that does not. *)
EXTENDS UsbD12

MCFiles  == {"large", "huge"}
MCSize   == [large |-> 2, huge |-> 3]
Enumerates ==
    [files |-> {}, kinds |-> {"device", "config", "vendor", "short", "set", "clear", "reserved", "long"},
     wanted |-> [device |-> {1, 2, 6}, config |-> {6}, vendor |-> {6}], aborts |-> 1]
Downloads ==
    [files |-> MCFiles, kinds |-> {"config"},
     wanted |-> [device |-> {}, config |-> {3}, vendor |-> {}], aborts |-> 0]
MCHosts  == {Enumerates, Downloads}
MCClobbers == {Downloads}
=============================================================================
