----------------------------- MODULE FrontKeys -----------------------------
(***************************************************************************)
(* The keys of the front panel and the remote control, as three drivers    *)
(* read them from a serial line, front_dev_13_grid.c, front_dev_7seg.c and *)
(* relook300s/front_dev.c: front_getkey takes one byte per call and puts   *)
(* packets of two bytes together.  In the first two a front key takes two  *)
(* packets, its high and its low byte; any other key takes one.  The panel *)
(* is external: it sends a key again and again while it is held, and a     *)
(* release.  The UART has no FIFO, so a byte may be lost.                  *)
(***************************************************************************)
EXTENDS Integers, Sequences

CONSTANTS
  Panels,     \* the drivers: "13_grid", "7seg", "relook300s"
  Hands,      \* what a user may hold: a set of keys
  MaxLost,    \* the bytes the line may lose
  MaxSent     \* the packets the panel sends

VARIABLES
  panel,  \* the driver of this box
  line,   \* bytes sent and not yet read
  pack,   \* pack_buf, its first pack_cnt bytes
  high,   \* front_key: the high byte of a front key, or -1
  held,   \* the key the user holds
  sent,   \* history: keys the panel sent
  got,    \* history: keys front_getkey returned
  lost    \* history: bytes the line lost

frontVars == <<panel, line, pack, high, held, sent, got, lost>>

(* The first bytes of packets: of the two halves of a front key, of a front key  *)
(* in one, of a key of the remote control and of its release.                    *)
FRTKEY_H == 225   FRTKEY_L == 226
FRTKEY == 162   RMCREL == 175
RMCKEY == IF panel = "relook300s" THEN 161 ELSE 224

Split == panel # "relook300s"
Begins == {RMCKEY} \cup (IF Split THEN {FRTKEY_H, FRTKEY_L} ELSE {FRTKEY, RMCREL})

(* fntkeys and rmckeys, shortened; of a code found twice the first counts. *)
FntKeys ==
  CASE panel = "13_grid" ->
         << <<"key_front_power", <<16, 0>>>>, <<"key_front_up", <<64, 0>>>>,
            <<"key_front_p_up", <<80, 0>>>>, <<"key_front_left", <<0, 2>>>>,
            <<"key_front_ok", <<0, 32>>>>, <<"key_front_release", <<0, 0>>>> >>
    [] panel = "7seg" ->
         << <<"key_front_power", <<0, 247>>>>, <<"key_front_left", <<0, 127>>>>,
            <<"key_front_up", <<0, 223>>>>, <<"key_front_ok", <<0, 254>>>>,
            <<"key_front_p_up", <<0, 215>>>>, <<"key_front_release", <<0, 255>>>> >>
    [] OTHER ->
         << <<"key_front_power", 127>>, <<"key_front_left", 251>>,
            <<"key_front_up", 223>>, <<"key_front_ok", 191>>,
            <<"key_front_p_up", 95>>, <<"key_front_release", 255>> >>
RmcKeys ==
  CASE panel = "13_grid" -> << <<"key_power", 10>>, <<"key_9", 25>>, <<"key_release", 255>> >>
    [] panel = "7seg"    -> << <<"key_power", 10>>, <<"key_9", 25>>, <<"key_release", 255>> >>
    [] OTHER -> << <<"key_power", 10>>, <<"key_left", 0>>, <<"key_up", 0>>,
                   <<"key_release", 255>> >>

Null    == "key_null"
Ignored == "released"     \* a packet of RMCREL, which is no key

KeyFor(table, code) ==
  LET hits == {i \in DOMAIN table : table[i][2] = code}
  IN IF hits = {} THEN Null
     ELSE LET i == CHOOSE i \in hits : \A j \in hits : i <= j IN table[i][1]

Codes(table, k) == {table[i][2] : i \in {j \in DOMAIN table : table[j][1] = k}}
IsFront(k)  == Codes(FntKeys, k) # {}
Keys        == {k \in Hands : IsFront(k) \/ Codes(RmcKeys, k) # {}}
Releases    == {"key_release", "key_front_release"}
ReleasesOf(k) == IF IsFront(k) THEN {"key_front_release"}
                 ELSE {"key_release"} \cup (IF Split THEN {} ELSE {Ignored})

PacketsOf(k) ==
  IF k = Ignored THEN <<RMCREL, 0>>
  ELSE IF ~IsFront(k) THEN <<RMCKEY, CHOOSE c \in Codes(RmcKeys, k) : TRUE>>
  ELSE LET c == CHOOSE c \in Codes(FntKeys, k) : TRUE
       IN IF Split THEN <<FRTKEY_H, c[1], FRTKEY_L, c[2]>> ELSE <<FRTKEY, c>>

FrontInit ==
  /\ panel \in Panels
  /\ line = <<>> /\ pack = <<>> /\ high = 0
  /\ held = Null /\ sent = <<>> /\ got = <<>> /\ lost = 0

(* The packet the byte b completes, if it does. *)
Completes(b) == pack # <<>> /\ pack[1] \in Begins

(* What front_getkey returns for the byte b. *)
KeyAt(b) ==
  CASE pack = <<>>                         -> Null
    [] pack # <<>> /\ pack[1] = RMCKEY     -> KeyFor(RmcKeys, b)
    [] pack # <<>> /\ pack[1] = FRTKEY_L /\ Split /\ high >= 0
                                           -> KeyFor(FntKeys, <<high, b>>)
    [] pack # <<>> /\ pack[1] = FRTKEY /\ ~Split
                                           -> KeyFor(FntKeys, b)
    [] OTHER                               -> Null

(* A mutant: the high byte is kept for the next low one. *)
KeepsHigh(b) == IF pack # <<>> /\ pack[1] = FRTKEY_H THEN b ELSE high

(* front_key after the byte b *)
HighAfter(b) ==
  IF pack = <<>> \/ ~Split THEN high
  ELSE CASE pack[1] = FRTKEY_H -> b
         [] pack[1] = FRTKEY_L -> -1
         [] OTHER              -> high

(* front_tstc, and the byte of front_getc *)
Ready == line # <<>>
Byte  == Head(line)

(* front_getkey: a first byte that begins no packet is dropped. *)
GetKey ==
  LET b == Byte
  IN /\ Ready
     /\ line' = Tail(line)
     /\ pack' = IF Completes(b) THEN <<>> ELSE <<b>>
     /\ high' = HighAfter(b)
     /\ got' = IF KeyAt(b) = Null THEN got ELSE Append(got, KeyAt(b))
     /\ UNCHANGED <<panel, held, sent, lost>>

Key == KeyAt(Byte)

(* The keys a hand on k may go on to without a release of everything. *)
NextHeld(k) ==
  {k, Null} \cup CASE k = Null -> Keys
                   [] k \in {"key_front_power", "key_front_up"}
                        -> {"key_front_p_up"} \cap Keys
                   [] OTHER -> {}

(* One period of the panel: the user holds what they hold, or something else. *)
PanelSends ==
  /\ line = <<>> /\ Len(sent) < MaxSent
  /\ held' \in NextHeld(held)
  /\ IF held = Null /\ held' = Null
       THEN UNCHANGED <<line, sent, lost>>
       ELSE \E k \in IF held' # Null THEN {held'} ELSE ReleasesOf(held) :
              LET p == PacketsOf(k)
              IN /\ sent' = Append(sent, k)
                 /\ \/ line' = p /\ UNCHANGED lost
                    \/ /\ lost < MaxLost /\ lost' = lost + 1
                       /\ \E i \in 1..Len(p) :
                            line' = SubSeq(p, 1, i - 1) \o SubSeq(p, i + 1, Len(p))
  /\ UNCHANGED <<panel, pack, high, got>>

FrontTypeOK ==
  /\ panel \in Panels /\ Len(pack) <= 1 /\ high \in -1..255 /\ Len(line) <= 4
  /\ held \in Hands \cup {Null} /\ lost \in 0..MaxLost

(* What the panel sent, as a table can tell it: relook300s has the code 0 for  *)
(* four keys of the remote control, of which key_left is the first.            *)
Told(k) == IF panel = "relook300s" /\ k = "key_up" THEN "key_left" ELSE k
Heard == SelectSeq(sent, LAMBDA k : k # Ignored)

(* keys is Heard without some of its elements: each is found after the last. *)
Among(keys) ==
  LET place[i \in 0..Len(keys)] ==
        IF i = 0 THEN 0
        ELSE LET later == {j \in (place[i - 1] + 1)..Len(Heard) : Told(Heard[j]) = keys[i]}
             IN IF later = {} THEN Len(Heard) + 1
                ELSE CHOOSE j \in later : \A l \in later : j <= l
  IN place[Len(keys)] <= Len(Heard)

(* front_getkey: no key is made up, none comes twice or out of order, and a  *)
(* lost byte costs at most the key it belongs to and the one after it.  The  *)
(* exceptions are the first front key of a 13_grid, for front_key begins as  *)
(* 0: if the packet of its high byte is lost, the low byte may pass for a    *)
(* release; and relook300s's remote control, of which some keys have one     *)
(* code and one packet of release is ignored.                                *)
KeysSent ==
  LET Explains(keys) == Among(keys) /\ (line = <<>> =>
                                          Len(Heard) - Len(keys) <= 2 * lost)
  IN \/ Explains(got)
     \/ \E i \in DOMAIN got :
          /\ panel = "13_grid"
          /\ got[i] = "key_front_release" /\ \A j \in 1..(i - 1) : ~IsFront(got[j])
          /\ lost > 0
          /\ Explains(SubSeq(got, 1, i - 1) \o SubSeq(got, i + 1, Len(got)))
=============================================================================
