------------------------------ MODULE BootMenu ------------------------------
(***************************************************************************)
(* The users of the front keys: the boot menu (cmd_bootmenu.c), which      *)
(* waits for a key held long enough or for a combination, the menus that   *)
(* select a video mode or a model (vmode_Select.c, mIDSelect.c), and the   *)
(* two ways to wait for a key of front.c.                                  *)
(***************************************************************************)
EXTENDS FrontKeys

CONSTANTS
  Commands,   \* dgs_bootmenu_cmds: records of pattern, repeat and cmd
  MAX_KEY,    \* the keys the boot menu remembers
  Timeout,    \* of the boot menu, in periods of the panel
  Entries,    \* entries of a selection menu: vmodeMax + 1, mIDmax + 1
  Modes       \* what runs: "menu", "select", "waitkey"

MenuSizes ==
  /\ MAX_KEY \in Nat \ {0} /\ Timeout \in Nat \ {0} /\ Entries \in Nat \ {0}
  /\ \A i \in DOMAIN Commands : Commands[i].repeat \in Nat

VARIABLES
  mode,     \* what runs
  presskey, \* dgs_bootmenu: the keys, the latest first
  quiet,    \* dgs_bootmenu: periods since the last key or the start
  result,   \* the command executed, how a selection ended, the key returned;
            \* "none" before that
  oldkey,   \* front_singlekey, front_waitkey: the key whose release is awaited
  num       \* vmodeNum, mIDnum, counted from 0

vars == <<frontVars, mode, presskey, quiet, result, oldkey, num>>

Least(a, b) == IF a < b THEN a ELSE b

(* A mutant of Clamp: the last entry is passed. *)
ClampsBelow(n) == IF n < 0 THEN 0 ELSE n

(* An entry number between the first and the last. *)
Clamp(n) == IF n < 0 THEN 0 ELSE Least(n, Entries - 1)

Init ==
  /\ FrontInit
  /\ mode \in Modes
  /\ presskey = [i \in 1..MAX_KEY |-> Null]
  /\ quiet = 0 /\ result = "none" /\ oldkey = Null /\ num = 0

Runs(m)    == mode = m /\ result = "none"
Returns(r) == result' = r
GoesOn     == UNCHANGED result

---------------------------------------------------------------------------
(* dgs_bootmenu *)

Repeat(c) == Least(c.repeat, MAX_KEY)

(* The keys of a repeated key, or of a combination, the latest first. *)
Wanted(c) == IF c.repeat > 0 THEN [i \in 1..Repeat(c) |-> c.pattern[1]]
                             ELSE c.pattern

(* A mutant: one repetition less is enough. *)
MatchesEarly(keys, c) ==
  SubSeq(keys, 1, Len(Wanted(c)) - 1) = SubSeq(Wanted(c), 1, Len(Wanted(c)) - 1)

Matches(keys, c) == SubSeq(keys, 1, Len(Wanted(c))) = Wanted(c)

First(keys) == {i \in DOMAIN Commands :
                  Matches(keys, Commands[i]) /\ \A j \in 1..(i - 1) :
                                                  ~Matches(keys, Commands[j])}

MenuKey ==
  /\ Runs("menu") /\ GetKey /\ Key # Null
  /\ presskey' = <<Key>> \o SubSeq(presskey, 1, MAX_KEY - 1)
  /\ IF First(presskey') = {}
       THEN quiet' = 0 /\ GoesOn
       ELSE /\ \E i \in First(presskey') : Returns(Commands[i].cmd)
            /\ UNCHANGED quiet
  /\ UNCHANGED <<mode, oldkey, num>>

MenuTimeout ==
  /\ Runs("menu") /\ line = <<>> /\ quiet >= Timeout
  /\ Returns("menu_timeout")
  /\ UNCHANGED <<frontVars, mode, presskey, quiet, oldkey, num>>

(* ESC on the console; other characters are read and dropped. *)
SerialBreak ==
  /\ Runs("menu") /\ line = <<>>
  /\ Returns("menu_serialbreak")
  /\ UNCHANGED <<frontVars, mode, presskey, quiet, oldkey, num>>

---------------------------------------------------------------------------
(* do_vmode_select, do_midselect: the loop around front_singlekey.         *)

Downs == {"key_front_left"}
Ups   == {"key_front_up"}
Ok    == "key_front_ok"
Power == {"key_power", "key_front_power"}

Moved(n, k) ==
  CASE k \in Downs  -> Clamp(n - 1)
    [] k \in Ups    -> Clamp(n + 1)
    [] k = "key_9"  -> Clamp(9 - 1)
    [] OTHER        -> n

(* A mutant of SingleKeyReturns: any key returns the one before it. *)
ReturnsAtAnyKey == oldkey # Null /\ Key # Null

(* front_singlekey: the last key before a release. *)
SingleKeyReturns == oldkey # Null /\ Key \in Releases

SingleKeyGoesOn ==
  /\ Runs("select") /\ GetKey /\ Key # Null /\ ~SingleKeyReturns
  /\ oldkey' = Key
  /\ UNCHANGED <<mode, presskey, quiet, result, num>>

Choose ==
  /\ Runs("select") /\ GetKey /\ SingleKeyReturns
  /\ oldkey' = Null
  /\ CASE oldkey = Ok       -> Returns("saved")
       [] oldkey \in Power  -> Returns("power")
       [] OTHER             -> GoesOn
  /\ num' = Moved(num, oldkey)
  /\ UNCHANGED <<mode, presskey, quiet>>

---------------------------------------------------------------------------
(* front_waitkey for OK or power: once a key is there, its release is       *)
(* awaited without the timeout.                                             *)
WaitKeys == {Ok} \cup Power

WaitKeyReturns == oldkey # Null /\ Key \in Releases

WaitKey ==
  /\ Runs("waitkey") /\ GetKey /\ Key # Null
  /\ IF WaitKeyReturns
       THEN Returns(oldkey) /\ UNCHANGED oldkey
       ELSE /\ oldkey' = IF oldkey = Null /\ Key \in WaitKeys THEN Key ELSE oldkey
            /\ GoesOn
  /\ UNCHANGED <<mode, presskey, quiet, num>>

WaitTimeout ==
  /\ Runs("waitkey") /\ line = <<>> /\ oldkey = Null
  /\ Returns(Null)
  /\ UNCHANGED <<frontVars, mode, presskey, quiet, oldkey, num>>

---------------------------------------------------------------------------
(* A byte that completes no key. *)
NoKey ==
  /\ result = "none" /\ GetKey /\ Key = Null
  /\ UNCHANGED <<mode, presskey, quiet, result, oldkey, num>>

Period ==
  /\ result = "none" /\ PanelSends
  /\ mode = "menu" => quiet < Timeout
  /\ quiet' = IF mode = "menu" THEN quiet + 1 ELSE quiet
  /\ UNCHANGED <<mode, presskey, result, oldkey, num>>

Next ==
  \/ MenuKey \/ MenuTimeout \/ SerialBreak
  \/ SingleKeyGoesOn \/ Choose
  \/ WaitKey \/ WaitTimeout
  \/ NoKey \/ Period

Spec == Init /\ [][Next]_vars

---------------------------------------------------------------------------
(* Every variable has its type. *)
TypeOK ==
  /\ FrontTypeOK /\ Len(sent) <= MaxSent
  /\ mode \in Modes
  /\ Len(presskey) = MAX_KEY /\ quiet \in 0..Timeout
  /\ num \in 0..(Entries - 1)

(* The keys the panel sent, as the reference of what a user typed: the      *)
(* prefix of n keys ends with what the command c asks for.                  *)
Typed(n, c) ==
  LET want == Wanted(c)
  IN n >= Len(want) /\ \A i \in 1..Len(want) : sent[n - i + 1] = want[i]

TypedBefore(n) == \E m \in 1..n, i \in DOMAIN Commands : Typed(m, Commands[i])

(* dgs_bootmenu, on a line that loses nothing: the command executed is the  *)
(* first of the table that the keys so far ask for, as soon as they do; and *)
(* what asks for nothing executes nothing.  On any line a user who holds a  *)
(* key is not timed out: keys, repeated ones too, start the timeout again   *)
(* (cmd_bootmenu.c:104).                                                    *)
MenuRecognises ==
  /\ lost = 0 /\ mode = "menu" =>
       \/ /\ result \in {"none", "menu_timeout", "menu_serialbreak"}
          /\ ~TypedBefore(Len(got))
       \/ \E i \in DOMAIN Commands :
            /\ result = Commands[i].cmd
            /\ Typed(Len(sent), Commands[i]) /\ ~TypedBefore(Len(sent) - 1)
            /\ \A j \in 1..(i - 1) : ~Typed(Len(sent), Commands[j])
  /\ result = "menu_timeout" /\ Len(sent) >= Timeout =>
       \E i \in (Len(sent) - Timeout + 1)..Len(sent) : sent[i] \in Releases

(* The entry a user has chosen after n packets: each press counts once, as   *)
(* the last key before its release.                                          *)
Chosen ==
  LET f[n \in 0..Len(sent)] ==
        IF n = 0 THEN 0
        ELSE IF sent[n] \in Releases THEN Moved(f[n - 1], sent[n - 1])
        ELSE f[n - 1]
  IN f[Len(sent)]

(* front_singlekey, front_waitkey and their menus, on a line that loses      *)
(* nothing: a press counts once however long the key is held, what is saved  *)
(* is what the presses chose, and when a key is returned no key is held, so  *)
(* that whoever waits for a key next does not see it again.                  *)
PressCountsOnce ==
  lost = 0 =>
    /\ mode = "select" /\ line = <<>> => num = Chosen
    /\ result = "saved" => sent[Len(sent) - 1] = Ok
    /\ mode # "menu" /\ result \notin {"none", Null} => held = Null
=============================================================================
