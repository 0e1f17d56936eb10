----------------------------- MODULE StartImage -----------------------------
(***************************************************************************)
(* board/ipbox/common/video.c and logo.c, and the video.c of the           *)
(* relook300s: the picture of the boot.  video_hw_init sets the encoder    *)
(* up, unpacks an image of type 1 into the OSD and sets its window; the    *)
(* command `logo' shows one of type 3 or 4, a frame of MPEG video, with    *)
(* the video decoder, whose microcode it loads.  The decoder is external:  *)
(* it executes a command when it likes, or never.  Memory is known by what *)
(* it holds; the colours of an image are those of Palette.                 *)
(***************************************************************************)
EXTENDS Integers, FiniteSetsExt, SequencesExt

CONSTANTS
  Boards,     \* "common", "relook300s"
  Images,     \* what CFG_VIDEO_STARTUP_IMAGE_ADDR may hold
  ImageRoom,  \* CFG_VIDEO_STARTUP_IMAGE_SIZE less the header
  RateBuffer, \* RATE_BUFFER_SIZE
  Palette     \* the values of a colour

PaletteLen == 2   \* 256 * 3 bytes, in the unit of the lengths of Images

StartSizes == /\ ImageRoom \in Nat /\ RateBuffer \in Nat /\ Palette \subseteq 0..255

VARIABLES
  image,   \* the board, the image, and which microcode is built in or in flash
  video,   \* the format, the window, the palette and what the OSD shows
  decoder, \* its microcode, whether it is write-protected, its command, its log
  step     \* where the code is, the commands to come, and those reported done

vars == <<image, video, decoder, step>>

---------------------------------------------------------------------------
(* Colours: C divides towards zero, so a remainder has the sign of its number *)

Div(a, b) == IF a < 0 THEN -((-a) \div b) ELSE a \div b
Rem(a, b) == a - b * Div(a, b)
Clip(v)   == IF v < 0 THEN 0 ELSE IF v > 255 THEN 255 ELSE v

Rounded(v) == Div(v, 256) + (IF Rem(v, 256) > 128 THEN 1 ELSE IF Rem(v, 256) < -128 THEN -1 ELSE 0)

(* rgb_to_ycbcr: six bits of luminance and four of each colour difference. *)
Luma(r, g, b)  == Clip(Rounded(77 * r + 150 * g + 29 * b))
Blue(r, g, b)  == Clip(Rounded(131 * b - 44 * r - 87 * g) + 128)
Red(r, g, b)   == Clip(Rounded(131 * r - 110 * g - 21 * b) + 128)
Narrow(v, n)   == Min({v \div n + (IF v % n > n \div 2 THEN 1 ELSE 0), 256 \div n - 1})
ToYCbCr(r, g, b) == <<Narrow(Luma(r, g, b), 4), Narrow(Blue(r, g, b), 16), Narrow(Red(r, g, b), 16)>>

---------------------------------------------------------------------------
Height(fmt) == IF fmt = "ntsc" THEN 480 ELSE 576
NoWindow    == [rows |-> 0, cols |-> 0]

Init ==
  /\ image \in [board : Boards, img : Images, builtin : BOOLEAN, inflash : BOOLEAN]
  /\ image.img.type = 1 => image.builtin /\ image.inflash   \* where it does not matter
  /\ video = [fmt |-> "pal", denc |-> "none", window |-> NoWindow, lut |-> "unset",
              osd |-> "unset", frame |-> "none"]
  /\ decoder = [ucode |-> "old", protected |-> TRUE, pending |-> FALSE, cmd |-> 0, log |-> <<>>]
  /\ step = [pc |-> "off", cmds |-> <<>>, done |-> <<>>]

Img == image.img

(* video_hw_init: the format of the environment, which is "pal" without one. *)
HwInit ==
  /\ step.pc = "off"
  /\ \E env \in {"none", "ntsc", "pal"} :
       LET fmt == IF env = "ntsc" THEN "ntsc" ELSE "pal"
       IN  video' = [video EXCEPT !.fmt = fmt, !.denc = fmt]
  /\ step' = [step EXCEPT !.pc = "draw"]
  /\ UNCHANGED <<image, decoder>>

(* A mutant of Checks: the length is not compared. *)
ChecksSum == Img.crc

(* The length and the checksum of the header. *)
Checks == Img.len <= ImageRoom /\ Img.crc

(* gunzip of what follows the palette; an image shorter than that has a length *)
(* below zero.                                                                 *)
Unpacked == IF Img.len < PaletteLen THEN "unset"
            ELSE IF Img.whole THEN "image" ELSE "part"

(* video_draw_startup_image: what it draws, the board deciding where type 3 ends. *)
TypesOf(board) == IF board = "relook300s" THEN {1} ELSE {1, 3}
ClearsScreen   == ~Checks \/ Img.type = 3 \/ Img.type \notin TypesOf(image.board)

Draw ==
  /\ step.pc = "draw"
  /\ video' = IF ClearsScreen THEN [video EXCEPT !.lut = "black", !.osd = "black"]
              ELSE [video EXCEPT !.lut = "image", !.osd = Unpacked]
  /\ step' = [step EXCEPT !.pc = "size"]
  /\ UNCHANGED <<image, decoder>>

(* video_change_size(0): the fields of the header are 8 and 9 bits wide. *)
FullScreen(fmt) == [cols |-> (720 \div 4) % 2^8, rows |-> (Height(fmt) \div 2) % 2^9]

ChangeSize ==
  /\ step.pc = "size"
  /\ video' = [video EXCEPT !.window = FullScreen(video.fmt)]
  /\ step' = [step EXCEPT !.pc = "on"]
  /\ UNCHANGED <<image, decoder>>

---------------------------------------------------------------------------
(* video_draw_startup_iframe: the microcode that is loaded.  Without one built in *)
(* the buffer is not initialised, and may begin as microcode does.                *)

FlashUcode == IF image.inflash THEN {"flash"} ELSE {"return"}

UcodeOf ==
  IF Img.type = 3 THEN IF image.builtin THEN {"builtin"} ELSE {"stack"} \cup FlashUcode
  ELSE IF Img.type = 4 THEN IF Img.ucode = "none" THEN FlashUcode ELSE {"image"}
  ELSE {"return"}

(* load_microcode, with verify_microcode: if a word differs the store stays open; *)
(* mpeg_showiframe_c does not look at what they return.                           *)
Commands == <<9, 8, 9, 14>>

Logo ==
  /\ step.pc = "on"
  /\ \E u \in UcodeOf, verified \in BOOLEAN :
       IF u = "return"
       THEN /\ step' = [step EXCEPT !.pc = "end"]
            /\ UNCHANGED decoder
       ELSE /\ step' = [step EXCEPT !.pc = "wait", !.cmds = Commands]
            /\ decoder' = [decoder EXCEPT !.ucode = IF verified THEN u ELSE "damaged",
                                          !.protected = verified]
  /\ UNCHANGED <<image, video>>

Cmd == Head(step.cmds)
ResetBuffer == 8    \* DECOD_COM_RES_VID_BUF is 8 << 1, which uCmd never is

Issue(c) == decoder' = [decoder EXCEPT !.cmd = c, !.pending = TRUE]

(* The command returned: 0, or -1, which mpeg_showiframe_c does not look at. *)
Returned(ok) ==
  step' = [step EXCEPT !.cmds = Tail(@), !.done = IF ok THEN Append(@, Cmd) ELSE @,
                       !.pc = IF Tail(step.cmds) = <<>> THEN "show" ELSE "wait"]

(* mepg_exec_cmd, from a wait_cmd_done to the next; a wait ends when no command is *)
(* pending, or after its retries.                                                  *)
ExecWait ==
  /\ step.pc = "wait"
  /\ IF decoder.pending THEN Returned(FALSE) /\ UNCHANGED decoder
     ELSE Issue(Cmd) /\ step' = [step EXCEPT !.pc = "issued"]
  /\ UNCHANGED <<image, video>>

ExecIssued ==
  /\ step.pc = "issued"
  /\ IF decoder.pending THEN step' = [step EXCEPT !.pc = "force"] ELSE Returned(TRUE)
  /\ UNCHANGED <<image, video, decoder>>

(* A mutant of Reissue: the forced command is taken for the one issued. *)
IssuesNothing == UNCHANGED decoder

(* Once the forced reset was taken the command is issued again. *)
Reissue == Issue(Cmd)

(* VID_CMD, then 0x8200 into the instruction address. *)
ExecForce ==
  /\ step.pc = "force"
  /\ decoder' = [decoder EXCEPT !.cmd = ResetBuffer, !.pending = TRUE]
  /\ step' = [step EXCEPT !.pc = "forced"]
  /\ UNCHANGED <<image, video>>

ExecForced ==
  /\ step.pc = "forced"
  /\ IF decoder.pending THEN Returned(FALSE) /\ UNCHANGED decoder
     ELSE Reissue /\ Returned(TRUE)
  /\ UNCHANGED <<image, video>>

(* The decoder takes the command that is pending, sooner or later or never. *)
Executes ==
  /\ decoder.pending
  /\ decoder' = [decoder EXCEPT !.pending = FALSE, !.log = Append(@, decoder.cmd)]
  /\ UNCHANGED <<image, video, step>>

(* The frame four times behind each other into the rate buffer, and decoding on. *)
Show ==
  /\ step.pc = "show"
  /\ video' = [video EXCEPT !.frame = IF Img.len = 0 THEN @
                                      ELSE IF Img.len * 4 > RateBuffer THEN "behind" ELSE "image"]
  /\ step' = [step EXCEPT !.pc = "end"]
  /\ UNCHANGED <<image, decoder>>

Next == \/ HwInit \/ Draw \/ ChangeSize \/ Logo \/ ExecWait \/ ExecIssued \/ ExecForce
        \/ ExecForced \/ Executes \/ Show

---------------------------------------------------------------------------
StartTypeOK ==
  /\ image.board \in Boards /\ Img \in Images
  /\ video.osd \in {"unset", "black", "image", "part"}
  /\ decoder.cmd \in {0, 8, 9, 14}
  /\ step.pc \in {"off", "draw", "size", "on", "wait", "issued", "force", "forced", "show", "end"}

IsSubSeq(s, t) ==
  \E f \in [DOMAIN s -> DOMAIN t] :
    /\ \A i, j \in DOMAIN s : i < j => f[i] < f[j]
    /\ \A i \in DOMAIN s : s[i] = t[f[i]]

(* An intact image of the OSD is on the screen with its palette, over all of the  *)
(* format's lines, and the screen is black if the image is of no known type or    *)
(* its header is wrong; one whose data do not unpack, or shorter than a palette,  *)
(* is not cleared (video_draw_startup_image, video_change_size, video_set_lut).   *)
(* Of an image of type 3 or 4 whose four copies fit the rate buffer nothing is    *)
(* written behind it.  Every command mepg_exec_cmd reports done the decoder has   *)
(* executed in that order, unless one still is pending.                           *)
ShowsImage ==
  /\ step.pc \in {"on", "end"} =>
       /\ video.osd = "black" <=> video.lut = "black"
       /\ Img.type = 1 /\ Img.crc /\ Img.len <= ImageRoom /\ Img.whole /\ Img.len >= PaletteLen
            => video.osd = "image" /\ video.lut = "image"
       /\ Img.type # 1 \/ ~Img.crc \/ Img.len > ImageRoom => video.osd = "black"
       /\ 4 * video.window.cols = 720 /\ 2 * video.window.rows = Height(video.denc)
  /\ video.frame = "behind" => Img.len * 4 > RateBuffer
  /\ ~decoder.pending => IsSubSeq(step.done, decoder.log)
  /\ step.pc = "off" =>
       \A r, g, b \in Palette :
         LET c == ToYCbCr(r, g, b)
         IN  /\ c[1] \in 0..63 /\ c[2] \in 0..15 /\ c[3] \in 0..15
             /\ 4 * c[1] - Luma(r, g, b) \in -3..1
             /\ 16 * c[2] - Blue(r, g, b) \in -15..7 /\ 16 * c[3] - Red(r, g, b) \in -15..7
=============================================================================
