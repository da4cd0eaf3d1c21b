-------------------------------- MODULE Ps2 --------------------------------
(***************************************************************************)
(* The PS/2 controller, which keyboard and mouse share, and what reads it: *)
(* keyboard_handler, mouse_handler and mouse_init (keyboard.c, mouse.c).   *)
(*                                                                         *)
(* There is one output buffer for both devices and the answers of the      *)
(* controller.  A read empties it, and a read of the empty buffer gives    *)
(* the last byte again.  A byte that arrives raises the interrupt of its   *)
(* device; when it is read by polling, the interrupt controller may or may *)
(* not have forgotten the interrupt.  mouse_init polls, with the keyboard  *)
(* interrupt enabled.                                                      *)
(***************************************************************************)
EXTENDS Integers, Sequences, FiniteSets

CONSTANTS
  Key, Delta,               \* the keys, the values of the second and third byte of a packet
  MaxTouches, MaxPackets    \* bounds: how often a key or the mouse is touched

ASSUME Ps2Assumption ==
  /\ Key \subseteq {"lshift", "rshift", "lctrl", "rctrl"}
  /\ Delta \subseteq 0 .. 255 /\ MaxTouches \in Nat /\ MaxPackets \in Nat

VARIABLES
  \* the hardware
  line,         \* the bytes on their way from each source
  data, full,   \* the output buffer
  irq1, irq12, unmasked,
  config,       \* the configuration byte: interrupts in bits 0 and 1, keyboard off in bit 4
  plugged, reporting,
  held,         \* the keys that are down
  \* the drivers
  kbd_shift, kbd_ctrl, pkt,
  \* mouse_init: the command sent last, where ack_wait is, the attempts that failed
  cmd, await, tries,
  \* what happened so far
  keys, packets,
  disturbed,    \* a key or the mouse was touched before mouse_init was done
  stray         \* bytes read by code they were not meant for

hardware == <<line, data, full, irq1, irq12, unmasked, config, plugged, reporting>>
user == <<held, keys, packets, disturbed>>
drivers == <<kbd_shift, kbd_ctrl, pkt>>
init == <<cmd, await, tries>>
ps2Vars == <<hardware, user, drivers, init, stray>>

Source == {"keyboard", "mouse", "controller"}
\* A byte, its source, and for the bytes of a packet its place in it.
Byte(s, v, n) == [source |-> s, v |-> v, n |-> n]
Codes(s, codes) == [i \in DOMAIN codes |-> Byte(s, codes[i], 0)]

Bit(b, p) == (b \div p) % 2 = 1
ACK == 250
EXT == 224
IsAnswer(b) == b \in {250, 254, 170, 252}

MakeCode(k) == CASE k = "lshift" -> <<42>> [] k = "rshift" -> <<54>>
                 [] k = "lctrl" -> <<29>> [] k = "rctrl" -> <<EXT, 29>>
BreakCode(k) ==
  LET make == MakeCode(k)
  IN  [i \in DOMAIN make |-> IF make[i] = EXT THEN EXT ELSE make[i] + 128]
---------------------------------------------------------------------------
(* The user and the devices. *)

Done == cmd = "done"

Touch(k) ==
  /\ keys < MaxTouches /\ keys' = keys + 1 /\ disturbed' = (disturbed \/ ~Done)
  /\ \/ k \notin held /\ held' = held \cup {k}
        /\ line' = [line EXCEPT !.keyboard = @ \o Codes("keyboard", MakeCode(k))]
     \/ k \in held /\ held' = held \ {k}
        /\ line' = [line EXCEPT !.keyboard = @ \o Codes("keyboard", BreakCode(k))]
  /\ UNCHANGED <<data, full, irq1, irq12, unmasked, config, plugged, reporting,
                 packets, drivers, init, stray>>

Packet(dx, dy) == <<Byte("mouse", 8, 1), Byte("mouse", dx, 2), Byte("mouse", dy, 3)>>

MoveMouse(dx, dy) ==
  /\ packets < MaxPackets /\ plugged /\ reporting
  /\ packets' = packets + 1 /\ disturbed' = (disturbed \/ ~Done)
  /\ line' = [line EXCEPT !.mouse = @ \o Packet(dx, dy)]
  /\ UNCHANGED <<data, full, irq1, irq12, unmasked, config, plugged, reporting,
                 held, keys, drivers, init, stray>>

Coming(s) == line[s] # <<>> /\ (s = "keyboard" => ~Bit(config, 16))
Raises1(s) == s # "mouse" /\ Bit(config, 1)
Raises12(s) == s = "mouse" /\ Bit(config, 2)

\* A byte takes longer to arrive than an interrupt that is not masked to be taken.
Load(s) ==
  /\ ~full /\ ~irq1 /\ ~(irq12 /\ unmasked) /\ Coming(s)
  /\ data' = Head(line[s]) /\ full' = TRUE
  /\ line' = [line EXCEPT ![s] = Tail(@)]
  /\ irq1' = Raises1(s) /\ irq12' = (irq12 \/ Raises12(s))
  /\ UNCHANGED <<unmasked, config, plugged, reporting, user, drivers, init, stray>>
---------------------------------------------------------------------------
(* keyboard_handler *)

\* Mutant: the right shift key is not let go of.
ModifiersOneShift(code) ==
  /\ kbd_shift' = IF code \in {42, 54} THEN TRUE
                  ELSE IF code = 170 THEN FALSE ELSE kbd_shift
  /\ kbd_ctrl' = IF code = 29 THEN TRUE ELSE IF code = 157 THEN FALSE ELSE kbd_ctrl

Modifiers(code) ==
  /\ kbd_shift' = IF code \in {42, 54} THEN TRUE
                  ELSE IF code \in {170, 182} THEN FALSE ELSE kbd_shift
  /\ kbd_ctrl' = IF code = 29 THEN TRUE ELSE IF code = 157 THEN FALSE ELSE kbd_ctrl

Plain ==
  /\ irq1 /\ data.v # EXT
  /\ Modifiers(data.v)
  /\ irq1' = FALSE /\ full' = FALSE
  /\ stray' = stray \cup (IF data.source = "mouse" THEN {"mouse"} ELSE {})
  /\ UNCHANGED <<line, data, irq12, unmasked, config, plugged, reporting, user, pkt, init>>

\* The prefix: the byte behind it is read at once, before it has arrived.
ExtendedEarly ==
  /\ irq1 /\ data.v = EXT
  /\ irq1' = FALSE /\ full' = FALSE /\ stray' = stray \cup {"extended"}
  /\ UNCHANGED <<line, data, irq12, unmasked, config, plugged, reporting, user, drivers, init>>

\* Or it was there, or a byte of the mouse, whose interrupt comes all the same.
Extended(s, again) ==
  /\ irq1 /\ data.v = EXT /\ Coming(s)
  /\ data' = Head(line[s]) /\ line' = [line EXCEPT ![s] = Tail(@)] /\ full' = FALSE
  /\ irq1' = (again /\ Raises1(s)) /\ irq12' = (irq12 \/ (again /\ Raises12(s)))
  /\ stray' = stray \cup (IF again \/ s # "keyboard" THEN {"extended"} ELSE {})
                    \cup (IF s = "mouse" THEN {"mouse"} ELSE {})
  /\ UNCHANGED <<unmasked, config, plugged, reporting, user, drivers, init>>
---------------------------------------------------------------------------
(* mouse_handler *)

\* Mutant: the answers to commands are taken for the first byte of a packet.
OutOfStepTrusting(b) == pkt = <<>> /\ ~Bit(b, 8)

OutOfStep(b) == pkt = <<>> /\ (IsAnswer(b) \/ ~Bit(b, 8))

MouseHandler ==
  /\ irq12 /\ unmasked /\ ~irq1
  /\ irq12' = FALSE /\ full' = FALSE
  /\ pkt' = IF OutOfStep(data.v) THEN pkt
            ELSE IF Len(pkt) = 2 THEN <<>> ELSE Append(pkt, data)
  /\ stray' = stray \cup (IF full /\ data.source = "keyboard" THEN {"keyboard"} ELSE {})
  /\ UNCHANGED <<line, data, irq1, unmasked, config, plugged, reporting, user,
                 kbd_shift, kbd_ctrl, init>>
---------------------------------------------------------------------------
(* mouse_init *)

To(c, p, t) == cmd' = c /\ await' = p /\ tries' = t
Command(c) == cmd = c /\ await = "send" /\ ~irq1
Devices == <<data, full, irq1, irq12>>

\* Mutant: no answer is waited for, since none comes.
EnableAuxHasty ==
  /\ Command("A8") /\ To("20", "send", 0)
  /\ UNCHANGED <<hardware, user, drivers, stray>>

\* The command to switch the port of the mouse on; it has no answer.
EnableAux ==
  /\ Command("A8") /\ To("A8", "poll", 0)
  /\ UNCHANGED <<hardware, user, drivers, stray>>

AskConfig ==
  /\ Command("20") /\ To("20", "poll", 0)
  /\ line' = [line EXCEPT !.controller = Append(@, Byte("controller", config, 0))]
  /\ UNCHANGED <<Devices, unmasked, config, plugged, reporting, user, drivers, stray>>

\* mouse_write_cmd: a mouse answers, and F4 makes it report its movements.
Send(c) ==
  /\ c \in {"F6", "F4"} /\ Command(c) /\ To(c, "poll", tries)
  /\ line' = IF plugged THEN [line EXCEPT !.mouse = Append(@, Byte("mouse", ACK, 0))] ELSE line
  /\ reporting' = (c = "F4")
  /\ UNCHANGED <<Devices, unmasked, config, plugged, user, drivers, stray>>

\* What follows the answer r, -1 when none came in time.
Typical == 101
WithMouse(status) ==
  LET on == IF Bit(status, 2) THEN status ELSE status + 2
  IN  IF Bit(on, 32) THEN on - 32 ELSE on

Retry(r) == cmd \in {"F6", "F4"} /\ r # ACK /\ tries < 2

\* Mutant: the attempts are not counted.
StillTrying == tries

Tried == tries + 1

Answered(r) ==
  /\ config' = IF cmd = "20" THEN WithMouse(IF r < 0 THEN Typical ELSE r) ELSE config
  /\ IF Retry(r) THEN To(cmd, "send", Tried)
     ELSE CASE cmd = "A8" -> To("20", "send", 0)
            [] cmd = "20" -> To("F6", "send", 0)
            [] cmd = "F6" -> To("F4", "send", 0)
            [] cmd = "F4" -> To("drain", "poll", 0)
            [] cmd = "drain" -> To(IF r < 0 THEN "done" ELSE "drain", "poll", 0)
  /\ unmasked' = (unmasked \/ (cmd = "drain" /\ r < 0))

\* ack_wait, and the loop that drains the buffer: between the look at the status
\* and the read the handler of the keyboard may take the byte.
See ==
  /\ ~Done /\ await = "poll" /\ full
  /\ To(cmd, "read", tries)
  /\ UNCHANGED <<hardware, user, drivers, stray>>

Read(forget) ==
  /\ await = "read" /\ Answered(data.v) /\ full' = FALSE
  /\ irq1' = (irq1 /\ ~forget) /\ irq12' = (irq12 /\ ~forget)
  /\ stray' = stray \cup (IF data.source = "keyboard" THEN {"keyboard"} ELSE {})
  /\ UNCHANGED <<line, data, plugged, reporting, user, drivers>>

\* 100 ms have passed.
TimeOut ==
  /\ ~Done /\ await = "poll" /\ ~full /\ ~irq1
  /\ Answered(-1)
  /\ UNCHANGED <<line, Devices, plugged, reporting, user, drivers, stray>>

MouseInit ==
  \/ EnableAux \/ AskConfig
  \/ \E c \in {"F6", "F4"} : Send(c)
  \/ See \/ TimeOut
  \/ \E forget \in BOOLEAN : Read(forget)
---------------------------------------------------------------------------
\* A key hit before keyboard_init leaves its byte in the buffer; its interrupt is lost.
Ps2Init ==
  /\ line = [s \in Source |-> <<>>]
  /\ data = Byte("bios", 30, 0) /\ full \in BOOLEAN
  /\ irq1 = FALSE /\ irq12 = FALSE /\ unmasked = FALSE
  /\ config = Typical /\ plugged \in BOOLEAN /\ reporting = FALSE
  /\ held = {} /\ keys = 0 /\ packets = 0 /\ disturbed = FALSE
  /\ kbd_shift = FALSE /\ kbd_ctrl = FALSE /\ pkt = <<>>
  /\ cmd = "A8" /\ await = "send" /\ tries = 0 /\ stray = {}

Handlers ==
  \/ Plain \/ ExtendedEarly
  \/ \E s \in Source, again \in BOOLEAN : Extended(s, again)
  \/ MouseHandler

Ps2Next ==
  \/ \E k \in Key : Touch(k)
  \/ \E dx, dy \in Delta : MoveMouse(dx, dy)
  \/ \E s \in Source : Load(s)
  \/ Handlers \/ MouseInit

Fairness == WF_ps2Vars(Handlers) /\ WF_ps2Vars(MouseInit)
Ps2Spec == Ps2Init /\ [][Ps2Next]_ps2Vars /\ Fairness
---------------------------------------------------------------------------
Quiet == line.keyboard = <<>> /\ ~irq1 /\ ~(full /\ data.source = "keyboard")

\* Once the handler has caught up with the keyboard, Shift is on only while a shift key
\* is down and Ctrl exactly while the left one is, as long as mouse_init took no byte
\* of the keyboard and no prefix was parted from the byte behind it.
ModifiersFollow ==
  Quiet /\ "keyboard" \notin stray =>
    /\ kbd_shift => held \cap {"lshift", "rshift"} # {}
    /\ "extended" \notin stray => (kbd_ctrl <=> "lctrl" \in held)

\* Whatever the BIOS left in the buffer and however late the answers come, mouse_init
\* leaves the interrupt of the keyboard and the keyboard itself on, if it is not touched
\* meanwhile.
KeyboardStaysOn == ~disturbed => Bit(config, 1) /\ ~Bit(config, 16)

\* The bytes of a packet are gathered in their places (mouse.c:84: one byte that is none
\* of the packet and the cursor jumps), if nothing is touched during mouse_init and no
\* byte of the mouse is read as the second half of a key.
PacketsFramed ==
  ~disturbed /\ "mouse" \notin stray =>
    \A i \in DOMAIN pkt : pkt[i].source = "mouse" /\ pkt[i].n = i

\* mouse_init comes to an end, with and without a mouse, once the devices are left alone.
InitEnds == <>Done
=============================================================================
