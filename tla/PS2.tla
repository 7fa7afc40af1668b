-------------------------------- MODULE PS2 --------------------------------
(***************************************************************************)
(* The PS/2 devices, src/drivers/ps2mouse.cpp and ps2keyboard.cpp: the     *)
(* initialisation of the mouse, which polls the controller with interrupts *)
(* disabled, and the two interrupt handlers, which take one byte each from *)
(* the one output buffer the devices share.  The controller and the latch  *)
(* of the interrupt controller are external, modelled as the code uses     *)
(* them.  init() may be disturbed, or not, which the first state decides:  *)
(* by a key pressed in its midst, an answer that comes too late or never,  *)
(* an interrupt request that stays latched although its byte was polled.   *)
(***************************************************************************)
EXTENDS Integers, Sequences, FiniteSets

CONSTANTS
  SCREEN_W, SCREEN_H,   \* 1280, 720
  Packets,              \* what the mouse reports: <<flags, dx, dy>>, as bytes
  Scancodes,            \* what the keyboard sends
  Configs,              \* the configuration byte the boot loader may leave
  MaxSent,              \* bound: bytes the mouse has sent and not delivered
  MaxDisturbed          \* the same bound when init() may be disturbed

Byte == 0 .. 255
Bit(b, n) == (b \div 2 ^ n) % 2 = 1

ASSUME ScreenAssumption == SCREEN_W \in Nat \ {0} /\ SCREEN_H \in Nat \ {0}
ASSUME DeviceAssumption ==
  /\ \A p \in Packets : p \in Byte \X Byte \X Byte /\ Bit(p[1], 3)
  /\ Scancodes \subseteq Byte /\ Configs \subseteq Byte
  /\ MaxSent \in Nat /\ MaxDisturbed \in Nat

VARIABLES
  disturbed,     \* may init() be disturbed?
  pc,            \* "20", "20 answer", "60", "F6", "F6 ack", "F4", "F4 ack", "sti", "on"
  config, cfg,   \* the controller's configuration byte, and init()'s copy
  sent,          \* bytes the mouse has sent, <<part of its packet, byte>>
  buffer,        \* the output buffer: empty, or one <<device, part, byte>>
  port,          \* the last byte read from port 0x60
  latched,       \* interrupt requests, a subset of {1, 12}
  cycle, packet, \* the mouse driver's state
  mouse,         \* mouse_x, mouse_y, left_pressed, right_pressed
  moved, pressed, last_key,
  actual         \* history: what the mouse has reported so far adds up to this

driver == <<cycle, packet, mouse, moved>>
keyboard == <<pressed, last_key>>
init == <<disturbed, pc, config, cfg>>
devices == <<sent, buffer, port, latched>>
vars == <<init, devices, driver, keyboard, actual>>

ACK == 250      \* 0xFA
Start == [x |-> 0, y |-> 0, left |-> FALSE, right |-> FALSE]

Init ==
  /\ disturbed \in BOOLEAN /\ pc = "20" /\ config \in Configs /\ cfg = 0 /\ sent = <<>> /\ buffer = <<>> /\ port = 0 /\ latched = {}
  /\ cycle = 0 /\ packet = <<0, 0, 0>> /\ mouse = Start /\ moved = FALSE
  /\ pressed = FALSE /\ last_key = 0
  /\ actual = Start

-----------------------------------------------------------------------------
(* The devices and the controller *)

\* The mouse reports a packet once it was told to, with F4.
Report(p) ==
  /\ pc \in {"F4 ack", "sti", "on"} /\ Len(sent) + 3 <= (IF disturbed THEN MaxDisturbed ELSE MaxSent)
  /\ sent' = sent \o <<<<1, p[1]>>, <<2, p[2]>>, <<3, p[3]>>>>
  /\ actual' = LET dx == p[2] - IF Bit(p[1], 4) THEN 256 ELSE 0
                   dy == p[3] - IF Bit(p[1], 5) THEN 256 ELSE 0
                   Within(n, size) == IF n < 0 THEN 0 ELSE IF n >= size THEN size - 1 ELSE n
               IN  [x |-> Within(actual.x + dx, SCREEN_W), y |-> Within(actual.y - dy, SCREEN_H),
                    left |-> Bit(p[1], 0), right |-> Bit(p[1], 1)]
  /\ UNCHANGED <<init, buffer, port, latched, driver, keyboard>>

\* A byte enters the empty buffer, if its device is not disabled (bits 5 and 4 of the
\* configuration), and its interrupt is requested, if that is on (bits 1 and 0).
MouseByte ==
  /\ buffer = <<>> /\ sent # <<>> /\ ~Bit(config, 5)
  /\ buffer' = <<<<"mouse", Head(sent)[1], Head(sent)[2]>>>>
  /\ sent' = Tail(sent)
  /\ latched' = IF Bit(config, 1) THEN latched \cup {12} ELSE latched
  /\ UNCHANGED <<init, port, driver, keyboard, actual>>

Key(code) ==
  /\ buffer = <<>> /\ ~Bit(config, 4) /\ (pc = "on" \/ disturbed)
  /\ buffer' = <<<<"keyboard", 0, code>>>>
  /\ latched' = IF Bit(config, 0) THEN latched \cup {1} ELSE latched
  /\ UNCHANGED <<init, sent, port, driver, keyboard, actual>>

\* What port 0x60 gives: the byte in the buffer, or the last one again.
Input == IF buffer = <<>> THEN port ELSE Head(buffer)[3]
Read == buffer' = <<>> /\ port' = Input

-----------------------------------------------------------------------------
(* PS2Mouse::init() *)

\* Command 0x20 has the controller put its configuration into the buffer.
AskConfig ==
  /\ pc = "20" /\ pc' = "20 answer"
  /\ buffer = <<>> /\ buffer' = <<<<"controller", 0, config>>>>
  /\ UNCHANGED <<disturbed, config, cfg, sent, port, latched, driver, keyboard, actual>>

\* Disturbed, the answer does not come, or a key came first, whose code is taken for it.
AskConfigLate ==
  /\ disturbed /\ pc = "20" /\ pc' = "20 answer"
  /\ UNCHANGED <<disturbed, config, cfg, devices, driver, keyboard, actual>>

\* read_data() takes whatever is in the buffer; an interrupt request is withdrawn with
\* its byte, unless it stays latched.
TakeByte ==
  /\ buffer # <<>> /\ Read
  /\ latched' = {} \/ (disturbed /\ UNCHANGED latched)

TimeoutNever == FALSE               \* mutant: wait_read() waits for good
\* read_data() gives up waiting and reads all the same.
Timeout == disturbed /\ buffer = <<>> /\ Read /\ UNCHANGED latched

ReadConfig ==
  /\ pc = "20 answer" /\ pc' = "60"
  /\ TakeByte \/ Timeout
  /\ cfg' = Input
  /\ UNCHANGED <<disturbed, config, sent, driver, keyboard, actual>>

EnabledSilent(b) == b - (IF Bit(b, 5) THEN 32 ELSE 0)    \* mutant: without cfg |= 0x02
\* cfg |= 0x02, cfg &= ~0x20: the mouse's interrupt on, its disabling off.
Enabled(b) == b + (IF Bit(b, 1) THEN 0 ELSE 2) - (IF Bit(b, 5) THEN 32 ELSE 0)
WriteConfig ==
  /\ pc = "60" /\ pc' = "F6"
  /\ config' = Enabled(cfg)
  /\ UNCHANGED <<disturbed, cfg, devices, driver, keyboard, actual>>

\* mouse_cmd(): the command is sent and the mouse, if there is one, acknowledges it, ...
Command(label, next) ==
  /\ pc = label /\ pc' = next
  /\ sent' = Append(sent, <<0, ACK>>) \/ (disturbed /\ UNCHANGED sent)
  /\ UNCHANGED <<disturbed, config, cfg, buffer, port, latched, driver, keyboard, actual>>

AnswerUnread(label, next) ==        \* mutant
  pc = label /\ pc' = next /\ UNCHANGED <<disturbed, config, cfg, devices, driver, keyboard, actual>>
\* ... and whatever is read then is taken for the acknowledgement.
Answer(label, next) ==
  /\ pc = label /\ pc' = next
  /\ TakeByte \/ Timeout
  /\ UNCHANGED <<disturbed, config, cfg, sent, driver, keyboard, actual>>

MouseCmd(command, ack, next) == Command(command, ack) \/ Answer(ack, next)

SetDefaults == MouseCmd("F6", "F6 ack", "F4")
EnableReporting == MouseCmd("F4", "F4 ack", "sti")

Sti ==
  /\ pc = "sti" /\ pc' = "on"
  /\ UNCHANGED <<disturbed, config, cfg, devices, driver, keyboard, actual>>

-----------------------------------------------------------------------------
(* The interrupt handlers *)

Clamp(n, size) == IF n < 0 THEN 0 ELSE IF n >= size THEN size - 1 ELSE n
Unsigned(b, sign) == b                                                     \* mutant
Signed(b, sign) == b - IF sign THEN 256 ELSE 0

\* The third byte completes a packet.
Complete(data) ==
  LET flags == packet[1]
      dx == Signed(packet[2], Bit(flags, 4))
      dy == Signed(data, Bit(flags, 5))
  IN  [x |-> Clamp(mouse.x + dx, SCREEN_W), y |-> Clamp(mouse.y - dy, SCREEN_H),
       left |-> Bit(flags, 0), right |-> Bit(flags, 1)]

HandleNoReset(data) ==              \* mutant: cycle = 0 is forgotten
  IF (cycle = 0 /\ ~Bit(data, 3)) \/ cycle > 2 THEN UNCHANGED driver
  ELSE /\ packet' = [packet EXCEPT ![cycle + 1] = data] /\ cycle' = cycle + 1
       /\ IF cycle = 2 THEN mouse' = Complete(data) /\ moved' = TRUE
          ELSE UNCHANGED <<mouse, moved>>
\* PS2Mouse::handle(): a first byte without bit 3 is discarded.
Handle(data) ==
  IF cycle = 0 /\ ~Bit(data, 3) THEN UNCHANGED driver
  ELSE /\ packet' = [packet EXCEPT ![cycle + 1] = data]
       /\ cycle' = (cycle + 1) % 3
       /\ IF cycle = 2 THEN mouse' = Complete(data) /\ moved' = TRUE
          ELSE UNCHANGED <<mouse, moved>>

MouseInterrupt ==
  /\ pc = "on" /\ 12 \in latched
  /\ latched' = latched \ {12}
  /\ Read /\ Handle(Input)
  /\ UNCHANGED <<init, sent, keyboard, actual>>

\* Codes with a character; the rest of the table, up to 0x60, is 0.
Mapped(code) == code \in (1 .. 57) \ {29, 42, 54, 56}

\* PS2Keyboard::handle(): a key that is pressed and has a character, which the code
\* stands for here.
HandleKey(code) ==
  IF ~Bit(code, 7) /\ Mapped(code) THEN last_key' = code /\ pressed' = TRUE
  ELSE UNCHANGED keyboard

KeyboardInterrupt ==
  /\ pc = "on" /\ 1 \in latched
  /\ latched' = latched \ {1}
  /\ Read /\ HandleKey(Input)
  /\ UNCHANGED <<init, sent, driver, actual>>

\* The main loop has seen the flags.
Poll ==
  /\ pc = "on" /\ (moved \/ pressed)
  /\ moved' = FALSE /\ pressed' = FALSE
  /\ UNCHANGED <<init, sent, buffer, port, latched, cycle, packet, mouse, last_key, actual>>

InitStep ==
  AskConfig \/ AskConfigLate \/ ReadConfig \/ WriteConfig \/ SetDefaults \/ EnableReporting \/ Sti

Next ==
  \/ InitStep
  \/ (\E p \in Packets : Report(p)) \/ MouseByte \/ (\E c \in Scancodes : Key(c))
  \/ MouseInterrupt \/ KeyboardInterrupt \/ Poll

Spec == Init /\ [][Next]_vars

\* The processor executes init(), takes interrupts, and the mouse delivers its
\* bytes: a key goes into the buffer before a byte of the mouse only finitely often.
FairSpec ==
  /\ Spec /\ WF_vars(InitStep) /\ SF_vars(MouseByte)
  /\ WF_vars(MouseInterrupt) /\ WF_vars(KeyboardInterrupt)

-----------------------------------------------------------------------------
TypeOK ==
  /\ pc \in {"20", "20 answer", "60", "F6", "F6 ack", "F4", "F4 ack", "sti", "on"}
  /\ disturbed \in BOOLEAN /\ config \in Byte /\ cfg \in Byte /\ sent \in Seq((0 .. 3) \X Byte) /\ port \in Byte
  /\ buffer = <<>> \/ (Len(buffer) = 1 /\ Head(buffer) \in {"mouse", "keyboard", "controller"} \X (0 .. 3) \X Byte)
  /\ latched \subseteq {1, 12}
  /\ cycle \in 0 .. 2 /\ packet \in Byte \X Byte \X Byte
  /\ mouse \in [x : 0 .. SCREEN_W - 1, y : 0 .. SCREEN_H - 1, left : BOOLEAN, right : BOOLEAN]
  /\ moved \in BOOLEAN /\ pressed \in BOOLEAN /\ last_key \in Byte

\* The byte of the mouse that is delivered next.
FromMouse == buffer # <<>> /\ Head(buffer)[1] = "mouse"
Coming == (IF FromMouse THEN buffer ELSE <<>>)
          \o [j \in DOMAIN sent |-> <<"mouse", sent[j][1], sent[j][2]>>]

\* The driver takes the first byte of a packet for the first, the second for the
\* second and the third for the third.
InSync == pc = "on" /\ ~disturbed /\ Coming # <<>> => Head(Coming)[2] = cycle + 1

\* When all that the mouse sent was taken in, the driver has the position and the
\* buttons that the mouse's reports add up to: no report is lost or counted twice.
PositionExact == pc = "on" /\ ~disturbed /\ Coming = <<>> /\ cycle = 0 => mouse = actual

\* The two handlers share one port; each byte reaches its own device's handler: the
\* interrupt that is requested is that of the byte in the buffer.
BytesRouted ==
  pc = "on" /\ ~disturbed =>
    latched = {IF Head(b)[1] = "mouse" THEN 12 ELSE 1 : b \in {buffer} \ {<<>>}}

\* The devices' side of the driver: typed, and every byte on its way to its driver.
RoutingInv == TypeOK /\ BytesRouted

\* A report is eventually complete: what the mouse has sent is taken in.
ReportsComplete == (pc = "on" /\ ~disturbed /\ sent # <<>>) ~> cycle = 0 /\ moved

\* init() ends, whether its commands are answered or not: every wait has a timeout.
InitEnds == <>(pc = "on")
=============================================================================
