---------------------------------- MODULE Ps2 ----------------------------------
(***************************************************************************)
(* Keyboard and mouse behind the PS/2 controller, and the three loops that *)
(* read them by polling: the text programs (shell, editor, login, ...),    *)
(* the programs that follow presses and releases (piano, player) and the   *)
(* desktop.  The controller has one output byte for both devices; nothing  *)
(* behind that byte moves until the kernel reads it.                       *)
(*                                                                         *)
(* A scan code is its make code and whether it is the release; only what   *)
(* the decoders tell apart is kept of it.  Of a mouse byte the model keeps *)
(* bit 3, which the driver checks, and bit 0, the left button.             *)
(***************************************************************************)
EXTENDS Integers, FiniteSets, Sequences

CONSTANTS
  Keys,         \* the keys of the keyboard: [make, ext], ext = sent after 0xe0
  KeyBuffer,    \* bytes the keyboard can hold
  MouseBuffer,  \* bytes the mouse can hold
  MaxHeld,      \* bound on the keys down at once
  HandsOff      \* the user waits for the machine: no key is touched before the
                \* last one was read, nor, outside the desktop, while a byte is
                \* on its way; the mouse stands still outside the desktop

Makes == {"shift", "ctrl", "alt", "win", "caps", "space", "arrow", "letter", "enter", "esc"}

ASSUME KeysAssumption ==
  /\ Keys \subseteq [make: Makes, ext: BOOLEAN]
  /\ KeyBuffer \in Nat /\ MouseBuffer \in Nat /\ MaxHeld \in Nat /\ HandsOff \in BOOLEAN

VARIABLES
  held,       \* the keys that are down
  button,     \* the left mouse button is down
  kbd,        \* scan codes the keyboard has not handed over yet
  aux,        \* bytes the mouse has not handed over yet
  streaming,  \* the mouse reports its movements
  answer,     \* the controller owes the answer to command 0x20
  port,       \* the output byte of the controller, NoByte when empty
  own,        \* the configuration last written is the controller's own
  kb,         \* STATE of keyboard.rs
  packet,     \* PACKET and PACKET_IDX of mouse.rs
  left,       \* STATE.left of mouse.rs
  mode,       \* the loop that runs, or how far mouse::init got
  owed,       \* history: characters of keys pressed that no program was given yet
  wrong       \* history: a program was given another character than the next one

user == <<held, button>>
device == <<kbd, aux, streaming, answer>>
vars == <<user, device, port, own, kb, packet, left, mode, owed, wrong>>

Modes == {"text", "events", "desktop", "init config", "init defaults", "init streaming"}
NoByte == [src |-> "none"]
Prefix == [make |-> "e0", released |-> FALSE]
Ack == [bit3 |-> TRUE, left |-> FALSE]     \* 0xfa

FromMouse == port.src = "aux"
HasKey == port.src \in {"kbd", "answer"}   \* has_key: data, and not the mouse's

(* Keys that give a character whatever the modifiers are.  After the prefix   *)
(* only the arrows do: the keypad's Enter has none.                          *)
Plain(key) == key.make \in (IF key.ext THEN {"arrow"} ELSE {"letter", "enter", "esc"})

Init ==
  /\ held = {} /\ button = FALSE
  /\ kbd = <<>> /\ aux = <<>> /\ streaming = FALSE /\ answer = FALSE
  /\ port = NoByte /\ own = TRUE
  /\ kb = [shift |-> FALSE, caps |-> FALSE, ctrl |-> FALSE, alt |-> FALSE,
           win |-> FALSE, extended |-> FALSE, ru |-> FALSE]
  /\ packet = <<>> /\ left = FALSE
  /\ mode = "text"
  /\ owed = <<>> /\ wrong = FALSE

-------------------------------------------------------------------------------
(* The user and the devices. *)

KeyWaits == kbd # <<>> \/ port.src = "kbd"

ScanCodes(key, released) ==
  LET code == [make |-> key.make, released |-> released]
  IN IF key.ext THEN <<Prefix, code>> ELSE <<code>>

(* Nothing is on its way to the controller's output byte. *)
Settled == port # NoByte \/ (aux = <<>> /\ ~answer)

MayTouch == HandsOff => ~KeyWaits /\ (mode = "desktop" \/ (Settled /\ mode \in {"text", "events"}))

Touch(key, released) ==
  /\ MayTouch
  /\ Len(kbd) + 2 <= KeyBuffer
  /\ kbd' = kbd \o ScanCodes(key, released)
  /\ UNCHANGED <<button, aux, streaming, answer, port, own, kb, packet, left, mode, wrong>>

Press(key) ==
  /\ key \notin held /\ Cardinality(held) < MaxHeld
  /\ held' = held \cup {key}
  /\ owed' = IF Plain(key) THEN Append(owed, key.make) ELSE owed
  /\ Touch(key, FALSE)

Release(key) ==
  /\ key \in held
  /\ held' = held \ {key}
  /\ Touch(key, TRUE)
  /\ UNCHANGED owed

(* A packet: the flags, which always have bit 3, and two distances. *)
MoveMouse ==
  /\ streaming
  /\ Len(aux) + 3 <= MouseBuffer
  /\ HandsOff => mode = "desktop"
  /\ \E b \in BOOLEAN, far \in BOOLEAN :
       /\ button' = b
       /\ aux' = aux \o <<[bit3 |-> TRUE, left |-> b], [bit3 |-> far, left |-> far],
                          [bit3 |-> FALSE, left |-> FALSE]>>
  /\ UNCHANGED <<held, kbd, streaming, answer, port, own, kb, packet, left, mode, owed, wrong>>

(* The controller fills its output byte, from whichever side it likes. *)
FillFromController ==
  /\ port = NoByte /\ answer
  /\ port' = [src |-> "answer", code |-> [make |-> "other", released |-> FALSE]]
  /\ answer' = FALSE
  /\ UNCHANGED <<user, kbd, aux, streaming, own, kb, packet, left, mode, owed, wrong>>

FillFromKeyboard ==
  /\ port = NoByte /\ kbd # <<>>
  /\ port' = [src |-> "kbd", code |-> Head(kbd)]
  /\ kbd' = Tail(kbd)
  /\ UNCHANGED <<user, aux, streaming, answer, own, kb, packet, left, mode, owed, wrong>>

FillFromMouse ==
  /\ port = NoByte /\ aux # <<>>
  /\ port' = [src |-> "aux", byte |-> Head(aux)]
  /\ aux' = Tail(aux)
  /\ UNCHANGED <<user, kbd, streaming, answer, own, kb, packet, left, mode, owed, wrong>>

FillPort == FillFromController \/ FillFromKeyboard \/ FillFromMouse

-------------------------------------------------------------------------------
(* The decoders.  Each takes one scan code and gives a character or none.  *)

(* Mistake: the second byte of an extended code read without its prefix    *)
(* being forgotten.                                                        *)
AfterPrefixKept(s, code) ==
  IF code.make \in {"ctrl", "alt", "win"} THEN [s EXCEPT ![code.make] = ~code.released] ELSE s

(* The second byte of an extended code, the same in both decoders. *)
AfterPrefix(s, code) ==
  LET t == [s EXCEPT !.extended = FALSE]
  IN IF code.make \in {"ctrl", "alt", "win"} THEN [t EXCEPT ![code.make] = ~code.released] ELSE t

(* Mistake: only presses of modifiers looked at. *)
AfterCodePressed(s, code) ==
  IF code.make \in {"shift", "ctrl", "alt"} /\ ~code.released
  THEN [s EXCEPT ![code.make] = TRUE] ELSE s

(* A code without prefix, in process_one. *)
AfterCode(s, code) ==
  IF code.make \in {"shift", "ctrl", "alt"} THEN [s EXCEPT ![code.make] = ~code.released]
  ELSE IF code.make = "caps" /\ ~code.released THEN [s EXCEPT !.caps = ~s.caps]
  ELSE IF code.make = "space" /\ ~code.released /\ s.win THEN [s EXCEPT !.ru = ~s.ru]
  ELSE s

(* A code without prefix, in try_read_key_event: no change of layout. *)
AfterEvent(s, code) ==
  IF code.make = "space" THEN s ELSE AfterCode(s, code)

Decoded(s, code, plain) ==
  IF code = Prefix THEN [s EXCEPT !.extended = TRUE]
  ELSE IF s.extended THEN AfterPrefix(s, code) ELSE plain

(* What a press gives: an arrow only after the prefix, a character only    *)
(* without it.                                                             *)
Char(s, code) ==
  IF code.released \/ code = Prefix THEN "none"
  ELSE IF s.extended THEN (IF code.make = "arrow" THEN "arrow" ELSE "none")
  ELSE IF code.make \in {"letter", "enter", "esc"} THEN code.make ELSE "none"

Give(char) ==
  IF char = "none" THEN UNCHANGED <<owed, wrong>>
  ELSE IF owed # <<>> /\ Head(owed) = char THEN owed' = Tail(owed) /\ UNCHANGED wrong
  ELSE wrong' = TRUE /\ UNCHANGED owed

-------------------------------------------------------------------------------
(* The loops. *)

(* mouse::init up to its first read: command 0x20 asks for the controller's *)
(* configuration.                                                           *)
StartDesktop == mode' = "init config" /\ answer' = TRUE

(* read_key and try_read_key in the shell, the editor, the login screen,   *)
(* the monitor and the Gemini client.  Enter may end a command line that   *)
(* starts the desktop, the piano or the player.                            *)
TextKey ==
  LET char == Char(kb, port.code)
  IN /\ mode = "text" /\ HasKey
     /\ port' = NoByte
     /\ kb' = Decoded(kb, port.code, AfterCode(kb, port.code))
     /\ Give(char)
     /\ \/ mode' = "text" /\ UNCHANGED answer
        \/ char = "enter" /\ mode' = "events" /\ UNCHANGED answer
        \/ char = "enter" /\ StartDesktop
     /\ UNCHANGED <<user, kbd, aux, streaming, own, packet, left>>

(* try_read_key_event in the piano and the player, which Esc ends. *)
EventKey ==
  LET char == Char(kb, port.code)
  IN /\ mode = "events" /\ HasKey
     /\ port' = NoByte
     /\ kb' = Decoded(kb, port.code, AfterEvent(kb, port.code))
     /\ Give(char)
     /\ mode' = IF char = "esc" THEN "text" ELSE "events"
     /\ UNCHANGED <<user, device, own, packet, left>>

(* The desktop's try_read_key; Esc returns to the console. *)
DesktopKey ==
  LET char == Char(kb, port.code)
  IN /\ mode = "desktop" /\ HasKey
     /\ port' = NoByte
     /\ kb' = Decoded(kb, port.code, AfterCode(kb, port.code))
     /\ Give(char)
     /\ mode' = IF char = "esc" THEN "text" ELSE "desktop"
     /\ UNCHANGED <<user, device, own, packet, left>>

(* Mistakes: a packet of four bytes, and a check of bit 3 that leaves a     *)
(* byte without it where it is.                                            *)
PollMouseLong ==
  /\ mode = "desktop" /\ FromMouse
  /\ port' = NoByte
  /\ IF Len(packet) = 3
     THEN packet' = <<>> /\ left' = packet[1].left
     ELSE packet' = Append(packet, port.byte) /\ UNCHANGED left
  /\ UNCHANGED <<user, device, own, kb, mode, owed, wrong>>

PollMouseWary ==
  /\ mode = "desktop" /\ FromMouse
  /\ port.byte.bit3
  /\ port' = NoByte
  /\ IF Len(packet) = 2
     THEN packet' = <<>> /\ left' = packet[1].left
     ELSE packet' = Append(packet, port.byte) /\ UNCHANGED left
  /\ UNCHANGED <<user, device, own, kb, mode, owed, wrong>>

(* mouse::poll, called by the desktop only. *)
PollMouse ==
  LET now == Append(packet, port.byte)
  IN /\ mode = "desktop" /\ FromMouse
     /\ port' = NoByte
     /\ IF packet = <<>> /\ ~port.byte.bit3 THEN UNCHANGED <<packet, left>>
        ELSE IF Len(now) < 3 THEN packet' = now /\ UNCHANGED left
        ELSE packet' = <<>> /\ left' = now[1].left
     /\ UNCHANGED <<user, device, own, kb, mode, owed, wrong>>

(* mouse::init.  wait_read waits for any byte, and the byte that is there  *)
(* is taken for the answer.  It gives up after 100,000 polls: the devices  *)
(* are taken to answer before that.                                        *)
ReadConfig ==
  /\ mode = "init config" /\ port # NoByte
  /\ own' = (port.src = "answer")
  /\ port' = NoByte
  /\ mode' = "init defaults"           \* command 0xf6
  /\ streaming' = FALSE
  /\ aux' = Append(aux, Ack)
  /\ UNCHANGED <<user, kbd, answer, kb, packet, left, owed, wrong>>

ReadDefaultsAck ==
  /\ mode = "init defaults" /\ port # NoByte
  /\ port' = NoByte
  /\ mode' = "init streaming"          \* command 0xf4
  /\ streaming' = TRUE
  /\ aux' = Append(aux, Ack)
  /\ UNCHANGED <<user, kbd, answer, own, kb, packet, left, owed, wrong>>

ReadStreamingAck ==
  /\ mode = "init streaming" /\ port # NoByte
  /\ port' = NoByte
  /\ mode' = "desktop"
  /\ UNCHANGED <<user, device, own, kb, packet, left, owed, wrong>>

Kernel ==
  \/ TextKey
  \/ EventKey
  \/ DesktopKey
  \/ PollMouse
  \/ ReadConfig
  \/ ReadDefaultsAck
  \/ ReadStreamingAck

Next ==
  \/ \E key \in Keys : Press(key) \/ Release(key)
  \/ MoveMouse
  \/ FillPort
  \/ Kernel

(* The controller hands bytes over and does not pass the keyboard by for   *)
(* ever, and every loop polls without end.                                 *)
Fairness == WF_vars(FillPort) /\ SF_vars(FillFromKeyboard) /\ WF_vars(Kernel)

Spec == Init /\ [][Next]_vars /\ Fairness

-------------------------------------------------------------------------------
(* Correctness. *)

(* Whichever decoders the scan codes went through: once all are read no    *)
(* modifier is on that nobody holds, and no prefix is left over to spoil   *)
(* the next key.                                                           *)
NoStuckModifier ==
  ~KeyWaits =>
    /\ \A m \in {"shift", "ctrl", "alt", "win"} : kb[m] => \E key \in held : key.make = m
    /\ ~kb.extended

(* Programs get the characters of the keys pressed, in their order, none   *)
(* lost, invented or taken for another.                                    *)
TypedAsPressed ==
  ~wrong /\ (~KeyWaits => owed = <<>>)

(* In the desktop the mouse driver stays in step with the packets: when    *)
(* all bytes are read none is kept back, and the button is as the mouse    *)
(* said last.  The packet array always has room for the next byte.         *)
MouseInStep ==
  /\ Len(packet) < 3
  /\ mode = "desktop" /\ aux = <<>> /\ ~FromMouse => packet = <<>> /\ left = button

(* Where both devices are read, or the mouse is silent, every key is read  *)
(* in the end, however the mouse's bytes come in between.                  *)
Listening == mode \in {"text", "events"} => ~streaming
KeysRead == KeyWaits /\ Listening ~> ~KeyWaits \/ ~Listening

(* Every key is read in the end. *)
KeysAlwaysRead == KeyWaits ~> ~KeyWaits

(* mouse::init writes back the configuration it read from the controller,  *)
(* with the bits it changes.                                               *)
ConfigIsConfig == own
===============================================================================
