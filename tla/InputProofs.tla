------------------------------ MODULE InputProofs ------------------------------
(* Ps2: for every keyboard, and a user who waits for the machine, no modifier *)
(* sticks, what is typed arrives, and the mouse driver stays in step.         *)
(* Desktop: the pointer leaves no trace, for every size of screen, window and *)
(* pointer, every set of apps and whatever the mouse, the keys and the clock  *)
(* do.  Calculator, one of its windows: what it shows is the value of the     *)
(* keys pressed.  ShellLine: what stands behind the prompt is the line.       *)
EXTENDS Ps2, Desktop, Calculator, ShellLine, SequenceTheorems, WellFoundedInduction, TLAPS

-------------------------------------------------------------------------------
(* The inductive invariant. *)

Codes == [make: Makes \cup {"e0", "other"}, released: BOOLEAN]
Bytes == [bit3: BOOLEAN, left: BOOLEAN]
Ports == {NoByte} \cup [src: {"kbd", "answer"}, code: Codes] \cup [src: {"aux"}, byte: Bytes]
Decoder == [shift: BOOLEAN, caps: BOOLEAN, ctrl: BOOLEAN, alt: BOOLEAN,
            win: BOOLEAN, extended: BOOLEAN, ru: BOOLEAN]

Types ==
  /\ held \subseteq Keys /\ button \in BOOLEAN
  /\ kbd \in Seq(Codes) /\ aux \in Seq(Bytes) /\ streaming \in BOOLEAN /\ answer \in BOOLEAN
  /\ port \in Ports /\ own \in BOOLEAN /\ kb \in Decoder
  /\ packet \in Seq(Bytes) /\ left \in BOOLEAN /\ mode \in Modes
  /\ owed \in Seq(Makes) /\ wrong \in BOOLEAN

(* The codes of the key touched last that are still to be read: they are at    *)
(* most two, since nobody touches a key before.                               *)
Code(key, released) == [make |-> key.make, released |-> released]
OnlyCode(code) == \/ ~(port.src = "kbd") /\ kbd = <<code>>
                  \/ port.src = "kbd" /\ port.code = code /\ kbd = <<>>
WithPrefix(code) == \/ ~(port.src = "kbd") /\ kbd = <<Prefix, code>>
                    \/ port.src = "kbd" /\ port.code = Prefix /\ kbd = <<code>>
ToRead(key, released) ==
  \/ OnlyCode(Code(key, released)) /\ kb.extended = key.ext
  \/ key.ext /\ WithPrefix(Code(key, released)) /\ ~kb.extended

(* A modifier that is on is held, or its release is still to be read. *)
Modifiers == {"shift", "ctrl", "alt", "win"}
Sets(key, m) == key.make = m /\ m \in (IF key.ext THEN {"ctrl", "alt", "win"} ELSE {"shift", "ctrl", "alt"})
Held(m) == \E key \in held : Sets(key, m)

Owed(key, released) == IF Plain(key) /\ ~released THEN <<key.make>> ELSE <<>>

KeysInStep ==
  \/ /\ ~KeyWaits /\ ~kb.extended /\ owed = <<>>
     /\ \A m \in Modifiers : kb[m] => Held(m)
  \/ \E key \in Keys, released \in BOOLEAN :
       /\ ToRead(key, released)
       /\ owed = Owed(key, released)
       /\ released \/ key \in held
       /\ \A m \in Modifiers : kb[m] => Held(m) \/ (released /\ Sets(key, m))

(* The bytes of the mouse the driver has not made a packet of, in their order. *)
Behind == Len(packet) + (IF FromMouse THEN 1 ELSE 0)
MouseCount == Behind + Len(aux)
MouseByte(i) ==
  IF i <= Len(packet) THEN packet[i]
  ELSE IF i <= Behind THEN port.byte
  ELSE aux[i - Behind]

(* They are whole packets, and the last one has the button as it is. *)
WholePackets ==
  /\ MouseCount % 3 = 0
  /\ \A i \in 1 .. MouseCount : i % 3 = 1 => MouseByte(i).bit3
  /\ IF MouseCount = 0 THEN left = button ELSE MouseByte(MouseCount - 2).left = button

(* During mouse::init there is one byte to read, or soon will be. *)
OneAck ==
  \/ port = NoByte /\ aux = <<Ack>>
  \/ port = [src |-> "aux", byte |-> Ack] /\ aux = <<>>
InitInStep ==
  /\ packet = <<>> /\ left = button /\ kbd = <<>>
  /\ IF mode = "init config" THEN aux = <<>> /\ (IF answer THEN port = NoByte ELSE port.src = "answer")
     ELSE OneAck /\ ~answer

LoopInStep ==
  /\ WholePackets
  /\ ~answer /\ port.src # "answer"
  /\ mode # "desktop" /\ KeyWaits => FromMouse \/ aux = <<>>

Ps2Inv ==
  /\ Types /\ ~wrong /\ KeysInStep
  /\ Len(packet) < 3
  /\ IF mode \in {"text", "events", "desktop"} THEN LoopInStep ELSE InitInStep

Loops == {"text", "events", "desktop"}

-------------------------------------------------------------------------------
(* The decoders. *)

LEMMA SetFlagOn ==
  ASSUME NEW s \in Decoder, NEW m \in Modifiers
  PROVE  /\ [s EXCEPT ![m] = TRUE] \in Decoder /\ [s EXCEPT ![m] = TRUE].extended = s.extended
         /\ [s EXCEPT ![m] = TRUE][m]
         /\ \A n \in Modifiers : n # m => [s EXCEPT ![m] = TRUE][n] = s[n]
<1>1. CASE m = "shift"
  BY <1>1 DEF Decoder, Modifiers
<1>2. CASE m = "ctrl"
  BY <1>2 DEF Decoder, Modifiers
<1>3. CASE m = "alt"
  BY <1>3 DEF Decoder, Modifiers
<1>4. CASE m = "win"
  BY <1>4 DEF Decoder, Modifiers
<1> QED BY <1>1, <1>2, <1>3, <1>4 DEF Modifiers

LEMMA SetFlagOff ==
  ASSUME NEW s \in Decoder, NEW m \in Modifiers
  PROVE  /\ [s EXCEPT ![m] = FALSE] \in Decoder /\ [s EXCEPT ![m] = FALSE].extended = s.extended
         /\ ~[s EXCEPT ![m] = FALSE][m]
         /\ \A n \in Modifiers : n # m => [s EXCEPT ![m] = FALSE][n] = s[n]
<1>1. CASE m = "shift"
  BY <1>1 DEF Decoder, Modifiers
<1>2. CASE m = "ctrl"
  BY <1>2 DEF Decoder, Modifiers
<1>3. CASE m = "alt"
  BY <1>3 DEF Decoder, Modifiers
<1>4. CASE m = "win"
  BY <1>4 DEF Decoder, Modifiers
<1> QED BY <1>1, <1>2, <1>3, <1>4 DEF Modifiers

(* The last code of a key sets the modifier that is the key's, and no other.  *)
LEMMA LastCodeSets ==
  ASSUME NEW s \in Decoder, NEW key \in Keys, NEW released \in BOOLEAN, s.extended = key.ext,
         NEW plain, plain \in {AfterCode(s, Code(key, released)), AfterEvent(s, Code(key, released))},
         NEW t, t = Decoded(s, Code(key, released), plain)
  PROVE  /\ t \in Decoder /\ ~t.extended
         /\ \A m \in Modifiers : IF Sets(key, m) THEN t[m] <=> ~released ELSE t[m] = s[m]
<1> DEFINE code == Code(key, released)
<1>1. /\ key.make \in Makes /\ key.ext \in BOOLEAN /\ code.make = key.make
      /\ code.released = released /\ code # Prefix
  BY KeysAssumption DEF Code, Prefix, Makes
<1>2. CASE key.ext
  <2>1. t = AfterPrefix(s, code)
    BY <1>1, <1>2 DEF Decoded
  <2>2. PICK u : u = [s EXCEPT !.extended = FALSE]
    OBVIOUS
  <2>3. u \in Decoder /\ ~u.extended /\ \A m \in Modifiers : u[m] = s[m]
    BY <2>2 DEF Decoder, Modifiers
  <2>4. CASE key.make \in {"ctrl", "alt", "win"}
    <3>1. t = [u EXCEPT ![key.make] = ~released]
      BY <1>1, <2>1, <2>2, <2>4 DEF AfterPrefix
    <3>2. key.make \in Modifiers
      BY <2>4 DEF Modifiers
    <3>3. /\ t \in Decoder /\ t.extended = u.extended /\ (t[key.make] <=> ~released)
          /\ \A m \in Modifiers : m # key.make => t[m] = u[m]
      <4>1. CASE released
        <5>1. t = [u EXCEPT ![key.make] = FALSE]
          BY <3>1, <4>1
        <5>2. /\ [u EXCEPT ![key.make] = FALSE] \in Decoder
              /\ [u EXCEPT ![key.make] = FALSE].extended = u.extended
              /\ ~[u EXCEPT ![key.make] = FALSE][key.make]
              /\ \A n \in Modifiers : n # key.make => [u EXCEPT ![key.make] = FALSE][n] = u[n]
          BY <2>3, <3>2, SetFlagOff
        <5> QED BY <4>1, <5>1, <5>2
      <4>2. CASE ~released
        <5>1. t = [u EXCEPT ![key.make] = TRUE]
          BY <3>1, <4>2
        <5>2. /\ [u EXCEPT ![key.make] = TRUE] \in Decoder
              /\ [u EXCEPT ![key.make] = TRUE].extended = u.extended
              /\ [u EXCEPT ![key.make] = TRUE][key.make]
              /\ \A n \in Modifiers : n # key.make => [u EXCEPT ![key.make] = TRUE][n] = u[n]
          <6>1. u \in Decoder
            BY <2>3
          <6> QED BY <3>2, <6>1, SetFlagOn
        <5> QED BY <4>2, <5>1, <5>2
      <4> QED BY <4>1, <4>2
    <3> QED BY <1>2, <2>3, <2>4, <3>3 DEF Sets
  <2>5. CASE key.make \notin {"ctrl", "alt", "win"}
    <3>1. t = u
      BY <1>1, <2>1, <2>2, <2>5 DEF AfterPrefix
    <3> QED BY <1>2, <2>3, <2>5, <3>1 DEF Sets
  <2> QED BY <2>4, <2>5
<1>3. CASE ~key.ext
  <2>1. t = plain
    BY <1>1, <1>3 DEF Decoded
  <2>2. CASE key.make \in {"shift", "ctrl", "alt"}
    <3>1. t = [s EXCEPT ![key.make] = ~released]
      BY <1>1, <2>1, <2>2 DEF AfterCode, AfterEvent
    <3>2. key.make \in Modifiers
      BY <2>2 DEF Modifiers
    <3>3. /\ t \in Decoder /\ t.extended = s.extended /\ (t[key.make] <=> ~released)
          /\ \A m \in Modifiers : m # key.make => t[m] = s[m]
      <4>1. CASE released
        <5>1. t = [s EXCEPT ![key.make] = FALSE]
          BY <3>1, <4>1
        <5>2. /\ [s EXCEPT ![key.make] = FALSE] \in Decoder
              /\ [s EXCEPT ![key.make] = FALSE].extended = s.extended
              /\ ~[s EXCEPT ![key.make] = FALSE][key.make]
              /\ \A n \in Modifiers : n # key.make => [s EXCEPT ![key.make] = FALSE][n] = s[n]
          BY <3>2, SetFlagOff
        <5> QED BY <4>1, <5>1, <5>2
      <4>2. CASE ~released
        <5>1. t = [s EXCEPT ![key.make] = TRUE]
          BY <3>1, <4>2
        <5>2. /\ [s EXCEPT ![key.make] = TRUE] \in Decoder
              /\ [s EXCEPT ![key.make] = TRUE].extended = s.extended
              /\ [s EXCEPT ![key.make] = TRUE][key.make]
              /\ \A n \in Modifiers : n # key.make => [s EXCEPT ![key.make] = TRUE][n] = s[n]
          BY <3>2, SetFlagOn
        <5> QED BY <4>2, <5>1, <5>2
      <4> QED BY <4>1, <4>2
    <3> QED BY <1>3, <2>2, <3>3 DEF Sets
  <2>3. CASE key.make \notin {"shift", "ctrl", "alt"}
    <3>1. t \in {s, [s EXCEPT !.caps = ~s.caps], [s EXCEPT !.ru = ~s.ru]}
      BY <1>1, <2>1, <2>3 DEF AfterCode, AfterEvent
    <3>2. t \in Decoder /\ t.extended = s.extended /\ \A m \in Modifiers : t[m] = s[m]
      BY <3>1 DEF Decoder, Modifiers
    <3> QED BY <1>3, <2>3, <3>2 DEF Sets
  <2> QED BY <2>2, <2>3
<1> QED BY <1>1, <1>2, <1>3

(* It gives the program the character of the key, if it has one. *)
LEMMA LastCodeGives ==
  ASSUME NEW s, NEW key \in Keys, NEW released \in BOOLEAN, s.extended = key.ext
  PROVE  Char(s, Code(key, released)) = IF Plain(key) /\ ~released THEN key.make ELSE "none"
<1>1. /\ key.make \in Makes /\ key.ext \in BOOLEAN /\ Code(key, released).make = key.make
      /\ Code(key, released).released = released /\ Code(key, released) # Prefix
  BY KeysAssumption DEF Code, Prefix, Makes
<1> QED BY <1>1 DEF Char, Plain

-------------------------------------------------------------------------------
(* The keys. *)

LEMMA PrefixIsNoKey ==
  ASSUME NEW key \in Keys, NEW released \in BOOLEAN
  PROVE  /\ Code(key, released) # Prefix /\ Code(key, released) \in Codes /\ Prefix \in Codes
         /\ key.make \in Makes /\ key.ext \in BOOLEAN
BY KeysAssumption DEF Code, Prefix, Makes, Codes

LEMMA ToReadWaits ==
  ASSUME NEW key, NEW released, ToRead(key, released)
  PROVE  KeyWaits
BY DEF ToRead, OnlyCode, WithPrefix, KeyWaits

(* Touching a key when none waits. *)
LEMMA TouchKeeps ==
  ASSUME Types, KeysInStep, HandsOff, NEW key \in Keys, NEW released \in BOOLEAN, Touch(key, released),
         held' \subseteq Keys, released \/ key \in held',
         released => key \in held,
         held' = IF released THEN held \ {key} ELSE held \cup {key},
         owed' = IF released THEN owed ELSE IF Plain(key) THEN Append(owed, key.make) ELSE owed
  PROVE  KeysInStep' /\ ~KeyWaits /\ kbd' \in Seq(Codes) /\ owed' \in Seq(Makes)
<1>1. ~KeyWaits /\ kbd = <<>> /\ port.src # "kbd" /\ port' = port /\ kb' = kb
  BY DEF Touch, MayTouch, KeyWaits
<1>2. /\ ~kb.extended /\ owed = <<>> /\ \A m \in Modifiers : kb[m] => Held(m)
  BY <1>1, ToReadWaits DEF KeysInStep
<1>3. kbd' = IF key.ext THEN <<Prefix, Code(key, released)>> ELSE <<Code(key, released)>>
  BY <1>1 DEF Touch, ScanCodes, Code
<1>4. ToRead(key, released)'
  BY <1>1, <1>2, <1>3, PrefixIsNoKey DEF ToRead, OnlyCode, WithPrefix, Types, Decoder
<1>5. owed' = Owed(key, released)
  BY <1>2 DEF Owed
<1>6. \A m \in Modifiers : kb'[m] => Held(m)' \/ (released /\ Sets(key, m))
  BY <1>1, <1>2 DEF Held
<1>7. KeysInStep'
  BY <1>4, <1>5, <1>6 DEF KeysInStep
<1>8. kbd' \in Seq(Codes) /\ owed' \in Seq(Makes)
  <2>1. \A S : \A x, y \in S : <<x>> \in Seq(S) /\ <<x, y>> \in Seq(S) /\ <<>> \in Seq(S)
    OBVIOUS
  <2> QED BY <1>3, <1>5, <2>1, PrefixIsNoKey DEF Owed
<1> QED BY <1>1, <1>7, <1>8

LEMMA FillKeeps ==
  ASSUME Types, KeysInStep, FillFromKeyboard
  PROVE  KeysInStep' /\ kbd' \in Seq(Codes) /\ port' \in Ports
<1>1. /\ port = NoByte /\ kbd # <<>> /\ port' = [src |-> "kbd", code |-> Head(kbd)]
      /\ kbd' = Tail(kbd) /\ UNCHANGED <<held, kb, owed>>
  BY DEF FillFromKeyboard, user
<1>2. Head(kbd) \in Codes /\ Tail(kbd) \in Seq(Codes) /\ port.src # "kbd"
  BY <1>1 DEF Types, NoByte
<1>3. KeyWaits /\ port'.src = "kbd" /\ port'.code = Head(kbd)
  BY <1>1 DEF KeyWaits
<1>4. PICK key \in Keys, released \in BOOLEAN :
       /\ ToRead(key, released)
       /\ owed = Owed(key, released)
       /\ released \/ key \in held
       /\ \A m \in Modifiers : kb[m] => Held(m) \/ (released /\ Sets(key, m))
  BY <1>3 DEF KeysInStep
<1>5. ToRead(key, released)'
  <2>1. CASE kbd = <<Code(key, released)>> /\ kb.extended = key.ext
    BY <1>1, <1>3, <2>1 DEF ToRead, OnlyCode, Code
  <2>2. CASE kbd = <<Prefix, Code(key, released)>> /\ key.ext /\ ~kb.extended
    <3>1. PICK code : code = Code(key, released)
      OBVIOUS
    <3>2. Head(kbd) = Prefix /\ Tail(kbd) = <<code>>
      BY <2>2, <3>1
    <3> QED BY <1>1, <1>3, <2>2, <3>1, <3>2 DEF ToRead, WithPrefix, Code
  <2> QED BY <1>2, <1>4, <2>1, <2>2 DEF ToRead, OnlyCode, WithPrefix
<1>6. KeysInStep'
  BY <1>1, <1>4, <1>5 DEF KeysInStep, Held
<1> QED BY <1>1, <1>2, <1>6 DEF Ports

(* Reading a code in one of the loops. *)
LEMMA ReadKeeps ==
  ASSUME Types, KeysInStep, ~wrong, port.src = "kbd", port' = NoByte, UNCHANGED <<kbd, held>>,
         Give(Char(kb, port.code)),
         kb' = Decoded(kb, port.code, AfterCode(kb, port.code))
           \/ kb' = Decoded(kb, port.code, AfterEvent(kb, port.code))
  PROVE  /\ KeysInStep' /\ ~wrong' /\ wrong' \in BOOLEAN /\ kb' \in Decoder /\ owed' \in Seq(Makes)
         /\ Char(kb, port.code) # "none" => ~KeyWaits'
         /\ KeyWaits
<1>1. KeyWaits /\ port'.src # "kbd"
  BY DEF KeyWaits, NoByte
<1>2. PICK key \in Keys, released \in BOOLEAN :
       /\ ToRead(key, released)
       /\ owed = Owed(key, released)
       /\ released \/ key \in held
       /\ \A m \in Modifiers : kb[m] => Held(m) \/ (released /\ Sets(key, m))
  BY <1>1 DEF KeysInStep
<1>3. CASE port.code = Prefix
  <2>1. key.ext /\ kbd = <<Code(key, released)>> /\ ~kb.extended
    BY <1>2, <1>3, PrefixIsNoKey DEF ToRead, OnlyCode, WithPrefix
  <2>2. kb' = [kb EXCEPT !.extended = TRUE]
    BY <1>3 DEF Decoded
  <2>3. kb' \in Decoder /\ kb'.extended /\ \A m \in Modifiers : kb'[m] = kb[m]
    BY <2>2 DEF Types, Decoder, Modifiers
  <2>4. Char(kb, port.code) = "none" /\ UNCHANGED <<owed, wrong>>
    BY <1>3 DEF Char, Give
  <2>5. ToRead(key, released)'
    BY <1>1, <2>1, <2>3, PrefixIsNoKey DEF ToRead, OnlyCode, Code, Decoder
  <2>6. KeysInStep'
    BY <1>2, <2>3, <2>4, <2>5 DEF KeysInStep, Held
  <2> QED BY <1>1, <2>3, <2>4, <2>6 DEF Types
<1>4. CASE port.code # Prefix
  <2>1. port.code = Code(key, released) /\ kbd = <<>> /\ kb.extended = key.ext
    BY <1>2, <1>4 DEF ToRead, OnlyCode, WithPrefix
  <2>2. /\ kb' \in Decoder /\ ~kb'.extended
        /\ \A m \in Modifiers : IF Sets(key, m) THEN kb'[m] <=> ~released ELSE kb'[m] = kb[m]
    BY <2>1, LastCodeSets DEF Types
  <2>3. Char(kb, port.code) = IF Plain(key) /\ ~released THEN key.make ELSE "none"
    BY <2>1, LastCodeGives
  <2>4. owed' = <<>> /\ wrong' = wrong
    <3>1. CASE Plain(key) /\ ~released
      <4>1. owed = <<key.make>> /\ Char(kb, port.code) = key.make /\ key.make # "none"
        BY <1>2, <2>3, <3>1 DEF Owed, Plain
      <4> QED BY <4>1 DEF Give
    <3>2. CASE ~(Plain(key) /\ ~released)
      BY <1>2, <2>3, <3>2 DEF Owed, Give
    <3> QED BY <3>1, <3>2
  <2>5. ~KeyWaits'
    BY <1>1, <2>1 DEF KeyWaits
  <2>6. ASSUME NEW m \in Modifiers, kb'[m]
        PROVE  Held(m)'
    <3>1. CASE Sets(key, m)
      BY <1>2, <2>2, <2>6, <3>1 DEF Held
    <3>2. CASE ~Sets(key, m)
      BY <1>2, <2>2, <2>6, <3>2 DEF Held
    <3> QED BY <3>1, <3>2
  <2>7. KeysInStep'
    BY <2>2, <2>4, <2>5, <2>6 DEF KeysInStep
  <2> QED BY <1>1, <2>2, <2>4, <2>5, <2>7 DEF Types
<1> QED BY <1>3, <1>4

-------------------------------------------------------------------------------
(* The mouse.  What holds the keys in step does not look at it. *)

LEMMA KeysSame ==
  ASSUME KeysInStep, port.src # "kbd", port'.src # "kbd", UNCHANGED <<held, kbd, kb, owed>>
  PROVE  KeysInStep' /\ KeyWaits' = KeyWaits
<1>1. KeyWaits' <=> KeyWaits
  BY DEF KeyWaits
<1>2. \A key, released : ToRead(key, released) => ToRead(key, released)'
  BY DEF ToRead, OnlyCode, WithPrefix
<1> QED BY <1>1, <1>2 DEF KeysInStep, Held

LEMMA PacketsSame ==
  ASSUME WholePackets, UNCHANGED <<packet, aux, left, button>>,
         port' = port \/ (~FromMouse /\ ~FromMouse')
  PROVE  WholePackets'
<1>1. Behind' = Behind /\ MouseCount' = MouseCount
  BY DEF Behind, MouseCount, FromMouse
<1>2. \A i : MouseByte(i)' = MouseByte(i)
  BY <1>1 DEF MouseByte, Behind, FromMouse
<1> QED BY <1>1, <1>2 DEF WholePackets

(* A byte put into the output byte stays where it is in the stream. *)
LEMMA FillMovesOne ==
  ASSUME Types, WholePackets, FillFromMouse
  PROVE  WholePackets' /\ port' \in Ports /\ aux' \in Seq(Bytes)
<1>1. /\ port = NoByte /\ aux # <<>> /\ port' = [src |-> "aux", byte |-> Head(aux)]
      /\ aux' = Tail(aux) /\ UNCHANGED <<packet, left, button>>
  BY DEF FillFromMouse, user
<1>2. aux \in Seq(Bytes) /\ packet \in Seq(Bytes)
  BY DEF Types
<1>3. /\ Head(aux) = aux[1] /\ Head(aux) \in Bytes /\ aux' \in Seq(Bytes) /\ Len(aux') = Len(aux) - 1
      /\ Len(aux) \in Nat /\ Len(aux) > 0 /\ Len(packet) \in Nat
      /\ \A i \in 1 .. Len(aux') : aux'[i] = aux[i + 1]
  BY <1>1, <1>2
<1>4. Behind = Len(packet) /\ Behind' = Len(packet) + 1 /\ MouseCount' = MouseCount
  BY <1>1, <1>3 DEF Behind, MouseCount, FromMouse, NoByte
<1>5. MouseCount \in Nat /\ MouseCount = Len(packet) + Len(aux)
  BY <1>3, <1>4 DEF MouseCount
<1>6. \A i \in 1 .. MouseCount : MouseByte(i)' = MouseByte(i)
  <2>1. TAKE i \in 1 .. MouseCount
  <2>2. CASE i <= Len(packet)
    BY <1>1, <2>2 DEF MouseByte
  <2>3. CASE i = Len(packet) + 1
    <3>1. MouseByte(i) = aux[1]
      BY <1>3, <1>4, <2>3 DEF MouseByte
    <3>2. MouseByte(i)' = port'.byte
      BY <1>1, <1>3, <1>4, <2>3 DEF MouseByte
    <3> QED BY <1>1, <1>3, <3>1, <3>2
  <2>4. CASE i > Len(packet) + 1
    <3>1. MouseByte(i) = aux[i - Len(packet)]
      BY <1>3, <1>4, <2>4 DEF MouseByte
    <3>2. MouseByte(i)' = aux'[i - (Len(packet) + 1)]
      <4>1. ~(i <= Len(packet')) /\ ~(i <= Behind') /\ Behind' = Len(packet) + 1
        BY <1>1, <1>3, <1>4, <1>5, <2>4
      <4> QED BY <4>1 DEF MouseByte
    <3>3. i - (Len(packet) + 1) \in 1 .. Len(aux')
      BY <1>3, <1>5, <2>4
    <3>4. aux'[i - (Len(packet) + 1)] = aux[(i - (Len(packet) + 1)) + 1]
      BY <1>3, <3>3
    <3>5. (i - (Len(packet) + 1)) + 1 = i - Len(packet)
      BY <1>3, <1>5
    <3> QED BY <3>1, <3>2, <3>4, <3>5
  <2> QED BY <1>3, <1>5, <2>2, <2>3, <2>4
<1>7. WholePackets'
  BY <1>1, <1>4, <1>5, <1>6 DEF WholePackets
<1> QED BY <1>1, <1>3, <1>7 DEF Ports

(* A packet more at the end. *)
LEMMA MoveAdds ==
  ASSUME Types, WholePackets, MoveMouse
  PROVE  WholePackets' /\ aux' \in Seq(Bytes) /\ button' \in BOOLEAN
<1>1. PICK b \in BOOLEAN, far \in BOOLEAN :
       /\ button' = b
       /\ aux' = aux \o <<[bit3 |-> TRUE, left |-> b], [bit3 |-> far, left |-> far],
                          [bit3 |-> FALSE, left |-> FALSE]>>
  BY DEF MoveMouse
<1> DEFINE x == [bit3 |-> TRUE, left |-> b]
           y == [bit3 |-> far, left |-> far]
           z == [bit3 |-> FALSE, left |-> FALSE]
<1>2. aux' = aux \o <<x, y, z>> /\ x \in Bytes /\ y \in Bytes /\ z \in Bytes /\ x.bit3 /\ x.left = b
  BY <1>1 DEF Bytes
<1> HIDE DEF x, y, z
<1>3. aux \in Seq(Bytes) /\ Len(aux) \in Nat /\ Len(packet) \in Nat /\ UNCHANGED <<port, packet, left>>
  BY DEF Types, MoveMouse
<1>4. /\ aux' \in Seq(Bytes) /\ Len(aux') = Len(aux) + 3
      /\ \A i \in 1 .. Len(aux) : aux'[i] = aux[i]
      /\ aux'[Len(aux) + 1] = x
  BY <1>2, <1>3
<1>5. /\ Behind' = Behind /\ Behind \in Nat /\ Len(packet) <= Behind
      /\ MouseCount' = MouseCount + 3 /\ MouseCount \in Nat /\ MouseCount = Behind + Len(aux)
  <2>1. Behind' = Behind
    BY <1>3 DEF Behind, FromMouse
  <2>2. Behind \in Nat /\ Len(packet) <= Behind
    BY <1>3 DEF Behind
  <2> QED BY <1>3, <1>4, <2>1, <2>2 DEF MouseCount
<1>6. \A i \in 1 .. MouseCount : MouseByte(i)' = MouseByte(i)
  <2>1. TAKE i \in 1 .. MouseCount
  <2>2. CASE i <= Behind
    BY <1>3, <1>5, <2>2 DEF MouseByte
  <2>3. CASE i > Behind
    <3>1. i - Behind \in 1 .. Len(aux)
      BY <1>3, <1>5, <2>3
    <3> QED BY <1>3, <1>4, <1>5, <2>3, <3>1 DEF MouseByte
  <2> QED BY <1>5, <2>2, <2>3
<1>7. PICK last : last = MouseCount + 1
  OBVIOUS
<1>8. last \in Nat /\ MouseByte(last)' = x
  <2>1. ~(last <= Behind') /\ ~(last <= Len(packet')) /\ last - Behind' = Len(aux) + 1
    BY <1>3, <1>5, <1>7
  <2>2. MouseByte(last)' = aux'[last - Behind']
    BY <2>1 DEF MouseByte
  <2> QED BY <1>4, <1>5, <1>7, <2>1, <2>2
<1>9. MouseCount % 3 = 0 /\ MouseCount' % 3 = 0
  BY <1>5 DEF WholePackets
<1>10. \A i \in 1 .. MouseCount' : i % 3 = 1 => MouseByte(i)'.bit3
  <2>1. TAKE i \in 1 .. MouseCount'
  <2>2. CASE i <= MouseCount
    BY <1>5, <1>6, <2>2 DEF WholePackets
  <2>3. CASE i > MouseCount
    <3>1. i % 3 = 1 => i = last
      BY <1>5, <1>7, <1>9, <2>3
    <3> QED BY <1>2, <1>8, <3>1
  <2> QED BY <1>5, <2>2, <2>3
<1>11. MouseCount' # 0 /\ MouseCount' - 2 = last
  BY <1>5, <1>7
<1>12. MouseByte(MouseCount - 2)'.left = button'
  BY <1>1, <1>2, <1>8, <1>11
<1>13. WholePackets'
  BY <1>9, <1>10, <1>11, <1>12 DEF WholePackets
<1> QED BY <1>1, <1>4, <1>13

(* The driver takes the bytes three by three. *)
LEMMA PollTakes ==
  ASSUME Types, WholePackets, Len(packet) < 3, PollMouse
  PROVE  WholePackets' /\ packet' \in Seq(Bytes) /\ Len(packet') < 3 /\ left' \in BOOLEAN
<1>1. /\ port.src = "aux" /\ port' = NoByte /\ UNCHANGED <<aux, button>>
      /\ port.byte \in Bytes /\ packet \in Seq(Bytes) /\ aux \in Seq(Bytes)
      /\ FromMouse /\ ~FromMouse'
  BY DEF PollMouse, FromMouse, Types, Ports, NoByte, user, device
<1>2. /\ Len(packet) \in Nat /\ Len(aux) \in Nat /\ Behind = Len(packet) + 1
      /\ MouseCount = Len(packet) + 1 + Len(aux) /\ Behind' = Len(packet')
  BY <1>1 DEF Behind, MouseCount
<1>3. PICK byte \in Bytes : byte = port.byte
  BY <1>1
<1>4. PICK now : now = Append(packet, byte)
  OBVIOUS
<1>5. /\ now \in Seq(Bytes) /\ Len(now) = Len(packet) + 1
      /\ \A i \in 1 .. Len(packet) : now[i] = packet[i]
      /\ now[Len(packet) + 1] = byte
  BY <1>1, <1>4
<1>6. \A i \in 1 .. MouseCount : MouseByte(i) = IF i <= Len(now) THEN now[i] ELSE aux[i - Len(now)]
  BY <1>1, <1>2, <1>3, <1>5 DEF MouseByte
<1>7. ~(packet = <<>> /\ ~byte.bit3)
  <2>1. SUFFICES ASSUME packet = <<>>  PROVE byte.bit3
    OBVIOUS
  <2>2. 1 \in 1 .. MouseCount /\ 1 % 3 = 1 /\ MouseByte(1) = byte
    BY <1>2, <1>5, <1>6, <2>1
  <2> QED BY <2>2 DEF WholePackets
<1>8. CASE Len(now) < 3
  <2>1. packet' = now /\ left' = left
    BY <1>3, <1>4, <1>7, <1>8 DEF PollMouse
  <2>2. Behind' = Len(now) /\ MouseCount' = MouseCount
    BY <1>1, <1>2, <1>5, <2>1 DEF MouseCount
  <2>3. MouseCount \in Nat /\ MouseCount > 0
    BY <1>2
  <2>4. \A i \in 1 .. MouseCount : MouseByte(i)' = MouseByte(i)
    BY <1>1, <1>6, <2>1, <2>2 DEF MouseByte
  <2>5. WholePackets'
    <3>1. left' = left /\ button' = button
      BY <1>1, <2>1
    <3>2. MouseCount - 2 \in 1 .. MouseCount /\ MouseCount # 0
      <4>1. MouseCount % 3 = 0
        BY DEF WholePackets
      <4> QED BY <2>3, <4>1
    <3>3. MouseByte(MouseCount - 2)' = MouseByte(MouseCount - 2)
      BY <2>2, <2>4, <3>2
    <3>4. \A i \in 1 .. MouseCount' : i % 3 = 1 => MouseByte(i)'.bit3
      BY <2>2, <2>4 DEF WholePackets
    <3> QED BY <2>2, <3>1, <3>2, <3>3, <3>4 DEF WholePackets
  <2> QED BY <1>5, <1>8, <2>1, <2>5 DEF Types
<1>9. CASE ~(Len(now) < 3)
  <2>1. packet' = <<>> /\ left' = now[1].left /\ Len(now) = 3
    BY <1>2, <1>3, <1>4, <1>5, <1>7, <1>9 DEF PollMouse
  <2>2. Behind' = 0 /\ MouseCount' = Len(aux) /\ MouseCount = Len(aux) + 3
    <3>1. Len(packet') = 0
      BY <2>1
    <3>2. MouseCount' = Behind' + Len(aux) /\ Behind' = 0
      BY <1>1, <1>2, <3>1 DEF MouseCount
    <3>3. Len(packet) = 2
      <4>1. PICK n \in Nat : n = Len(packet)
        BY <1>2
      <4>2. Len(now) = n + 1 /\ Len(now) = 3
        BY <1>5, <2>1, <4>1
      <4> QED BY <4>1, <4>2
    <3>4. MouseCount' = Len(aux)
      BY <1>2, <3>2
    <3>5. MouseCount = Len(aux) + 3
      BY <1>2, <3>3
    <3> QED BY <3>2, <3>4, <3>5
  <2>3. now[1] \in Bytes
    BY <1>5, <2>1
  <2>4. \A i \in 1 .. Len(aux) : MouseByte(i)' = aux[i] /\ MouseByte(i + 3) = aux[i]
    <3>1. TAKE i \in 1 .. Len(aux)
    <3>2. ~(i <= Len(packet')) /\ ~(i <= Behind') /\ i - Behind' = i
      BY <1>2, <2>1, <2>2
    <3>3. MouseByte(i)' = aux'[i]
      BY <3>2 DEF MouseByte
    <3>4. MouseByte(i + 3) = aux[(i + 3) - 3]
      BY <1>2, <1>6, <2>1, <2>2
    <3> QED BY <1>1, <1>2, <3>3, <3>4
  <2>5. WholePackets'
    <3>1. MouseCount' % 3 = 0
      <4>1. MouseCount % 3 = 0
        BY DEF WholePackets
      <4>2. (Len(aux) + 3) % 3 = Len(aux) % 3
        BY <1>2
      <4> QED BY <2>2, <4>1, <4>2
    <3>2. \A i \in 1 .. MouseCount' : i % 3 = 1 => MouseByte(i)'.bit3
      BY <1>2, <2>2, <2>4 DEF WholePackets
    <3>3. CASE Len(aux) = 0
      <4>1. MouseByte(1).left = button /\ MouseByte(1) = now[1]
        BY <1>2, <1>6, <2>1, <2>2, <3>3 DEF WholePackets
      <4> QED BY <1>1, <2>1, <2>2, <3>1, <3>2, <3>3, <4>1 DEF WholePackets
    <3>4. CASE Len(aux) # 0
      <4>1. PICK n : n = Len(aux) - 2
        OBVIOUS
      <4>2. n \in 1 .. Len(aux)
        BY <1>2, <2>2, <3>1, <3>4, <4>1
      <4>3. MouseByte(n + 3).left = button
        BY <1>2, <2>2, <4>1 DEF WholePackets
      <4>4. MouseByte(n)'.left = button
        BY <2>4, <4>2, <4>3
      <4> QED BY <1>1, <2>2, <3>1, <3>2, <3>4, <4>1, <4>4 DEF WholePackets
    <3> QED BY <3>3, <3>4
  <2> QED BY <2>1, <2>3, <2>5 DEF Bytes
<1> QED BY <1>8, <1>9

(* No byte of the mouse is on its way: all packets were made. *)
LEMMA NoneBehind ==
  ASSUME Types, WholePackets, Len(packet) < 3, aux = <<>>, ~FromMouse
  PROVE  packet = <<>> /\ left = button
<1>1. packet \in Seq(Bytes) /\ Len(packet) \in Nat /\ MouseCount = Len(packet)
  BY DEF Types, MouseCount, Behind
<1>2. MouseCount = 0 /\ Len(packet) = 0
  BY <1>1 DEF WholePackets
<1>3. packet = <<>>
  BY <1>1, <1>2
<1> QED BY <1>2, <1>3 DEF WholePackets

LEMMA NothingBehind ==
  ASSUME packet = <<>>, left = button, aux = <<>>, ~FromMouse
  PROVE  WholePackets
<1>1. Behind = 0 /\ MouseCount = 0
  BY DEF Behind, MouseCount
<1> QED BY <1>1 DEF WholePackets

-------------------------------------------------------------------------------
(* Every step keeps the whole. *)

THEOREM InitPs2 == Init => Ps2Inv
<1> SUFFICES ASSUME Init  PROVE Ps2Inv
  OBVIOUS
<1>1. Types
  <2>1. kbd \in Seq(Codes) /\ aux \in Seq(Bytes) /\ packet \in Seq(Bytes) /\ owed \in Seq(Makes)
    BY DEF Init
  <2>2. port \in Ports /\ kb \in Decoder /\ mode \in Modes
    BY DEF Init, Ports, Decoder, Modes
  <2> QED BY <2>1, <2>2 DEF Init, Types
<1>2. KeysInStep
  BY DEF Init, KeysInStep, KeyWaits, NoByte, Modifiers
<1>3. LoopInStep
  BY NothingBehind DEF Init, LoopInStep, FromMouse, NoByte
<1> QED BY <1>1, <1>2, <1>3 DEF Init, Ps2Inv

LEMMA TouchStep ==
  ASSUME Ps2Inv, HandsOff, NEW key \in Keys, Press(key) \/ Release(key)
  PROVE  Ps2Inv'
<1>1. PICK released \in BOOLEAN :
        /\ Touch(key, released)
        /\ held' = IF released THEN held \ {key} ELSE held \cup {key}
        /\ owed' = IF released THEN owed ELSE IF Plain(key) THEN Append(owed, key.make) ELSE owed
        /\ released => key \in held
  <2>1. CASE Press(key)
    BY <2>1 DEF Press
  <2>2. CASE Release(key)
    BY <2>2 DEF Release
  <2> QED BY <2>1, <2>2
<1>2. Types /\ KeysInStep /\ held' \subseteq Keys /\ (released \/ key \in held')
  BY <1>1 DEF Ps2Inv, Types
<1>3. KeysInStep' /\ ~KeyWaits /\ kbd' \in Seq(Codes) /\ owed' \in Seq(Makes)
  BY <1>1, <1>2, TouchKeeps
<1>4. /\ UNCHANGED <<button, aux, streaming, answer, port, own, kb, packet, left, mode, wrong>>
      /\ mode = "desktop" \/ (Settled /\ mode \in {"text", "events"})
  BY <1>1 DEF Touch, MayTouch
<1>5. Types'
  BY <1>2, <1>3, <1>4 DEF Types
<1>6. LoopInStep
  BY <1>4 DEF Ps2Inv
<1>7. WholePackets'
  BY <1>4, <1>6, PacketsSame DEF LoopInStep
<1>8. mode # "desktop" => FromMouse \/ aux = <<>>
  <2>1. port \in Ports /\ port.src # "kbd" /\ port.src # "answer"
    BY <1>2, <1>3, <1>6 DEF KeyWaits, Types, LoopInStep
  <2> QED BY <1>4, <2>1 DEF Settled, Ports, FromMouse
<1>9. LoopInStep'
  BY <1>4, <1>6, <1>7, <1>8 DEF LoopInStep, FromMouse
<1> QED BY <1>3, <1>4, <1>5, <1>9 DEF Ps2Inv

LEMMA MoveStep ==
  ASSUME Ps2Inv, HandsOff, MoveMouse
  PROVE  Ps2Inv'
<1>1. /\ UNCHANGED <<held, kbd, streaming, answer, port, own, kb, packet, left, mode, owed, wrong>>
      /\ mode = "desktop" /\ Types /\ KeysInStep /\ LoopInStep
  BY DEF MoveMouse, Ps2Inv
<1>2. WholePackets' /\ aux' \in Seq(Bytes) /\ button' \in BOOLEAN
  BY <1>1, MoveAdds DEF LoopInStep
<1>3. Types'
  BY <1>1, <1>2 DEF Types
<1>4. KeysInStep'
  BY <1>1 DEF KeysInStep, KeyWaits, ToRead, OnlyCode, WithPrefix, Held
<1>5. LoopInStep'
  BY <1>1, <1>2 DEF LoopInStep
<1> QED BY <1>1, <1>3, <1>4, <1>5 DEF Ps2Inv

LEMMA FillStep ==
  ASSUME Ps2Inv, FillPort
  PROVE  Ps2Inv'
<1>1. Types /\ KeysInStep /\ port = NoByte /\ ~FromMouse /\ port.src # "kbd"
  BY DEF Ps2Inv, FillPort, FillFromController, FillFromKeyboard, FillFromMouse, FromMouse, NoByte
<1>2. CASE FillFromController
  <2>1. /\ answer /\ ~answer' /\ port'.src = "answer" /\ port' \in Ports
        /\ UNCHANGED <<user, kbd, aux, streaming, own, kb, packet, left, mode, owed, wrong>>
    BY <1>2 DEF FillFromController, Ports, Codes
  <2>2. mode \notin Loops /\ InitInStep
    BY <2>1 DEF Ps2Inv, LoopInStep, Loops
  <2>3. InitInStep' /\ answer' \in BOOLEAN
    BY <1>2, <2>1, <2>2 DEF InitInStep, user, FillFromController
  <2>4. KeysInStep'
    BY <1>1, <2>1, KeysSame DEF user
  <2>5. Types'
    BY <1>1, <2>1, <2>3 DEF Types, user
  <2> QED BY <2>1, <2>2, <2>3, <2>4, <2>5 DEF Ps2Inv, Loops
<1>3. CASE FillFromKeyboard
  <2>1. /\ kbd # <<>> /\ port'.src = "kbd"
        /\ UNCHANGED <<user, aux, streaming, answer, own, kb, packet, left, mode, owed, wrong>>
    BY <1>3 DEF FillFromKeyboard
  <2>2. KeysInStep' /\ kbd' \in Seq(Codes) /\ port' \in Ports
    BY <1>1, <1>3, FillKeeps
  <2>3. LoopInStep /\ mode \in Loops
    BY <2>1 DEF Ps2Inv, InitInStep, Loops
  <2>4. WholePackets'
    BY <1>1, <2>1, <2>3, PacketsSame DEF LoopInStep, user, FromMouse
  <2>5. LoopInStep'
    BY <1>1, <2>1, <2>3, <2>4 DEF LoopInStep, KeyWaits
  <2>6. Types'
    BY <1>1, <2>1, <2>2 DEF Types, user
  <2> QED BY <2>1, <2>2, <2>3, <2>5, <2>6 DEF Ps2Inv, Loops
<1>4. CASE FillFromMouse
  <2>1. /\ aux # <<>> /\ port' = [src |-> "aux", byte |-> Head(aux)] /\ aux' = Tail(aux)
        /\ UNCHANGED <<user, kbd, streaming, answer, own, kb, packet, left, mode, owed, wrong>>
    BY <1>4 DEF FillFromMouse
  <2>2. port'.src = "aux"
    BY <2>1
  <2>3. KeysInStep'
    BY <1>1, <2>1, <2>2, KeysSame DEF user
  <2>4. CASE mode \in Loops
    <3>1. LoopInStep
      BY <2>4 DEF Ps2Inv, Loops
    <3>2. WholePackets' /\ port' \in Ports /\ aux' \in Seq(Bytes)
      BY <1>1, <1>4, <3>1, FillMovesOne DEF LoopInStep
    <3>3. LoopInStep'
      BY <2>1, <2>2, <3>1, <3>2 DEF LoopInStep, FromMouse
    <3>4. Types'
      BY <1>1, <2>1, <3>2 DEF Types, user
    <3> QED BY <2>1, <2>3, <2>4, <3>3, <3>4 DEF Ps2Inv, Loops
  <2>5. CASE mode \notin Loops
    <3>1. InitInStep /\ mode # "init config" /\ aux = <<Ack>> /\ ~answer
      BY <1>1, <2>1, <2>5 DEF Ps2Inv, Loops, InitInStep, OneAck, NoByte
    <3>2. port' = [src |-> "aux", byte |-> Ack] /\ aux' = <<>>
      <4>1. PICK ack : ack = Ack
        OBVIOUS
      <4>2. Head(aux) = ack /\ Tail(aux) = <<>>
        <5>1. aux = <<ack>>
          BY <3>1, <4>1
        <5> QED BY <5>1
      <4> QED BY <2>1, <4>1, <4>2
    <3>3. port' \in Ports /\ aux' \in Seq(Bytes)
      BY <3>2 DEF Ports, Bytes, Ack
    <3>4. InitInStep'
      BY <2>1, <3>1, <3>2 DEF InitInStep, OneAck, user
    <3>5. Types'
      BY <1>1, <2>1, <3>3 DEF Types, user
    <3> QED BY <2>1, <2>3, <2>5, <3>4, <3>5 DEF Ps2Inv, Loops
  <2> QED BY <2>4, <2>5
<1> QED BY <1>2, <1>3, <1>4 DEF FillPort

(* A key read in one of the loops; Enter may start mouse::init. *)
LEMMA KeyStep ==
  ASSUME Ps2Inv, TextKey \/ EventKey \/ DesktopKey
  PROVE  Ps2Inv'
<1> DEFINE char == Char(kb, port.code)
<1>1. /\ mode \in Loops /\ HasKey /\ port' = NoByte /\ Give(char)
      /\ UNCHANGED <<user, kbd, aux, streaming, own, packet, left>>
      /\ \/ kb' = Decoded(kb, port.code, AfterCode(kb, port.code))
         \/ kb' = Decoded(kb, port.code, AfterEvent(kb, port.code))
      /\ \/ UNCHANGED answer /\ mode' \in Loops /\ (mode # "desktop" \/ mode' = "desktop" \/ char # "none")
         \/ char # "none" /\ mode = "text" /\ StartDesktop
  BY DEF TextKey, EventKey, DesktopKey, Loops, device
<1>2. Types /\ KeysInStep /\ ~wrong /\ LoopInStep /\ Len(packet) < 3
  BY <1>1 DEF Ps2Inv, Loops
<1>3. port.src = "kbd" /\ ~FromMouse /\ ~FromMouse' /\ port' \in Ports /\ port'.src # "answer"
  BY <1>1, <1>2 DEF HasKey, LoopInStep, FromMouse, NoByte, Ports
<1>4. /\ KeysInStep' /\ ~wrong' /\ wrong' \in BOOLEAN /\ kb' \in Decoder /\ owed' \in Seq(Makes)
      /\ char # "none" => ~KeyWaits'
      /\ KeyWaits
  BY <1>1, <1>2, <1>3, ReadKeeps DEF user
<1>5. CASE UNCHANGED answer /\ mode' \in Loops /\ (mode # "desktop" \/ mode' = "desktop" \/ char # "none")
  <2>1. Types'
    BY <1>1, <1>2, <1>3, <1>4, <1>5 DEF Types, user, Loops, Modes
  <2>2. WholePackets'
    BY <1>1, <1>2, <1>3, PacketsSame DEF LoopInStep, user
  <2>3. LoopInStep'
    BY <1>1, <1>2, <1>3, <1>4, <1>5, <2>2 DEF LoopInStep
  <2> QED BY <1>1, <1>2, <1>4, <1>5, <2>1, <2>3 DEF Ps2Inv, Loops
<1>6. CASE char # "none" /\ mode = "text" /\ StartDesktop
  <2>1. mode' = "init config" /\ answer' /\ answer' \in BOOLEAN
    BY <1>6 DEF StartDesktop
  <2>2. Types'
    BY <1>1, <1>2, <1>3, <1>4, <2>1 DEF Types, user, Modes
  <2>3. aux = <<>>
    BY <1>2, <1>3, <1>4, <1>6 DEF LoopInStep
  <2>4. packet = <<>> /\ left = button
    BY <1>2, <1>3, <2>3, NoneBehind DEF LoopInStep
  <2>5. kbd' = <<>>
    BY <1>4, <1>6 DEF KeyWaits
  <2>6. InitInStep'
    BY <1>1, <2>1, <2>3, <2>4, <2>5 DEF InitInStep, user
  <2> QED BY <1>1, <1>2, <1>4, <2>1, <2>2, <2>6 DEF Ps2Inv
<1> QED BY <1>1, <1>5, <1>6

LEMMA PollStep ==
  ASSUME Ps2Inv, PollMouse
  PROVE  Ps2Inv'
<1>1. /\ mode = "desktop" /\ FromMouse /\ port' = NoByte /\ port.src = "aux"
      /\ UNCHANGED <<user, device, own, kb, mode, owed, wrong>>
      /\ Types /\ KeysInStep /\ LoopInStep /\ Len(packet) < 3
  BY DEF PollMouse, Ps2Inv, FromMouse
<1>2. WholePackets' /\ packet' \in Seq(Bytes) /\ Len(packet') < 3 /\ left' \in BOOLEAN
  BY <1>1, PollTakes DEF LoopInStep
<1>3. port.src # "kbd" /\ port'.src # "kbd" /\ port'.src # "answer" /\ port' \in Ports
  BY <1>1 DEF NoByte, Ports
<1>4. KeysInStep'
  BY <1>1, <1>3, KeysSame DEF user, device
<1>5. Types'
  BY <1>1, <1>2, <1>3 DEF Types, user, device
<1>6. LoopInStep'
  BY <1>1, <1>2, <1>3 DEF LoopInStep, device
<1> QED BY <1>1, <1>2, <1>4, <1>5, <1>6 DEF Ps2Inv

LEMMA MouseInitStep ==
  ASSUME Ps2Inv, ReadConfig \/ ReadDefaultsAck \/ ReadStreamingAck
  PROVE  Ps2Inv'
<1>1. /\ mode \notin Loops /\ port # NoByte /\ port' = NoByte
      /\ UNCHANGED <<user, kbd, answer, kb, packet, left, owed, wrong>>
      /\ \/ mode = "init config" /\ mode' = "init defaults" /\ aux' = Append(aux, Ack)
         \/ mode = "init defaults" /\ mode' = "init streaming" /\ aux' = Append(aux, Ack)
         \/ mode = "init streaming" /\ mode' = "desktop" /\ aux' = aux
      /\ own' \in BOOLEAN /\ streaming' \in BOOLEAN
  BY DEF ReadConfig, ReadDefaultsAck, ReadStreamingAck, Loops, device, Ps2Inv, Types
<1>2. Types /\ KeysInStep /\ ~wrong /\ InitInStep /\ Len(packet) < 3
  BY <1>1 DEF Ps2Inv, Loops
<1>3. /\ packet = <<>> /\ left = button /\ kbd = <<>> /\ ~answer /\ aux = <<>>
      /\ port.src # "kbd"
  <2>1. CASE mode = "init config"
    BY <1>1, <1>2, <2>1 DEF InitInStep
  <2>2. CASE mode # "init config"
    <3>1. OneAck /\ ~answer /\ packet = <<>> /\ left = button /\ kbd = <<>>
      BY <1>2, <2>2 DEF InitInStep
    <3>2. port = [src |-> "aux", byte |-> Ack] /\ aux = <<>>
      BY <1>1, <3>1 DEF OneAck
    <3>3. port.src # "kbd"
      BY <3>2
    <3> QED BY <3>1, <3>2, <3>3
  <2> QED BY <2>1, <2>2
<1>4. port'.src # "kbd" /\ port'.src # "answer" /\ port' \in Ports /\ ~FromMouse'
  BY <1>1 DEF NoByte, Ports, FromMouse
<1>5. KeysInStep' /\ ~KeyWaits'
  BY <1>1, <1>2, <1>3, <1>4, KeysSame DEF user, KeyWaits
<1>6. aux' = <<Ack>> \/ (aux' = <<>> /\ mode' = "desktop")
  <2>1. PICK ack : ack = Ack
    OBVIOUS
  <2>2. Append(<<>>, ack) = <<ack>>
    OBVIOUS
  <2> QED BY <1>1, <1>3, <2>1, <2>2
<1>7. aux' \in Seq(Bytes)
  <2>1. Ack \in Bytes
    BY DEF Ack, Bytes
  <2>2. \A S : \A x \in S : <<x>> \in Seq(S) /\ <<>> \in Seq(S)
    OBVIOUS
  <2> QED BY <1>6, <2>1, <2>2
<1>8. Types'
  BY <1>1, <1>2, <1>4, <1>7 DEF Types, user, Modes
<1>9. CASE mode = "init streaming"
  <2>1. aux' = <<>> /\ mode' = "desktop"
    BY <1>1, <1>3, <1>9
  <2>2. WholePackets'
    <3>1. Len(packet') = 0 /\ Len(aux') = 0
      BY <1>1, <1>3, <2>1
    <3>2. Behind' = 0
      BY <1>4, <3>1 DEF Behind
    <3>3. MouseCount' = 0
      BY <3>1, <3>2 DEF MouseCount
    <3>4. left' = button'
      BY <1>1, <1>3 DEF user
    <3>5. MouseCount' % 3 = 0 /\ 1 .. MouseCount' = {}
      BY <3>3
    <3> QED BY <3>3, <3>4, <3>5 DEF WholePackets
  <2>3. LoopInStep'
    BY <1>1, <1>3, <1>4, <2>1, <2>2 DEF LoopInStep
  <2> QED BY <1>1, <1>2, <1>5, <1>8, <2>1, <2>3 DEF Ps2Inv
<1>10. CASE mode # "init streaming"
  <2>1. mode' \in {"init defaults", "init streaming"} /\ aux' = <<Ack>>
    BY <1>1, <1>6, <1>10
  <2>2. InitInStep'
    BY <1>1, <1>3, <2>1 DEF InitInStep, OneAck, user
  <2> QED BY <1>1, <1>2, <1>5, <1>8, <2>1, <2>2 DEF Ps2Inv
<1> QED BY <1>9, <1>10

THEOREM NextPs2 ==
  ASSUME Ps2Inv, HandsOff, [Next]_vars
  PROVE  Ps2Inv'
<1>1. CASE UNCHANGED vars
  <2>1. /\ UNCHANGED <<held, button, kbd, aux, streaming, answer, port, own, kb, packet, left>>
        /\ UNCHANGED <<mode, owed, wrong>>
    BY <1>1 DEF vars, user, device
  <2>2. Types' /\ InitInStep' = InitInStep /\ KeyWaits' = KeyWaits /\ FromMouse' = FromMouse
    BY <2>1 DEF Types, InitInStep, OneAck, KeyWaits, FromMouse, Ps2Inv
  <2>3. KeysInStep'
    BY <2>1, <2>2 DEF Ps2Inv, KeysInStep, ToRead, OnlyCode, WithPrefix, Held
  <2>4. LoopInStep => LoopInStep'
    BY <2>1, <2>2, PacketsSame DEF LoopInStep
  <2> QED BY <2>1, <2>2, <2>3, <2>4 DEF Ps2Inv
<1>2. CASE \E key \in Keys : Press(key) \/ Release(key)
  BY <1>2, TouchStep
<1>3. CASE MoveMouse
  BY <1>3, MoveStep
<1>4. CASE FillPort
  BY <1>4, FillStep
<1>5. CASE Kernel
  BY <1>5, KeyStep, PollStep, MouseInitStep DEF Kernel
<1> QED BY <1>1, <1>2, <1>3, <1>4, <1>5 DEF Next

LEMMA Ps2Always ==
  ASSUME HandsOff
  PROVE  Spec => []Ps2Inv
<1>1. Init => Ps2Inv
  BY InitPs2
<1>2. Ps2Inv /\ [Next]_vars => Ps2Inv'
  BY NextPs2
<1> QED BY <1>1, <1>2, PTL DEF Spec

-------------------------------------------------------------------------------
(* What it gives. *)

(* Whichever decoders of keyboard.rs the scan codes of whichever keyboard went  *)
(* through, and through whichever programs: for a user who waits for the       *)
(* machine no modifier stays on that nobody holds, and no prefix is left over. *)
THEOREM NoStuckModifierTheorem ==
  ASSUME HandsOff
  PROVE  Spec => []NoStuckModifier
<1>1. Ps2Inv => NoStuckModifier
  BY ToReadWaits DEF Ps2Inv, KeysInStep, NoStuckModifier, Modifiers, Held, Sets
<1> QED BY <1>1, Ps2Always, PTL

(* Programs are given the characters of the keys pressed, in their order, also *)
(* across the change from a text program to the piano or the desktop and back. *)
THEOREM TypedAsPressedTheorem ==
  ASSUME HandsOff
  PROVE  Spec => []TypedAsPressed
<1>1. Ps2Inv => TypedAsPressed
  BY ToReadWaits DEF Ps2Inv, KeysInStep, TypedAsPressed
<1> QED BY <1>1, Ps2Always, PTL

(* The mouse driver takes the bytes as the packets the mouse made of them, its *)
(* packet array always has room, and the answers mouse::init waits for are     *)
(* never taken for movements.                                                  *)
THEOREM MouseInStepTheorem ==
  ASSUME HandsOff
  PROVE  Spec => []MouseInStep
<1>1. Ps2Inv => MouseInStep
  BY NoneBehind DEF Ps2Inv, MouseInStep, LoopInStep
<1> QED BY <1>1, Ps2Always, PTL

-------------------------------------------------------------------------------
(* Desktop. *)

(* The form of the kernel's variables. *)
Picture(p) == p = [x \in Cells |-> p[x]]
DeskForm(d) ==
  d \in [screen : {d.screen}, drawn : {d.drawn}, under : {d.under},
         window : {d.window}, lastLeft : {d.lastLeft}]
WindowForm(w) == w = [app |-> w.app, value |-> w.value]

(* A window changes the desktop only where it was kept. *)
KeptBehind(d) ==
  /\ \A x \in Cells \ PatchCells : d.drawn[x] = Composed[x]
  /\ d.window = NoWindow => d.drawn = Composed
InForm(d) == DeskForm(d) /\ WindowForm(d.window) /\ Picture(d.drawn) /\ KeptBehind(d)

(* Between two parts of the loop the pointer is down at x; inside of one it is *)
(* up, and the screen is what was drawn.                                      *)
Up(d) == InForm(d) /\ d.screen = d.drawn
Down(d, x) ==
  /\ InForm(d)
  /\ d.screen = Over(Stroke(PointerAt(x), Arrow), d.drawn)
  /\ d.under = [c \in PointerAt(x) |-> d.drawn[c]]

PatchKept == patch = [x \in PatchCells |-> Composed[x]]
DeskInv == running => Down(desk, mouse.x) /\ PatchKept

DesktopSpec == DesktopInit /\ [][DesktopNext]_dvars

-------------------------------------------------------------------------------

(* A desk with one part exchanged, and with two. *)
LEMMA OnePart ==
  ASSUME NEW d, DeskForm(d), NEW s
  PROVE  /\ [d EXCEPT !.screen = s] =
              [screen |-> s, drawn |-> d.drawn, under |-> d.under,
               window |-> d.window, lastLeft |-> d.lastLeft]
         /\ [d EXCEPT !.drawn = s] =
              [screen |-> d.screen, drawn |-> s, under |-> d.under,
               window |-> d.window, lastLeft |-> d.lastLeft]
         /\ [d EXCEPT !.under = s] =
              [screen |-> d.screen, drawn |-> d.drawn, under |-> s,
               window |-> d.window, lastLeft |-> d.lastLeft]
BY DEF DeskForm

LEMMA BothPictures ==
  ASSUME NEW d, DeskForm(d), NEW s, NEW p
  PROVE  [d EXCEPT !.screen = s, !.drawn = p] =
           [screen |-> s, drawn |-> p, under |-> d.under,
            window |-> d.window, lastLeft |-> d.lastLeft]
<1>1. PICK e : e = [d EXCEPT !.screen = s]
  OBVIOUS
<1>2. /\ DeskForm(e) /\ e.screen = s /\ e.under = d.under
      /\ e.window = d.window /\ e.lastLeft = d.lastLeft
  BY <1>1, OnePart DEF DeskForm
<1>3. [e EXCEPT !.drawn = p] =
        [screen |-> e.screen, drawn |-> p, under |-> e.under,
         window |-> e.window, lastLeft |-> e.lastLeft]
  BY <1>2, OnePart, Zenon
<1> QED BY <1>1, <1>2, <1>3, Zenon

LEMMA SavedAndDrawn ==
  ASSUME NEW d, DeskForm(d), NEW s, NEW p
  PROVE  [d EXCEPT !.under = p, !.screen = s] =
           [screen |-> s, drawn |-> d.drawn, under |-> p,
            window |-> d.window, lastLeft |-> d.lastLeft]
<1>1. PICK e : e = [d EXCEPT !.under = p]
  OBVIOUS
<1>2. /\ DeskForm(e) /\ e.under = p /\ e.drawn = d.drawn
      /\ e.window = d.window /\ e.lastLeft = d.lastLeft
  BY <1>1, OnePart DEF DeskForm
<1>3. [e EXCEPT !.screen = s] =
        [screen |-> s, drawn |-> e.drawn, under |-> e.under,
         window |-> e.window, lastLeft |-> e.lastLeft]
  BY <1>2, OnePart, Zenon
<1> QED BY <1>1, <1>2, <1>3, Zenon

LEMMA DrawnOn ==
  ASSUME NEW d, DeskForm(d), NEW stroke
  PROVE  DrawOn(d, stroke) =
           [screen |-> Over(stroke, d.screen), drawn |-> Over(stroke, d.drawn),
            under |-> d.under, window |-> d.window, lastLeft |-> d.lastLeft]
BY BothPictures, Zenon DEF DrawOn

(* Where the window lies. *)
LEMMA Layout ==
  /\ Content \subseteq WindowCells /\ WindowCells \subseteq PatchCells
  /\ PatchCells \subseteq Cells
  /\ Canvas \subseteq Content /\ WinX + 1 .. ClearButton \subseteq Content
  /\ \A x \in Canvas : x - 1 .. x + 1 \subseteq Content
BY DesktopAssumption
   DEF Content, WindowCells, PatchCells, Cells, Canvas, ClearButton, Close

(* restore_under_cursor undoes save_under_cursor and draw_cursor_arrow. *)
LEMMA LiftedIsUp ==
  ASSUME NEW d, NEW x, Down(d, x)
  PROVE  /\ Up(LiftPointer(d))
         /\ LiftPointer(d).window = d.window /\ LiftPointer(d).lastLeft = d.lastLeft
<1> DEFINE e == LiftPointer(d)
<1>1. e = [screen |-> Over(d.under, d.screen), drawn |-> d.drawn, under |-> d.under,
           window |-> d.window, lastLeft |-> d.lastLeft]
  BY DEF Down, InForm, DeskForm, LiftPointer
<1>2. Over(d.under, d.screen) = d.drawn
  <2>1. PointerAt(x) \subseteq Cells
    BY DEF PointerAt
  <2> QED BY <2>1 DEF Down, InForm, Picture, Stroke, Over
<1> QED BY <1>1, <1>2 DEF Up, Down, InForm, DeskForm, WindowForm, Picture, KeptBehind

(* save_under_cursor and draw_cursor_arrow put the pointer down. *)
LEMMA PutIsDown ==
  ASSUME NEW d, NEW x, Up(d)
  PROVE  /\ Down(PutPointer(d, x), x)
         /\ PutPointer(d, x).window = d.window /\ PutPointer(d, x).lastLeft = d.lastLeft
<1> DEFINE e == PutPointer(d, x)
<1>1. e = [screen |-> Over(Stroke(PointerAt(x), Arrow), d.screen), drawn |-> d.drawn,
           under |-> [c \in PointerAt(x) |-> d.screen[c]],
           window |-> d.window, lastLeft |-> d.lastLeft]
  BY SavedAndDrawn, Zenon DEF Up, InForm, PutPointer
<1> QED BY <1>1 DEF Up, Down, InForm, DeskForm, WindowForm, Picture, KeptBehind

(* What a window draws keeps the pointer up. *)
LEMMA DrawnIsUp ==
  ASSUME NEW d, Up(d), d.window # NoWindow,
         NEW stroke, DOMAIN stroke \subseteq PatchCells
  PROVE  Up(DrawOn(d, stroke)) /\ DrawOn(d, stroke).window = d.window
<1> DEFINE e == DrawOn(d, stroke)
<1>0. DeskForm(d)
  BY DEF Up, InForm
<1>1. e = [screen |-> Over(stroke, d.screen), drawn |-> Over(stroke, d.drawn), under |-> d.under,
           window |-> d.window, lastLeft |-> d.lastLeft]
  BY <1>0, DrawnOn, Zenon
<1>2. /\ Picture(Over(stroke, d.drawn))
      /\ \A x \in Cells \ PatchCells : Over(stroke, d.drawn)[x] = d.drawn[x]
  BY Layout DEF Up, InForm, Picture, Over
<1> QED BY <1>1, <1>2 DEF Up, InForm, DeskForm, WindowForm, KeptBehind

(* Another value of the window draws nothing yet. *)
LEMMA ChangedIsUp ==
  ASSUME NEW d, Up(d), d.window # NoWindow, NEW v, d.window.app # "none"
  PROVE  Up(With(d, v)) /\ With(d, v).window = Showing(d.window.app, v)
<1> DEFINE e == With(d, v)
<1>1. e = [screen |-> d.screen, drawn |-> d.drawn, under |-> d.under,
           window |-> Showing(d.window.app, v), lastLeft |-> d.lastLeft]
  BY DEF Up, InForm, DeskForm, With
<1> QED BY <1>1 DEF Up, InForm, DeskForm, WindowForm, Picture, KeptBehind, NoWindow, Showing

LEMMA WindowIsUp ==
  ASSUME NEW d, Up(d), d.window # NoWindow
  PROVE  Up(DrawWindow(d)) /\ DrawWindow(d).window = d.window
<1>1. DOMAIN Looks(d.window) \subseteq Content
  BY Layout DEF Looks, Toolbar, BlankCanvas, Stroke, Over
<1> QED BY <1>1, Layout, DrawnIsUp DEF DrawWindow

LEMMA ShownIsUp ==
  ASSUME NEW d, Up(d), NEW v, d.window # NoWindow, d.window.app # "none"
  PROVE  Up(ShowValue(d, v))
<1>1. Up(With(d, v)) /\ With(d, v).window = Showing(d.window.app, v)
  BY ChangedIsUp
<1>2. With(d, v).window # NoWindow
  BY <1>1 DEF Showing, NoWindow
<1> QED BY <1>1, <1>2, WindowIsUp DEF ShowValue

(* on_drag: the brush stays in the window. *)
LEMMA DraggedIsUp ==
  ASSUME NEW d, Up(d), NEW x
  PROVE  Up(Drag(d, x))
<1>1. CASE d.window.app = "Paint" /\ x \in Canvas
  <2>1. d.window # NoWindow
    BY <1>1 DEF NoWindow, Showing
  <2>2. DOMAIN Stroke(x - 1 .. x + 1, Colour("ink", d.window.value)) \subseteq PatchCells
    BY <1>1, Layout DEF Stroke
  <2> QED BY <1>1, <2>1, <2>2, DrawnIsUp DEF Drag
<1>2. CASE ~(d.window.app = "Paint" /\ x \in Canvas)
  BY <1>2 DEF Drag
<1> QED BY <1>1, <1>2

(* on_click of a window. *)
LEMMA ClickedWindowIsUp ==
  ASSUME NEW d, Up(d), NEW x, NEW v, d.window # NoWindow
  PROVE  Up(ClickWindow(d, x, v))
<1>1. CASE d.window.app = "Paint"
  <2> DEFINE picked == {k \in 1 .. Colours : x = Swatch(k)}
             k == CHOOSE k \in picked : TRUE
  <2>1. Up(With(d, k)) /\ With(d, k).window = Showing("Paint", k)
    BY <1>1, ChangedIsUp
  <2>2. Up(DrawOn(With(d, k), Toolbar(With(d, k).window)))
    <3>1. DOMAIN Toolbar(With(d, k).window) \subseteq PatchCells
      BY Layout DEF Toolbar, Stroke
    <3>2. With(d, k).window # NoWindow
      BY <2>1 DEF Showing, NoWindow
    <3> QED BY <2>1, <3>1, <3>2, DrawnIsUp
  <2>3. Up(DrawOn(d, BlankCanvas))
    <3>1. DOMAIN BlankCanvas \subseteq PatchCells
      BY Layout DEF BlankCanvas, Stroke
    <3> QED BY <3>1, DrawnIsUp
  <2>4. ClickWindow(d, x, v) \in
          {DrawOn(With(d, k), Toolbar(With(d, k).window)), DrawOn(d, BlankCanvas), d}
    <3>1. ClickWindow(d, x, v) = ClickPaint(d, x)
      BY <1>1 DEF ClickWindow, Clickable
    <3>2. CASE picked # {}
      BY <3>1, <3>2, Zenon DEF ClickPaint
    <3>3. CASE picked = {}
      BY <3>1, <3>3, Zenon DEF ClickPaint
    <3> QED BY <3>2, <3>3
  <2> QED BY <2>2, <2>3, <2>4, Zenon
<1>2. CASE d.window.app \in Clickable /\ x \in Content
  <2>1. d.window.app # "Paint" /\ d.window.app # "none"
    BY <1>2 DEF Clickable
  <2> QED BY <1>2, <2>1, ShownIsUp DEF ClickWindow
<1>3. CASE d.window.app # "Paint" /\ ~(d.window.app \in Clickable /\ x \in Content)
  BY <1>3 DEF ClickWindow
<1> QED BY <1>1, <1>2, <1>3

(* A window opens on the whole desktop. *)
LEMMA OpenedIsUp ==
  ASSUME NEW d, Up(d), NEW app \in Apps, NEW v
  PROVE  Up(Open(d, app, v))
<1> DEFINE frame == Stroke(WindowCells, Colour("frame", 0))
           first == IF app = "Paint" THEN 1 ELSE v
           e == DrawOn(d, frame)
           f == [e EXCEPT !.window = Showing(app, first)]
<1>1. e = [screen |-> Over(frame, d.screen), drawn |-> Over(frame, d.drawn), under |-> d.under,
           window |-> d.window, lastLeft |-> d.lastLeft]
  <2>1. DeskForm(d)
    BY DEF Up, InForm
  <2> QED BY <2>1, DrawnOn, Zenon
<1>2. f = [screen |-> Over(frame, d.screen), drawn |-> Over(frame, d.drawn), under |-> d.under,
           window |-> Showing(app, first), lastLeft |-> d.lastLeft]
  BY <1>1
<1>3. Showing(app, first) # NoWindow
  BY DEF Showing, NoWindow, Apps
<1>4. /\ Picture(Over(frame, d.drawn))
      /\ \A x \in Cells \ PatchCells : Over(frame, d.drawn)[x] = d.drawn[x]
  BY Layout DEF Up, InForm, Picture, Over, Stroke
<1>5. Up(f)
  BY <1>2, <1>3, <1>4 DEF Up, InForm, DeskForm, WindowForm, KeptBehind, Showing
<1> QED BY <1>2, <1>3, <1>5, WindowIsUp DEF Open

(* Closing puts the desktop back as it was. *)
LEMMA ClosedIsUp ==
  ASSUME NEW d, Up(d), PatchKept
  PROVE  Up(CloseWindow(d))
<1> DEFINE e == [d EXCEPT !.window = NoWindow]
<1>1. Over(patch, d.screen) = Composed
  BY Layout DEF PatchKept, Up, InForm, Picture, KeptBehind, Over, Composed
<1>2. CloseWindow(d) =
        [screen |-> Composed, drawn |-> Composed, under |-> d.under,
         window |-> NoWindow, lastLeft |-> d.lastLeft]
  <2>1. DeskForm(d)
    BY DEF Up, InForm
  <2>2. e = [screen |-> d.screen, drawn |-> d.drawn, under |-> d.under,
             window |-> NoWindow, lastLeft |-> d.lastLeft]
    BY <2>1 DEF DeskForm
  <2>3. DeskForm(e)
    BY <2>2 DEF DeskForm
  <2>4. CloseWindow(d) = [e EXCEPT !.screen = Over(patch, d.screen), !.drawn = Composed]
    BY DEF CloseWindow
  <2> QED BY <1>1, <2>2, <2>3, <2>4, BothPictures
<1> QED BY <1>2 DEF Up, InForm, DeskForm, WindowForm, Picture, KeptBehind, NoWindow, Showing, Composed

(* handle_click *)
LEMMA HandledIsUp ==
  ASSUME NEW d, Up(d), PatchKept, NEW x, NEW v
  PROVE  Up(HandleClick(d, x, v))
<1> DEFINE under == {k \in DOMAIN Icons : IconX[Icons[k]] = x}
           k == CHOOSE k \in under : TRUE
<1>1. CASE d.window # NoWindow /\ x = Close
  BY <1>1, ClosedIsUp DEF HandleClick
<1>2. CASE d.window # NoWindow /\ x # Close
  BY <1>2, ClickedWindowIsUp DEF HandleClick
<1>3. CASE d.window = NoWindow /\ under = {}
  BY <1>3 DEF HandleClick
<1>4. CASE d.window = NoWindow /\ under # {}
  <2>1. PICK app : app = Icons[k]
    OBVIOUS
  <2>2. HandleClick(d, x, v) = Open(d, app, v)
    BY <1>4, <2>1, Zenon DEF HandleClick
  <2>3. app \in Apps
    <3>1. k \in under
      BY <1>4, Zenon
    <3> QED BY <2>1, <3>1, DesktopAssumption
  <2>4. Up(Open(d, app, v))
    BY <2>3, OpenedIsUp
  <2> QED BY <2>2, <2>4
<1> QED BY <1>1, <1>2, <1>3, <1>4

-------------------------------------------------------------------------------

(* Each part of the loop takes a pointer that is down to one that is down. *)
LEMMA MotionKeepsDown ==
  ASSUME NEW d, NEW m, Down(d, mouse.x)
  PROVE  Down(PointerMoved(d, m), m.x)
<1>1. CASE m.x = mouse.x
  BY <1>1 DEF PointerMoved
<1>2. CASE m.x # mouse.x
  <2>1. Up(LiftPointer(d))
    BY LiftedIsUp
  <2>2. Up(Drag(LiftPointer(d), m.x))
    BY <2>1, DraggedIsUp
  <2> QED BY <1>2, <2>1, <2>2, PutIsDown DEF PointerMoved
<1> QED BY <1>1, <1>2

LEMMA TickKeepsDown ==
  ASSUME NEW d, NEW m, NEW v, Down(d, m.x)
  PROVE  Down(Ticked(d, m, v), m.x)
<1>1. CASE d.window.app \in Ticking
  <2>1. /\ Up(LiftPointer(d)) /\ LiftPointer(d).window = d.window
    BY LiftedIsUp
  <2>2. d.window # NoWindow /\ d.window.app # "none"
    BY <1>1 DEF Ticking, NoWindow, Showing
  <2>3. Up(ShowValue(LiftPointer(d), v))
    BY <2>1, <2>2, ShownIsUp
  <2> QED BY <1>1, <2>3, PutIsDown DEF Ticked, Redrawn
<1>2. CASE d.window.app \notin Ticking
  BY <1>2 DEF Ticked
<1> QED BY <1>1, <1>2

LEMMA ClickKeepsDown ==
  ASSUME NEW d, NEW m, NEW v, Down(d, m.x), PatchKept
  PROVE  Down(MouseClicked(d, m, v), m.x)
<1>1. CASE m.left /\ ~d.lastLeft
  <2>1. Up(LiftPointer(d))
    BY LiftedIsUp
  <2>2. Up(HandleClick(LiftPointer(d), m.x, v))
    BY <2>1, HandledIsUp
  <2> QED BY <1>1, <2>2, PutIsDown DEF MouseClicked
<1>2. CASE ~(m.left /\ ~d.lastLeft)
  BY <1>2 DEF MouseClicked
<1> QED BY <1>1, <1>2

LEMMA KeyKeepsDown ==
  ASSUME NEW d, NEW m, NEW v, Down(d, m.x)
  PROVE  Down(Keyed(d, m, v), m.x)
<1>1. CASE d.window # NoWindow
  <2>1. /\ Up(LiftPointer(d)) /\ LiftPointer(d).window = d.window
    BY LiftedIsUp
  <2>2. CASE d.window.app \in Typable
    <3>1. d.window.app # "none"
      BY <2>2 DEF Typable
    <3>2. Up(KeyToWindow(LiftPointer(d), v))
      BY <1>1, <2>1, <2>2, <3>1, ShownIsUp DEF KeyToWindow
    <3> QED BY <1>1, <3>2, PutIsDown DEF Keyed
  <2>3. CASE d.window.app \notin Typable
    <3>1. Up(KeyToWindow(LiftPointer(d), v))
      BY <2>1, <2>3 DEF KeyToWindow
    <3> QED BY <1>1, <3>1, PutIsDown DEF Keyed
  <2> QED BY <2>2, <2>3
<1>2. CASE d.window = NoWindow
  BY <1>2 DEF Keyed
<1> QED BY <1>1, <1>2

(* The button that is remembered is not part of the picture. *)
LEMMA RememberKeepsDown ==
  ASSUME NEW d, NEW x, Down(d, x), NEW isLeft
  PROVE  Down([d EXCEPT !.lastLeft = isLeft], x)
<1>1. [d EXCEPT !.lastLeft = isLeft] =
        [screen |-> d.screen, drawn |-> d.drawn, under |-> d.under,
         window |-> d.window, lastLeft |-> isLeft]
  BY DEF Down, InForm, DeskForm
<1> QED BY <1>1 DEF Down, InForm, DeskForm, WindowForm, Picture, KeptBehind

LEMMA TurnKeepsDown ==
  ASSUME DeskInv, Turn
  PROVE  DeskInv'
<1>1. PICK m \in Polled, v \in Shown, ticks, key, esc \in BOOLEAN :
        LET moved == PointerMoved(desk, m)
            ticked == IF ticks THEN Ticked(moved, m, v) ELSE moved
            clicked == [MouseClicked(ticked, m, v) EXCEPT !.lastLeft = m.left]
        IN  /\ mouse' = m /\ running' = ~esc
            /\ desk' = IF key /\ ~esc THEN Keyed(clicked, m, v) ELSE clicked
  BY DEF Turn
<1> DEFINE moved == PointerMoved(desk, m)
           ticked == IF ticks THEN Ticked(moved, m, v) ELSE moved
           clicked == [MouseClicked(ticked, m, v) EXCEPT !.lastLeft = m.left]
<1>2. Down(desk, mouse.x) /\ PatchKept /\ patch' = patch
  BY DEF DeskInv, Turn
<1>3. Down(moved, m.x)
  BY <1>2, MotionKeepsDown
<1>4. Down(ticked, m.x)
  BY <1>3, TickKeepsDown
<1>5. Down(MouseClicked(ticked, m, v), m.x)
  BY <1>2, <1>4, ClickKeepsDown
<1>6. Down(clicked, m.x)
  BY <1>5, RememberKeepsDown
<1>7. Down(Keyed(clicked, m, v), m.x)
  BY <1>6, KeyKeepsDown
<1>8. Down(desk', m.x) /\ mouse' = m
  <2> HIDE DEF clicked
  <2> QED BY <1>1, <1>6, <1>7 DEF clicked
<1>9. Down(desk, mouse.x)' /\ PatchKept'
  BY <1>2, <1>8, Zenon DEF Down, InForm, DeskForm, WindowForm, Picture, KeptBehind, PatchKept
<1> QED BY <1>9 DEF DeskInv

LEMMA RunIsDown ==
  ASSUME Run
  PROVE  DeskInv'
<1> DEFINE d == DeskOf(Composed)
<1>1. Up(d)
  BY DEF DeskOf, Up, InForm, DeskForm, WindowForm, Picture, KeptBehind, Composed, NoWindow, Showing
<1>2. Down(PutPointer(d, mouse.x), mouse.x)
  BY <1>1, PutIsDown
<1>3. desk' = PutPointer(d, mouse.x) /\ mouse' = mouse /\ PatchKept'
  BY DEF Run, PatchKept
<1>4. Down(desk, mouse.x)'
  BY <1>2, <1>3, Zenon DEF Down, InForm, DeskForm, WindowForm, Picture, KeptBehind
<1> QED BY <1>3, <1>4 DEF DeskInv

(* The screen is what was drawn with the pointer over it, whatever happens at *)
(* the desktop (run, redraw_active, handle_click, save_under_cursor,          *)
(* restore_under_cursor): the pointer never covers what it did not save and   *)
(* never brings back what was drawn over, and a window closed leaves nothing. *)
THEOREM PointerLeavesNoTrace == DesktopSpec => []ScreenAsDrawn
<1>1. DesktopInit => DeskInv
  BY DEF DesktopInit, DeskInv
<1>2. DeskInv /\ [DesktopNext]_dvars => DeskInv'
  <2> SUFFICES ASSUME DeskInv, [DesktopNext]_dvars PROVE DeskInv'
    OBVIOUS
  <2>1. CASE Run
    BY <2>1, RunIsDown
  <2>2. CASE Turn
    BY <2>2, TurnKeepsDown
  <2>3. CASE UNCHANGED dvars
    BY <2>3 DEF dvars, DeskInv, PatchKept, Down, InForm, DeskForm, WindowForm, Picture, KeptBehind
  <2> QED BY <2>1, <2>2, <2>3 DEF DesktopNext
<1>3. DeskInv => ScreenAsDrawn
  BY DEF DeskInv, Down, InForm, KeptBehind, ScreenAsDrawn
<1> QED BY <1>1, <1>2, <1>3, PTL DEF DesktopSpec

-------------------------------------------------------------------------------
(* The calculator computes with functions that go through numbers.  How they  *)
(* do is shown without an induction: there is no smallest number at which it  *)
(* fails.                                                                     *)

(* A set of numbers has a smallest. *)
LEMMA HasSmallest ==
  ASSUME NEW S \in SUBSET Nat, S # {}
  PROVE  \E m \in S : \A j \in S : m <= j
<1>1. PICK R : R = {ss \in Nat \X Nat : ss[1] < ss[2]}
  OBVIOUS
<1>2. IsWellFoundedOn(R, Nat)
  BY <1>1, NatLessThanWellFounded DEF OpToRel
<1>3. PICK m \in S : \A j \in S : ~(<<j, m>> \in R)
  BY <1>2, WFMin
<1>4. ASSUME NEW j \in S  PROVE m <= j
  <2>1. <<j, m>> \notin R
    BY <1>3
  <2>2. ~(j < m)
    BY <1>1, <2>1
  <2> QED BY <2>2
<1> QED BY <1>4

(* A set that holds 0, and with each number the next one, holds them all: *)
(* there is no smallest number that it does not hold.                      *)
LEMMA Stepwise ==
  ASSUME NEW n \in Nat, NEW A, 0 \in A, \A k \in 1 .. n : k - 1 \in A => k \in A
  PROVE  \A k \in 0 .. n : k \in A
<1>1. PICK S : S = {k \in 0 .. n : k \notin A}
  OBVIOUS
<1>2. SUFFICES ASSUME S # {}  PROVE FALSE
  BY <1>1
<1>3. S \in SUBSET Nat
  BY <1>1
<1>4. PICK m \in S : \A j \in S : m <= j
  BY <1>2, <1>3, HasSmallest
<1>5. m \in 0 .. n /\ m \notin A /\ m \in Nat
  BY <1>1
<1>6. m # 0 /\ m \in 1 .. n /\ m - 1 \in 0 .. n
  BY <1>5
<1>7. m - 1 \in A
  BY <1>1, <1>4, <1>6
<1> QED BY <1>5, <1>6, <1>7

(* What F says of a number depends only on what is known of smaller ones. *)
Determined(F, n, T) ==
  /\ F \in [(0 .. n) \X [0 .. n -> T] -> T]
  /\ \A i \in 0 .. n : \A f \in [0 .. n -> T] : \A g \in [0 .. n -> T] :
       (\A j \in 0 .. n : j < i => f[j] = g[j]) => F[<<i, f>>] = F[<<i, g>>]

(* f is what F says of it. *)
Solves(f, F, n, T) == f \in [0 .. n -> T] /\ \A i \in 0 .. n : f[i] = F[<<i, f>>]

(* When F looks at smaller numbers only, there is such a function. *)
LEMMA Recursion ==
  ASSUME NEW n \in Nat, NEW T, NEW t \in T, NEW F, Determined(F, n, T)
  PROVE  \E f : Solves(f, F, n, T)
<1> DEFINE Good(k, f) == f \in [0 .. n -> T] /\ \A i \in 0 .. n : i < k => f[i] = F[<<i, f>>]
<1>1. PICK A : A = {k \in 0 .. n + 1 : \E f : Good(k, f)}
  OBVIOUS
<1>2. 0 \in A
  <2>1. PICK f : f = [i \in 0 .. n |-> t]
    OBVIOUS
  <2>2. Good(0, f)
    BY <2>1
  <2> QED BY <1>1, <2>2
<1>3. ASSUME NEW k \in 1 .. n + 1, k - 1 \in A  PROVE k \in A
  <2>1. PICK f : Good(k - 1, f)
    BY <1>1, <1>3
  <2>2. k - 1 \in 0 .. n /\ k \in Int
    OBVIOUS
  <2>3. PICK h : h = [f EXCEPT ![k - 1] = F[<<k - 1, f>>]]
    OBVIOUS
  <2>4. F[<<k - 1, f>>] \in T
    BY <2>1, <2>2 DEF Determined
  <2>5. h \in [0 .. n -> T] /\ h[k - 1] = F[<<k - 1, f>>] /\ \A j \in 0 .. n : j # k - 1 => h[j] = f[j]
    BY <2>1, <2>2, <2>3, <2>4
  <2>6. ASSUME NEW i \in 0 .. n, i < k  PROVE h[i] = F[<<i, h>>]
    <3>1. \A j \in 0 .. n : j < i => f[j] = h[j]
      BY <2>2, <2>5, <2>6
    <3>2. F[<<i, f>>] = F[<<i, h>>]
      BY <2>1, <2>5, <3>1 DEF Determined
    <3>3. CASE i = k - 1
      BY <2>5, <3>2, <3>3
    <3>4. CASE i # k - 1
      <4>1. i < k - 1
        BY <2>2, <2>6, <3>4
      <4> QED BY <2>1, <2>5, <3>2, <3>4, <4>1
    <3> QED BY <3>3, <3>4
  <2>7. Good(k, h)
    BY <2>5, <2>6
  <2> HIDE DEF Good
  <2> QED BY <1>1, <2>7
<1>4. n + 1 \in A
  <2>1. n + 1 \in Nat /\ n + 1 \in 0 .. n + 1
    OBVIOUS
  <2> HIDE DEF Good
  <2> QED BY <1>2, <1>3, <2>1, Stepwise
<1>5. PICK f : Good(n + 1, f)
  BY <1>1, <1>4
<1>6. \A i \in 0 .. n : i < n + 1
  OBVIOUS
<1> QED BY <1>5, <1>6 DEF Solves

-------------------------------------------------------------------------------
(* parse_i64 *)
Decimals == Seq(0 .. 9)

(* The number after each digit. *)
Reads(value, s) ==
  /\ value \in [0 .. Len(s) -> Int] /\ value[0] = 0
  /\ \A k \in 1 .. Len(s) : value[k] = 10 * value[k - 1] + s[k]

LEMMA NumberReads ==
  ASSUME NEW s \in Decimals
  PROVE  \E value : Reads(value, s) /\ Number(s) = value[Len(s)]
<1> DEFINE n == Len(s)
           Equation(f) == f = [k \in 0 .. Len(s) |-> IF k = 0 THEN 0 ELSE 10 * f[k - 1] + s[k]]
<1>1. PICK F : F = [p \in (0 .. n) \X [0 .. n -> Int] |-> IF p[1] = 0 THEN 0 ELSE 10 * p[2][p[1] - 1] + s[p[1]]]
  OBVIOUS
<1>2. n \in Nat /\ \A k \in 1 .. n : s[k] \in Int
  BY DEF Decimals
<1>3. ASSUME NEW i \in 0 .. n, NEW f \in [0 .. n -> Int]
      PROVE  /\ F[<<i, f>>] = IF i = 0 THEN 0 ELSE 10 * f[i - 1] + s[i]
             /\ F[<<i, f>>] \in Int
  <2>1. <<i, f>> \in (0 .. n) \X [0 .. n -> Int]
    OBVIOUS
  <2>2. F[<<i, f>>] = IF i = 0 THEN 0 ELSE 10 * f[i - 1] + s[i]
    BY <1>1, <2>1
  <2>3. i # 0 => f[i - 1] \in Int /\ s[i] \in Int
    BY <1>2
  <2> QED BY <2>2, <2>3
<1>4. Determined(F, n, Int)
  <2>1. F \in [(0 .. n) \X [0 .. n -> Int] -> Int]
    <3>1. F = [p \in (0 .. n) \X [0 .. n -> Int] |-> F[p]]
      BY <1>1
    <3>2. ASSUME NEW p \in (0 .. n) \X [0 .. n -> Int]  PROVE F[p] \in Int
      BY <1>3
    <3> QED BY <3>1, <3>2
  <2>2. ASSUME NEW i \in 0 .. n, NEW f \in [0 .. n -> Int], NEW g \in [0 .. n -> Int],
               \A j \in 0 .. n : j < i => f[j] = g[j]
        PROVE  F[<<i, f>>] = F[<<i, g>>]
    <3>1. i # 0 => i - 1 \in 0 .. n /\ i - 1 < i
      BY <1>2
    <3> QED BY <1>3, <2>2, <3>1
  <2> QED BY <2>1, <2>2 DEF Determined
<1>5. PICK f : Solves(f, F, n, Int)
  <2>1. 0 \in Int
    OBVIOUS
  <2> QED BY <1>2, <1>4, <2>1, Recursion
<1>6. Equation(f)
  <2>1. f = [k \in 0 .. n |-> f[k]]
    BY <1>5 DEF Solves
  <2>2. \A k \in 0 .. n : f[k] = IF k = 0 THEN 0 ELSE 10 * f[k - 1] + s[k]
    BY <1>3, <1>5 DEF Solves
  <2> QED BY <2>1, <2>2
<1>7. PICK value : value = CHOOSE ff : Equation(ff)
  OBVIOUS
<1>8. Equation(value)
  BY <1>6, <1>7
<1>9. Number(s) = value[Len(s)]
  BY <1>7, Zenon DEF Number
<1>10. value[0] = 0 /\ \A k \in 1 .. Len(s) : value[k] = 10 * value[k - 1] + s[k]
  BY <1>2, <1>8
<1>11. PICK A : A = {k \in 0 .. n : value[k] \in Int}
  OBVIOUS
<1>12. 0 \in A /\ \A k \in 1 .. n : k - 1 \in A => k \in A
  <2>1. 0 \in A
    BY <1>2, <1>10, <1>11
  <2>2. ASSUME NEW k \in 1 .. n, k - 1 \in A  PROVE k \in A
    <3>1. value[k - 1] \in Int /\ s[k] \in Int /\ k \in 0 .. n
      BY <1>2, <1>11, <2>2
    <3>2. value[k] = 10 * value[k - 1] + s[k]
      BY <1>10
    <3> QED BY <1>11, <3>1, <3>2
  <2> QED BY <2>1, <2>2
<1>13. \A k \in 0 .. n : value[k] \in Int
  BY <1>2, <1>11, <1>12, Stepwise
<1>14. value \in [0 .. n -> Int]
  BY <1>8, <1>13
<1> HIDE DEF Equation
<1> QED BY <1>9, <1>10, <1>14 DEF Reads

(* Two readings of the same digits. *)
LEMMA SameReading ==
  ASSUME NEW s \in Decimals, NEW s2 \in Decimals, NEW v, Reads(v, s), NEW v2, Reads(v2, s2),
         NEW m \in Nat, m <= Len(s), m <= Len(s2), \A k \in 1 .. m : s[k] = s2[k]
  PROVE  v[m] = v2[m]
<1>1. PICK A : A = {k \in 0 .. m : v[k] = v2[k]}
  OBVIOUS
<1>2. 0 \in A
  BY <1>1 DEF Reads
<1>3. ASSUME NEW k \in 1 .. m, k - 1 \in A  PROVE k \in A
  <2>1. k \in 1 .. Len(s) /\ k \in 1 .. Len(s2) /\ k \in 0 .. m
    BY DEF Decimals
  <2> QED BY <1>1, <1>3, <2>1 DEF Reads
<1>4. m \in A
  <2>1. \A k \in 0 .. m : k \in A
    BY <1>2, <1>3, Stepwise
  <2> QED BY <2>1
<1> QED BY <1>1, <1>4

LEMMA NumberOfNone == Number(<<>>) = 0
<1>1. <<>> \in Decimals /\ Len(<<>>) = 0
  BY DEF Decimals
<1> QED BY <1>1, NumberReads DEF Reads

LEMMA NumberAppend ==
  ASSUME NEW s \in Decimals, NEW d \in 0 .. 9
  PROVE  Number(Append(s, d)) = 10 * Number(s) + d
<1>1. PICK s2 : s2 = Append(s, d)
  OBVIOUS
<1>2. s2 \in Decimals /\ Len(s2) = Len(s) + 1 /\ s2[Len(s) + 1] = d /\ Len(s) \in Nat
       /\ \A k \in 1 .. Len(s) : s2[k] = s[k]
  BY <1>1 DEF Decimals
<1>3. PICK v : Reads(v, s) /\ Number(s) = v[Len(s)]
  BY NumberReads
<1>4. PICK v2 : Reads(v2, s2) /\ Number(s2) = v2[Len(s2)]
  BY <1>2, NumberReads
<1>5. v[Len(s)] = v2[Len(s)]
  BY <1>2, <1>3, <1>4, SameReading
<1>6. Len(s2) \in 1 .. Len(s2) /\ Len(s2) - 1 = Len(s)
  BY <1>2
<1>7. v2[Len(s2)] = 10 * v2[Len(s)] + d
  BY <1>2, <1>4, <1>6 DEF Reads
<1> QED BY <1>1, <1>3, <1>4, <1>5, <1>7

LEMMA NumberInt ==
  ASSUME NEW s \in Decimals  PROVE Number(s) \in Int
<1>1. PICK v : Reads(v, s) /\ Number(s) = v[Len(s)]
  BY NumberReads
<1>2. Len(s) \in 0 .. Len(s)
  BY DEF Decimals
<1> QED BY <1>1, <1>2 DEF Reads

LEMMA NumberOfOne ==
  ASSUME NEW d \in 0 .. 9  PROVE Number(<<d>>) = d
<1>1. <<>> \in Decimals /\ Append(<<>>, d) = <<d>>
  BY DEF Decimals
<1>2. Number(Append(<<>>, d)) = 10 * 0 + d
  BY <1>1, NumberOfNone, NumberAppend
<1> QED BY <1>1, <1>2

-------------------------------------------------------------------------------
(* i64_to_string *)

(* The digits of each number. *)
Writes(text, m) ==
  \A k \in 0 .. m : text[k] = IF k < 10 THEN <<k>> ELSE Append(text[k \div 10], k % 10)

LEMMA TextWrites ==
  ASSUME NEW v, Limit \in Nat
  PROVE  \E text : Writes(text, Limit) /\ TextOf(v) = [neg |-> v < 0, digits |-> text[Abs(v)]]
<1>0. PICK T : T = Seq(Int)
  OBVIOUS
<1> DEFINE n == Limit
           Equation(f) == f = [k \in 0 .. Limit |-> IF k < 10 THEN <<k>> ELSE Append(f[k \div 10], k % 10)]
<1>1. PICK F : F = [p \in (0 .. n) \X [0 .. n -> T] |->
                      IF p[1] < 10 THEN <<p[1]>> ELSE Append(p[2][p[1] \div 10], p[1] % 10)]
  OBVIOUS
<1>2. ASSUME NEW i \in 0 .. n, ~(i < 10)
      PROVE  i \div 10 \in 0 .. n /\ i \div 10 < i /\ i % 10 \in Int
  BY <1>2
<1>3. ASSUME NEW i \in 0 .. n, NEW f \in [0 .. n -> T]
      PROVE  /\ F[<<i, f>>] = IF i < 10 THEN <<i>> ELSE Append(f[i \div 10], i % 10)
             /\ F[<<i, f>>] \in T
  <2>1. <<i, f>> \in (0 .. n) \X [0 .. n -> T]
    OBVIOUS
  <2>2. F[<<i, f>>] = IF i < 10 THEN <<i>> ELSE Append(f[i \div 10], i % 10)
    BY <1>1, <2>1
  <2>3. ~(i < 10) => f[i \div 10] \in T /\ i % 10 \in Int
    BY <1>2
  <2>4. ~(i < 10) => Append(f[i \div 10], i % 10) \in T
    BY <1>0, <2>3
  <2>5. <<i>> \in T
    BY <1>0
  <2> QED BY <2>2, <2>4, <2>5
<1>4. Determined(F, n, T)
  <2>1. F \in [(0 .. n) \X [0 .. n -> T] -> T]
    <3>1. F = [p \in (0 .. n) \X [0 .. n -> T] |-> F[p]]
      BY <1>1
    <3>2. ASSUME NEW p \in (0 .. n) \X [0 .. n -> T]  PROVE F[p] \in T
      <4>1. PICK i \in 0 .. n, f \in [0 .. n -> T] : p = <<i, f>>
        OBVIOUS
      <4> QED BY <1>3, <4>1
    <3> QED BY <3>1, <3>2
  <2>2. ASSUME NEW i \in 0 .. n, NEW f \in [0 .. n -> T], NEW g \in [0 .. n -> T],
               \A j \in 0 .. n : j < i => f[j] = g[j]
        PROVE  F[<<i, f>>] = F[<<i, g>>]
    <3>1. ~(i < 10) => f[i \div 10] = g[i \div 10]
      BY <1>2, <2>2
    <3> QED BY <1>3, <3>1
  <2> QED BY <2>1, <2>2 DEF Determined
<1>5. PICK f : Solves(f, F, n, T)
  <2>1. <<>> \in T /\ n \in Nat
    BY <1>0
  <2> QED BY <1>4, <2>1, Recursion
<1>6. Equation(f)
  <2>1. f = [k \in 0 .. n |-> f[k]]
    BY <1>5 DEF Solves
  <2>2. \A k \in 0 .. n : f[k] = IF k < 10 THEN <<k>> ELSE Append(f[k \div 10], k % 10)
    BY <1>3, <1>5 DEF Solves
  <2> QED BY <2>1, <2>2
<1>7. PICK text : text = CHOOSE ff : Equation(ff)
  OBVIOUS
<1>8. Equation(text)
  BY <1>6, <1>7
<1>9. TextOf(v) = [neg |-> v < 0, digits |-> text[Abs(v)]]
  BY <1>7, Zenon DEF TextOf
<1>10. Writes(text, Limit)
  BY <1>8 DEF Writes
<1> HIDE DEF Equation
<1> QED BY <1>9, <1>10

(* What is written is read as what it was. *)
LEMMA WrittenIsRead ==
  ASSUME NEW m \in Nat, NEW text, Writes(text, m), NEW k \in 0 .. m
  PROVE  text[k] \in Decimals /\ Number(text[k]) = k
<1> DEFINE Good(j) == text[j] \in Decimals /\ Number(text[j]) = j
<1>1. PICK S : S = {j \in 0 .. m : ~Good(j)}
  OBVIOUS
<1>2. SUFFICES ASSUME S # {}  PROVE FALSE
  BY <1>1
<1>3. S \in SUBSET Nat
  BY <1>1
<1>4. PICK j \in S : \A i \in S : j <= i
  BY <1>2, <1>3, HasSmallest
<1>5. j \in 0 .. m /\ j \in Nat
  BY <1>1
<1>6. CASE j < 10
  <2>1. text[j] = <<j>>
    BY <1>5, <1>6 DEF Writes
  <2>2. j \in 0 .. 9 /\ <<j>> \in Seq(0 .. 9)
    BY <1>5, <1>6
  <2>3. Good(j)
    BY <2>1, <2>2, NumberOfOne DEF Decimals
  <2> QED BY <1>1, <1>4, <2>3
<1>7. CASE ~(j < 10)
  <2>1. PICK i : i = j \div 10
    OBVIOUS
  <2>2. i \in 0 .. m /\ i < j /\ j % 10 \in 0 .. 9 /\ 10 * i + (j % 10) = j
    BY <1>5, <1>7, <2>1
  <2>3. Good(i)
    <3>1. i \notin S
      BY <1>4, <1>5, <2>2
    <3> QED BY <1>1, <2>2, <3>1
  <2>4. text[j] = Append(text[i], j % 10)
    BY <1>5, <1>7, <2>1 DEF Writes
  <2>5. text[j] \in Decimals
    BY <2>2, <2>3, <2>4 DEF Decimals
  <2>6. Number(text[j]) = 10 * Number(text[i]) + (j % 10)
    BY <2>2, <2>3, <2>4, NumberAppend
  <2>7. Good(j)
    BY <2>2, <2>3, <2>5, <2>6
  <2> QED BY <1>1, <1>4, <2>7
<1> QED BY <1>6, <1>7

(* parse_i64 reads what i64_to_string wrote. *)
LEMMA TextIsRead ==
  ASSUME NEW v \in Int, Limit \in Nat, Abs(v) <= Limit
  PROVE  Parsed(TextOf(v)) = v
<1>1. PICK text : Writes(text, Limit) /\ TextOf(v) = [neg |-> v < 0, digits |-> text[Abs(v)]]
  BY TextWrites
<1>2. Abs(v) \in 0 .. Limit /\ (v < 0 => -Abs(v) = v) /\ (~(v < 0) => Abs(v) = v)
  BY DEF Abs
<1>3. Number(text[Abs(v)]) = Abs(v)
  BY <1>1, <1>2, WrittenIsRead
<1>4. TextOf(v).neg = (v < 0) /\ TextOf(v).digits = text[Abs(v)]
  BY <1>1
<1> QED BY <1>2, <1>3, <1>4 DEF Parsed

LEMMA TextOfZero ==
  ASSUME Limit \in Nat
  PROVE  TextOf(0) = [neg |-> FALSE, digits |-> <<0>>]
<1>1. PICK text : Writes(text, Limit) /\ TextOf(0) = [neg |-> 0 < 0, digits |-> text[Abs(0)]]
  BY TextWrites
<1>2. Abs(0) = 0 /\ 0 \in 0 .. Limit /\ 0 < 10
  BY DEF Abs
<1>3. text[0] = <<0>>
  BY <1>1, <1>2 DEF Writes
<1>4. (0 < 0) = FALSE
  OBVIOUS
<1> QED BY <1>1, <1>2, <1>3, <1>4

-------------------------------------------------------------------------------
(* The keys and what they mean. *)
CalcKeys == [op : Operators \cup {"digit"}, digit : 0 .. 9]

(* The operator before a place, and digits between them. *)
LEMMA OperatorBeforeIs ==
  ASSUME NEW p \in Seq(CalcKeys), NEW i \in 0 .. Len(p) + 1
  PROVE  /\ OperatorBefore(p, i) \in 0 .. Len(p) /\ (i # 0 => OperatorBefore(p, i) < i)
         /\ OperatorBefore(p, i) # 0 => p[OperatorBefore(p, i)].op \in Operators
<1>1. PICK B : B = OperatorsBefore(p, i)
  OBVIOUS
<1>2. OperatorBefore(p, i) = IF B = {} THEN 0 ELSE Max(B)
  BY <1>1 DEF OperatorBefore
<1>3. B = {j \in 1 .. i - 1 : p[j].op \in Operators} /\ Len(p) \in Nat
  BY <1>1 DEF OperatorsBefore
<1>4. CASE B = {}
  BY <1>2, <1>3, <1>4
<1>5. CASE B # {}
  <2>1. PICK S : S = {i - j : j \in B}
    OBVIOUS
  <2>2. S # {} /\ S \in SUBSET Nat
    BY <1>3, <1>5, <2>1
  <2>3. PICK m \in S : \A k \in S : m <= k
    BY <2>2, HasSmallest
  <2>4. PICK j \in B : m = i - j
    BY <2>1
  <2>5. \A k \in B : i - j <= i - k
    BY <2>1, <2>3, <2>4
  <2>6. \A k \in B : j >= k
    BY <1>3, <2>5
  <2>7. Max(B) \in B
    BY <2>6 DEF Max
  <2>8. OperatorBefore(p, i) \in B
    BY <1>2, <1>5, <2>7
  <2> QED BY <1>3, <2>8
<1> QED BY <1>4, <1>5

(* It depends on nothing behind that place. *)
LEMMA SameOperator ==
  ASSUME NEW p, NEW q, NEW i \in Nat, \A j \in 1 .. i - 1 : p[j] = q[j]
  PROVE  OperatorBefore(p, i) = OperatorBefore(q, i)
<1>1. OperatorsBefore(p, i) = OperatorsBefore(q, i)
  BY DEF OperatorsBefore
<1> QED BY <1>1 DEF OperatorBefore

LEMMA AfterOperator ==
  ASSUME NEW p, NEW i \in Nat \ {0}, p[i].op \in Operators
  PROVE  OperatorBefore(p, i + 1) = i
<1>1. PICK B : B = OperatorsBefore(p, i + 1)
  OBVIOUS
<1>2. i \in B /\ \A j \in B : i >= j /\ j \in Int
  BY <1>1 DEF OperatorsBefore
<1>3. OperatorBefore(p, i + 1) = Max(B)
  BY <1>1, <1>2 DEF OperatorBefore
<1>4. \A x \in B : (\A y \in B : x >= y) => x = i
  BY <1>2
<1> QED BY <1>2, <1>3, <1>4 DEF Max

LEMMA AfterDigit ==
  ASSUME NEW p, NEW i \in Nat \ {0}, p[i].op \notin Operators
  PROVE  OperatorBefore(p, i + 1) = OperatorBefore(p, i)
<1>1. OperatorsBefore(p, i + 1) = OperatorsBefore(p, i)
  BY DEF OperatorsBefore
<1> QED BY <1>1 DEF OperatorBefore

LEMMA RunIs ==
  ASSUME NEW p \in Seq(CalcKeys), NEW i \in 1 .. Len(p) + 1
  PROVE  RunBefore(p, i) \in Decimals /\ Len(RunBefore(p, i)) = i - 1 - OperatorBefore(p, i)
<1>1. PICK op : op = OperatorBefore(p, i)
  OBVIOUS
<1>2. op \in Nat /\ op < i /\ i - 1 - op \in Nat
  BY <1>1, OperatorBeforeIs
<1>3. RunBefore(p, i) = [k \in 1 .. i - 1 - op |-> p[op + k].digit]
  BY <1>1 DEF RunBefore
<1>4. \A k \in 1 .. i - 1 - op : p[op + k].digit \in 0 .. 9
  <2>1. SUFFICES ASSUME NEW k \in 1 .. i - 1 - op  PROVE p[op + k].digit \in 0 .. 9
    OBVIOUS
  <2>2. op + k \in 1 .. Len(p)
    BY <1>2
  <2>3. p[op + k] \in CalcKeys
    BY <2>2
  <2> QED BY <2>3 DEF CalcKeys
<1>5. PICK m, run : m = i - 1 - op /\ run = [k \in 1 .. m |-> p[op + k].digit]
  OBVIOUS
<1>6. m \in Nat /\ \A k \in 1 .. m : run[k] \in 0 .. 9
  BY <1>2, <1>4, <1>5
<1>7. run \in Seq(0 .. 9) /\ Len(run) = m
  <2>1. run \in [1 .. m -> 0 .. 9]
    BY <1>5, <1>6
  <2> QED BY <1>6, <2>1
<1> QED BY <1>1, <1>3, <1>5, <1>7 DEF Decimals

LEMMA SameRun ==
  ASSUME NEW p \in Seq(CalcKeys), NEW q, NEW i \in 1 .. Len(p) + 1, \A j \in 1 .. i - 1 : p[j] = q[j]
  PROVE  RunBefore(p, i) = RunBefore(q, i)
<1>1. PICK op : op = OperatorBefore(p, i)
  OBVIOUS
<1>2. op = OperatorBefore(q, i) /\ op \in Nat
  BY <1>1, SameOperator, OperatorBeforeIs
<1>3. \A k \in 1 .. i - 1 - op : p[op + k].digit = q[op + k].digit
  BY <1>2
<1> QED BY <1>1, <1>2, <1>3 DEF RunBefore

(* A further digit. *)
LEMMA RunGrows ==
  ASSUME NEW p \in Seq(CalcKeys), NEW key \in CalcKeys, key.op \notin Operators
  PROVE  /\ OperatorBefore(Append(p, key), Len(p) + 2) = OperatorBefore(p, Len(p) + 1)
         /\ RunBefore(Append(p, key), Len(p) + 2) = Append(RunBefore(p, Len(p) + 1), key.digit)
<1>1. PICK q, n : q = Append(p, key) /\ n = Len(p)
  OBVIOUS
<1>2. n \in Nat /\ Len(q) = n + 1 /\ q[n + 1] = key /\ (\A j \in 1 .. n : q[j] = p[j]) /\ q \in Seq(CalcKeys)
  BY <1>1
<1>3. OperatorBefore(q, n + 2) = OperatorBefore(p, n + 1)
  <2>1. OperatorBefore(q, (n + 1) + 1) = OperatorBefore(q, n + 1)
    BY <1>2, AfterDigit
  <2>2. OperatorBefore(q, n + 1) = OperatorBefore(p, n + 1)
    BY <1>2, SameOperator
  <2>3. (n + 1) + 1 = n + 2
    BY <1>2
  <2> QED BY <2>1, <2>2, <2>3
<1> DEFINE op == OperatorBefore(p, n + 1)
<1>5. op \in 0 .. n
  BY <1>1, <1>2, OperatorBeforeIs
<1>6. PICK run : run = RunBefore(p, n + 1)
  OBVIOUS
<1>7. run = [k \in 1 .. n - op |-> p[op + k].digit] /\ run \in Decimals /\ Len(run) = n - op
  <2>1. (n + 1) - 1 - op = n - op /\ n + 1 \in 1 .. Len(p) + 1
    BY <1>1, <1>2, <1>5
  <2>2. run = [k \in 1 .. (n + 1) - 1 - op |-> p[op + k].digit]
    BY <1>6, Zenon DEF RunBefore
  <2>3. run \in Decimals /\ Len(run) = (n + 1) - 1 - op
    BY <1>1, <1>6, <2>1, RunIs
  <2> QED BY <2>1, <2>2, <2>3
<1>8. RunBefore(q, n + 2) = [k \in 1 .. (n + 1) - op |-> q[op + k].digit]
  <2>1. (n + 2) - 1 - op = (n + 1) - op
    BY <1>2, <1>5
  <2>2. RunBefore(q, n + 2) = [k \in 1 .. (n + 2) - 1 - op |-> q[op + k].digit]
    BY <1>3, Zenon DEF RunBefore
  <2> QED BY <2>1, <2>2
<1>9. Append(run, key.digit) = [k \in 1 .. (n + 1) - op |-> IF k = (n + 1) - op THEN key.digit ELSE run[k]]
  BY <1>2, <1>5, <1>7 DEF Decimals
<1>10. ASSUME NEW k \in 1 .. (n + 1) - op  PROVE q[op + k].digit = IF k = (n + 1) - op THEN key.digit ELSE run[k]
  <2>1. CASE k = (n + 1) - op
    BY <1>2, <1>5, <2>1
  <2>2. CASE k # (n + 1) - op
    <3>1. k \in 1 .. n - op /\ op + k \in 1 .. n
      BY <1>2, <1>5, <2>2
    <3> QED BY <1>2, <1>7, <2>2, <3>1
  <2> QED BY <2>1, <2>2
<1>11. RunBefore(q, n + 2) = Append(run, key.digit)
  BY <1>8, <1>9, <1>10
<1> QED BY <1>1, <1>3, <1>6, <1>11

-------------------------------------------------------------------------------
(* What the display takes of the digits typed. *)

LEMMA AllZeros ==
  ASSUME NEW run \in Decimals, \A k \in 1 .. Len(run) : run[k] = 0
  PROVE  TypedDigits(run) = <<0>>
<1>1. {k \in 1 .. Len(run) : run[k] # 0} = {}
  OBVIOUS
<1>2. SelectInSeq(run, LAMBDA d : d # 0) = 0
  BY <1>1 DEF SelectInSeq
<1> QED BY <1>2 DEF TypedDigits

Leads(from, run) ==
  from \in 1 .. Len(run) /\ run[from] # 0 /\ \A k \in 1 .. from - 1 : run[k] = 0
Until(from, run) == IF Len(run) <= from + MaxDigits - 1 THEN Len(run) ELSE from + MaxDigits - 1

LEMMA FromFirst ==
  ASSUME NEW run \in Decimals, NEW from, Leads(from, run), MaxDigits \in Nat \ {0}
  PROVE  TypedDigits(run) = SubSeq(run, from, Until(from, run))
<1>1. from \in 1 .. Len(run) /\ run[from] # 0 /\ (\A k \in 1 .. from - 1 : run[k] = 0) /\ Len(run) \in Nat
  BY DEF Leads, Decimals
<1>2. PICK I : I = {k \in 1 .. Len(run) : run[k] # 0}
  OBVIOUS
<1>3. from \in I /\ \A k \in I : from <= k /\ k \in Int
  BY <1>1, <1>2
<1>4. \A x \in I : (\A y \in I : x <= y) => x = from
  BY <1>1, <1>3
<1>5. Min(I) = from /\ I # {}
  BY <1>3, <1>4 DEF Min
<1>6. SelectInSeq(run, LAMBDA d : d # 0) = from
  BY <1>2, <1>5 DEF SelectInSeq
<1>7. Min({Len(run), from + MaxDigits - 1}) = Until(from, run)
  <2>1. PICK x, y : x = Len(run) /\ y = from + MaxDigits - 1
    OBVIOUS
  <2>2. x \in Int /\ y \in Int
    BY <1>1, <2>1
  <2>3. Min({x, y}) = IF x <= y THEN x ELSE y
    BY <2>2 DEF Min
  <2> QED BY <2>1, <2>3 DEF Until
<1>8. from # 0
  BY <1>1
<1> QED BY <1>6, <1>7, <1>8 DEF TypedDigits

LEMMA ZerosOrLeads ==
  ASSUME NEW run \in Decimals
  PROVE  (\A k \in 1 .. Len(run) : run[k] = 0) \/ \E from : Leads(from, run)
<1>1. SUFFICES ASSUME NEW k \in 1 .. Len(run), run[k] # 0
               PROVE \E from : Leads(from, run)
  OBVIOUS
<1>2. PICK S : S = {j \in 1 .. Len(run) : run[j] # 0}
  OBVIOUS
<1>3. S # {} /\ S \in SUBSET Nat /\ Len(run) \in Nat
  BY <1>1, <1>2 DEF Decimals
<1>4. PICK from \in S : \A j \in S : from <= j
  BY <1>3, HasSmallest
<1>5. from \in 1 .. Len(run) /\ run[from] # 0
  BY <1>2
<1>6. ASSUME NEW j \in 1 .. from - 1  PROVE run[j] = 0
  <2>1. j \in 1 .. Len(run) /\ ~(from <= j)
    BY <1>3, <1>5
  <2> QED BY <1>2, <1>4, <2>1
<1> QED BY <1>5, <1>6 DEF Leads

(* The digits from the first that is not zero. *)
LEMMA LeadingIs ==
  ASSUME NEW run \in Decimals, NEW from, Leads(from, run), MaxDigits \in Nat \ {0}
  PROVE  LET t == TypedDigits(run) IN
         /\ Until(from, run) \in from .. Len(run)
         /\ t \in Decimals /\ Len(t) = Until(from, run) - from + 1
         /\ \A k \in 1 .. Len(t) : t[k] = run[from + k - 1]
         /\ t # <<0>>
<1>1. from \in 1 .. Len(run) /\ run[from] # 0 /\ Len(run) \in Nat /\ run \in Seq(0 .. 9)
  BY DEF Leads, Decimals
<1>2. PICK u, t : u = Until(from, run) /\ t = SubSeq(run, from, u)
  OBVIOUS
<1>3. u \in from .. Len(run)
  BY <1>1, <1>2 DEF Until
<1>4. t \in Seq(0 .. 9) /\ Len(t) = u - from + 1 /\ \A k \in 1 .. u - from + 1 : t[k] = run[from + k - 1]
  <2>1. from \in Int /\ u \in Int /\ from \in 1 .. Len(run) + 1 /\ u \in from - 1 .. Len(run)
    BY <1>1, <1>3
  <2>2. \A i \in from .. u : run[i] \in 0 .. 9
    BY <1>1, <1>3
  <2>3. /\ t \in Seq(0 .. 9) /\ Len(t) = (IF from <= u THEN u - from + 1 ELSE 0)
        /\ \A i \in 1 .. u - from + 1 : t[i] = run[from + i - 1]
    BY <1>2, <2>1, <2>2, SubSeqProperties
  <2>4. from <= u
    BY <1>3
  <2> QED BY <2>3, <2>4
<1>5. t # <<0>>
  <2>1. t[1] = run[from]
    BY <1>1, <1>3, <1>4
  <2> QED BY <1>1, <2>1
<1> QED BY <1>2, <1>3, <1>4, <1>5, FromFirst DEF Decimals

LEMMA TypedIsDecimal ==
  ASSUME NEW run \in Decimals, MaxDigits \in Nat \ {0}
  PROVE  TypedDigits(run) \in Decimals
<1>1. CASE \A k \in 1 .. Len(run) : run[k] = 0
  <2>1. <<0>> \in Decimals
    BY DEF Decimals
  <2> QED BY <1>1, <2>1, AllZeros
<1>2. ASSUME NEW from, Leads(from, run)  PROVE TypedDigits(run) \in Decimals
  BY <1>2, LeadingIs
<1> QED BY <1>1, <1>2, ZerosOrLeads

(* A further digit on the display. *)
LEMMA TypedGrows ==
  ASSUME NEW run \in Decimals, NEW d \in 0 .. 9, MaxDigits \in Nat \ {0}
  PROVE  LET t == TypedDigits(run) IN
         TypedDigits(Append(run, d)) = IF t = <<0>> THEN <<d>> ELSE IF Len(t) < MaxDigits THEN Append(t, d) ELSE t
<1>1. PICK n, run2 : n = Len(run) /\ run2 = Append(run, d)
  OBVIOUS
<1>2. n \in Nat /\ run2 \in Decimals /\ Len(run2) = n + 1 /\ run2[n + 1] = d /\ \A k \in 1 .. n : run2[k] = run[k]
  BY <1>1 DEF Decimals
<1>3. CASE \A k \in 1 .. n : run[k] = 0
  <2>1. TypedDigits(run) = <<0>>
    BY <1>1, <1>3, AllZeros
  <2>2. CASE d = 0
    <3>1. \A k \in 1 .. Len(run2) : run2[k] = 0
      BY <1>2, <1>3, <2>2
    <3>2. TypedDigits(run2) = <<0>>
      BY <1>2, <3>1, AllZeros
    <3> QED BY <1>1, <2>1, <2>2, <3>2
  <2>3. CASE d # 0
    <3>1. Leads(n + 1, run2)
      BY <1>2, <1>3, <2>3 DEF Leads
    <3>2. Until(n + 1, run2) = n + 1
      BY <1>2 DEF Until
    <3>3. PICK t : t = TypedDigits(run2)
      OBVIOUS
    <3>4. t \in Decimals /\ Len(t) = 1 /\ t[1] = d
      <4>1. PICK from : from = n + 1
        OBVIOUS
      <4>2. Leads(from, run2) /\ Until(from, run2) = from
        BY <3>1, <3>2, <4>1
      <4>3. /\ t \in Decimals /\ Len(t) = Until(from, run2) - from + 1
            /\ \A k \in 1 .. Len(t) : t[k] = run2[from + k - 1]
        BY <1>2, <3>3, <4>2, LeadingIs
      <4>4. Len(t) = 1
        BY <1>2, <4>1, <4>2, <4>3
      <4>5. 1 \in 1 .. Len(t) /\ from + 1 - 1 = from
        BY <1>2, <4>1, <4>4
      <4> QED BY <1>2, <4>1, <4>3, <4>4, <4>5
    <3>5. t = <<d>>
      BY <3>4 DEF Decimals
    <3> QED BY <1>1, <2>1, <3>3, <3>5
  <2> QED BY <2>2, <2>3
<1>4. ASSUME NEW from, Leads(from, run)
      PROVE  LET t == TypedDigits(run) IN
             t # <<0>> /\ TypedDigits(run2) = IF Len(t) < MaxDigits THEN Append(t, d) ELSE t
  <2>1. Leads(from, run2) /\ from \in 1 .. n
    BY <1>1, <1>2, <1>4 DEF Leads
  <2>2. PICK t, t2 : t = TypedDigits(run) /\ t2 = TypedDigits(run2)
    OBVIOUS
  <2>3. /\ t \in Decimals /\ t # <<0>> /\ Len(t) = Until(from, run) - from + 1
        /\ \A k \in 1 .. Len(t) : t[k] = run[from + k - 1]
    BY <1>4, <2>2, LeadingIs
  <2>4. /\ t2 \in Decimals /\ Len(t2) = Until(from, run2) - from + 1
        /\ \A k \in 1 .. Len(t2) : t2[k] = run2[from + k - 1]
    BY <1>2, <2>1, <2>2, LeadingIs
  <2>5. CASE n <= from + MaxDigits - 2
    <3>1. Len(t) = n - from + 1 /\ Len(t2) = n - from + 2 /\ Len(t) < MaxDigits
      BY <1>1, <1>2, <2>1, <2>3, <2>4, <2>5 DEF Until
    <3>2. PICK t3 : t3 = Append(t, d)
      OBVIOUS
    <3>3. /\ t3 \in Seq(0 .. 9) /\ t2 \in Seq(0 .. 9) /\ Len(t3) = Len(t2)
          /\ t3[Len(t) + 1] = d /\ \A k \in 1 .. Len(t) : t3[k] = t[k]
      <4>1. t \in Seq(0 .. 9) /\ t2 \in Seq(0 .. 9) /\ Len(t) \in Nat
        BY <2>3, <2>4 DEF Decimals
      <4>2. /\ t3 \in Seq(0 .. 9) /\ Len(t3) = Len(t) + 1
            /\ t3[Len(t) + 1] = d /\ \A k \in 1 .. Len(t) : t3[k] = t[k]
        BY <3>2, <4>1
      <4>3. Len(t3) = Len(t2)
        BY <1>2, <2>1, <3>1, <4>2
      <4> QED BY <4>1, <4>2, <4>3
    <3>4. ASSUME NEW k \in 1 .. Len(t2)  PROVE t2[k] = t3[k]
      <4>1. CASE k = Len(t) + 1
        BY <1>2, <2>1, <2>4, <3>1, <3>3, <4>1
      <4>2. CASE k # Len(t) + 1
        <5>1. k \in 1 .. Len(t) /\ from + k - 1 \in 1 .. n
          BY <1>2, <2>1, <3>1, <4>2
        <5> QED BY <1>2, <2>3, <2>4, <3>3, <5>1
      <4> QED BY <4>1, <4>2
    <3>5. t2 = t3
      BY <3>3, <3>4
    <3> QED BY <2>2, <2>3, <3>1, <3>2, <3>5
  <2>6. CASE ~(n <= from + MaxDigits - 2)
    <3>1. Len(t) = MaxDigits /\ Len(t2) = MaxDigits /\ from + MaxDigits - 1 <= n
      <4>1. from + MaxDigits - 1 <= n /\ from \in Int /\ MaxDigits \in Int
        BY <1>2, <2>1, <2>6
      <4>2. Until(from, run) = from + MaxDigits - 1
        BY <1>1, <1>2, <4>1 DEF Until
      <4>3. Until(from, run2) = from + MaxDigits - 1
        BY <1>2, <4>1 DEF Until
      <4> QED BY <2>3, <2>4, <4>1, <4>2, <4>3
    <3>2. ASSUME NEW k \in 1 .. MaxDigits  PROVE t2[k] = t[k]
      <4>1. from + k - 1 \in 1 .. n
        BY <1>2, <2>1, <3>1
      <4> QED BY <1>2, <2>3, <2>4, <3>1, <4>1
    <3>3. t2 = t
      BY <2>3, <2>4, <3>1, <3>2 DEF Decimals
    <3> QED BY <2>2, <2>3, <3>1, <3>3
  <2> QED BY <2>5, <2>6
<1>5. CASE \E from : Leads(from, run)
  BY <1>1, <1>4, <1>5
<1> QED BY <1>1, <1>3, <1>5, ZerosOrLeads

-------------------------------------------------------------------------------
(* The value of what was typed. *)

LEMMA ComputedInt ==
  ASSUME NEW op, NEW a \in Int, NEW b \in Int
  PROVE  Computed(op, a, b) \in Int
<1>1. b # 0 => Quotient(a, b) \in Int
  <2>1. SUFFICES ASSUME b # 0  PROVE Quotient(a, b) \in Int
    OBVIOUS
  <2>2. PICK x, y : x = Abs(a) /\ y = Abs(b)
    OBVIOUS
  <2>3. x \in Nat /\ y \in Nat \ {0}
    BY <2>1, <2>2 DEF Abs
  <2>4. x \div y \in Int
    BY <2>3
  <2> QED BY <2>2, <2>4 DEF Quotient
<1>2. a + b \in Int /\ a - b \in Int /\ a * b \in Int
  OBVIOUS
<1> QED BY <1>1, <1>2 DEF Computed

LEMMA OperandInt ==
  ASSUME NEW p \in Seq(CalcKeys), NEW i \in 1 .. Len(p) + 1, NEW r, r[i - 1] \in Int, MaxDigits \in Nat \ {0}
  PROVE  OperandBefore(p, i, r) \in Int
<1>1. RunBefore(p, i) \in Decimals
  BY RunIs
<1>2. Number(TypedDigits(RunBefore(p, i))) \in Int
  BY <1>1, TypedIsDecimal, NumberInt
<1> QED BY <1>2 DEF OperandBefore

LEMMA ResultInt ==
  ASSUME NEW p \in Seq(CalcKeys), NEW i \in 0 .. Len(p), NEW r, \A j \in 0 .. i - 1 : r[j] \in Int, MaxDigits \in Nat \ {0}
  PROVE  ResultAt(p, i, r) \in Int
<1>1. CASE i = 0
  BY <1>1 DEF ResultAt
<1>2. CASE i # 0
  <2>1. PICK before : before = OperatorBefore(p, i)
    OBVIOUS
  <2>2. i \in 1 .. Len(p) + 1 /\ i \in 0 .. Len(p) + 1 /\ i - 1 \in 0 .. i - 1
    BY <1>2
  <2>3. before \in 0 .. i - 1
    BY <1>2, <2>1, <2>2, OperatorBeforeIs
  <2>4. OperandBefore(p, i, r) \in Int
    BY <2>2, OperandInt
  <2>5. Computed(p[before].op, r[before], OperandBefore(p, i, r)) \in Int
    BY <2>3, <2>4, ComputedInt
  <2> QED BY <2>1, <2>4, <2>5 DEF ResultAt
<1> QED BY <1>1, <1>2

(* It depends on the keys and the results up to it. *)
Shares(p, q, i) == \A j \in 1 .. i - 1 : p[j] = q[j]

LEMMA SameOperand ==
  ASSUME NEW p \in Seq(CalcKeys), NEW q, NEW i \in 1 .. Len(p) + 1, Shares(p, q, i),
         NEW r, NEW r2, r[i - 1] = r2[i - 1]
  PROVE  OperandBefore(p, i, r) = OperandBefore(q, i, r2)
<1>1. OperatorBefore(p, i) = OperatorBefore(q, i)
  BY SameOperator DEF Shares
<1>2. RunBefore(p, i) = RunBefore(q, i)
  BY SameRun DEF Shares
<1> QED BY <1>1, <1>2 DEF OperandBefore

Agree(p, q, r, r2, i) ==
  (\A j \in 1 .. i : p[j] = q[j]) /\ \A j \in 0 .. i - 1 : r[j] = r2[j]

LEMMA SameResult ==
  ASSUME NEW p \in Seq(CalcKeys), NEW q, NEW i \in 0 .. Len(p), NEW r, NEW r2, Agree(p, q, r, r2, i)
  PROVE  ResultAt(p, i, r) = ResultAt(q, i, r2)
<1>1. CASE i = 0
  BY <1>1 DEF ResultAt
<1>2. CASE i # 0
  <2>1. PICK before : before = OperatorBefore(p, i)
    OBVIOUS
  <2>2. i \in 1 .. Len(p) + 1 /\ i \in 0 .. Len(p) + 1 /\ i - 1 \in 0 .. i - 1 /\ i \in 1 .. i /\ i \in Nat
        /\ \A j \in 1 .. i - 1 : p[j] = q[j]
    BY <1>2 DEF Agree
  <2>3. before \in 0 .. i - 1
    BY <1>2, <2>1, <2>2, OperatorBeforeIs
  <2>4. before = OperatorBefore(q, i)
    BY <2>1, <2>2, SameOperator
  <2>5. OperandBefore(p, i, r) = OperandBefore(q, i, r2)
    <3>1. r[i - 1] = r2[i - 1]
      BY <2>2 DEF Agree
    <3>2. Shares(p, q, i)
      BY <2>2 DEF Shares
    <3> QED BY <2>2, <3>1, <3>2, SameOperand
  <2>6. p[i] = q[i] /\ r[before] = r2[before] /\ (before # 0 => p[before] = q[before])
    BY <2>2, <2>3 DEF Agree
  <2> QED BY <1>2, <2>1, <2>4, <2>5, <2>6 DEF ResultAt
<1> QED BY <1>1, <1>2

Results(r, p) ==
  /\ r \in [0 .. Len(p) -> Int]
  /\ \A i \in 0 .. Len(p) : r[i] = ResultAt(p, i, r)

LEMMA ChainIs ==
  ASSUME NEW p \in Seq(CalcKeys), MaxDigits \in Nat \ {0}
  PROVE  Results(Chain(p), p)
<1> DEFINE n == Len(p)
           Equation(f) == f = [i \in 0 .. Len(p) |-> ResultAt(p, i, f)]
<1>1. n \in Nat /\ 0 \in Int
  OBVIOUS
<1>2. PICK F : F = [x \in (0 .. n) \X [0 .. n -> Int] |-> ResultAt(p, x[1], x[2])]
  OBVIOUS
<1>3. ASSUME NEW i \in 0 .. n, NEW f \in [0 .. n -> Int]
      PROVE  F[<<i, f>>] = ResultAt(p, i, f) /\ F[<<i, f>>] \in Int
  <2>1. <<i, f>> \in (0 .. n) \X [0 .. n -> Int]
    OBVIOUS
  <2>2. F[<<i, f>>] = ResultAt(p, i, f)
    BY <1>2, <2>1
  <2>3. \A j \in 0 .. i - 1 : f[j] \in Int
    OBVIOUS
  <2> QED BY <2>2, <2>3, ResultInt
<1>4. Determined(F, n, Int)
  <2>1. F \in [(0 .. n) \X [0 .. n -> Int] -> Int]
    <3>1. F = [x \in (0 .. n) \X [0 .. n -> Int] |-> F[x]]
      BY <1>2
    <3>2. ASSUME NEW x \in (0 .. n) \X [0 .. n -> Int]  PROVE F[x] \in Int
      <4>1. PICK i \in 0 .. n, f \in [0 .. n -> Int] : x = <<i, f>>
        OBVIOUS
      <4> QED BY <1>3, <4>1
    <3> QED BY <3>1, <3>2
  <2>2. ASSUME NEW i \in 0 .. n, NEW f \in [0 .. n -> Int], NEW g \in [0 .. n -> Int],
               \A j \in 0 .. n : j < i => f[j] = g[j]
        PROVE  F[<<i, f>>] = F[<<i, g>>]
    <3>1. Agree(p, p, f, g, i)
      BY <2>2 DEF Agree
    <3>2. ResultAt(p, i, f) = ResultAt(p, i, g)
      BY <3>1, SameResult
    <3> QED BY <1>3, <3>2
  <2> QED BY <2>1, <2>2 DEF Determined
<1>5. PICK f : Solves(f, F, n, Int)
  <2>1. 0 \in Int
    OBVIOUS
  <2>2. n \in Nat
    BY <1>1
  <2> QED BY <2>1, <2>2, <1>4, Recursion
<1>6. Equation(f)
  <2>1. f = [i \in 0 .. n |-> f[i]]
    BY <1>5 DEF Solves
  <2>2. \A i \in 0 .. n : f[i] = ResultAt(p, i, f)
    BY <1>3, <1>5 DEF Solves
  <2> QED BY <2>1, <2>2
<1>7. PICK r : r = CHOOSE ff : Equation(ff)
  OBVIOUS
<1>8. Equation(r)
  BY <1>6, <1>7
<1>9. Chain(p) = r
  BY <1>7, Zenon DEF Chain
<1>10. \A i \in 0 .. n : r[i] = ResultAt(p, i, r)
  BY <1>8
<1>11. PICK A : A = {k \in 0 .. n : \A j \in 0 .. k : r[j] \in Int}
  OBVIOUS
<1>12. 0 \in A
  <2>1. \A j \in 0 .. 0 - 1 : r[j] \in Int
    OBVIOUS
  <2>2. r[0] \in Int
    BY <1>1, <1>10, <2>1, ResultInt
  <2> QED BY <1>1, <1>11, <2>2
<1>13. ASSUME NEW k \in 1 .. n, k - 1 \in A  PROVE k \in A
  <2>1. k \in 0 .. n /\ \A j \in 0 .. k - 1 : r[j] \in Int
    BY <1>11, <1>13
  <2>2. r[k] \in Int
    BY <1>10, <2>1, ResultInt
  <2>3. \A j \in 0 .. k : j = k \/ j \in 0 .. k - 1
    OBVIOUS
  <2> QED BY <1>11, <2>1, <2>2, <2>3
<1>14. n \in A
  <2>1. \A k \in 0 .. n : k \in A
    BY <1>1, <1>12, <1>13, Stepwise
  <2> QED BY <1>1, <2>1
<1>15. r \in [0 .. n -> Int]
  BY <1>8, <1>11, <1>14
<1> HIDE DEF Equation
<1> QED BY <1>9, <1>10, <1>15 DEF Results

(* A further key leaves the results as they are. *)
LEMMA ChainStays ==
  ASSUME NEW p \in Seq(CalcKeys), NEW key \in CalcKeys, NEW i \in 0 .. Len(p), MaxDigits \in Nat \ {0}
  PROVE  Chain(Append(p, key))[i] = Chain(p)[i]
<1>1. PICK q, r, r2 : q = Append(p, key) /\ r = Chain(p) /\ r2 = Chain(q)
  OBVIOUS
<1>2. q \in Seq(CalcKeys) /\ Len(q) = Len(p) + 1 /\ Len(p) \in Nat /\ \A j \in 1 .. Len(p) : p[j] = q[j]
  BY <1>1
<1>3. Results(r, p) /\ Results(r2, q)
  BY <1>1, <1>2, ChainIs
<1>4. PICK S : S = {j \in 0 .. Len(p) : r[j] # r2[j]}
  OBVIOUS
<1>5. S \in SUBSET Nat
  BY <1>4
<1>6. ASSUME S # {}  PROVE FALSE
  <2>1. PICK j \in S : \A k \in S : j <= k
    BY <1>5, <1>6, HasSmallest
  <2>2. j \in 0 .. Len(p) /\ j \in 0 .. Len(q) /\ r[j] # r2[j]
    BY <1>2, <1>4
  <2>3. \A k \in 0 .. j - 1 : r[k] = r2[k]
    <3>1. SUFFICES ASSUME NEW k \in 0 .. j - 1  PROVE r[k] = r2[k]
      OBVIOUS
    <3>2. k \in 0 .. Len(p) /\ ~(j <= k)
      BY <1>2, <2>2
    <3> QED BY <1>4, <2>1, <3>2
  <2>4. Agree(p, q, r, r2, j)
    BY <1>2, <2>2, <2>3 DEF Agree
  <2>5. ResultAt(p, j, r) = ResultAt(q, j, r2)
    BY <2>2, <2>4, SameResult
  <2> QED BY <1>3, <2>2, <2>5 DEF Results
<1> QED BY <1>1, <1>4, <1>6

-------------------------------------------------------------------------------
(* The calculator.  The display is the result of the last operator, or the    *)
(* digits typed since; the operator that waits is the last one.              *)

CalcForm(c) ==
  /\ c = [display |-> c.display, acc |-> c.acc, pending |-> c.pending, fresh |-> c.fresh, on |-> c.on]
  /\ c.on \in BOOLEAN
Waits(p, op) == IF op = 0 \/ p[op].op = "=" THEN "none" ELSE p[op].op
InStep(c, p, op) ==
  /\ c.acc \in Int /\ Abs(c.acc) <= Limit /\ c.acc = Chain(p)[op]
  /\ c.pending = Waits(p, op)
  /\ c.fresh \in BOOLEAN /\ (c.fresh <=> op = Len(p))
  /\ c.fresh => c.display = TextOf(c.acc)
  /\ ~c.fresh => c.display = [neg |-> FALSE, digits |-> TypedDigits(RunBefore(p, Len(p) + 1))]
Fits(c, p) ==
  /\ CalcForm(c) /\ p \in Seq(CalcKeys)
  /\ c.on => InStep(c, p, OperatorBefore(p, Len(p) + 1))
CalcInv == Fits(calc, pressed)

LEMMA NewFits ==
  ASSUME CalculatorAssumption
  PROVE  Fits(NewCalc, <<>>)
<1>1. PICK p, c : p = <<>> /\ c = NewCalc
  OBVIOUS
<1>2. p \in Seq(CalcKeys) /\ Len(p) = 0 /\ Limit \in Nat /\ MaxDigits \in Nat \ {0}
  BY <1>1 DEF CalculatorAssumption
<1>3. c.acc = 0 /\ c.pending = "none" /\ c.fresh = TRUE /\ c.on = TRUE /\ c.display = TextOf(0) /\ CalcForm(c)
  BY <1>1 DEF NewCalc, CalcForm
<1>4. OperatorBefore(p, 1) = 0
  <2>1. OperatorsBefore(p, 1) = {}
    BY DEF OperatorsBefore
  <2> QED BY <2>1 DEF OperatorBefore
<1>5. Chain(p)[0] = 0
  <2>1. Chain(p)[0] = ResultAt(p, 0, Chain(p))
    <3>1. Results(Chain(p), p)
      BY <1>2, ChainIs
    <3>2. 0 \in 0 .. Len(p)
      BY <1>2
    <3> QED BY <3>1, <3>2 DEF Results
  <2> QED BY <2>1 DEF ResultAt
<1>6. Abs(0) <= Limit
  BY <1>2 DEF Abs
<1>7. InStep(c, p, 0)
  <2>1. Waits(p, 0) = "none"
    BY DEF Waits
  <2>2. c.acc \in Int /\ Abs(c.acc) <= Limit /\ c.acc = Chain(p)[0]
    BY <1>3, <1>5, <1>6
  <2>3. c.fresh \in BOOLEAN /\ (c.fresh <=> 0 = Len(p))
    BY <1>2, <1>3
  <2>4. c.display = TextOf(c.acc) /\ c.fresh
    BY <1>3
  <2> QED BY <1>3, <2>1, <2>2, <2>3, <2>4, Zenon DEF InStep
<1> QED BY <1>1, <1>2, <1>3, <1>4, <1>7 DEF Fits

(* What the display shows is the operand for the next operator. *)
LEMMA ShownIsOperand ==
  ASSUME NEW c, NEW p, Fits(c, p), c.on, CalculatorAssumption
  PROVE  Parsed(c.display) = OperandBefore(p, Len(p) + 1, Chain(p))
<1>1. PICK op : op = OperatorBefore(p, Len(p) + 1)
  OBVIOUS
<1>2. p \in Seq(CalcKeys) /\ InStep(c, p, op) /\ Limit \in Nat /\ Len(p) \in Nat
  BY <1>1 DEF Fits, CalculatorAssumption
<1>3. (Len(p) + 1) - 1 = Len(p)
  BY <1>2
<1>4. CASE op = Len(p)
  <2>1. Parsed(c.display) = c.acc
    BY <1>2, <1>4, TextIsRead DEF InStep
  <2>2. OperandBefore(p, Len(p) + 1, Chain(p)) = Chain(p)[Len(p)]
    BY <1>1, <1>2, <1>4 DEF OperandBefore
  <2> QED BY <1>2, <1>4, <2>1, <2>2 DEF InStep
<1>5. CASE op # Len(p)
  <2>1. c.display = [neg |-> FALSE, digits |-> TypedDigits(RunBefore(p, Len(p) + 1))]
    BY <1>2, <1>5 DEF InStep
  <2>2. Parsed(c.display) = Number(TypedDigits(RunBefore(p, Len(p) + 1)))
    BY <2>1 DEF Parsed
  <2>3. op # (Len(p) + 1) - 1
    BY <1>2, <1>5
  <2> QED BY <1>1, <1>2, <1>5, <2>2, <2>3 DEF OperandBefore
<1> QED BY <1>4, <1>5

(* A digit. *)
LEMMA DigitFits ==
  ASSUME CalcInv, calc.on, NEW d \in Digits, PressDigit(d), CalculatorAssumption
  PROVE  CalcInv'
<1>1. PICK c, p, key, q, c2 :
        c = calc /\ p = pressed /\ key = KeyOf("digit", d) /\ q = Append(p, key) /\ c2 = calc'
  OBVIOUS
<1>2. d \in 0 .. 9 /\ MaxDigits \in Nat \ {0} /\ Limit \in Nat
  BY DEF CalculatorAssumption
<1>3. key \in CalcKeys /\ key.op \notin Operators /\ key.digit = d
  BY <1>1, <1>2 DEF KeyOf, CalcKeys, Operators
<1>4. PICK op : op = OperatorBefore(p, Len(p) + 1)
  OBVIOUS
<1>5. p \in Seq(CalcKeys) /\ InStep(c, p, op) /\ CalcForm(c) /\ Len(p) \in Nat /\ c.on
  BY <1>1, <1>4 DEF CalcInv, Fits
<1>6. q \in Seq(CalcKeys) /\ Len(q) = Len(p) + 1 /\ \A j \in 1 .. Len(p) : q[j] = p[j]
  BY <1>1, <1>3, <1>5
<1>7. PICK run : run = RunBefore(p, Len(p) + 1)
  OBVIOUS
<1>8. op \in 0 .. Len(p) /\ run \in Decimals /\ Len(run) = Len(p) - op
  <2>1. Len(p) + 1 \in 1 .. Len(p) + 1 /\ Len(p) + 1 \in 0 .. Len(p) + 1
    BY <1>5
  <2>2. op \in 0 .. Len(p)
    BY <1>4, <1>5, <2>1, OperatorBeforeIs
  <2>3. run \in Decimals /\ Len(run) = (Len(p) + 1) - 1 - op
    BY <1>4, <1>5, <1>7, <2>1, RunIs
  <2> QED BY <1>5, <2>2, <2>3
<1>9. OperatorBefore(q, Len(q) + 1) = op /\ RunBefore(q, Len(q) + 1) = Append(run, d)
  <2>1. Len(q) + 1 = Len(p) + 2
    BY <1>5, <1>6
  <2> QED BY <1>1, <1>3, <1>4, <1>5, <1>7, <2>1, RunGrows
<1>10. PICK t, t2 : t = TypedDigits(run) /\ t2 = TypedDigits(Append(run, d))
  OBVIOUS
<1>11. t2 = IF t = <<0>> THEN <<d>> ELSE IF Len(t) < MaxDigits THEN Append(t, d) ELSE t
  BY <1>2, <1>8, <1>10, TypedGrows
<1>12. PICK before, after :
         /\ before = IF c.fresh \/ c.display = TextOf(0) THEN <<>> ELSE c.display.digits
         /\ after = IF Len(before) < MaxDigits THEN Append(before, d) ELSE before
  OBVIOUS
<1>13. c2 = [c EXCEPT !.display = [neg |-> FALSE, digits |-> after], !.fresh = FALSE] /\ pressed' = q
  BY <1>1, <1>12 DEF PressDigit
<1>14. after = t2
  <2>1. Append(<<>>, d) = <<d>> /\ Len(<<>>) < MaxDigits
    BY <1>2
  <2>2. CASE c.fresh
    <3>1. run \in Seq(0 .. 9) /\ Len(run) = 0
      BY <1>5, <1>8, <2>2 DEF InStep, Decimals
    <3>2. t = <<0>>
      BY <1>8, <1>10, <3>1, AllZeros
    <3> QED BY <1>11, <1>12, <2>1, <2>2, <3>2
  <2>3. CASE ~c.fresh
    <3>1. c.display = [neg |-> FALSE, digits |-> t]
      BY <1>5, <1>7, <1>10, <2>3 DEF InStep
    <3>2. c.display = TextOf(0) <=> t = <<0>>
      <4>1. c.display.digits = t
        BY <3>1
      <4> QED BY <1>2, <3>1, <4>1, TextOfZero
    <3>3. c.display.digits = t
      BY <3>1
    <3> QED BY <1>11, <1>12, <2>1, <2>3, <3>2, <3>3
  <2> QED BY <2>2, <2>3
<1>15. /\ CalcForm(c2) /\ c2.on = c.on /\ c2.acc = c.acc /\ c2.pending = c.pending
       /\ c2.fresh = FALSE /\ c2.display = [neg |-> FALSE, digits |-> t2]
  BY <1>5, <1>13, <1>14 DEF CalcForm
<1>16. Chain(q)[op] = Chain(p)[op]
  BY <1>1, <1>2, <1>3, <1>5, <1>8, ChainStays
<1>17. Waits(q, op) = Waits(p, op)
  BY <1>6, <1>8 DEF Waits
<1>18. InStep(c2, q, op)
  <2>1. op # Len(q)
    BY <1>5, <1>6, <1>8
  <2> QED BY <1>5, <1>9, <1>10, <1>15, <1>16, <1>17, <2>1 DEF InStep
<1>19. Fits(c2, q)
  BY <1>6, <1>9, <1>15, <1>18 DEF Fits
<1> QED BY <1>1, <1>13, <1>19 DEF CalcInv

(* An operator. *)
LEMMA OperatorFits ==
  ASSUME CalcInv, calc.on, NEW opr \in Operators, PressOperator(opr), CalculatorAssumption
  PROVE  CalcInv'
<1>1. PICK c, p, key, q, c2 :
        c = calc /\ p = pressed /\ key = KeyOf(opr, 0) /\ q = Append(p, key) /\ c2 = calc'
  OBVIOUS
<1>2. MaxDigits \in Nat \ {0} /\ Limit \in Nat
  BY DEF CalculatorAssumption
<1>3. key \in CalcKeys /\ key.op = opr /\ key.op \in Operators
  BY <1>1 DEF KeyOf, CalcKeys, Operators
<1>4. PICK op, n : op = OperatorBefore(p, Len(p) + 1) /\ n = Len(p)
  OBVIOUS
<1>5. p \in Seq(CalcKeys) /\ InStep(c, p, op) /\ CalcForm(c) /\ n \in Nat /\ c.on /\ Fits(c, p)
  BY <1>1, <1>4 DEF CalcInv, Fits
<1>6. q \in Seq(CalcKeys) /\ Len(q) = n + 1 /\ q[n + 1] = key /\ \A j \in 1 .. n : p[j] = q[j]
  BY <1>1, <1>3, <1>4, <1>5
<1>7. op \in 0 .. n /\ (op # 0 => p[op].op \in Operators)
  <2>1. Len(p) + 1 \in 0 .. Len(p) + 1
    BY <1>4, <1>5
  <2> QED BY <1>4, <1>5, <2>1, OperatorBeforeIs
<1>8. PICK v, x : v = Computed(c.pending, c.acc, Parsed(c.display)) /\ x = OperandBefore(p, n + 1, Chain(p))
  OBVIOUS
<1>9. Parsed(c.display) = x
  BY <1>4, <1>5, <1>8, ShownIsOperand
<1>10. \A i \in 0 .. n : Chain(q)[i] = Chain(p)[i] /\ Chain(p)[i] \in Int
  <2>1. \A i \in 0 .. n : Chain(q)[i] = Chain(p)[i]
    BY <1>1, <1>2, <1>3, <1>4, <1>5, ChainStays
  <2>2. \A i \in 0 .. n : Chain(p)[i] \in Int
    BY <1>2, <1>4, <1>5, ChainIs DEF Results
  <2> QED BY <2>1, <2>2
<1>11. x \in Int /\ OperandBefore(q, n + 1, Chain(q)) = x
  <2>1. n + 1 \in 1 .. Len(p) + 1 /\ (n + 1) - 1 = n /\ n \in 0 .. n
    BY <1>4, <1>5
  <2>2. Chain(p)[(n + 1) - 1] \in Int /\ Chain(p)[(n + 1) - 1] = Chain(q)[(n + 1) - 1]
    BY <1>10, <2>1
  <2>3. Shares(p, q, n + 1)
    BY <1>6, <2>1 DEF Shares
  <2>4. x \in Int
    BY <1>2, <1>5, <1>8, <2>1, <2>2, OperandInt
  <2>5. OperandBefore(p, n + 1, Chain(p)) = OperandBefore(q, n + 1, Chain(q))
    BY <1>5, <2>1, <2>2, <2>3, SameOperand
  <2> QED BY <1>8, <2>4, <2>5
<1>12. OperatorBefore(q, n + 1) = op /\ OperatorBefore(q, n + 2) = n + 1
  <2>1. n + 1 \in Nat \ {0} /\ (n + 1) + 1 = n + 2 /\ \A j \in 1 .. (n + 1) - 1 : p[j] = q[j]
    BY <1>5, <1>6
  <2>2. OperatorBefore(p, n + 1) = OperatorBefore(q, n + 1)
    BY <2>1, SameOperator
  <2>3. OperatorBefore(q, (n + 1) + 1) = n + 1
    BY <1>3, <1>6, <2>1, AfterOperator
  <2> QED BY <1>4, <2>1, <2>2, <2>3
<1>13. Chain(q)[n + 1] = IF op = 0 THEN x ELSE Computed(p[op].op, c.acc, x)
  <2>1. Chain(q)[n + 1] = ResultAt(q, n + 1, Chain(q))
    <3>1. n + 1 \in 0 .. Len(q)
      BY <1>5, <1>6
    <3> QED BY <1>2, <1>6, <3>1, ChainIs DEF Results
  <2>2. n + 1 # 0 /\ q[n + 1].op \in Operators
    BY <1>3, <1>5, <1>6
  <2>3. ResultAt(q, n + 1, Chain(q)) = IF op = 0 THEN x ELSE Computed(q[op].op, Chain(q)[op], x)
    BY <1>11, <1>12, <2>2 DEF ResultAt
  <2>4. op # 0 => q[op] = p[op]
    BY <1>6, <1>7
  <2>5. Chain(q)[op] = c.acc
    BY <1>5, <1>7, <1>10 DEF InStep
  <2> QED BY <2>1, <2>3, <2>4, <2>5
<1>14. v = Chain(q)[n + 1]
  <2>1. v = Computed(Waits(p, op), c.acc, x)
    BY <1>5, <1>8, <1>9 DEF InStep
  <2>2. Computed("none", c.acc, x) = x /\ Computed("=", c.acc, x) = x
    BY DEF Computed
  <2> QED BY <1>13, <2>1, <2>2 DEF Waits
<1>15. v \in Int
  <2>1. c.acc \in Int
    BY <1>5 DEF InStep
  <2> QED BY <1>8, <1>9, <1>11, <2>1, ComputedInt
<1>16. /\ c2 = IF Abs(v) > Limit THEN [c EXCEPT !.on = FALSE]
               ELSE [c EXCEPT !.acc = v, !.display = TextOf(v), !.fresh = TRUE,
                              !.pending = IF opr = "=" THEN "none" ELSE opr]
       /\ pressed' = q
  BY <1>1, <1>8 DEF PressOperator
<1>17. OperatorBefore(q, Len(q) + 1) = n + 1
  <2>1. Len(q) + 1 = n + 2
    BY <1>5, <1>6
  <2> QED BY <1>12, <2>1
<1>18. CASE Abs(v) > Limit
  <2>1. CalcForm(c2) /\ c2.on = FALSE
    BY <1>5, <1>16, <1>18 DEF CalcForm
  <2>2. Fits(c2, q)
    BY <1>6, <2>1 DEF Fits
  <2> QED BY <1>1, <1>16, <2>2 DEF CalcInv
<1>19. CASE ~(Abs(v) > Limit)
  <2>1. /\ CalcForm(c2) /\ c2.on = c.on /\ c2.acc = v /\ c2.display = TextOf(v) /\ c2.fresh = TRUE
        /\ c2.pending = IF opr = "=" THEN "none" ELSE opr
    BY <1>5, <1>16, <1>19 DEF CalcForm
  <2>2. c2.pending = Waits(q, n + 1)
    BY <1>3, <1>5, <1>6, <2>1 DEF Waits
  <2>3. Abs(v) <= Limit
    BY <1>2, <1>15, <1>19 DEF Abs
  <2>4. InStep(c2, q, n + 1)
    BY <1>6, <1>14, <1>15, <2>1, <2>2, <2>3 DEF InStep
  <2>5. Fits(c2, q)
    BY <1>6, <1>17, <2>1, <2>4 DEF Fits
  <2> QED BY <1>1, <1>16, <2>5 DEF CalcInv
<1> QED BY <1>18, <1>19

(* What the calculator shows is the number being typed, or the value of what  *)
(* was typed before, taken from the left to the right, for any digits and any *)
(* number of keys: writing a result as text and reading it again, the digit   *)
(* that begins a number and the operator that waits stay in step.             *)
THEOREM ShownIsChainTheorem == CalculatorSpec => []ShownIsChain
<1>1. CalculatorInit => CalcInv
  BY CalculatorAssumption, NewFits DEF CalculatorInit, CalcInv
<1>2. CalcInv /\ [CalculatorNext]_cvars => CalcInv'
  <2>1. SUFFICES ASSUME CalcInv, [CalculatorNext]_cvars  PROVE CalcInv'
    OBVIOUS
  <2>2. ASSUME calc.on, NEW d \in Digits, PressDigit(d)  PROVE CalcInv'
    BY <2>1, <2>2, CalculatorAssumption, DigitFits
  <2>3. ASSUME calc.on, NEW op \in Operators, PressOperator(op)  PROVE CalcInv'
    BY <2>1, <2>3, CalculatorAssumption, OperatorFits
  <2>4. CASE Clear
    BY <2>4, CalculatorAssumption, NewFits DEF Clear, CalcInv
  <2>5. CASE UNCHANGED cvars
    BY <2>1, <2>5 DEF cvars, CalcInv
  <2> QED BY <2>1, <2>2, <2>3, <2>4, <2>5 DEF CalculatorNext
<1>3. CalcInv => ShownIsChain
  <2>1. SUFFICES ASSUME CalcInv, calc.on
                 PROVE  /\ Parsed(calc.display) = OperandBefore(pressed, Len(pressed) + 1, Chain(pressed))
                        /\ calc.acc = Chain(pressed)[OperatorBefore(pressed, Len(pressed) + 1)]
    BY DEF ShownIsChain
  <2>2. Parsed(calc.display) = OperandBefore(pressed, Len(pressed) + 1, Chain(pressed))
    BY <2>1, CalculatorAssumption, ShownIsOperand DEF CalcInv
  <2>3. calc.acc = Chain(pressed)[OperatorBefore(pressed, Len(pressed) + 1)]
    BY <2>1 DEF CalcInv, Fits, InStep
  <2> QED BY <2>2, <2>3
<1> QED BY <1>1, <1>2, <1>3, PTL DEF CalculatorSpec

-------------------------------------------------------------------------------
(* The console: its cells counted one after the other, and what each character *)
(* does to the text right before the place where the next one goes.            *)
Glyphs == Letters \cup {Blank, Block, "?", ">"}
Inputs == Glyphs \cup {Newline, Rubout}
Screens == [cell : [0 .. Lines - 1 -> [0 .. Columns - 1 -> Glyphs]],
            col : 0 .. Columns, row : 0 .. Lines - 1, cursor : BOOLEAN]
At(s, p) == s.cell[p \div Columns][p % Columns]
Place(s) == s.row * Columns + s.col
Places == 0 .. Columns * Lines - 1

LEMMA DivideBy ==
  ASSUME NEW c \in Nat \ {0}, NEW p \in Nat
  PROVE  /\ p \div c \in Nat /\ p % c \in 0 .. c - 1
         /\ p = (p \div c) * c + (p % c)
  OBVIOUS

LEMMA OneQuotient ==
  ASSUME NEW c \in Nat \ {0}, NEW q \in Nat, NEW r \in 0 .. c - 1
  PROVE  (q * c + r) \div c = q /\ (q * c + r) % c = r
<1>1. PICK p : p = q * c + r
  OBVIOUS
<1>2. p \in Nat
  BY <1>1
<1>3. PICK d, m : d = p \div c /\ m = p % c
  OBVIOUS
<1>4. d \in Nat /\ m \in 0 .. c - 1 /\ p = d * c + m
  BY <1>2, <1>3, DivideBy
<1>5. ~(d < q)
  <2>1. SUFFICES ASSUME d < q  PROVE FALSE
    OBVIOUS
  <2>2. PICK e \in Nat : q = d + 1 + e
    BY <1>4, <2>1
  <2>3. q * c = d * c + c + e * c /\ e * c >= 0
    BY <1>4, <2>2
  <2> QED BY <1>1, <1>4, <2>3
<1>6. ~(q < d)
  <2>1. SUFFICES ASSUME q < d  PROVE FALSE
    OBVIOUS
  <2>2. PICK e \in Nat : d = q + 1 + e
    BY <1>4, <2>1
  <2>3. d * c = q * c + c + e * c /\ e * c >= 0
    BY <1>4, <2>2
  <2> QED BY <1>1, <1>4, <2>3
<1>7. d = q
  BY <1>4, <1>5, <1>6
<1> QED BY <1>1, <1>3, <1>4, <1>7

LEMMA Coordinates ==
  /\ \A p \in Places : /\ p \div Columns \in 0 .. Lines - 1 /\ p % Columns \in 0 .. Columns - 1
                       /\ p = (p \div Columns) * Columns + (p % Columns)
  /\ \A y \in 0 .. Lines - 1 : \A x \in 0 .. Columns - 1 :
       /\ y * Columns + x \in Places
       /\ (y * Columns + x) \div Columns = y /\ (y * Columns + x) % Columns = x
<1>1. Columns \in Nat \ {0} /\ Lines \in Nat \ {0}
  BY ConsoleAssumption
<1>2. ASSUME NEW p \in Places
      PROVE  /\ p \div Columns \in 0 .. Lines - 1 /\ p % Columns \in 0 .. Columns - 1
             /\ p = (p \div Columns) * Columns + (p % Columns)
  <2>1. Columns * Lines \in Nat /\ p \in Nat /\ p < Columns * Lines
    BY <1>1 DEF Places
  <2>2. PICK y, x : y = p \div Columns /\ x = p % Columns
    OBVIOUS
  <2>3. y \in Nat /\ x \in 0 .. Columns - 1 /\ p = y * Columns + x
    BY <1>1, <2>1, <2>2, DivideBy
  <2>4. y < Lines
    <3>1. SUFFICES ASSUME ~(y < Lines)  PROVE FALSE
      OBVIOUS
    <3>2. PICK e \in Nat : y = Lines + e
      BY <1>1, <2>3, <3>1
    <3>3. y * Columns = Columns * Lines + e * Columns /\ e * Columns >= 0
      BY <1>1, <3>2
    <3> QED BY <1>1, <2>1, <2>3, <3>3
  <2> QED BY <1>1, <2>2, <2>3, <2>4
<1>3. ASSUME NEW y \in 0 .. Lines - 1, NEW x \in 0 .. Columns - 1
      PROVE  /\ y * Columns + x \in Places
             /\ (y * Columns + x) \div Columns = y /\ (y * Columns + x) % Columns = x
  <2>1. y \in Nat /\ y * Columns \in Nat
    BY <1>1
  <2>2. PICK e \in Nat : Lines = y + 1 + e
    BY <1>1
  <2>3. Columns * Lines = y * Columns + Columns + e * Columns /\ e * Columns >= 0
    BY <1>1, <2>1, <2>2
  <2>4. y * Columns + x \in Places
    BY <1>1, <2>1, <2>3 DEF Places
  <2> QED BY <1>1, <2>1, <2>4, OneQuotient
<1> QED BY <1>2, <1>3

(* A screen with other cells, at another place. *)
Grids == [0 .. Lines - 1 -> [0 .. Columns - 1 -> Glyphs]]
Moved(s, c, x, y) == [s EXCEPT !.cell = c, !.col = x, !.row = y]

LEMMA ScreenParts ==
  ASSUME NEW s \in Screens
  PROVE  s.cell \in Grids /\ s.col \in 0 .. Columns /\ s.row \in 0 .. Lines - 1 /\ s.cursor \in BOOLEAN
  BY DEF Screens, Grids

LEMMA MovedIs ==
  ASSUME NEW s \in Screens, NEW c \in Grids, NEW x \in 0 .. Columns, NEW y \in 0 .. Lines - 1,
         NEW n, n = Moved(s, c, x, y)
  PROVE  n \in Screens /\ n.cell = c /\ n.col = x /\ n.row = y /\ n.cursor = s.cursor
<1>1. PICK W, X, Y : W = Grids /\ X = 0 .. Columns /\ Y = 0 .. Lines - 1
  OBVIOUS
<1>2. s \in [cell : W, col : X, row : Y, cursor : BOOLEAN]
  BY <1>1 DEF Screens, Grids
<1>3. n \in [cell : W, col : X, row : Y, cursor : BOOLEAN] /\ n.cell = c /\ n.col = x /\ n.row = y /\ n.cursor = s.cursor
  BY <1>1, <1>2 DEF Moved
<1> QED BY <1>1, <1>3 DEF Screens, Grids

LEMMA DrawAt ==
  ASSUME NEW s \in Screens, NEW g \in Glyphs
  PROVE  /\ Draw(s, g) \in Screens
         /\ Draw(s, g).col = s.col /\ Draw(s, g).row = s.row /\ Draw(s, g).cursor = s.cursor
         /\ \A p \in Places : At(Draw(s, g), p) = IF p = Place(s) /\ s.col < Columns THEN g ELSE At(s, p)
<1>1. PICK d : d = Draw(s, g)
  OBVIOUS
<1>2. CASE s.col < Columns
  <2>1. s.col \in 0 .. Columns - 1 /\ s.row \in 0 .. Lines - 1
    BY <1>2, ConsoleAssumption DEF Screens
  <2>2. d = [s EXCEPT !.cell = [s.cell EXCEPT ![s.row] = [s.cell[s.row] EXCEPT ![s.col] = g]]]
    BY <1>1, <1>2, <2>1 DEF Draw, Screens
  <2>3. d \in Screens /\ d.col = s.col /\ d.row = s.row /\ d.cursor = s.cursor
    BY <2>1, <2>2 DEF Screens
  <2>4. ASSUME NEW y \in 0 .. Lines - 1, NEW x \in 0 .. Columns - 1
        PROVE  d.cell[y][x] = IF y = s.row /\ x = s.col THEN g ELSE s.cell[y][x]
    BY <2>1, <2>2 DEF Screens
  <2>5. ASSUME NEW p \in Places
        PROVE  At(d, p) = IF p = Place(s) THEN g ELSE At(s, p)
    <3>1. PICK y, x : y = p \div Columns /\ x = p % Columns
      OBVIOUS
    <3>2. y \in 0 .. Lines - 1 /\ x \in 0 .. Columns - 1 /\ p = y * Columns + x
      BY <3>1, Coordinates
    <3>3. p = Place(s) <=> y = s.row /\ x = s.col
      BY <2>1, <3>1, <3>2, Coordinates DEF Place
    <3> QED BY <2>4, <3>1, <3>2, <3>3 DEF At
  <2> QED BY <1>1, <1>2, <2>3, <2>5
<1>3. CASE ~(s.col < Columns)
  BY <1>3 DEF Draw
<1> QED BY <1>2, <1>3

LEMMA NewlineAt ==
  ASSUME NEW s \in Screens, NEW n, n = ToNewline(s)
  PROVE  /\ n \in Screens /\ n.col = 0 /\ n.cursor = s.cursor
         /\ s.row + 1 < Lines => n.row = s.row + 1 /\ \A p \in Places : At(n, p) = At(s, p)
         /\ ~(s.row + 1 < Lines) =>
              /\ s.row = Lines - 1 /\ n.row = Lines - 1
              /\ \A p \in Places : At(n, p) = IF p < Columns * (Lines - 1) THEN At(s, p + Columns) ELSE Blank
<1>1. Columns \in Nat \ {0} /\ Lines \in Nat \ {0, 1} /\ Blank \in Glyphs
  BY ConsoleAssumption DEF Glyphs
<1>2. CASE s.row + 1 < Lines
  <2>1. n = [s EXCEPT !.col = 0, !.row = s.row + 1]
    BY <1>2 DEF ToNewline
  <2>2. n \in Screens /\ n.col = 0 /\ n.cursor = s.cursor /\ n.row = s.row + 1 /\ n.cell = s.cell
    <3>1. s.row + 1 \in 0 .. Lines - 1 /\ 0 \in 0 .. Columns
      BY <1>1, <1>2, ScreenParts
    <3>2. n = Moved(s, s.cell, 0, s.row + 1)
      BY <2>1 DEF Screens, Moved
    <3>3. s.cell \in Grids
      BY ScreenParts
    <3> QED BY <3>1, <3>2, <3>3, MovedIs
  <2> QED BY <1>2, <2>2 DEF At
<1>3. CASE ~(s.row + 1 < Lines)
  <2>1. s.row = Lines - 1
    BY <1>1, <1>3 DEF Screens
  <2>2. PICK c : c = [y \in 0 .. Lines - 1 |-> IF y = Lines - 1 THEN BlankLine ELSE s.cell[y + 1]]
    OBVIOUS
  <2>3. n = [s EXCEPT !.col = 0, !.cell = c]
    BY <1>3, <2>2 DEF ToNewline
  <2>4. ASSUME NEW y \in 0 .. Lines - 1
        PROVE  /\ c[y] \in [0 .. Columns - 1 -> Glyphs]
               /\ \A x \in 0 .. Columns - 1 : c[y][x] = IF y = Lines - 1 THEN Blank ELSE s.cell[y + 1][x]
    <3>1. BlankLine \in [0 .. Columns - 1 -> Glyphs] /\ \A x \in 0 .. Columns - 1 : BlankLine[x] = Blank
      BY <1>1 DEF BlankLine
    <3>2. y # Lines - 1 => y + 1 \in 0 .. Lines - 1
      BY <1>1
    <3> QED BY <2>2, <3>1, <3>2 DEF Screens
  <2>5. c \in [0 .. Lines - 1 -> [0 .. Columns - 1 -> Glyphs]]
    BY <2>2, <2>4
  <2>6. n \in Screens /\ n.col = 0 /\ n.cursor = s.cursor /\ n.row = Lines - 1 /\ n.cell = c
    <3>1. s.row \in 0 .. Lines - 1 /\ 0 \in 0 .. Columns
      BY <1>1, ScreenParts
    <3>2. n = Moved(s, c, 0, s.row)
      BY <2>3 DEF Screens, Moved
    <3>3. n \in Screens /\ n.cell = c /\ n.col = 0 /\ n.row = s.row /\ n.cursor = s.cursor
      BY <2>5, <3>1, <3>2, MovedIs DEF Grids
    <3> QED BY <2>1, <3>3
  <2>7. ASSUME NEW p \in Places
        PROVE  At(n, p) = IF p < Columns * (Lines - 1) THEN At(s, p + Columns) ELSE Blank
    <3>1. PICK y, x : y = p \div Columns /\ x = p % Columns
      OBVIOUS
    <3>2. y \in 0 .. Lines - 1 /\ x \in 0 .. Columns - 1 /\ p = y * Columns + x
      BY <3>1, Coordinates
    <3>3. At(n, p) = IF y = Lines - 1 THEN Blank ELSE s.cell[y + 1][x]
      BY <2>4, <2>6, <3>1, <3>2 DEF At
    <3>4. CASE y = Lines - 1
      <4>1. p = Columns * (Lines - 1) + x
        BY <1>1, <3>2, <3>4
      <4>2. ~(p < Columns * (Lines - 1))
        BY <1>1, <3>2, <4>1
      <4> QED BY <3>3, <3>4, <4>2
    <3>5. CASE y # Lines - 1
      <4>1. y + 1 \in 0 .. Lines - 1 /\ y \in Nat
        BY <1>1, <3>2, <3>5
      <4>2. p + Columns = (y + 1) * Columns + x
        BY <1>1, <3>2, <4>1
      <4>3. (p + Columns) \div Columns = y + 1 /\ (p + Columns) % Columns = x
        BY <3>2, <4>1, <4>2, Coordinates
      <4>4. p < Columns * (Lines - 1)
        <5>1. PICK e \in Nat : Lines - 1 = y + 1 + e
          BY <1>1, <3>2, <3>5
        <5>2. Columns * (Lines - 1) = y * Columns + Columns + e * Columns /\ e * Columns >= 0
          BY <1>1, <4>1, <5>1
        <5> QED BY <1>1, <3>2, <5>2
      <4> QED BY <3>3, <3>5, <4>3, <4>4 DEF At
    <3> QED BY <3>4, <3>5
  <2> QED BY <1>3, <2>1, <2>6, <2>7
<1> QED BY <1>2, <1>3

LEMMA BackAt ==
  ASSUME NEW s \in Screens, Place(s) > 0, NEW b, b = Back(s)
  PROVE  /\ b \in Screens /\ b.col < Columns /\ Place(b) = Place(s) - 1 /\ b.cursor = s.cursor
         /\ \A p \in Places : At(b, p) = At(s, p)
<1>1. Columns \in Nat \ {0} /\ Lines \in Nat \ {0, 1}
  BY ConsoleAssumption
<1>2. s.cell \in Grids /\ s.col \in 0 .. Columns /\ s.row \in 0 .. Lines - 1
  BY ScreenParts
<1>3. CASE s.col > 0
  <2>1. b = Moved(s, s.cell, s.col - 1, s.row)
    BY <1>3 DEF Back, Moved, Screens
  <2>2. s.col - 1 \in 0 .. Columns
    BY <1>1, <1>2, <1>3
  <2>3. b \in Screens /\ b.cell = s.cell /\ b.col = s.col - 1 /\ b.row = s.row /\ b.cursor = s.cursor
    BY <1>2, <2>1, <2>2, MovedIs
  <2> QED BY <1>1, <1>2, <1>3, <2>3 DEF Place, At
<1>4. CASE ~(s.col > 0)
  <2>1. s.col = 0 /\ s.row > 0
    BY <1>1, <1>2, <1>4 DEF Place
  <2>2. b = Moved(s, s.cell, Columns - 1, s.row - 1)
    BY <1>4, <2>1 DEF Back, Moved, Screens
  <2>3. Columns - 1 \in 0 .. Columns /\ s.row - 1 \in 0 .. Lines - 1
    BY <1>1, <1>2, <2>1
  <2>4. b \in Screens /\ b.cell = s.cell /\ b.col = Columns - 1 /\ b.row = s.row - 1 /\ b.cursor = s.cursor
    BY <1>2, <2>2, <2>3, MovedIs
  <2>5. (s.row - 1) * Columns = s.row * Columns - Columns
    BY <1>1, <1>2, <2>1
  <2> QED BY <1>1, <1>2, <2>1, <2>4, <2>5 DEF Place, At
<1> QED BY <1>3, <1>4

LEMMA PlaceIn ==
  ASSUME NEW s \in Screens
  PROVE  /\ Place(s) \in 0 .. Columns * Lines
         /\ s.col < Columns => Place(s) \in Places
         /\ ~(s.col < Columns) => s.col = Columns /\ Place(s) = (s.row + 1) * Columns
<1>1. Columns \in Nat \ {0} /\ Lines \in Nat \ {0, 1}
  BY ConsoleAssumption
<1>2. s.col \in 0 .. Columns /\ s.row \in 0 .. Lines - 1
  BY ScreenParts
<1>3. CASE s.col < Columns
  <2>1. s.col \in 0 .. Columns - 1
    BY <1>1, <1>2, <1>3
  <2>2. s.row * Columns + s.col \in Places
    BY <1>2, <2>1, Coordinates
  <2> QED BY <1>1, <1>3, <2>2 DEF Place, Places
<1>4. CASE ~(s.col < Columns)
  <2>1. s.col = Columns
    BY <1>1, <1>2, <1>4
  <2>2. Place(s) = (s.row + 1) * Columns
    BY <1>1, <1>2, <2>1 DEF Place
  <2>3. s.row * Columns + (Columns - 1) \in Places
    <3>1. Columns - 1 \in 0 .. Columns - 1
      BY <1>1
    <3> QED BY <1>2, <3>1, Coordinates
  <2>4. Place(s) \in 0 .. Columns * Lines
    BY <1>1, <1>2, <2>1, <2>3 DEF Place, Places
  <2> QED BY <1>4, <2>1, <2>2, <2>4
<1> QED BY <1>3, <1>4

(* The text t stands right before the place of the screen and nothing behind. *)
Shows(s, t) ==
  /\ s \in Screens /\ t \in Seq(Glyphs) /\ Len(t) <= Place(s)
  /\ \A i \in 1 .. Len(t) : At(s, Place(s) - Len(t) + i - 1) = t[i]
  /\ \A p \in Places : p >= Place(s) =>
       At(s, p) = IF p = Place(s) /\ s.cursor /\ s.col < Columns THEN Block ELSE Blank

(* The places of such a text. *)
LEMMA TextPlaces ==
  ASSUME NEW s, NEW t, Shows(s, t), NEW i \in 1 .. Len(t)
  PROVE  Place(s) - Len(t) + i - 1 \in Places /\ Place(s) - Len(t) + i - 1 < Place(s)
<1>1. Place(s) \in 0 .. Columns * Lines /\ Len(t) \in Nat /\ Len(t) <= Place(s)
  BY PlaceIn DEF Shows
<1>2. Columns * Lines \in Nat
  BY ConsoleAssumption
<1> QED BY <1>1, <1>2 DEF Places

LEMMA Toggled ==
  ASSUME NEW s, NEW t, Shows(s, t), NEW n, n = ToggleCursor(s)
  PROVE  Shows(n, t) /\ n.cursor = ~s.cursor
<1>1. PICK g : g = IF s.cursor THEN Blank ELSE Block
  OBVIOUS
<1>2. s \in Screens /\ g \in Glyphs /\ s.cursor \in BOOLEAN
  BY <1>1, ScreenParts DEF Shows, Glyphs
<1>3. PICK d : d = Draw(s, g)
  OBVIOUS
<1>4. /\ d \in Screens /\ d.col = s.col /\ d.row = s.row /\ d.cursor = s.cursor
      /\ \A p \in Places : At(d, p) = IF p = Place(s) /\ s.col < Columns THEN g ELSE At(s, p)
  BY <1>2, <1>3, DrawAt
<1>5. n = [d EXCEPT !.cursor = ~d.cursor]
  BY <1>1, <1>3 DEF ToggleCursor
<1>6. n \in Screens /\ n.cell = d.cell /\ n.col = s.col /\ n.row = s.row /\ n.cursor = ~s.cursor
  <2>1. PICK W, X, Y : W = Grids /\ X = 0 .. Columns /\ Y = 0 .. Lines - 1
    OBVIOUS
  <2>2. d \in [cell : W, col : X, row : Y, cursor : BOOLEAN]
    BY <1>4, <2>1 DEF Screens, Grids
  <2>3. n \in [cell : W, col : X, row : Y, cursor : BOOLEAN]
    BY <1>5, <2>2
  <2>4. n.cell = d.cell /\ n.col = d.col /\ n.row = d.row /\ n.cursor = ~d.cursor
    BY <1>5, <2>2
  <2> QED BY <1>4, <2>1, <2>3, <2>4 DEF Screens, Grids
<1>7. Place(n) = Place(s) /\ \A p \in Places : At(n, p) = At(d, p)
  BY <1>6 DEF Place, At
<1>8. ASSUME NEW i \in 1 .. Len(t)  PROVE At(n, Place(n) - Len(t) + i - 1) = t[i]
  <2>1. PICK q : q = Place(s) - Len(t) + i - 1
    OBVIOUS
  <2>2. q \in Places /\ q < Place(s) /\ At(s, q) = t[i]
    BY <2>1, TextPlaces DEF Shows
  <2>3. At(n, q) = At(s, q)
    BY <1>4, <1>7, <2>2, PlaceIn, <1>2
  <2> QED BY <1>7, <2>1, <2>2, <2>3
<1>9. ASSUME NEW p \in Places, p >= Place(n)
      PROVE  At(n, p) = IF p = Place(n) /\ n.cursor /\ n.col < Columns THEN Block ELSE Blank
  <2>1. At(n, p) = IF p = Place(s) /\ s.col < Columns THEN g ELSE At(s, p)
    BY <1>4, <1>7
  <2>2. At(s, p) = IF p = Place(s) /\ s.cursor /\ s.col < Columns THEN Block ELSE Blank
    BY <1>7, <1>9 DEF Shows
  <2> QED BY <1>1, <1>2, <1>6, <1>7, <2>1, <2>2
<1> QED BY <1>6, <1>7, <1>8, <1>9 DEF Shows

LEMMA Hidden ==
  ASSUME NEW s, NEW t, Shows(s, t)
  PROVE  Shows(HideCursor(s), t) /\ ~HideCursor(s).cursor
<1>1. s.cursor \in BOOLEAN
  BY ScreenParts DEF Shows
<1> QED BY <1>1, Toggled DEF HideCursor

(* A newline leaves the text behind, and the place free. *)
LEMMA Ended ==
  ASSUME NEW s, NEW t, Shows(s, t), ~s.cursor, NEW n, n = ToNewline(s)
  PROVE  Shows(n, <<>>) /\ n.col = 0 /\ ~n.cursor
<1>1. Columns \in Nat \ {0} /\ Lines \in Nat \ {0, 1} /\ s \in Screens
  BY ConsoleAssumption DEF Shows
<1>2. n \in Screens /\ n.col = 0 /\ ~n.cursor
  BY <1>1, NewlineAt
<1>3. <<>> \in Seq(Glyphs) /\ Len(<<>>) = 0 /\ Len(<<>>) <= Place(n)
  BY <1>2, PlaceIn
<1>4. ASSUME NEW p \in Places, p >= Place(n)  PROVE At(n, p) = Blank
  <2>1. CASE s.row + 1 < Lines
    <3>1. At(n, p) = At(s, p) /\ n.row = s.row + 1
      BY <1>1, <2>1, NewlineAt
    <3>2. Place(n) = s.row * Columns + Columns /\ Place(s) <= Place(n)
      BY <1>1, <1>2, <3>1, ScreenParts DEF Place
    <3>3. p >= Place(s)
      <4>1. Place(n) \in Int /\ Place(s) \in Int /\ p \in Int
        BY <1>1, <1>2, PlaceIn DEF Places
      <4> QED BY <1>4, <3>2, <4>1
    <3> QED BY <3>1, <3>3 DEF Shows
  <2>2. CASE ~(s.row + 1 < Lines)
    <3>1. n.row = Lines - 1 /\ At(n, p) = IF p < Columns * (Lines - 1) THEN At(s, p + Columns) ELSE Blank
      BY <1>1, <2>2, NewlineAt
    <3>2. Place(n) = Columns * (Lines - 1)
      BY <1>1, <1>2, <3>1 DEF Place
    <3>3. ~(p < Columns * (Lines - 1))
      BY <1>1, <1>4, <3>2 DEF Places
    <3> QED BY <3>1, <3>3
  <2> QED BY <2>1, <2>2
<1> QED BY <1>2, <1>3, <1>4 DEF Shows

(* A row that is full is left, and the text stays right before the place. *)
LEMMA Wrapped ==
  ASSUME NEW s, NEW t, Shows(s, t), ~s.cursor, ~(s.col < Columns), Len(t) <= Columns * (Lines - 1),
         NEW n, n = ToNewline(s)
  PROVE  Shows(n, t) /\ n.col = 0 /\ ~n.cursor
<1>1. Columns \in Nat \ {0} /\ Lines \in Nat \ {0, 1} /\ s \in Screens
  BY ConsoleAssumption DEF Shows
<1>2. n \in Screens /\ n.col = 0 /\ ~n.cursor
  BY <1>1, NewlineAt
<1>3. Place(s) = (s.row + 1) * Columns
  BY <1>1, PlaceIn
<1>4. \A p \in Places : p >= Place(n) => At(n, p) = Blank
  BY <1>2, Ended DEF Shows
<1>5. CASE s.row + 1 < Lines
  <2>1. n.row = s.row + 1 /\ \A p \in Places : At(n, p) = At(s, p)
    BY <1>1, <1>5, NewlineAt
  <2>2. Place(n) = Place(s)
    BY <1>1, <1>2, <1>3, <2>1, ScreenParts DEF Place
  <2>3. \A i \in 1 .. Len(t) : At(n, Place(n) - Len(t) + i - 1) = t[i]
    BY <2>1, <2>2, TextPlaces DEF Shows
  <2> QED BY <1>2, <1>4, <2>2, <2>3 DEF Shows
<1>6. CASE ~(s.row + 1 < Lines)
  <2>1. /\ s.row = Lines - 1 /\ n.row = Lines - 1
        /\ \A p \in Places : At(n, p) = IF p < Columns * (Lines - 1) THEN At(s, p + Columns) ELSE Blank
    BY <1>1, <1>6, NewlineAt
  <2>2. Place(n) = Columns * (Lines - 1) /\ Place(s) = Place(n) + Columns /\ Place(n) \in Nat
    BY <1>1, <1>2, <1>3, <2>1 DEF Place
  <2>3. ASSUME NEW i \in 1 .. Len(t)  PROVE At(n, Place(n) - Len(t) + i - 1) = t[i]
    <3>1. PICK q : q = Place(n) - Len(t) + i - 1
      OBVIOUS
    <3>2. Len(t) \in Nat
      BY DEF Shows
    <3>3. q \in Nat /\ q < Place(n) /\ q + Columns = Place(s) - Len(t) + i - 1
      BY <1>1, <2>2, <3>1, <3>2
    <3>4. q \in Places
      <4>1. Columns * Lines = Columns * (Lines - 1) + Columns
        BY <1>1
      <4> QED BY <1>1, <2>2, <3>3, <4>1 DEF Places
    <3>5. At(n, q) = At(s, q + Columns)
      BY <2>1, <2>2, <3>3, <3>4
    <3> QED BY <3>1, <3>3, <3>5 DEF Shows
  <2>4. Len(t) <= Place(n)
    BY <2>2
  <2> QED BY <1>2, <1>4, <2>3, <2>4 DEF Shows
<1> QED BY <1>5, <1>6

LEMMA MovedRight ==
  ASSUME NEW d \in Screens, d.col < Columns, NEW n, n = [d EXCEPT !.col = @ + 1]
  PROVE  n \in Screens /\ n.cell = d.cell /\ n.col = d.col + 1 /\ n.row = d.row /\ n.cursor = d.cursor
<1>1. PICK W, X, Y : W = Grids /\ X = 0 .. Columns /\ Y = 0 .. Lines - 1
  OBVIOUS
<1>2. d \in [cell : W, col : X, row : Y, cursor : BOOLEAN]
  BY <1>1 DEF Screens, Grids
<1>3. d.col + 1 \in X
  BY <1>1, ScreenParts, ConsoleAssumption
<1>4. n \in [cell : W, col : X, row : Y, cursor : BOOLEAN]
  BY <1>2, <1>3
<1>5. n.cell = d.cell /\ n.col = d.col + 1 /\ n.row = d.row /\ n.cursor = d.cursor
  BY <1>2
<1> QED BY <1>1, <1>4, <1>5 DEF Screens, Grids

(* A character is written. *)
LEMMA Written ==
  ASSUME NEW s, NEW t, Shows(s, t), ~s.cursor, s.col < Columns, NEW g \in Glyphs,
         NEW n, n = [Draw(s, g) EXCEPT !.col = @ + 1]
  PROVE  Shows(n, Append(t, g)) /\ ~n.cursor
<1>1. Columns \in Nat \ {0} /\ Lines \in Nat \ {0, 1} /\ s \in Screens
  BY ConsoleAssumption DEF Shows
<1>2. PICK d : d = Draw(s, g)
  OBVIOUS
<1>3. /\ d \in Screens /\ d.col = s.col /\ d.row = s.row /\ d.cursor = s.cursor
      /\ \A p \in Places : At(d, p) = IF p = Place(s) THEN g ELSE At(s, p)
  BY <1>1, <1>2, DrawAt
<1>4. d.cell \in Grids /\ s.col \in 0 .. Columns /\ s.row \in 0 .. Lines - 1 /\ s.col + 1 \in 0 .. Columns
  BY <1>1, <1>3, ScreenParts
<1>5. n.cell = d.cell /\ n.col = s.col + 1 /\ n.row = s.row /\ ~n.cursor
  BY <1>2, <1>3, MovedRight
<1>6. n \in Screens
  BY <1>2, <1>3, MovedRight
<1>7. Place(n) = Place(s) + 1 /\ Place(s) \in Places /\ \A p \in Places : At(n, p) = At(d, p)
  BY <1>1, <1>4, <1>5, PlaceIn DEF Place, At
<1>8. PICK u : u = Append(t, g)
  OBVIOUS
<1>9. u \in Seq(Glyphs) /\ Len(t) \in Nat /\ Len(u) = Len(t) + 1 /\ u[Len(u)] = g /\ \A i \in 1 .. Len(t) : u[i] = t[i]
  BY <1>8 DEF Shows
<1>10. Place(s) \in Nat /\ Len(t) <= Place(s)
  BY <1>7 DEF Places, Shows
<1>11. ASSUME NEW i \in 1 .. Len(u)  PROVE At(n, Place(n) - Len(u) + i - 1) = u[i]
  <2>1. PICK q : q = Place(s) - Len(t) + i - 1
    OBVIOUS
  <2>2. q = Place(n) - Len(u) + i - 1
    BY <1>7, <1>9, <1>10, <2>1
  <2>3. CASE i \in 1 .. Len(t)
    <3>1. q \in Places /\ q < Place(s) /\ At(s, q) = t[i]
      BY <2>1, <2>3, TextPlaces DEF Shows
    <3>2. At(n, q) = At(s, q)
      BY <1>3, <1>7, <1>10, <3>1
    <3> QED BY <1>9, <2>2, <2>3, <3>1, <3>2
  <2>4. CASE i = Len(u)
    <3>1. q = Place(s)
      BY <1>9, <1>10, <2>1, <2>4
    <3> QED BY <1>3, <1>7, <1>9, <2>2, <2>4, <3>1
  <2> QED BY <1>9, <2>3, <2>4
<1>12. ASSUME NEW p \in Places, p >= Place(n)  PROVE At(n, p) = Blank
  <2>1. p > Place(s)
    BY <1>7, <1>10, <1>12 DEF Places
  <2>2. At(n, p) = At(s, p)
    BY <1>3, <1>7, <1>10, <2>1
  <2>3. p >= Place(s) /\ p # Place(s)
    BY <1>10, <2>1 DEF Places
  <2> QED BY <2>2, <2>3 DEF Shows
<1>13. Len(u) <= Place(n)
  BY <1>7, <1>9, <1>10
<1>14. Shows(n, u)
  BY <1>5, <1>6, <1>9, <1>11, <1>12, <1>13 DEF Shows
<1> QED BY <1>5, <1>8, <1>14

(* The last character is rubbed out. *)
LEMMA Erased ==
  ASSUME NEW s, NEW t, Shows(s, t), ~s.cursor, t # <<>>, NEW n, n = Draw(Back(s), Blank)
  PROVE  Shows(n, SubSeq(t, 1, Len(t) - 1)) /\ ~n.cursor
<1>1. Columns \in Nat \ {0} /\ Lines \in Nat \ {0, 1} /\ s \in Screens /\ Blank \in Glyphs
  BY ConsoleAssumption DEF Shows, Glyphs
<1>2. Len(t) \in Nat \ {0} /\ Len(t) <= Place(s) /\ Place(s) \in 0 .. Columns * Lines
  BY <1>1, PlaceIn DEF Shows
<1>3. Place(s) \in Nat \ {0}
  BY <1>2
<1>4. PICK b : b = Back(s)
  OBVIOUS
<1>5. /\ b \in Screens /\ b.col < Columns /\ Place(b) = Place(s) - 1 /\ ~b.cursor
      /\ \A p \in Places : At(b, p) = At(s, p)
  BY <1>1, <1>3, <1>4, BackAt
<1>6. /\ n \in Screens /\ n.col = b.col /\ n.row = b.row /\ ~n.cursor
      /\ \A p \in Places : At(n, p) = IF p = Place(b) THEN Blank ELSE At(b, p)
  BY <1>1, <1>4, <1>5, DrawAt
<1>7. Place(n) = Place(s) - 1
  BY <1>5, <1>6 DEF Place
<1>8. PICK u : u = SubSeq(t, 1, Len(t) - 1)
  OBVIOUS
<1>9. u \in Seq(Glyphs) /\ Len(u) = Len(t) - 1 /\ \A i \in 1 .. Len(u) : u[i] = t[i]
  <2>1. PICK m : m = Len(t) - 1
    OBVIOUS
  <2>2. m \in Int /\ 1 \in Int /\ \A i \in 1 .. m : t[i] \in Glyphs
    BY <1>2, <2>1 DEF Shows
  <2>3. u \in Seq(Glyphs) /\ Len(u) = (IF 1 <= m THEN m - 1 + 1 ELSE 0) /\ \A i \in 1 .. m - 1 + 1 : u[i] = t[1 + i - 1]
    BY <1>8, <2>1, <2>2, SubSeqProperties
  <2>4. ASSUME NEW i \in 1 .. m  PROVE u[i] = t[i]
    <3>1. i \in 1 .. m - 1 + 1 /\ 1 + i - 1 = i
      BY <2>2
    <3> QED BY <2>3, <3>1
  <2> QED BY <1>2, <2>1, <2>3, <2>4
<1>10. ASSUME NEW i \in 1 .. Len(u)  PROVE At(n, Place(n) - Len(u) + i - 1) = u[i]
  <2>1. i \in 1 .. Len(t)
    BY <1>2, <1>9
  <2>2. PICK q : q = Place(s) - Len(t) + i - 1
    OBVIOUS
  <2>3. q = Place(n) - Len(u) + i - 1 /\ q < Place(s) - 1
    BY <1>2, <1>3, <1>7, <1>9, <2>2
  <2>4. q \in Places /\ At(s, q) = t[i]
    BY <2>1, <2>2, TextPlaces DEF Shows
  <2>5. At(n, q) = At(s, q)
    BY <1>3, <1>5, <1>6, <2>3, <2>4
  <2> QED BY <1>9, <2>3, <2>4, <2>5
<1>11. ASSUME NEW p \in Places, p >= Place(n)  PROVE At(n, p) = Blank
  <2>1. CASE p = Place(b)
    BY <1>6, <2>1
  <2>2. CASE p # Place(b)
    <3>1. p >= Place(s)
      BY <1>3, <1>5, <1>7, <1>11, <2>2 DEF Places
    <3>2. At(n, p) = At(s, p)
      BY <1>5, <1>6, <2>2
    <3> QED BY <3>1, <3>2 DEF Shows
  <2> QED BY <2>1, <2>2
<1>12. Len(u) <= Place(n)
  BY <1>2, <1>3, <1>7, <1>9
<1> QED BY <1>6, <1>8, <1>9, <1>10, <1>11, <1>12 DEF Shows

LEMMA GlyphsPrint ==
  /\ Newline \notin Glyphs /\ Rubout \notin Glyphs /\ Newline # Rubout
  /\ Glyphs \subseteq Inputs /\ Letters \subseteq Glyphs
  BY LineAssumption DEF Glyphs, Inputs, Blank, Block, Newline, Rubout

LEMMA Forgotten ==
  ASSUME NEW s, NEW t, Shows(s, t)
  PROVE  Shows(s, <<>>)
<1>1. <<>> \in Seq(Glyphs) /\ Len(<<>>) = 0 /\ 0 <= Place(s)
  BY PlaceIn DEF Shows
<1> QED BY <1>1 DEF Shows

(* What a character makes of the text a before the place, as far as it counts. *)
Follows(a, ch, b) ==
  \/ ch = Newline /\ b = <<>>
  \/ ch = Rubout /\ a # <<>> /\ b = SubSeq(a, 1, Len(a) - 1)
  \/ ch \in Glyphs /\ b = <<>>
  \/ ch \in Glyphs /\ Len(a) <= Columns * (Lines - 1) /\ b = Append(a, ch)

LEMMA Extended ==
  ASSUME NEW s, NEW t, Shows(s, t), ~s.cursor, Len(t) <= Columns * (Lines - 1), NEW ch \in Glyphs
  PROVE  Shows(WriteChar(s, ch), Append(t, ch)) /\ ~WriteChar(s, ch).cursor
<1>1. PICK a : a = IF s.col >= Columns THEN ToNewline(s) ELSE s
  OBVIOUS
<1>2. WriteChar(s, ch) = [Draw(a, ch) EXCEPT !.col = @ + 1]
  BY <1>1, GlyphsPrint DEF WriteChar
<1>3. s.col \in Int /\ Columns \in Nat \ {0}
  BY ScreenParts, ConsoleAssumption DEF Shows
<1>4. Shows(a, t) /\ ~a.cursor /\ a.col < Columns
  <2>1. CASE s.col >= Columns
    <3>1. ~(s.col < Columns) /\ a = ToNewline(s)
      BY <1>1, <1>3, <2>1
    <3>2. Shows(a, t) /\ a.col = 0 /\ ~a.cursor
      BY <3>1, Wrapped
    <3> QED BY <1>3, <3>2
  <2>2. CASE ~(s.col >= Columns)
    BY <1>1, <1>3, <2>2
  <2> QED BY <2>1, <2>2
<1> QED BY <1>2, <1>4, Written

LEMMA OneWritten ==
  ASSUME NEW s, NEW a, Shows(s, a), ~s.cursor, NEW ch, NEW b, Follows(a, ch, b)
  PROVE  Shows(WriteChar(s, ch), b) /\ ~WriteChar(s, ch).cursor
<1>1. CASE ch = Newline /\ b = <<>>
  <2>1. WriteChar(s, ch) = ToNewline(s)
    BY <1>1, GlyphsPrint DEF WriteChar
  <2>2. Shows(ToNewline(s), <<>>) /\ ~ToNewline(s).cursor
    BY Ended
  <2> QED BY <1>1, <2>1, <2>2
<1>2. CASE ch = Rubout /\ a # <<>> /\ b = SubSeq(a, 1, Len(a) - 1)
  <2>1. WriteChar(s, ch) = Draw(Back(s), Blank)
    BY <1>2, GlyphsPrint DEF WriteChar
  <2> QED BY <1>2, <2>1, Erased
<1>3. CASE ch \in Glyphs /\ b = <<>>
  <2>1. Shows(s, <<>>) /\ Len(<<>>) <= Columns * (Lines - 1)
    BY Forgotten, ConsoleAssumption
  <2>2. Shows(WriteChar(s, ch), Append(<<>>, ch)) /\ ~WriteChar(s, ch).cursor
    BY <1>3, <2>1, Extended
  <2> QED BY <1>3, <2>2, Forgotten
<1>4. CASE ch \in Glyphs /\ Len(a) <= Columns * (Lines - 1) /\ b = Append(a, ch)
  BY <1>4, Extended
<1> QED BY <1>1, <1>2, <1>3, <1>4 DEF Follows

LEMMA WriteCharIn ==
  ASSUME NEW s \in Screens, NEW ch \in Inputs
  PROVE  WriteChar(s, ch) \in Screens
<1>1. Blank \in Glyphs /\ Columns \in Nat \ {0}
  BY ConsoleAssumption DEF Glyphs
<1>2. CASE ch = Newline
  <2>1. WriteChar(s, ch) = ToNewline(s)
    BY <1>2, GlyphsPrint DEF WriteChar
  <2>2. ToNewline(s) \in Screens
    BY NewlineAt
  <2> QED BY <2>1, <2>2
<1>3. CASE ch = Rubout
  <2>1. WriteChar(s, ch) = Draw(Back(s), Blank)
    BY <1>3, GlyphsPrint DEF WriteChar
  <2>2. Back(s) \in Screens
    <3>1. CASE Place(s) > 0
      BY <3>1, BackAt
    <3>2. CASE ~(Place(s) > 0)
      <4>1. s.col \in 0 .. Columns /\ s.row \in 0 .. Lines - 1
        BY ScreenParts
      <4>2. s.row * Columns >= 0
        BY <1>1, <4>1
      <4>3. s.col = 0 /\ s.row * Columns = 0
        BY <1>1, <3>2, <4>1, <4>2 DEF Place
      <4>4. s.row = 0
        BY <1>1, <4>1, <4>3
      <4> QED BY <4>3, <4>4 DEF Back
    <3> QED BY <3>1, <3>2
  <2> QED BY <1>1, <2>1, <2>2, DrawAt
<1>4. CASE ch \in Glyphs
  <2>1. PICK a : a = IF s.col >= Columns THEN ToNewline(s) ELSE s
    OBVIOUS
  <2>2. WriteChar(s, ch) = [Draw(a, ch) EXCEPT !.col = @ + 1]
    BY <1>4, <2>1, GlyphsPrint DEF WriteChar
  <2>3. a \in Screens /\ a.col < Columns
    BY <1>1, <2>1, NewlineAt, ScreenParts
  <2>4. Draw(a, ch) \in Screens /\ Draw(a, ch).col < Columns
    BY <1>4, <2>3, DrawAt
  <2> QED BY <2>2, <2>4, MovedRight
<1> QED BY <1>2, <1>3, <1>4 DEF Inputs

(* The screen after each character that is put on it. *)
Prints(shown, s, w) ==
  /\ shown[0] = HideCursor(s)
  /\ \A k \in 1 .. Len(w) : shown[k] = WriteChar(shown[k - 1], w[k])

LEMMA PutPrints ==
  ASSUME NEW s, NEW t, Shows(s, t), NEW w \in Seq(Inputs)
  PROVE  \E shown : Prints(shown, s, w) /\ Put(s, w) = shown[Len(w)]
<1> DEFINE n == Len(w)
           Equation(f) == f = [k \in 0 .. Len(w) |-> IF k = 0 THEN HideCursor(s) ELSE WriteChar(f[k - 1], w[k])]
<1>1. PICK F : F = [p \in (0 .. n) \X [0 .. n -> Screens] |->
                      IF p[1] = 0 THEN HideCursor(s) ELSE WriteChar(p[2][p[1] - 1], w[p[1]])]
  OBVIOUS
<1>2. n \in Nat /\ HideCursor(s) \in Screens /\ \A k \in 1 .. n : w[k] \in Inputs
  BY Hidden DEF Shows
<1>3. ASSUME NEW i \in 0 .. n, NEW f \in [0 .. n -> Screens]
      PROVE  /\ F[<<i, f>>] = IF i = 0 THEN HideCursor(s) ELSE WriteChar(f[i - 1], w[i])
             /\ F[<<i, f>>] \in Screens
  <2>1. <<i, f>> \in (0 .. n) \X [0 .. n -> Screens]
    OBVIOUS
  <2>2. F[<<i, f>>] = IF i = 0 THEN HideCursor(s) ELSE WriteChar(f[i - 1], w[i])
    BY <1>1, <2>1
  <2>3. i # 0 => WriteChar(f[i - 1], w[i]) \in Screens
    <3>1. i # 0 => i \in 1 .. n /\ i - 1 \in 0 .. n
      BY <1>2
    <3> QED BY <1>2, <3>1, WriteCharIn
  <2> QED BY <1>2, <2>2, <2>3
<1>4. Determined(F, n, Screens)
  <2>1. F \in [(0 .. n) \X [0 .. n -> Screens] -> Screens]
    <3>1. F = [p \in (0 .. n) \X [0 .. n -> Screens] |-> F[p]]
      BY <1>1
    <3>2. ASSUME NEW p \in (0 .. n) \X [0 .. n -> Screens]  PROVE F[p] \in Screens
      BY <1>3
    <3> QED BY <3>1, <3>2
  <2>2. ASSUME NEW i \in 0 .. n, NEW f \in [0 .. n -> Screens], NEW g \in [0 .. n -> Screens],
               \A j \in 0 .. n : j < i => f[j] = g[j]
        PROVE  F[<<i, f>>] = F[<<i, g>>]
    <3>1. i # 0 => i - 1 \in 0 .. n /\ i - 1 < i
      BY <1>2
    <3> QED BY <1>3, <2>2, <3>1
  <2> QED BY <2>1, <2>2 DEF Determined
<1>5. PICK f : Solves(f, F, n, Screens)
  BY <1>2, <1>4, Recursion
<1>6. Equation(f)
  <2>1. f = [k \in 0 .. n |-> f[k]]
    BY <1>5 DEF Solves
  <2>2. \A k \in 0 .. n : f[k] = IF k = 0 THEN HideCursor(s) ELSE WriteChar(f[k - 1], w[k])
    BY <1>3, <1>5 DEF Solves
  <2> QED BY <2>1, <2>2
<1>7. PICK shown : shown = CHOOSE ff : Equation(ff)
  OBVIOUS
<1>8. Equation(shown)
  BY <1>6, <1>7
<1>9. Put(s, w) = shown[Len(w)]
  BY <1>7, Zenon DEF Put
<1>10. Prints(shown, s, w)
  BY <1>2, <1>8 DEF Prints
<1> QED BY <1>9, <1>10

(* What stands before the place after all of w. *)
LEMMA PutShows ==
  ASSUME NEW s, NEW t, Shows(s, t), NEW w \in Seq(Inputs), NEW h, h[0] = t,
         \A k \in 1 .. Len(w) : Follows(h[k - 1], w[k], h[k])
  PROVE  Shows(Put(s, w), h[Len(w)]) /\ ~Put(s, w).cursor
<1>1. PICK shown : Prints(shown, s, w) /\ Put(s, w) = shown[Len(w)]
  BY PutPrints
<1>2. PICK A : A = {k \in 0 .. Len(w) : Shows(shown[k], h[k]) /\ ~shown[k].cursor}
  OBVIOUS
<1>3. Len(w) \in Nat
  OBVIOUS
<1>4. 0 \in A
  <2>1. shown[0] = HideCursor(s)
    BY <1>1 DEF Prints
  <2>2. Shows(shown[0], h[0]) /\ ~shown[0].cursor
    BY <2>1, Hidden
  <2> QED BY <1>2, <1>3, <2>2
<1>5. ASSUME NEW k \in 1 .. Len(w), k - 1 \in A  PROVE k \in A
  <2>1. Shows(shown[k - 1], h[k - 1]) /\ ~shown[k - 1].cursor
    BY <1>2, <1>5
  <2>2. Follows(h[k - 1], w[k], h[k]) /\ shown[k] = WriteChar(shown[k - 1], w[k])
    BY <1>1 DEF Prints
  <2>3. Shows(shown[k], h[k]) /\ ~shown[k].cursor
    BY <2>1, <2>2, OneWritten
  <2> QED BY <1>2, <1>3, <2>3
<1>6. Len(w) \in A
  <2>1. \A k \in 0 .. Len(w) : k \in A
    BY <1>3, <1>4, <1>5, Stepwise
  <2> QED BY <1>3, <2>1
<1> QED BY <1>1, <1>2, <1>6

LEMMA FlattenIn ==
  ASSUME NEW S, NEW seqs, seqs \in Seq(Seq(S)), seqs # <<>>
  PROVE  FlattenSeq(seqs) \in Seq(S)
<1> DEFINE n == Len(seqs)
           T == Seq(S)
           Equation(f) == f = [i \in 1 .. Len(seqs) |-> IF i = 1 THEN seqs[i] ELSE f[i - 1] \o seqs[i]]
<1>1. n \in Nat \ {0} /\ \A i \in 1 .. n : seqs[i] \in T
  OBVIOUS
<1>2. PICK F : F = [p \in (0 .. n) \X [0 .. n -> T] |->
                      IF p[1] = 0 THEN <<>> ELSE IF p[1] = 1 THEN seqs[p[1]] ELSE p[2][p[1] - 1] \o seqs[p[1]]]
  OBVIOUS
<1>3. ASSUME NEW i \in 0 .. n, NEW f \in [0 .. n -> T]
      PROVE  /\ F[<<i, f>>] = IF i = 0 THEN <<>> ELSE IF i = 1 THEN seqs[i] ELSE f[i - 1] \o seqs[i]
             /\ F[<<i, f>>] \in T
  <2>1. <<i, f>> \in (0 .. n) \X [0 .. n -> T]
    OBVIOUS
  <2>2. F[<<i, f>>] = IF i = 0 THEN <<>> ELSE IF i = 1 THEN seqs[i] ELSE f[i - 1] \o seqs[i]
    BY <1>2, <2>1
  <2>3. CASE i = 0
    BY <2>2, <2>3
  <2>4. CASE i # 0
    <3>1. i \in 1 .. n /\ i - 1 \in 0 .. n
      BY <1>1, <2>4
    <3>2. seqs[i] \in T /\ f[i - 1] \in T
      BY <1>1, <3>1
    <3>3. f[i - 1] \o seqs[i] \in T
      BY <3>2
    <3> QED BY <2>2, <2>4, <3>2, <3>3
  <2> QED BY <2>3, <2>4
<1>4. Determined(F, n, T)
  <2>1. F \in [(0 .. n) \X [0 .. n -> T] -> T]
    <3>1. F = [p \in (0 .. n) \X [0 .. n -> T] |-> F[p]]
      BY <1>2
    <3>2. ASSUME NEW p \in (0 .. n) \X [0 .. n -> T]  PROVE F[p] \in T
      BY <1>3
    <3> QED BY <3>1, <3>2
  <2>2. ASSUME NEW i \in 0 .. n, NEW f \in [0 .. n -> T], NEW g \in [0 .. n -> T],
               \A j \in 0 .. n : j < i => f[j] = g[j]
        PROVE  F[<<i, f>>] = F[<<i, g>>]
    <3>1. i # 0 => f[i - 1] = g[i - 1]
      <4>1. i # 0 => i - 1 \in 0 .. n /\ i - 1 < i
        BY <1>1
      <4> QED BY <2>2, <4>1
    <3>2. /\ F[<<i, f>>] = IF i = 0 THEN <<>> ELSE IF i = 1 THEN seqs[i] ELSE f[i - 1] \o seqs[i]
          /\ F[<<i, g>>] = IF i = 0 THEN <<>> ELSE IF i = 1 THEN seqs[i] ELSE g[i - 1] \o seqs[i]
      BY <1>3
    <3> QED BY <3>1, <3>2
  <2> QED BY <2>1, <2>2 DEF Determined
<1>5. PICK g : Solves(g, F, n, T)
  <2>1. <<>> \in T
    OBVIOUS
  <2> QED BY <1>1, <1>4, <2>1, Recursion
<1>6. PICK f : f = [i \in 1 .. n |-> g[i]]
  OBVIOUS
<1>7. Equation(f)
  <2>1. ASSUME NEW i \in 1 .. n  PROVE f[i] = IF i = 1 THEN seqs[i] ELSE f[i - 1] \o seqs[i]
    <3>1. i \in 0 .. n /\ i # 0 /\ (i # 1 => i - 1 \in 1 .. n)
      BY <1>1
    <3>2. g[i] = IF i = 1 THEN seqs[i] ELSE g[i - 1] \o seqs[i]
      BY <1>3, <1>5, <3>1 DEF Solves
    <3> QED BY <1>6, <3>1, <3>2
  <2>2. f = [i \in 1 .. n |-> f[i]]
    BY <1>6
  <2> QED BY <2>1, <2>2
<1>8. PICK flatten : flatten = CHOOSE ff : Equation(ff)
  OBVIOUS
<1>9. Equation(flatten)
  BY <1>7, <1>8
<1>10. FlattenSeq(seqs) = flatten[Len(seqs)]
  BY <1>1, <1>8, Zenon DEF FlattenSeq
<1>11. PICK A : A = {k \in 0 .. n : k # 0 => flatten[k] \in T}
  OBVIOUS
<1>12. 0 \in A
  BY <1>1, <1>11
<1>13. ASSUME NEW k \in 1 .. n, k - 1 \in A  PROVE k \in A
  <2>1. flatten[k] = IF k = 1 THEN seqs[k] ELSE flatten[k - 1] \o seqs[k]
    BY <1>9
  <2>2. k # 1 => flatten[k - 1] \in T
    BY <1>11, <1>13
  <2>3. seqs[k] \in T
    BY <1>1
  <2>4. flatten[k] \in T
    BY <2>1, <2>2, <2>3
  <2> QED BY <1>1, <1>11, <2>4
<1>14. n \in A
  <2>1. n \in Nat /\ n \in 0 .. n
    BY <1>1
  <2>2. \A k \in 0 .. n : k \in A
    <3> HIDE DEF n, T, Equation
    <3> QED BY <1>12, <1>13, <2>1, Stepwise
  <2> QED BY <2>1, <2>2
<1> QED BY <1>1, <1>10, <1>11, <1>14

(* The beginnings of a text. *)
LEMMA OneMoreOfText ==
  ASSUME NEW S, NEW v \in Seq(S), NEW j \in 1 .. Len(v)
  PROVE  /\ SubSeq(v, 1, j - 1) \in Seq(S) /\ Len(SubSeq(v, 1, j - 1)) = j - 1
         /\ SubSeq(v, 1, j) = Append(SubSeq(v, 1, j - 1), v[j]) /\ v[j] \in S
<1>1. Len(v) \in Nat /\ j \in Int /\ j - 1 \in Int /\ 1 \in Int /\ \A i \in 1 .. Len(v) : v[i] \in S
  OBVIOUS
<1>2. PICK a : a = SubSeq(v, 1, j - 1)
  OBVIOUS
<1>3. \A i \in 1 .. j - 1 : v[i] \in S
  BY <1>1
<1>4. a \in Seq(S) /\ Len(a) = j - 1
  <2>1. a \in Seq(S) /\ Len(a) = IF 1 <= j - 1 THEN j - 1 - 1 + 1 ELSE 0
    BY <1>1, <1>2, <1>3, SubSeqProperties
  <2> QED BY <1>1, <2>1
<1>5. SubSeq(v, 1, j) = a \o <<v[j]>>
  <2>1. 1 \in 1 .. Len(v) /\ j \in 1 .. Len(v)
    BY <1>1
  <2> QED BY <1>1, <1>2, <2>1, SubSeqRecursiveSecond
<1>6. a \o <<v[j]>> = Append(a, v[j])
  BY <1>1, <1>4
<1> QED BY <1>1, <1>2, <1>4, <1>5, <1>6

LEMMA TextBefore ==
  ASSUME NEW S, NEW a \in Seq(S), NEW x \in S
  PROVE  SubSeq(Append(a, x), 1, Len(a)) = a
<1>1. PICK b : b = SubSeq(Append(a, x), 1, Len(a))
  OBVIOUS
<1>2. Len(a) \in Nat /\ Append(a, x) \in Seq(S) /\ \A i \in 1 .. Len(a) : Append(a, x)[i] = a[i] /\ a[i] \in S
  OBVIOUS
<1>3. /\ b \in Seq(S) /\ Len(b) = (IF 1 <= Len(a) THEN Len(a) - 1 + 1 ELSE 0)
      /\ \A i \in 1 .. Len(a) - 1 + 1 : b[i] = Append(a, x)[1 + i - 1]
  BY <1>1, <1>2, SubSeqProperties
<1>4. ASSUME NEW i \in 1 .. Len(a)  PROVE b[i] = a[i]
  <2>1. i \in 1 .. Len(a) - 1 + 1 /\ 1 + i - 1 = i
    BY <1>2
  <2> QED BY <1>2, <1>3, <2>1
<1>5. b = a
  BY <1>2, <1>3, <1>4
<1> QED BY <1>1, <1>5

LEMMA OneLessOfText ==
  ASSUME NEW S, NEW v \in Seq(S), NEW j \in 1 .. Len(v)
  PROVE  /\ Len(SubSeq(v, 1, j)) = j
         /\ SubSeq(SubSeq(v, 1, j), 1, j - 1) = SubSeq(v, 1, j - 1)
<1>1. PICK a, x : a = SubSeq(v, 1, j - 1) /\ x = v[j]
  OBVIOUS
<1>2. a \in Seq(S) /\ x \in S /\ Len(a) = j - 1 /\ SubSeq(v, 1, j) = Append(a, x)
  BY <1>1, OneMoreOfText
<1>3. Len(Append(a, x)) = j
  BY <1>2
<1>4. SubSeq(Append(a, x), 1, Len(a)) = a
  BY <1>2, TextBefore
<1> QED BY <1>1, <1>2, <1>3, <1>4

(* A text behind whatever else is printed. *)
LEMMA PutAfter ==
  ASSUME NEW s, NEW t, Shows(s, t), NEW u \in Seq(Glyphs \cup {Newline}), NEW v \in Seq(Glyphs),
         Len(v) <= Columns * (Lines - 1) + 1
  PROVE  Shows(Put(s, u \o v), v) /\ ~Put(s, u \o v).cursor
<1>1. PICK w : w = u \o v
  OBVIOUS
<1>2. Len(u) \in Nat /\ Len(v) \in Nat /\ Columns * (Lines - 1) \in Nat
  BY ConsoleAssumption
<1>3. /\ w \in Seq(Inputs) /\ Len(w) = Len(u) + Len(v)
      /\ \A k \in 1 .. Len(u) : w[k] = u[k]
      /\ \A k \in 1 .. Len(v) : w[Len(u) + k] = v[k]
  <2>1. Glyphs \cup {Newline} \subseteq Inputs /\ Glyphs \subseteq Inputs
    BY DEF Inputs
  <2>2. u \in Seq(Inputs) /\ v \in Seq(Inputs)
    BY <2>1, SeqMonotonic
  <2> QED BY <1>1, <2>2
<1>4. PICK h : h = [k \in 0 .. Len(w) |-> IF k <= Len(u) THEN <<>> ELSE SubSeq(v, 1, k - Len(u))]
  OBVIOUS
<1>5. ASSUME NEW k \in 1 .. Len(w)  PROVE Follows(h[k - 1], w[k], h[k])
  <2>1. k \in Int /\ k - 1 \in 0 .. Len(w) /\ k \in 0 .. Len(w)
    BY <1>2, <1>3
  <2>2. CASE k <= Len(u)
    <3>1. h[k] = <<>> /\ w[k] \in Glyphs \cup {Newline}
      BY <1>2, <1>3, <1>4, <2>1, <2>2
    <3> QED BY <3>1 DEF Follows
  <2>3. CASE ~(k <= Len(u))
    <3>1. PICK j : j = k - Len(u)
      OBVIOUS
    <3>2. j \in 1 .. Len(v) /\ k = Len(u) + j
      BY <1>2, <1>3, <2>1, <2>3, <3>1
    <3>3. w[k] = v[j] /\ v[j] \in Glyphs
      BY <1>3, <3>2
    <3>4. h[k] = SubSeq(v, 1, j)
      BY <1>4, <2>1, <2>3, <3>1
    <3>5. h[k - 1] = SubSeq(v, 1, j - 1)
      <4>1. CASE j = 1
        <5>1. k - 1 <= Len(u)
          BY <1>2, <3>2, <4>1
        <5>2. SubSeq(v, 1, j - 1) = <<>>
          BY <4>1, SubSeqEmpty
        <5> QED BY <1>4, <2>1, <5>1, <5>2
      <4>2. CASE j # 1
        <5>1. ~(k - 1 <= Len(u)) /\ k - 1 - Len(u) = j - 1
          BY <1>2, <3>2, <4>2
        <5> QED BY <1>4, <2>1, <5>1
      <4> QED BY <4>1, <4>2
    <3>6. /\ Len(SubSeq(v, 1, j - 1)) = j - 1
          /\ SubSeq(v, 1, j) = Append(SubSeq(v, 1, j - 1), v[j])
      BY <3>2, OneMoreOfText
    <3> QED BY <1>2, <3>2, <3>3, <3>4, <3>5, <3>6 DEF Follows
  <2> QED BY <2>2, <2>3
<1>6. h[0] = <<>>
  BY <1>2, <1>3, <1>4
<1>7. h[Len(w)] = v
  <2>1. Len(w) \in 0 .. Len(w)
    BY <1>2, <1>3
  <2>2. CASE Len(v) = 0
    BY <1>2, <1>3, <1>4, <2>1, <2>2
  <2>3. CASE Len(v) # 0
    <3>1. ~(Len(w) <= Len(u)) /\ Len(w) - Len(u) = Len(v)
      BY <1>2, <1>3, <2>3
    <3> QED BY <1>4, <2>1, <3>1, SubSeqFull
  <2> QED BY <2>2, <2>3
<1>8. Shows(s, <<>>)
  BY Forgotten
<1> QED BY <1>1, <1>3, <1>5, <1>6, <1>7, <1>8, PutShows

LEMMA AppendBehind ==
  ASSUME NEW S, NEW t \in Seq(S), NEW a \in Seq(S), NEW x \in S
  PROVE  t \o Append(a, x) = Append(t \o a, x)
<1>1. PICK y, b : y = <<x>> /\ b = t \o a
  OBVIOUS
<1>2. y \in Seq(S) /\ b \in Seq(S)
  BY <1>1
<1>3. Append(a, x) = a \o y /\ Append(b, x) = b \o y
  BY <1>1, <1>2, AppendIsConcat
<1>4. (t \o a) \o y = t \o (a \o y)
  BY <1>2, ConcatAssociative
<1> QED BY <1>1, <1>3, <1>4

(* More of the text. *)
LEMMA PutMore ==
  ASSUME NEW s, NEW t, Shows(s, t), NEW v \in Seq(Glyphs), Len(t) + Len(v) <= Columns * (Lines - 1) + 1
  PROVE  Shows(Put(s, v), t \o v) /\ ~Put(s, v).cursor
<1>1. t \in Seq(Glyphs) /\ Len(t) \in Nat /\ Len(v) \in Nat /\ Columns * (Lines - 1) \in Nat
  BY ConsoleAssumption DEF Shows
<1>2. v \in Seq(Inputs)
  BY SeqMonotonic DEF Inputs
<1>3. PICK h : h = [k \in 0 .. Len(v) |-> t \o SubSeq(v, 1, k)]
  OBVIOUS
<1>4. ASSUME NEW k \in 1 .. Len(v)  PROVE Follows(h[k - 1], v[k], h[k])
  <2>1. k - 1 \in 0 .. Len(v) /\ k \in 0 .. Len(v)
    BY <1>1
  <2>2. PICK a : a = SubSeq(v, 1, k - 1)
    OBVIOUS
  <2>3. Len(a) = k - 1 /\ a \in Seq(Glyphs) /\ SubSeq(v, 1, k) = Append(a, v[k]) /\ v[k] \in Glyphs
    BY <2>2, OneMoreOfText
  <2>4. h[k - 1] = t \o a /\ h[k] = t \o Append(a, v[k])
    BY <1>3, <2>1, <2>2, <2>3
  <2>5. h[k] = Append(h[k - 1], v[k]) /\ Len(h[k - 1]) = Len(t) + k - 1
    <3>1. PICK x : x = v[k]
      OBVIOUS
    <3>2. t \o Append(a, x) = Append(t \o a, x)
      BY <1>1, <2>3, <3>1, AppendBehind
    <3>3. Len(t \o a) = Len(t) + Len(a)
      BY <1>1, <2>3, ConcatProperties
    <3> QED BY <1>1, <2>3, <2>4, <3>1, <3>2, <3>3
  <2>6. Len(h[k - 1]) <= Columns * (Lines - 1)
    BY <1>1, <2>5
  <2> QED BY <2>3, <2>5, <2>6 DEF Follows
<1>5. h[0] = t
  <2>1. SubSeq(v, 1, 0) = <<>>
    BY SubSeqEmpty
  <2>2. t \o <<>> = t
    BY <1>1
  <2> QED BY <1>1, <1>3, <2>1, <2>2
<1>6. h[Len(v)] = t \o v
  <2>1. Len(v) \in 0 .. Len(v) /\ SubSeq(v, 1, Len(v)) = v
    BY <1>1, SubSeqFull
  <2> QED BY <1>3, <2>1
<1> QED BY <1>2, <1>4, <1>5, <1>6, PutShows

(* Characters rubbed out. *)
LEMMA PutRubouts ==
  ASSUME NEW s, NEW t, Shows(s, t), NEW k \in 0 .. Len(t)
  PROVE  Shows(Put(s, Times(Rubout, k)), SubSeq(t, 1, Len(t) - k)) /\ ~Put(s, Times(Rubout, k)).cursor
<1>1. t \in Seq(Glyphs) /\ Len(t) \in Nat /\ k \in Nat
  BY DEF Shows
<1>2. PICK w : w = Times(Rubout, k)
  OBVIOUS
<1>3. w \in Seq(Inputs) /\ Len(w) = k /\ \A i \in 1 .. k : w[i] = Rubout
  BY <1>1, <1>2 DEF Times, Inputs
<1>4. PICK h : h = [i \in 0 .. k |-> SubSeq(t, 1, Len(t) - i)]
  OBVIOUS
<1>5. ASSUME NEW i \in 1 .. k  PROVE Follows(h[i - 1], w[i], h[i])
  <2>1. i \in 0 .. k /\ i - 1 \in 0 .. k
    BY <1>1
  <2>2. PICK j : j = Len(t) - i + 1
    OBVIOUS
  <2>3. j \in 1 .. Len(t) /\ j - 1 = Len(t) - i /\ j = Len(t) - (i - 1)
    BY <1>1, <2>2
  <2>4. h[i - 1] = SubSeq(t, 1, j) /\ h[i] = SubSeq(t, 1, j - 1)
    BY <1>4, <2>1, <2>3
  <2>5. Len(SubSeq(t, 1, j)) = j /\ SubSeq(SubSeq(t, 1, j), 1, j - 1) = SubSeq(t, 1, j - 1)
    BY <1>1, <2>3, OneLessOfText
  <2>6. h[i - 1] # <<>> /\ h[i] = SubSeq(h[i - 1], 1, Len(h[i - 1]) - 1)
    BY <2>3, <2>4, <2>5
  <2> QED BY <1>3, <2>6 DEF Follows
<1>6. h[0] = t
  BY <1>1, <1>4, SubSeqFull
<1>7. h[Len(w)] = SubSeq(t, 1, Len(t) - k)
  BY <1>1, <1>3, <1>4
<1> QED BY <1>2, <1>3, <1>5, <1>6, <1>7, PutShows

-------------------------------------------------------------------------------
(* The line. *)
Texts == {text \in Seq(Letters) : Len(text) <= LINE_MAX}

LineInv ==
  /\ line \in Texts /\ history \in Seq(Texts) /\ histIdx \in 0 .. Len(history)
  /\ Shows(screen, Prompt \o line)

LEMMA PromptAnd ==
  ASSUME NEW text \in Texts
  PROVE  /\ text \in Seq(Glyphs) /\ Prompt \in Seq(Glyphs) /\ Prompt \o text \in Seq(Glyphs)
         /\ Len(text) \in Nat /\ Len(Prompt) = 1 /\ Len(Prompt \o text) = Len(text) + 1
         /\ Len(Prompt \o text) <= Columns * (Lines - 1) + 1
<1>1. text \in Seq(Letters) /\ Len(text) <= LINE_MAX
  BY DEF Texts
<1>2. text \in Seq(Glyphs)
  BY <1>1, GlyphsPrint, SeqMonotonic
<1>3. Prompt \in Seq(Glyphs) /\ Len(Prompt) = 1
  <2>1. ">" \in Glyphs
    BY DEF Glyphs
  <2> QED BY <2>1 DEF Prompt
<1>4. Columns * (Lines - 1) \in Nat /\ LINE_MAX <= Columns * (Lines - 1) /\ LINE_MAX \in Nat
  BY ConsoleAssumption, LineAssumption
<1>5. Prompt \o text \in Seq(Glyphs) /\ Len(Prompt \o text) = 1 + Len(text) /\ Len(text) \in Nat
  <2>1. Prompt \o text \in Seq(Glyphs) /\ Len(Prompt \o text) = Len(Prompt) + Len(text)
    BY <1>2, <1>3, ConcatProperties
  <2>2. Len(text) \in Nat
    BY <1>1
  <2> QED BY <1>3, <2>1, <2>2
<1> QED BY <1>1, <1>2, <1>3, <1>4, <1>5

(* replace_line *)
LEMMA ReplacedShows ==
  ASSUME LineInv, NEW text \in Texts
  PROVE  Shows(Replaced(screen, text), Prompt \o text)
<1>1. line \in Texts /\ Shows(screen, Prompt \o line)
  BY DEF LineInv
<1>2. PICK t, k, s : t = Prompt \o line /\ k = Len(line) /\ s = Put(screen, Times(Rubout, k))
  OBVIOUS
<1>3. t \in Seq(Glyphs) /\ k \in 0 .. Len(t) /\ Len(t) - k = 1 /\ Len(t) \in Nat
  BY <1>1, <1>2, PromptAnd
<1>4. Shows(s, SubSeq(t, 1, Len(t) - k))
  BY <1>1, <1>2, <1>3, PutRubouts
<1>5. SubSeq(t, 1, 1) = Prompt
  <2>1. t[1] = ">" /\ 1 \in 1 .. Len(t)
    <3>1. line \in Seq(Glyphs) /\ Prompt \in Seq(Glyphs) /\ Len(Prompt) = 1 /\ Prompt[1] = ">"
      BY <1>1, PromptAnd DEF Prompt
    <3>2. \A i \in 1 .. Len(Prompt) + Len(line) :
            (Prompt \o line)[i] = IF i <= Len(Prompt) THEN Prompt[i] ELSE line[i - Len(Prompt)]
      BY <3>1, ConcatProperties
    <3>3. Len(line) \in Nat
      BY <1>1, PromptAnd
    <3>4. 1 \in 1 .. Len(Prompt) + Len(line)
      BY <3>1, <3>3
    <3>5. (Prompt \o line)[1] = ">"
      BY <3>1, <3>2, <3>4
    <3> QED BY <1>2, <1>3, <3>5
  <2>2. SubSeq(t, 1, 1) = Append(SubSeq(t, 1, 1 - 1), t[1])
    BY <1>3, <2>1, OneMoreOfText
  <2>3. SubSeq(t, 1, 1 - 1) = <<>>
    BY SubSeqEmpty
  <2>4. SubSeq(t, 1, 1) = Append(<<>>, ">")
    BY <2>1, <2>2, <2>3
  <2> QED BY <2>4 DEF Prompt
<1>6. Shows(s, Prompt)
  BY <1>3, <1>4, <1>5
<1>7. Shows(Put(s, text), Prompt \o text)
  <2>1. text \in Seq(Glyphs) /\ Len(Prompt) + Len(text) <= Columns * (Lines - 1) + 1
    BY PromptAnd
  <2> QED BY <1>6, <2>1, PutMore
<1> QED BY <1>2, <1>7 DEF Replaced

LEMMA ListedIn ==
  ASSUME Matching # {}
  PROVE  Listed \in Seq(Letters)
<1>1. PICK e : e = [i \in DOMAIN COMMANDS |-> IF i \in Matching THEN COMMANDS[i] \o <<Blank, Blank>> ELSE <<>>]
  OBVIOUS
<1>2. COMMANDS \in Seq(Seq(Letters)) /\ Blank \in Letters
  BY LineAssumption
<1>3. PICK n \in Nat : n = Len(COMMANDS) /\ DOMAIN COMMANDS = 1 .. n
  BY <1>2
<1>4. \A i \in 1 .. n : e[i] \in Seq(Letters)
  <2>1. ASSUME NEW i \in 1 .. n  PROVE e[i] \in Seq(Letters)
    <3>1. COMMANDS[i] \in Seq(Letters) /\ <<Blank, Blank>> \in Seq(Letters) /\ <<>> \in Seq(Letters)
      BY <1>2, <1>3
    <3>2. COMMANDS[i] \o <<Blank, Blank>> \in Seq(Letters)
      BY <3>1
    <3> QED BY <1>1, <1>3, <3>1, <3>2
  <2> QED BY <2>1
<1>5. e \in Seq(Seq(Letters)) /\ Len(e) = n
  BY <1>1, <1>3, <1>4
<1>6. e # <<>>
  BY <1>3, <1>5 DEF Matching
<1> QED BY <1>1, <1>5, <1>6, FlattenIn DEF Listed

LEMMA ClearedShows == Shows(Cleared, <<>>)
<1>1. Columns \in Nat \ {0} /\ Lines \in Nat \ {0, 1} /\ Blank \in Glyphs
  BY ConsoleAssumption DEF Glyphs
<1>2. PICK c : c = [y \in 0 .. Lines - 1 |-> BlankLine]
  OBVIOUS
<1>3. c \in Grids
  BY <1>1, <1>2 DEF Grids, BlankLine
<1>4. \A y \in 0 .. Lines - 1 : \A x \in 0 .. Columns - 1 : c[y][x] = Blank
  BY <1>2 DEF BlankLine
<1>5. Cleared = [cell |-> c, col |-> 0, row |-> 0, cursor |-> FALSE]
  BY <1>2 DEF Cleared
<1>6. Cleared \in Screens
  <2>1. 0 \in 0 .. Columns /\ 0 \in 0 .. Lines - 1
    BY <1>1
  <2>2. PICK W, X, Y : W = Grids /\ X = 0 .. Columns /\ Y = 0 .. Lines - 1
    OBVIOUS
  <2>3. Cleared \in [cell : W, col : X, row : Y, cursor : BOOLEAN]
    BY <1>3, <1>5, <2>1, <2>2
  <2> QED BY <2>2, <2>3 DEF Screens, Grids
<1>7. Place(Cleared) = 0 /\ ~Cleared.cursor
  BY <1>1, <1>5 DEF Place
<1>8. \A p \in Places : At(Cleared, p) = Blank
  BY <1>4, <1>5, Coordinates DEF At
<1> QED BY <1>6, <1>7, <1>8 DEF Shows

(* The prompt comes back, behind whatever else was printed. *)
LEMMA PromptShows ==
  ASSUME NEW s, NEW t, Shows(s, t), NEW u \in Seq(Glyphs \cup {Newline})
  PROVE  Shows(Put(s, u \o Prompt), Prompt \o <<>>)
<1>1. <<>> \in Texts
  BY LineAssumption DEF Texts
<1>2. Prompt \in Seq(Glyphs) /\ Prompt \o <<>> = Prompt
  BY <1>1, PromptAnd, ConcatEmptySeq
<1>3. Len(Prompt) <= Columns * (Lines - 1) + 1
  BY <1>1, <1>2, PromptAnd
<1> QED BY <1>2, <1>3, PutAfter

LEMMA PromptAlone ==
  ASSUME NEW s, NEW t, Shows(s, t), t = <<>>
  PROVE  Shows(Put(s, Prompt), Prompt \o <<>>)
<1>1. <<>> \in Seq(Glyphs \cup {Newline}) /\ <<>> \o Prompt = Prompt
  BY LineAssumption, PromptAnd, ConcatEmptySeq DEF Texts
<1> QED BY <1>1, PromptShows

THEOREM InitLine == LineInit => LineInv
<1>1. SUFFICES ASSUME LineInit  PROVE LineInv
  OBVIOUS
<1>2. line = <<>> /\ history = <<>> /\ histIdx = 0 /\ screen = Put(Cleared, Prompt)
  BY <1>1 DEF LineInit
<1>3. line \in Texts /\ history \in Seq(Texts) /\ histIdx \in 0 .. Len(history)
  BY <1>2, LineAssumption DEF Texts
<1> QED BY <1>2, <1>3, ClearedShows, PromptAlone DEF LineInv

LEMMA BlinkStep ==
  ASSUME LineInv, Blink
  PROVE  LineInv'
<1>1. screen' = ToggleCursor(screen) /\ line' = line /\ history' = history /\ histIdx' = histIdx
  BY DEF Blink
<1>2. Shows(ToggleCursor(screen), Prompt \o line)
  BY Toggled DEF LineInv
<1>3. Shows(screen', Prompt \o line')
  BY <1>1, <1>2
<1> QED BY <1>1, <1>3 DEF LineInv

LEMMA TypeStep ==
  ASSUME LineInv, NEW ch \in Letters, Type(ch)
  PROVE  LineInv'
<1>1. /\ Len(line) < LINE_MAX /\ screen' = Put(screen, <<ch>>) /\ line' = Append(line, ch)
      /\ history' = history /\ histIdx' = histIdx
  BY DEF Type, Key
<1>2. line \in Texts /\ line \in Seq(Letters) /\ Len(line) \in Nat /\ Shows(screen, Prompt \o line)
  BY DEF LineInv, Texts
<1>3. line' \in Texts
  BY <1>1, <1>2, LineAssumption DEF Texts
<1>4. <<ch>> \in Seq(Glyphs) /\ Len(<<ch>>) = 1
  BY GlyphsPrint
<1>5. Len(Prompt \o line) + 1 <= Columns * (Lines - 1) + 1
  <2>1. Len(Prompt \o line) = Len(line) + 1
    BY <1>2, PromptAnd
  <2>2. Columns * (Lines - 1) \in Nat /\ LINE_MAX \in Nat /\ LINE_MAX <= Columns * (Lines - 1)
    BY ConsoleAssumption, LineAssumption
  <2> QED BY <1>1, <1>2, <2>1, <2>2
<1>6. Shows(Put(screen, <<ch>>), (Prompt \o line) \o <<ch>>)
  BY <1>2, <1>4, <1>5, PutMore
<1>7. (Prompt \o line) \o <<ch>> = Prompt \o Append(line, ch)
  <2>1. line \in Seq(Glyphs) /\ Prompt \in Seq(Glyphs) /\ ch \in Glyphs
    BY <1>2, PromptAnd, GlyphsPrint
  <2>2. Append(line, ch) = line \o <<ch>>
    BY <2>1, AppendIsConcat
  <2> QED BY <1>4, <2>1, <2>2, ConcatAssociative
<1>8. Shows(screen', Prompt \o line')
  BY <1>1, <1>6, <1>7
<1> QED BY <1>1, <1>3, <1>8 DEF LineInv

LEMMA EraseStep ==
  ASSUME LineInv, Erase
  PROVE  LineInv'
<1>1. /\ line # <<>> /\ screen' = Put(screen, <<Rubout>>) /\ line' = Front(line)
      /\ history' = history /\ histIdx' = histIdx
  BY DEF Erase, Key
<1>2. line \in Texts /\ line \in Seq(Letters) /\ Shows(screen, Prompt \o line) /\ Len(line) <= LINE_MAX
  BY DEF LineInv, Texts
<1>3. Len(line) \in 1 .. Len(line) /\ Len(line) \in Nat
  BY <1>1, <1>2
<1>4. PICK a, x : a = SubSeq(line, 1, Len(line) - 1) /\ x = line[Len(line)]
  OBVIOUS
<1>5. a \in Seq(Letters) /\ Len(a) = Len(line) - 1 /\ line = Append(a, x) /\ x \in Letters
  BY <1>2, <1>3, <1>4, OneMoreOfText, SubSeqFull
<1>6. a \in Texts /\ line' = a
  BY <1>1, <1>2, <1>3, <1>4, <1>5, LineAssumption DEF Texts, Front
<1>7. PICK t : t = Prompt \o line
  OBVIOUS
<1>8. t \in Seq(Glyphs) /\ Len(t) \in Nat /\ 1 \in 0 .. Len(t)
  BY <1>2, <1>7, PromptAnd
<1>9. SubSeq(t, 1, Len(t) - 1) = Prompt \o a
  <2>1. PICK u : u = Prompt \o a
    OBVIOUS
  <2>2. a \in Seq(Glyphs) /\ Prompt \in Seq(Glyphs) /\ x \in Glyphs /\ u \in Seq(Glyphs)
    BY <1>5, <1>6, <2>1, PromptAnd, GlyphsPrint
  <2>3. Append(a, x) = a \o <<x>> /\ Append(u, x) = u \o <<x>> /\ <<x>> \in Seq(Glyphs)
    BY <2>2, AppendIsConcat
  <2>4. t = Append(u, x)
    BY <1>5, <1>7, <2>1, <2>2, <2>3, ConcatAssociative
  <2>5. Len(t) = Len(u) + 1 /\ Len(u) \in Nat /\ Append(u, x) \in Seq(Glyphs)
    BY <2>2, <2>4
  <2>6. SubSeq(Append(u, x), 1, Len(u)) = u
    BY <2>2, TextBefore
  <2> QED BY <2>1, <2>4, <2>5, <2>6
<1>10. Times(Rubout, 1) = <<Rubout>>
  BY DEF Times
<1>11. Shows(Put(screen, <<Rubout>>), Prompt \o a)
  BY <1>2, <1>7, <1>8, <1>9, <1>10, PutRubouts
<1>12. Shows(screen', Prompt \o line')
  BY <1>1, <1>6, <1>11
<1> QED BY <1>1, <1>6, <1>12 DEF LineInv

LEMMA HistoryStep ==
  ASSUME LineInv, KeyUp \/ KeyDown
  PROVE  LineInv'
<1>1. /\ line \in Texts /\ history \in Seq(Texts) /\ histIdx \in 0 .. Len(history) /\ Len(history) \in Nat
      /\ history' = history
  BY DEF LineInv, KeyUp, KeyDown
<1>2. /\ histIdx' \in 0 .. Len(history)
      /\ \E text \in Texts : screen' = Replaced(screen, text) /\ line' = text
  <2>1. CASE KeyUp
    <3>1. /\ histIdx \in 1 .. Len(history) /\ histIdx' = histIdx - 1
          /\ screen' = Replaced(screen, history[histIdx]) /\ line' = history[histIdx]
      BY <1>1, <2>1 DEF KeyUp, Key
    <3>2. history[histIdx] \in Texts /\ histIdx' \in 0 .. Len(history)
      BY <1>1, <3>1
    <3> QED BY <3>1, <3>2
  <2>2. CASE KeyDown
    <3>1. PICK text : text = IF histIdx + 1 = Len(history) THEN <<>> ELSE history[histIdx + 2]
      OBVIOUS
    <3>2. histIdx < Len(history) /\ histIdx' = histIdx + 1 /\ screen' = Replaced(screen, text) /\ line' = text
      BY <2>2, <3>1 DEF KeyDown, Key
    <3>3. text \in Texts
      <4>1. CASE histIdx + 1 = Len(history)
        BY <3>1, <4>1, LineAssumption DEF Texts
      <4>2. CASE histIdx + 1 # Len(history)
        <5>1. histIdx + 2 \in 1 .. Len(history)
          BY <1>1, <3>2, <4>2
        <5>2. history[histIdx + 2] \in Texts
          BY <1>1, <5>1
        <5> QED BY <3>1, <4>2, <5>2
      <4> QED BY <4>1, <4>2
    <3>4. histIdx' \in 0 .. Len(history)
      BY <1>1, <3>2
    <3> QED BY <3>2, <3>3, <3>4
  <2> QED BY <2>1, <2>2
<1>3. PICK text \in Texts : screen' = Replaced(screen, text) /\ line' = text
  BY <1>2
<1>4. Shows(screen', Prompt \o line')
  BY <1>3, ReplacedShows
<1> QED BY <1>1, <1>2, <1>3, <1>4 DEF LineInv

LEMMA TabStep ==
  ASSUME LineInv, KeyTab
  PROVE  LineInv'
<1>1. /\ Matching # {} /\ history' = history /\ histIdx' = histIdx
      /\ \/ \E i \in Matching : screen' = Replaced(screen, COMMANDS[i]) /\ line' = COMMANDS[i]
         \/ screen' = Put(screen, <<Newline>> \o Listed \o <<Newline>> \o Prompt \o line) /\ line' = line
  BY DEF KeyTab, Key
<1>2. CASE \E i \in Matching : screen' = Replaced(screen, COMMANDS[i]) /\ line' = COMMANDS[i]
  <2>1. PICK i \in DOMAIN COMMANDS : screen' = Replaced(screen, COMMANDS[i]) /\ line' = COMMANDS[i]
    BY <1>2 DEF Matching
  <2>2. COMMANDS[i] \in Texts
    BY LineAssumption DEF Texts
  <2>3. Shows(screen', Prompt \o line')
    BY <2>1, <2>2, ReplacedShows
  <2> QED BY <1>1, <2>1, <2>2, <2>3 DEF LineInv
<1>3. CASE screen' = Put(screen, <<Newline>> \o Listed \o <<Newline>> \o Prompt \o line) /\ line' = line
  <2>1. PICK N, P : N = Glyphs \cup {Newline} /\ P = Prompt \o line
    OBVIOUS
  <2>2. line \in Texts /\ Shows(screen, P) /\ P \in Seq(Glyphs) /\ Len(P) <= Columns * (Lines - 1) + 1
    BY <2>1, PromptAnd DEF LineInv
  <2>3. PICK u : u = <<Newline>> \o Listed \o <<Newline>>
    OBVIOUS
  <2>4. Listed \in Seq(N) /\ <<Newline>> \in Seq(N)
    <3>1. Letters \subseteq N /\ Newline \in N
      BY <2>1, GlyphsPrint
    <3> QED BY <1>1, <3>1, ListedIn, SeqMonotonic
  <2>5. u \in Seq(N)
    BY <2>3, <2>4
  <2>6. <<Newline>> \o Listed \o <<Newline>> \o Prompt \o line = u \o P
    <3>1. Prompt \in Seq(N) /\ line \in Seq(N)
      <4>1. Prompt \in Seq(Glyphs) /\ line \in Seq(Glyphs) /\ Glyphs \subseteq N
        BY <2>1, <2>2, PromptAnd
      <4> QED BY <4>1, SeqMonotonic
    <3>2. (u \o Prompt) \o line = u \o (Prompt \o line)
      BY <2>5, <3>1, ConcatAssociative
    <3> QED BY <2>1, <2>3, <3>2
  <2>7. Shows(Put(screen, u \o P), P)
    BY <2>1, <2>2, <2>5, PutAfter
  <2>8. Shows(screen', Prompt \o line')
    BY <1>3, <2>1, <2>6, <2>7
  <2> QED BY <1>1, <1>3, <2>8 DEF LineInv
<1> QED BY <1>1, <1>2, <1>3

LEMMA TrimmedIn ==
  ASSUME line \in Texts
  PROVE  Trimmed \in Texts
<1>1. line \in Seq(Letters) /\ Len(line) \in Nat /\ Len(line) <= LINE_MAX /\ LINE_MAX \in Nat
  BY LineAssumption DEF Texts
<1>2. CASE Kept = {}
  BY <1>1, <1>2 DEF Trimmed, Texts
<1>3. CASE Kept # {}
  <2>1. Kept \in SUBSET (1 .. Len(line))
    BY DEF Kept
  <2>2. \E i \in Kept : \A j \in Kept : i <= j
    BY <1>3, <2>1, HasSmallest
  <2>3. \E i \in Kept : \A j \in Kept : i >= j
    <3>1. PICK S : S = {Len(line) - i : i \in Kept}
      OBVIOUS
    <3>2. S \in SUBSET Nat /\ S # {}
      <4>1. ASSUME NEW i \in Kept  PROVE Len(line) - i \in Nat /\ Len(line) - i \in S
        <5>1. i \in 1 .. Len(line)
          BY <2>1
        <5> QED BY <1>1, <3>1, <5>1
      <4>2. PICK i \in Kept : TRUE
        BY <1>3
      <4> QED BY <3>1, <4>1, <4>2
    <3>3. PICK m \in S : \A j \in S : m <= j
      BY <3>2, HasSmallest
    <3>4. PICK i \in Kept : m = Len(line) - i
      BY <3>1, <3>3
    <3>5. ASSUME NEW j \in Kept  PROVE i >= j
      <4>1. Len(line) - j \in S /\ i \in Int /\ j \in Int
        BY <2>1, <3>1
      <4>2. m <= Len(line) - j
        BY <3>3, <4>1
      <4> QED BY <1>1, <3>4, <4>1, <4>2
    <3> QED BY <3>5
  <2>4. PICK a, b : /\ a = CHOOSE i \in Kept : \A j \in Kept : i <= j
                    /\ b = CHOOSE i \in Kept : \A j \in Kept : i >= j
    OBVIOUS
  <2>5. a \in Kept /\ b \in Kept /\ a <= b
    <3>1. a \in Kept /\ \A j \in Kept : a <= j
      BY <2>2, <2>4
    <3>2. b \in Kept
      BY <2>3, <2>4
    <3> QED BY <3>1, <3>2
  <2>6. a \in 1 .. Len(line) /\ b \in 1 .. Len(line) /\ a \in Int /\ b \in Int
    BY <2>1, <2>5
  <2>7. \A i \in a .. b : line[i] \in Letters
    BY <1>1, <2>6
  <2>8. SubSeq(line, a, b) \in Seq(Letters) /\ Len(SubSeq(line, a, b)) = b - a + 1
    BY <2>5, <2>6, <2>7, SubSeqProperties
  <2>9. SubSeq(line, a, b) \in Texts
    BY <1>1, <2>5, <2>6, <2>8 DEF Texts
  <2> QED BY <1>3, <2>4, <2>9 DEF Trimmed
<1> QED BY <1>2, <1>3

LEMMA EnterStep ==
  ASSUME LineInv, KeyEnter
  PROVE  LineInv'
<1>1. line \in Texts /\ history \in Seq(Texts) /\ Shows(screen, Prompt \o line)
  BY DEF LineInv
<1>2. PICK ended : ended = Put(screen, <<Newline>>)
  OBVIOUS
<1>3. /\ line' = <<>> /\ histIdx' = Len(history')
      /\ \/ screen' = Put(ended, Prompt)
         \/ screen' = Put(ended, <<"?", Newline>> \o Prompt)
         \/ screen' = Put(Cleared, Prompt)
      /\ history' = history \/ history' = Pushed(Trimmed)
  BY <1>2 DEF KeyEnter, Key
<1>4. Shows(ended, <<>>)
  <2>1. <<Newline>> \in Seq(Glyphs \cup {Newline}) /\ <<>> \in Seq(Glyphs) /\ Len(<<>>) = 0 /\ <<Newline>> \o <<>> = <<Newline>>
    OBVIOUS
  <2>2. 0 <= Columns * (Lines - 1) + 1
    BY ConsoleAssumption
  <2>3. Shows(Put(screen, <<Newline>> \o <<>>), <<>>)
    BY <1>1, <2>1, <2>2, PutAfter
  <2> QED BY <1>2, <2>1, <2>3
<1>5. Shows(screen', Prompt \o <<>>)
  <2>1. CASE screen' = Put(ended, Prompt)
    BY <1>4, <2>1, PromptAlone
  <2>2. CASE screen' = Put(ended, <<"?", Newline>> \o Prompt)
    <3>1. <<"?", Newline>> \in Seq(Glyphs \cup {Newline})
      BY DEF Glyphs
    <3> QED BY <1>4, <2>2, <3>1, PromptShows
  <2>3. CASE screen' = Put(Cleared, Prompt)
    BY <2>3, ClearedShows, PromptAlone
  <2> QED BY <1>3, <2>1, <2>2, <2>3
<1>6. history' \in Seq(Texts)
  <2>1. CASE history' = history
    BY <1>1, <2>1
  <2>2. CASE history' = Pushed(Trimmed)
    <3>1. Trimmed \in Texts
      BY <1>1, TrimmedIn
    <3>2. PICK longer : longer = IF history # <<>> /\ Last(history) = Trimmed THEN history ELSE Append(history, Trimmed)
      OBVIOUS
    <3>3. longer \in Seq(Texts)
      BY <1>1, <3>1, <3>2
    <3>4. Pushed(Trimmed) = IF Len(longer) > HISTORY_MAX THEN Tail(longer) ELSE longer
      BY <3>2 DEF Pushed
    <3>5. Len(longer) > HISTORY_MAX => Tail(longer) \in Seq(Texts)
      <4>1. SUFFICES ASSUME Len(longer) > HISTORY_MAX  PROVE Tail(longer) \in Seq(Texts)
        OBVIOUS
      <4>2. longer # <<>>
        BY <4>1, LineAssumption
      <4> QED BY <3>3, <4>2, HeadTailProperties
    <3> QED BY <2>2, <3>3, <3>4, <3>5
  <2> QED BY <1>3, <2>1, <2>2
<1>7. line' \in Texts /\ histIdx' \in 0 .. Len(history')
  BY <1>3, <1>6, LineAssumption DEF Texts
<1>8. Shows(screen', Prompt \o line')
  BY <1>3, <1>5
<1> QED BY <1>6, <1>7, <1>8 DEF LineInv

THEOREM NextLine ==
  LineInv /\ [LineNext]_lvars => LineInv'
<1>1. SUFFICES ASSUME LineInv, [LineNext]_lvars  PROVE LineInv'
  OBVIOUS
<1>2. CASE Blink
  BY <1>1, <1>2, BlinkStep
<1>3. CASE Erase
  BY <1>1, <1>3, EraseStep
<1>4. CASE KeyUp \/ KeyDown
  BY <1>1, <1>4, HistoryStep
<1>5. CASE KeyTab
  BY <1>1, <1>5, TabStep
<1>6. CASE KeyEnter
  BY <1>1, <1>6, EnterStep
<1>7. CASE \E ch \in Letters : Type(ch)
  BY <1>1, <1>7, TypeStep
<1>8. CASE UNCHANGED lvars
  BY <1>1, <1>8 DEF LineInv, lvars
<1> QED BY <1>1, <1>2, <1>3, <1>4, <1>5, <1>6, <1>7, <1>8 DEF LineNext

(* The line before Enter is what stands on the screen. *)
LEMMA InvShows == LineInv => ShownIsLine
<1>1. SUFFICES ASSUME LineInv  PROVE ShownIsLine
  OBVIOUS
<1>2. PICK t : t = Prompt \o line
  OBVIOUS
<1>3. line \in Texts /\ Shows(screen, t)
  BY <1>1, <1>2 DEF LineInv
<1>4. /\ Len(line) \in Nat /\ Len(t) = Len(line) + 1 /\ Len(t) <= Place(screen) /\ t[1] = Prompt[1]
      /\ \A i \in 1 .. Len(line) : t[i + 1] = line[i]
  <2>1. line \in Seq(Glyphs) /\ Prompt \in Seq(Glyphs) /\ Len(Prompt) = 1 /\ Len(line) \in Nat
    BY <1>3, PromptAnd
  <2>2. Len(t) = 1 + Len(line) /\ \A i \in 1 .. 1 + Len(line) : t[i] = IF i <= 1 THEN Prompt[i] ELSE line[i - 1]
    <3>1. /\ Len(Prompt \o line) = Len(Prompt) + Len(line)
          /\ \A i \in 1 .. Len(Prompt) + Len(line) :
               (Prompt \o line)[i] = IF i <= Len(Prompt) THEN Prompt[i] ELSE line[i - Len(Prompt)]
      BY <2>1, ConcatProperties
    <3> QED BY <1>2, <2>1, <3>1
  <2>3. ASSUME NEW i \in 1 .. Len(line)  PROVE t[i + 1] = line[i]
    <3>1. i + 1 \in 1 .. 1 + Len(line) /\ ~(i + 1 <= 1) /\ i + 1 - 1 = i
      BY <2>1
    <3> QED BY <2>2, <3>1
  <2>4. t[1] = Prompt[1]
    <3>1. 1 \in 1 .. 1 + Len(line)
      BY <2>1
    <3> QED BY <2>2, <3>1
  <2>5. Len(t) <= Place(screen)
    BY <1>3 DEF Shows
  <2> QED BY <2>1, <2>2, <2>3, <2>4, <2>5
<1>5. Place(screen) = Here /\ Place(screen) \in 0 .. Columns * Lines /\ Columns * Lines \in Nat
  BY <1>3, PlaceIn, ConsoleAssumption DEF Place, Here, Shows
<1>6. \A p : Cell(p) = At(screen, p)
  BY DEF Cell, At
<1>7. ASSUME NEW i \in 1 .. Len(line)  PROVE Cell(Here - Len(line) + i - 1) = line[i]
  <2>1. PICK j : j = i + 1
    OBVIOUS
  <2>2. j \in 1 .. Len(t) /\ Place(screen) - Len(t) + j - 1 = Here - Len(line) + i - 1
    BY <1>4, <1>5, <2>1
  <2>3. At(screen, Place(screen) - Len(t) + j - 1) = t[j]
    BY <1>3, <2>2 DEF Shows
  <2> QED BY <1>4, <1>6, <2>1, <2>2, <2>3
<1>8. Cell(Here - Len(line) - 1) = Prompt[1]
  <2>1. 1 \in 1 .. Len(t) /\ Place(screen) - Len(t) + 1 - 1 = Here - Len(line) - 1
    BY <1>4, <1>5
  <2>2. At(screen, Place(screen) - Len(t) + 1 - 1) = t[1]
    BY <1>3, <2>1 DEF Shows
  <2> QED BY <1>4, <1>6, <2>1, <2>2
<1>9. ASSUME NEW place \in Here .. Columns * Lines - 1
      PROVE  Cell(place) = IF place = Here /\ screen.cursor /\ screen.col < Columns THEN Block ELSE Blank
  <2>1. place \in Places /\ place >= Place(screen)
    BY <1>5 DEF Places
  <2> QED BY <1>3, <1>5, <1>6, <2>1 DEF Shows
<1> QED BY <1>7, <1>8, <1>9 DEF ShownIsLine

THEOREM ShownIsLineTheorem == LineSpec => []ShownIsLine
<1>1. LineInit => LineInv
  BY InitLine
<1>2. LineInv /\ [LineNext]_lvars => LineInv'
  BY NextLine
<1>3. LineInv => ShownIsLine
  BY InvShows
<1> QED BY <1>1, <1>2, <1>3, PTL DEF LineSpec
===============================================================================
