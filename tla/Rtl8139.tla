-------------------------------- MODULE Rtl8139 --------------------------------
(* The driver of the network card (drivers/net/rtl8139.rs) and the device    *)
(* drivers/net/device.rs makes of it for the TCP/IP library, against the     *)
(* card.  The card writes received frames into a ring in memory, the driver  *)
(* takes them out when it is polled; frames to send lie in four buffers the  *)
(* card reads when it comes to them.                                         *)
(*                                                                           *)
(* Addresses and lengths are bytes.  A byte of a frame is <<frame, index>>.  *)
(* The interrupt status is left out: no interrupt is enabled in the kernel.  *)
EXTENDS Integers, Sequences, SequencesExt

CONSTANTS
  RingSize,     \* 8192: the ring as the card and the driver count it
  Spill,        \* 16 + 1500: the memory behind it
  MaxLength,    \* 2048: longer frames are refused as bad
  Mtu,          \* 1500: the buffers of device.rs
  MinFrame,     \* 60: shorter frames are padded
  TxSize,       \* 1792: one send buffer
  RxSizes,      \* sizes of frames from the network, without checksum
  TxSizes,      \* sizes of frames to send
  Loads,        \* bounds: how many frames come in and go out, [rx, tx]
  MaxInits,     \* bound: calls of init after the first
  MaxLate       \* frames the card may be behind when send gives up waiting

Align(n) == ((n + 3) \div 4) * 4
HeaderSize == 4
CrcSize == 4

ASSUME RingAssumption ==
  /\ RingSize \in Nat \ {0} /\ RingSize % 4 = 0 /\ 65536 % RingSize = 0
  /\ Spill \in Nat /\ Mtu \in Nat /\ MinFrame \in Nat /\ TxSize \in Nat
  /\ MaxLength \in Nat /\ Loads \subseteq [rx: Nat, tx: Nat] /\ MaxInits \in Nat /\ MaxLate \in Nat
  /\ \A n \in RxSizes : /\ n \in Nat \ {0} /\ n + CrcSize <= MaxLength
                        /\ n + CrcSize <= Spill
                        /\ Align(n + HeaderSize + CrcSize) < RingSize
  /\ \A n \in TxSizes : n \in 1 .. Mtu
  /\ Mtu <= TxSize /\ MinFrame <= TxSize

VARIABLES
  ring,       \* Rtl8139.rx_buffer
  rxOffset,   \* Rtl8139.rx_offset
  capr,       \* the card's register CAPR
  cbr,        \* where the card writes next
  tx,         \* Rtl8139.tx_buf with the descriptors of the card
  txCur,      \* Rtl8139.tx_cur
  cardTx,     \* the descriptor the card comes to next
  sending,    \* what a call of send waits for: "own", "tok", or "no" call
  left,       \* how many frames are still to come in and to go out
  inits,      \* how often init was called again
  unread,     \* history: frames in the ring and where each begins, [id, size, at]
  got,        \* history: the frame taken out last, its bytes as delivered
  unsent,     \* history: frames given to send the card has not taken
  sent        \* history: the frame the card took last and its bytes as taken

rx == <<ring, rxOffset, capr, cbr, unread, got>>
txs == <<tx, txCur, cardTx, sending, unsent, sent>>
vars == <<rx, txs, left, inits>>

Blank == <<0, 0>>
Zero == <<0, 0>>
Crc == <<-2, 0>>
Header(length) == <<-1, length>>
Memory == 0 .. RingSize + Spill - 1
Frame(id, size) == [id |-> id, size |-> size]
StoredFrame(frame, at) == [id |-> frame.id, size |-> frame.size, at |-> at]
NoFrame == [id |-> 0, size |-> 0, at |-> 0]
Bytes(frame) == [i \in 1 .. frame.size |-> <<frame.id, i>>]

-------------------------------------------------------------------------------
(* Start.  Each command that uses the network calls init; the card forgets   *)
(* everything, the driver gets new buffers.                                  *)

EmptyTx == [buf |-> [i \in 1 .. TxSize |-> Zero], len |-> 0, state |-> "sent"]

FreshRing == [a \in Memory |-> Blank]

Init ==
  /\ ring = FreshRing /\ rxOffset = 0 /\ capr = 65536 - 16 /\ cbr = 0
  /\ tx = [i \in 0 .. 3 |-> EmptyTx] /\ txCur = 0 /\ cardTx = 0 /\ sending = "no"
  /\ left \in Loads /\ inits = 0
  /\ unread = <<>> /\ unsent = <<>>
  /\ got = [frame |-> NoFrame, bytes |-> <<>>]
  /\ sent = [frame |-> NoFrame, bytes |-> <<>>]

InitAgain ==
  /\ sending = "no" /\ inits < MaxInits
  /\ inits' = inits + 1
  /\ ring' = FreshRing /\ rxOffset' = 0 /\ capr' = 65536 - 16 /\ cbr' = 0
  /\ tx' = [i \in 0 .. 3 |-> EmptyTx] /\ txCur' = 0 /\ cardTx' = 0
  /\ unread' = <<>> /\ unsent' = <<>>
  /\ UNCHANGED <<sending, left, got, sent>>

-------------------------------------------------------------------------------
(* The card and its ring.  CAPR lags 16 bytes behind what has been read.     *)

CardRead == ((capr + 16) % 65536) % RingSize
BufferEmpty == CardRead = cbr

(* What is free; an empty ring takes any frame.  *)
Room == (RingSize + CardRead - cbr) % RingSize
Fits(size) == BufferEmpty \/ Align(size + HeaderSize + CrcSize) < Room

(* The frame and its checksum as they lie behind the header. *)
Cell(frame, i) == IF i <= frame.size THEN <<frame.id, i>> ELSE Crc

(* Bit 7 of RCR is set: a frame that reaches the end of the ring continues   *)
(* in the memory behind it.                                                  *)
Stored(frame) ==
  LET data == cbr + HeaderSize
      end  == data + frame.size + CrcSize
  IN  [a \in Memory |-> CASE a = cbr            -> Header(frame.size + CrcSize)
                          [] a \in cbr + 1 .. data - 1 -> Header(0)
                          [] a \in data .. end - 1     -> Cell(frame, a - data + 1)
                          [] OTHER                     -> ring[a]]

FrameArrives(size) ==
  /\ left.rx > 0
  /\ left' = [left EXCEPT !.rx = @ - 1]
  /\ LET frame == Frame(left.rx, size) IN
       IF Fits(size)
       THEN /\ ring' = Stored(frame)
            /\ cbr' = Align(cbr + HeaderSize + size + CrcSize) % RingSize
            /\ unread' = Append(unread, StoredFrame(frame, cbr))
       ELSE UNCHANGED <<ring, cbr, unread>>
  /\ UNCHANGED <<rxOffset, capr, got, txs, inits>>

-------------------------------------------------------------------------------
(* receive, called by NetDevice::receive with a buffer of MTU bytes.         *)

(* Mistake: the register is given the offset itself. *)
CaprPlain(offset) == offset % 65536
Capr(offset) == (offset + 65536 - 16) % 65536

Length == ring[rxOffset][2]
HeaderOk == ring[rxOffset][1] = -1 /\ Length >= 4 /\ Length <= MaxLength

(* Mistake: the header is not skipped. *)
DataWithHeader(i) == ring[(rxOffset + i - 1) % RingSize]
DataAt(i) == ring[(rxOffset + HeaderSize + i - 1) % RingSize]
ReadFrame(out) ==
  LET n == IF Length - CrcSize < out THEN Length - CrcSize ELSE out
  IN  [i \in 1 .. n |-> DataAt(i)]

(* Mistake: no alignment. *)
NextOffsetUnaligned == (rxOffset + Length + HeaderSize) % RingSize
NextOffset == Align(rxOffset + Length + HeaderSize) % RingSize

ReceiveNothing ==
  /\ sending = "no" /\ BufferEmpty
  /\ UNCHANGED vars

(* A header that cannot be one makes the driver begin at the ring's start. *)
Receive ==
  /\ sending = "no" /\ ~BufferEmpty
  /\ IF HeaderOk
     THEN /\ rxOffset' = NextOffset
          /\ got' = [frame |-> IF unread = <<>> THEN NoFrame ELSE Head(unread), bytes |-> ReadFrame(Mtu)]
          /\ unread' = SubSeq(unread, 2, Len(unread))
     ELSE rxOffset' = 0 /\ UNCHANGED <<got, unread>>
  /\ capr' = Capr(rxOffset')
  /\ UNCHANGED <<ring, cbr, txs, left, inits>>

-------------------------------------------------------------------------------
(* send, called when the library uses a transmit token.  It copies and pads  *)
(* the frame, hands it to the card and waits for OWN, then for TOK.          *)

(* Mistake: the padding keeps what an earlier frame left. *)
CopiedOnly(buf, data) == [i \in 1 .. TxSize |-> IF i <= Len(data) THEN data[i] ELSE buf[i]]
Copied(buf, data) ==
  [i \in 1 .. TxSize |-> CASE i <= Len(data) -> data[i]
                           [] i > Len(data) /\ i <= MinFrame -> Zero
                           [] OTHER -> buf[i]]

FrameLength(data) == IF Len(data) < MinFrame THEN MinFrame ELSE Len(data)

Send(size) ==
  /\ sending = "no" /\ left.tx > 0
  /\ left' = [left EXCEPT !.tx = @ - 1]
  /\ LET frame == Frame(left.tx, size)
         data  == Bytes(frame)
     IN  /\ tx' = [tx EXCEPT ![txCur] = [buf |-> Copied(tx[txCur].buf, data),
                                         len |-> FrameLength(data), state |-> "given"]]
         /\ unsent' = Append(unsent, frame)
  /\ sending' = "own"
  /\ UNCHANGED <<txCur, cardTx, sent, rx, inits>>

(* The card takes the next frame out of its buffer, and later sends it. *)
CardTakes ==
  /\ tx[cardTx].state = "given"
  /\ tx' = [tx EXCEPT ![cardTx].state = "taken"]
  /\ sent' = [frame |-> Head(unsent), bytes |-> SubSeq(tx[cardTx].buf, 1, tx[cardTx].len)]
  /\ unsent' = Tail(unsent)
  /\ cardTx' = (cardTx + 1) % 4
  /\ UNCHANGED <<txCur, sending, rx, left, inits>>

CardSends(i) ==
  /\ tx[i].state = "taken"
  /\ tx' = [tx EXCEPT ![i].state = "sent"]
  /\ UNCHANGED <<txCur, cardTx, sending, unsent, sent, rx, left, inits>>

GivesUp == Len(unsent) <= MaxLate

WaitOwn ==
  /\ sending = "own"
  /\ tx[txCur].state \in {"taken", "sent"} \/ GivesUp
  /\ sending' = "tok"
  /\ UNCHANGED <<tx, txCur, cardTx, unsent, sent, rx, left, inits>>

NextTx == (txCur + 1) % 4

WaitTok ==
  /\ sending = "tok"
  /\ tx[txCur].state = "sent" \/ GivesUp
  /\ sending' = "no"
  /\ txCur' = NextTx
  /\ UNCHANGED <<tx, cardTx, unsent, sent, rx, left, inits>>

-------------------------------------------------------------------------------

Card ==
  \/ \E size \in RxSizes : FrameArrives(size)
  \/ CardTakes
  \/ \E i \in 0 .. 3 : CardSends(i)

Poll == ReceiveNothing \/ Receive

Driver == InitAgain \/ Poll \/ WaitOwn \/ WaitTok \/ \E size \in TxSizes : Send(size)

Next == Card \/ Driver

(* The library polls for ever, and send comes to an end: the waits are       *)
(* bounded loops.  The card works on what it was given.                      *)
Fairness ==
  /\ WF_vars(Poll) /\ WF_vars(WaitOwn) /\ WF_vars(WaitTok)
  /\ WF_vars(CardTakes) /\ \A i \in 0 .. 3 : WF_vars(CardSends(i))

Spec == Init /\ [][Next]_vars /\ Fairness

-------------------------------------------------------------------------------
(* Properties. *)

(* Where a frame of the ring ends; where the k-th unread frame begins, and    *)
(* the one that comes after the last.                                         *)
After(frame) == Align(frame.at + HeaderSize + frame.size + CrcSize) % RingSize
Begin(k) == IF k \in 1 .. Len(unread) THEN unread[k].at ELSE cbr

(* receive and the card agree on the ring: the unread frames lie one behind  *)
(* the other from rx_offset up to where the card writes next, whole and with *)
(* their headers, and the card counts as read exactly what was taken out.    *)
(* Otherwise a read would begin inside a frame, or the card write over one.  *)
RingInStep ==
  /\ CardRead = rxOffset /\ Begin(1) = rxOffset
  /\ \A k \in 1 .. Len(unread) :
       /\ Begin(k + 1) = After(unread[k])
       /\ ring[unread[k].at] = Header(unread[k].size + CrcSize)
       /\ \A i \in 1 .. unread[k].size :
            ring[unread[k].at + HeaderSize + i - 1] = <<unread[k].id, i>>

Up(frame, limit) == SubSeq(Bytes(frame), 1, IF frame.size < limit THEN frame.size ELSE limit)
Crosses(frame) == frame.at + HeaderSize + frame.size > RingSize

(* A frame receive hands to the library is the oldest one the card has, byte *)
(* for byte as far as the library's buffer reaches, if it does not lie       *)
(* across the end of the ring.                                               *)
DeliveredIntact == Crosses(got.frame) \/ got.bytes = Up(got.frame, Mtu)

(* The card takes the frames given to send in their order, each as it was    *)
(* given and padded with zeros, also when send gave up waiting for it: a     *)
(* buffer is not written again while the card has yet to read it.            *)
SentIntact ==
  sent.frame # NoFrame =>
    sent.bytes = [i \in 1 .. FrameLength(Bytes(sent.frame)) |->
                    IF i <= sent.frame.size THEN <<sent.frame.id, i>> ELSE Zero]

(* A frame the card has put into the ring is taken out, or given up by the   *)
(* next init: polling does not stall.                                        *)
Waiting(id) == \E k \in 1 .. Len(unread) : unread[k].id = id
FramesTaken == \A id \in UNION {1 .. load.rx : load \in Loads} : Waiting(id) ~> ~Waiting(id)
===============================================================================
