----------------------------- MODULE Rtl8139Proofs -----------------------------
(* The card's buffers, for every size of buffers and frames and any number of  *)
(* frames: a send buffer is not written again while the card has yet to read   *)
(* it, the driver and the card agree on where the next received frame starts,  *)
(* and a received frame is handed on as it came.                               *)
EXTENDS Rtl8139, TLAPS

-------------------------------------------------------------------------------
(* The inductive invariant. *)

Cells == Int \X Int
Frames == [id: Nat, size: TxSizes]
Slots == 0 .. 3
Descriptors == [buf: [1 .. TxSize -> Cells], len: 0 .. TxSize, state: {"given", "taken", "sent"}]

(* The slot of the k-th frame the card has yet to take. *)
Slot(k) == (cardTx + k - 1) % 4

(* The buffer of a descriptor holds a frame, padded. *)
Holds(descriptor, frame) ==
  /\ descriptor.len = FrameLength(Bytes(frame))
  /\ \A i \in 1 .. descriptor.len :
       descriptor.buf[i] = IF i <= frame.size THEN <<frame.id, i>> ELSE Zero

TxTypes ==
  /\ left \in [rx: Nat, tx: Nat]
  /\ tx \in [Slots -> Descriptors] /\ txCur \in Slots /\ cardTx \in Slots
  /\ sending \in {"no", "own", "tok"} /\ unsent \in Seq(Frames)

(* The frames to send lie in the slots from the card's up to the driver's.   *)
InStep ==
  /\ Len(unsent) <= IF sending = "no" THEN 3 ELSE 4
  /\ (cardTx + Len(unsent)) % 4 = IF sending = "no" THEN txCur ELSE NextTx

(* A slot is given to the card exactly when it has one of them. *)
GivenAreUnsent ==
  /\ \A k \in 1 .. Len(unsent) : tx[Slot(k)].state = "given" /\ Holds(tx[Slot(k)], unsent[k])
  /\ \A i \in Slots : tx[i].state = "given" => \E k \in 1 .. Len(unsent) : i = Slot(k)

TxInv == TxTypes /\ InStep /\ GivenAreUnsent /\ SentIntact

-------------------------------------------------------------------------------

(* A frame fits its buffer, with the padding. *)
LEMMA FrameFits ==
  ASSUME NEW frame \in Frames
  PROVE  /\ Bytes(frame) \in Seq(Cells) /\ Len(Bytes(frame)) = frame.size
         /\ \A i \in 1 .. frame.size : Bytes(frame)[i] = <<frame.id, i>>
         /\ FrameLength(Bytes(frame)) \in 0 .. TxSize /\ frame.size \in Nat
<1>1. frame.size \in Nat /\ frame.size <= TxSize /\ MinFrame \in Nat /\ MinFrame <= TxSize /\ TxSize \in Nat
  BY RingAssumption DEF Frames
<1>2. frame.id \in Nat
  BY DEF Frames
<1>3. Bytes(frame) \in [1 .. frame.size -> Cells]
  BY <1>1, <1>2 DEF Bytes, Cells
<1>4. Bytes(frame) \in Seq(Cells) /\ Len(Bytes(frame)) = frame.size
  BY <1>1, <1>3
<1> QED BY <1>1, <1>4 DEF FrameLength, Bytes

(* What is copied is a buffer that holds the frame. *)
LEMMA CopyHolds ==
  ASSUME NEW frame \in Frames, NEW buf \in [1 .. TxSize -> Cells], NEW state \in {"given", "taken", "sent"}
  PROVE  LET descriptor == [buf |-> Copied(buf, Bytes(frame)), len |-> FrameLength(Bytes(frame)), state |-> state]
         IN  descriptor \in Descriptors /\ Holds(descriptor, frame)
<1> DEFINE data == Bytes(frame)
           copied == Copied(buf, data)
<1>1. /\ data \in Seq(Cells) /\ Len(data) = frame.size /\ frame.size \in Nat
      /\ \A i \in 1 .. frame.size : data[i] = <<frame.id, i>>
      /\ FrameLength(data) \in 0 .. TxSize
  BY FrameFits
<1>2. TxSize \in Nat /\ MinFrame \in Nat
  BY RingAssumption
<1> HIDE DEF data
<1>3. Zero \in Cells
  BY DEF Zero, Cells
<1>4. copied \in [1 .. TxSize -> Cells]
  <2> SUFFICES ASSUME NEW i \in 1 .. TxSize
               PROVE  (CASE i <= Len(data) -> data[i]
                         [] i > Len(data) /\ i <= MinFrame -> Zero
                         [] OTHER -> buf[i]) \in Cells
    BY DEF Copied
  <2>1. i <= Len(data) => data[i] \in Cells
    BY <1>1
  <2> QED BY <1>1, <1>2, <1>3, <2>1
<1>5. \A i \in 1 .. FrameLength(data) : copied[i] = IF i <= frame.size THEN <<frame.id, i>> ELSE Zero
  <2> SUFFICES ASSUME NEW i \in 1 .. FrameLength(data)
               PROVE  copied[i] = IF i <= frame.size THEN <<frame.id, i>> ELSE Zero
    OBVIOUS
  <2>1. i \in 1 .. TxSize
    BY <1>1, <1>2
  <2>2. CASE i <= frame.size
    BY <1>1, <2>1, <2>2 DEF Copied
  <2>3. CASE i > frame.size
    <3>1. i <= MinFrame
      BY <1>1, <1>2, <2>3 DEF FrameLength
    <3> QED BY <1>1, <2>1, <2>3, <3>1 DEF Copied
  <2> QED BY <1>1, <2>2, <2>3
<1> HIDE DEF copied
<1> QED BY <1>1, <1>4, <1>5 DEF Descriptors, Holds, data, copied

-------------------------------------------------------------------------------
(* One lemma per action of the sending side. *)

LEMMA SendingSideKept ==
  ASSUME TxInv, UNCHANGED txs, left' \in [rx: Nat, tx: Nat]
  PROVE  TxInv'
<1>1. /\ tx' = tx /\ txCur' = txCur /\ cardTx' = cardTx /\ sending' = sending
      /\ unsent' = unsent /\ sent' = sent
  BY DEF txs
<1>2. TxTypes'
  BY <1>1 DEF TxInv, TxTypes
<1>3. InStep'
  BY <1>1 DEF TxInv, InStep, NextTx
<1>4. GivenAreUnsent'
  BY <1>1 DEF TxInv, GivenAreUnsent, Slot, Holds
<1>5. SentIntact'
  BY <1>1 DEF TxInv, SentIntact
<1> QED BY <1>2, <1>3, <1>4, <1>5 DEF TxInv

LEMMA EmptyIsDescriptor == EmptyTx \in Descriptors
BY RingAssumption DEF EmptyTx, Descriptors, Zero, Cells

(* No frame is on its way. *)
LEMMA EmptySide ==
  ASSUME tx = [i \in Slots |-> EmptyTx], txCur = 0, cardTx = 0, sending = "no", unsent = <<>>,
         left \in [rx: Nat, tx: Nat]
  PROVE  TxTypes /\ InStep /\ GivenAreUnsent
<1>1. Len(unsent) = 0
  OBVIOUS
<1>2. TxTypes
  BY EmptyIsDescriptor DEF TxTypes, Slots
<1>3. InStep
  BY <1>1 DEF InStep
<1>4. GivenAreUnsent
  BY <1>1 DEF GivenAreUnsent, EmptyTx
<1> QED BY <1>2, <1>3, <1>4

LEMMA InitAgainKeeps ==
  ASSUME TxInv, InitAgain
  PROVE  TxInv'
<1>1. /\ tx' = [i \in Slots |-> EmptyTx] /\ txCur' = 0 /\ cardTx' = 0 /\ sending' = "no" /\ unsent' = <<>>
      /\ left' = left /\ sent' = sent
  BY DEF InitAgain, Slots
<1>2. Len(unsent') = 0
  BY <1>1
<1>3. TxTypes'
  BY <1>1, EmptyIsDescriptor DEF TxInv, TxTypes, Slots
<1>4. InStep'
  BY <1>1, <1>2 DEF InStep
<1>5. GivenAreUnsent'
  BY <1>1, <1>2 DEF GivenAreUnsent, EmptyTx
<1>6. SentIntact'
  BY <1>1 DEF TxInv, SentIntact
<1> QED BY <1>3, <1>4, <1>5, <1>6 DEF TxInv

LEMMA SendKeeps ==
  ASSUME TxInv, NEW size \in TxSizes, Send(size)
  PROVE  TxInv'
<1> DEFINE frame == Frame(left.tx, size)
           fresh == [buf |-> Copied(tx[txCur].buf, Bytes(frame)), len |-> FrameLength(Bytes(frame)), state |-> "given"]
           m == Len(unsent)
<1>1. /\ sending = "no" /\ left.tx > 0 /\ left' = [left EXCEPT !.tx = @ - 1]
      /\ tx' = [tx EXCEPT ![txCur] = fresh] /\ unsent' = Append(unsent, frame)
      /\ sending' = "own" /\ txCur' = txCur /\ cardTx' = cardTx /\ sent' = sent
  BY DEF Send
<1>2. left \in [rx: Nat, tx: Nat] /\ unsent \in Seq(Frames) /\ tx \in [Slots -> Descriptors]
      /\ txCur \in Slots /\ cardTx \in Slots
  BY DEF TxInv, TxTypes
<1>3. frame \in Frames
  BY <1>2 DEF Frame, Frames
<1>4. fresh \in Descriptors /\ Holds(fresh, frame) /\ fresh.state = "given"
  <2>1. tx[txCur].buf \in [1 .. TxSize -> Cells]
    BY <1>2 DEF Descriptors
  <2> QED BY <1>3, <2>1, CopyHolds
<1> HIDE DEF frame, fresh
<1>5. m \in 0 .. 3 /\ (cardTx + m) % 4 = txCur
  <2>1. m <= 3 /\ (cardTx + m) % 4 = txCur
    BY <1>1 DEF TxInv, InStep
  <2>2. m \in Nat
    BY <1>2
  <2> HIDE DEF m
  <2> QED BY <2>1, <2>2
<1>6. Len(unsent') = m + 1 /\ unsent'[m + 1] = frame /\ \A k \in 1 .. m : unsent'[k] = unsent[k]
  BY <1>1, <1>2, <1>3
<1> HIDE DEF m
<1>7. TxTypes'
  BY <1>1, <1>2, <1>3, <1>4 DEF TxTypes
<1>8. InStep'
  <2>1. (cardTx + (m + 1)) % 4 = (txCur + 1) % 4
    <3>1. \A a, b \in Nat : a < 4 /\ b < 4 => (a + (b + 1)) % 4 = (((a + b) % 4) + 1) % 4
      OBVIOUS
    <3> HIDE DEF m
    <3>2. cardTx \in Nat /\ cardTx < 4 /\ m \in Nat /\ m < 4
      BY <1>2, <1>5 DEF Slots
    <3> QED BY <1>5, <3>1, <3>2
  <2>2. Len(unsent)' = m + 1 /\ NextTx' = (txCur + 1) % 4 /\ sending' # "no" /\ cardTx' = cardTx
    BY <1>1, <1>6 DEF NextTx
  <2> QED BY <1>5, <2>1, <2>2 DEF InStep
<1>9. \A k \in 1 .. m : Slot(k) \in Slots /\ Slot(k) # txCur
  <2>1. \A a, k, n \in Nat : a < 4 /\ n < 4 /\ 1 <= k /\ k <= n =>
          (a + k - 1) % 4 \in 0 .. 3 /\ (a + k - 1) % 4 # (a + n) % 4
    OBVIOUS
  <2> HIDE DEF m
  <2>2. cardTx \in Nat /\ cardTx < 4 /\ m \in Nat /\ m < 4
    BY <1>2, <1>5 DEF Slots
  <2> QED BY <1>5, <2>1, <2>2 DEF Slot, Slots
<1>10. Slot(m + 1) = txCur /\ \A k : Slot(k)' = Slot(k)
  BY <1>1, <1>2, <1>5 DEF Slot, Slots
<1>11. GivenAreUnsent'
  <2>1. ASSUME NEW k \in 1 .. Len(unsent')
        PROVE  tx'[Slot(k)'].state = "given" /\ Holds(tx'[Slot(k)'], unsent'[k])
    <3>1. CASE k = m + 1
      BY <1>1, <1>2, <1>4, <1>6, <1>10, <3>1
    <3>2. CASE k \in 1 .. m
      <4>1. tx'[Slot(k)'] = tx[Slot(k)] /\ unsent'[k] = unsent[k]
        BY <1>1, <1>2, <1>6, <1>9, <1>10, <3>2
      <4> QED BY <3>2, <4>1 DEF TxInv, GivenAreUnsent, m
    <3> QED BY <1>5, <1>6, <3>1, <3>2
  <2>2. ASSUME NEW i \in Slots, tx'[i].state = "given"
        PROVE  \E k \in 1 .. Len(unsent') : i = Slot(k)'
    <3>1. CASE i = txCur
      BY <1>5, <1>6, <1>10, <3>1
    <3>2. CASE i # txCur
      <4>1. \E k \in 1 .. m : i = Slot(k)
        BY <1>1, <1>2, <2>2, <3>2 DEF TxInv, GivenAreUnsent, m
      <4> QED BY <1>5, <1>6, <1>10, <4>1
    <3> QED BY <3>1, <3>2
  <2> QED BY <2>1, <2>2 DEF GivenAreUnsent, Holds
<1>12. SentIntact'
  BY <1>1 DEF TxInv, SentIntact
<1> QED BY <1>7, <1>8, <1>11, <1>12 DEF TxInv

(* A slot only changes what the card has done with it. *)
LEMMA MarkKeeps ==
  ASSUME TxInv, NEW i \in Slots, tx[i].state # "given", NEW state \in {"taken", "sent"},
         tx' = [tx EXCEPT ![i].state = state], UNCHANGED <<txCur, cardTx, sending, unsent, sent, left>>
  PROVE  TxInv'
<1>1. tx \in [Slots -> Descriptors]
  BY DEF TxInv, TxTypes
<1>2. tx' \in [Slots -> Descriptors]
  BY <1>1 DEF Descriptors
<1>3. \A j \in Slots : tx'[j].state = "given" <=> tx[j].state = "given"
  BY <1>1 DEF Descriptors
<1>4. \A j \in Slots : tx[j].state = "given" => tx'[j] = tx[j]
  BY <1>1
<1>5. TxTypes' /\ InStep' /\ SentIntact'
  BY <1>2 DEF TxInv, TxTypes, InStep, NextTx, SentIntact
<1>6. GivenAreUnsent'
  <2>1. cardTx \in Slots /\ unsent \in Seq(Frames)
    BY DEF TxInv, TxTypes
  <2>2. \A k \in 1 .. Len(unsent) : Slot(k) \in Slots
    BY <2>1 DEF Slot, Slots
  <2>3. \A k : Slot(k)' = Slot(k)
    BY DEF Slot
  <2>4. \A k \in 1 .. Len(unsent) : tx'[Slot(k)].state = "given" /\ Holds(tx'[Slot(k)], unsent[k])
    BY <1>4, <2>2 DEF TxInv, GivenAreUnsent
  <2>5. \A j \in Slots : tx'[j].state = "given" => \E k \in 1 .. Len(unsent) : j = Slot(k)
    BY <1>3 DEF TxInv, GivenAreUnsent
  <2> QED BY <2>3, <2>4, <2>5 DEF GivenAreUnsent, Holds
<1> QED BY <1>5, <1>6 DEF TxInv

LEMMA CardSendsKeeps ==
  ASSUME TxInv, NEW i \in Slots, CardSends(i)
  PROVE  TxInv'
BY MarkKeeps DEF CardSends

(* The card takes the oldest frame, from the slot it lies in. *)
LEMMA CardTakesKeeps ==
  ASSUME TxInv, CardTakes
  PROVE  TxInv'
<1> DEFINE m == Len(unsent)
<1>1. /\ tx[cardTx].state = "given" /\ tx' = [tx EXCEPT ![cardTx].state = "taken"]
      /\ sent' = [frame |-> Head(unsent), bytes |-> SubSeq(tx[cardTx].buf, 1, tx[cardTx].len)]
      /\ unsent' = Tail(unsent) /\ cardTx' = (cardTx + 1) % 4
      /\ txCur' = txCur /\ sending' = sending /\ left' = left
  BY DEF CardTakes
<1>2. /\ tx \in [Slots -> Descriptors] /\ txCur \in Slots /\ cardTx \in Slots /\ unsent \in Seq(Frames)
      /\ m \in Nat
  BY DEF TxInv, TxTypes
<1>3. m \in 1 .. 4
  <2>1. \E k \in 1 .. m : cardTx = Slot(k)
    BY <1>1, <1>2 DEF TxInv, GivenAreUnsent
  <2>2. m <= 4
    BY DEF TxInv, InStep
  <2>3. m # 0
    BY <2>1
  <2> HIDE DEF m
  <2> QED BY <1>2, <2>2, <2>3
<1>4. Len(unsent)' = m - 1 /\ \A k \in 1 .. m - 1 : unsent'[k] = unsent[k + 1]
  BY <1>1, <1>2, <1>3
<1>5. Slot(1) = cardTx /\ Head(unsent) = unsent[1] /\ unsent[1] \in Frames
  BY <1>2, <1>3 DEF Slot, Slots
<1>6. \A k \in 1 .. m : Slot(k) \in Slots /\ (k > 1 => Slot(k) # cardTx)
  <2> HIDE DEF m
  <2> QED BY <1>2, <1>3 DEF Slot, Slots
<1>7. \A k \in 1 .. m - 1 : Slot(k)' = Slot(k + 1)
  <2> SUFFICES ASSUME NEW k \in 1 .. m - 1 PROVE (((cardTx + 1) % 4) + k - 1) % 4 = (cardTx + (k + 1) - 1) % 4
    BY <1>1 DEF Slot
  <2> HIDE DEF m
  <2> QED BY <1>2, <1>3 DEF Slots
<1>8. Holds(tx[cardTx], unsent[1])
  BY <1>3, <1>5 DEF TxInv, GivenAreUnsent
<1>9. TxTypes'
  <2>1. cardTx' \in Slots
    BY <1>1, <1>2 DEF Slots
  <2>2. tx' \in [Slots -> Descriptors]
    BY <1>1, <1>2 DEF Descriptors
  <2>3. unsent' \in Seq(Frames)
    BY <1>1, <1>2, <1>3
  <2> QED BY <1>1, <2>1, <2>2, <2>3 DEF TxInv, TxTypes
<1>10. InStep'
  <2>1. m <= IF sending = "no" THEN 3 ELSE 4
    BY DEF TxInv, InStep
  <2>2. (cardTx + m) % 4 = IF sending = "no" THEN txCur ELSE NextTx
    BY DEF TxInv, InStep
  <2>3. (cardTx' + (m - 1)) % 4 = (cardTx + m) % 4
    <3> HIDE DEF m
    <3> QED BY <1>1, <1>2, <1>3 DEF Slots
  <2>4. NextTx' = NextTx
    BY <1>1 DEF NextTx
  <2> HIDE DEF m
  <2> QED BY <1>1, <1>3, <1>4, <2>1, <2>2, <2>3, <2>4 DEF InStep
<1>11. GivenAreUnsent'
  <2>1. ASSUME NEW k \in 1 .. m - 1
        PROVE  tx'[Slot(k)'].state = "given" /\ Holds(tx'[Slot(k)'], unsent'[k])
    <3>1. k + 1 \in 1 .. m /\ k + 1 > 1
      BY <1>3
    <3>2. Slot(k)' = Slot(k + 1) /\ unsent'[k] = unsent[k + 1]
      BY <1>4, <1>7
    <3>3. tx'[Slot(k + 1)] = tx[Slot(k + 1)]
      BY <1>1, <1>2, <1>6, <3>1
    <3> QED BY <3>1, <3>2, <3>3 DEF TxInv, GivenAreUnsent
  <2>2. ASSUME NEW i \in Slots, tx'[i].state = "given"
        PROVE  \E k \in 1 .. m - 1 : i = Slot(k)'
    <3>1. i # cardTx /\ tx[i].state = "given"
      BY <1>1, <1>2, <2>2 DEF Descriptors
    <3>2. PICK k \in 1 .. m : i = Slot(k)
      BY <3>1 DEF TxInv, GivenAreUnsent
    <3>3. k - 1 \in 1 .. m - 1
      BY <1>3, <1>5, <3>1, <3>2
    <3>4. Slot(k - 1)' = Slot(k)
      BY <1>7, <3>3
    <3> QED BY <3>2, <3>3, <3>4
  <2> HIDE DEF m
  <2> QED BY <1>4, <2>1, <2>2 DEF GivenAreUnsent, Holds
<1>12. SentIntact'
  <2> DEFINE frame == unsent[1]
             card == tx[cardTx]
  <2>1. card.buf \in Seq(Cells) /\ Len(card.buf) = TxSize /\ card.len \in 0 .. TxSize
    BY <1>2, RingAssumption DEF Descriptors
  <2>2. sent'.bytes = [i \in 1 .. card.len |-> card.buf[i]]
    BY <1>1, <2>1, RingAssumption
  <2>3. sent'.bytes = [i \in 1 .. FrameLength(Bytes(frame)) |->
                         IF i <= frame.size THEN <<frame.id, i>> ELSE Zero]
    BY <1>8, <2>2 DEF Holds
  <2>4. sent'.frame = frame
    BY <1>1, <1>5
  <2> QED BY <2>3, <2>4 DEF SentIntact
<1> QED BY <1>9, <1>10, <1>11, <1>12 DEF TxInv

(* The first wait changes no buffer. *)
LEMMA WaitOwnKeeps ==
  ASSUME TxInv, WaitOwn
  PROVE  TxInv'
<1>1. /\ sending = "own" /\ sending' = "tok" /\ left' = left
      /\ UNCHANGED <<tx, txCur, cardTx, unsent, sent>>
  BY DEF WaitOwn
<1>2. TxTypes' /\ InStep' /\ SentIntact'
  BY <1>1 DEF TxInv, TxTypes, InStep, NextTx, SentIntact
<1>3. GivenAreUnsent'
  BY <1>1 DEF TxInv, GivenAreUnsent, Slot, Holds
<1> QED BY <1>2, <1>3 DEF TxInv

(* The second wait ends when the card is done with this buffer, or is at most *)
(* three frames behind: the next buffer is not one it has yet to read.        *)
LEMMA WaitTokKeeps ==
  ASSUME MaxLate <= 3, TxInv, WaitTok
  PROVE  TxInv'
<1> DEFINE m == Len(unsent)
<1>1. /\ sending = "tok" /\ sending' = "no" /\ left' = left /\ txCur' = NextTx
      /\ tx[txCur].state = "sent" \/ m <= MaxLate
      /\ UNCHANGED <<tx, cardTx, unsent, sent>>
  BY DEF WaitTok, GivesUp
<1>2. /\ tx \in [Slots -> Descriptors] /\ txCur \in Slots /\ cardTx \in Slots /\ unsent \in Seq(Frames)
      /\ m \in Nat
  BY DEF TxInv, TxTypes
<1>3. m <= 4 /\ (cardTx + m) % 4 = (txCur + 1) % 4
  BY <1>1 DEF TxInv, InStep, NextTx
<1>4. m <= 3
  <2>1. CASE m <= MaxLate
    BY <1>2, <2>1, RingAssumption
  <2>2. CASE tx[txCur].state = "sent" /\ m = 4
    <3>1. Slot(4) = txCur
      BY <1>2, <1>3, <2>2 DEF Slot, Slots
    <3>2. tx[Slot(4)].state = "given"
      BY <2>2 DEF TxInv, GivenAreUnsent
    <3> QED BY <2>2, <3>1, <3>2
  <2>3. m \in 0 .. 4
    <3> HIDE DEF m
    <3> QED BY <1>2, <1>3
  <2>4. m # 4 => m <= 3
    <3> HIDE DEF m
    <3> QED BY <2>3
  <2> QED BY <1>1, <2>1, <2>2, <2>4
<1>5. InStep'
  BY <1>1, <1>3, <1>4 DEF InStep, NextTx
<1>6. TxTypes' /\ SentIntact'
  <2>1. NextTx \in Slots
    BY <1>2 DEF NextTx, Slots
  <2> QED BY <1>1, <2>1 DEF TxInv, TxTypes, SentIntact
<1>7. GivenAreUnsent'
  BY <1>1 DEF TxInv, GivenAreUnsent, Slot, Holds
<1> QED BY <1>5, <1>6, <1>7 DEF TxInv

-------------------------------------------------------------------------------

(* The card takes every frame as it was given and padded, as long as send     *)
(* gives up waiting only while at most three frames are behind: send may      *)
(* return early, and still no buffer is written over (send, tx_buf, tx_cur).  *)
THEOREM FramesLeaveIntact ==
  ASSUME MaxLate <= 3
  PROVE  Spec => []SentIntact
<1>1. Init => TxInv
  <2> SUFFICES ASSUME Init PROVE TxInv
    OBVIOUS
  <2>1. TxTypes /\ InStep /\ GivenAreUnsent
    BY EmptySide, RingAssumption DEF Init, Slots
  <2>2. SentIntact
    BY DEF Init, SentIntact
  <2> QED BY <2>1, <2>2 DEF TxInv
<1>2. TxInv /\ [Next]_vars => TxInv'
  <2> SUFFICES ASSUME TxInv, [Next]_vars PROVE TxInv'
    OBVIOUS
  <2>1. left \in [rx: Nat, tx: Nat]
    BY DEF TxInv, TxTypes
  <2>2. CASE \E size \in RxSizes : FrameArrives(size)
    <3>1. UNCHANGED txs /\ left.rx > 0 /\ left' = [left EXCEPT !.rx = @ - 1]
      BY <2>2 DEF FrameArrives
    <3> QED BY <2>1, <3>1, SendingSideKept
  <2>3. CASE CardTakes
    BY <2>3, CardTakesKeeps
  <2>4. CASE \E i \in 0 .. 3 : CardSends(i)
    BY <2>4, CardSendsKeeps DEF Slots
  <2>5. CASE Poll
    <3>1. UNCHANGED txs /\ left' = left
      BY <2>5 DEF Poll, ReceiveNothing, Receive, vars
    <3> QED BY <2>1, <3>1, SendingSideKept
  <2>6. CASE InitAgain
    BY <2>6, InitAgainKeeps
  <2>7. CASE WaitOwn
    BY <2>7, WaitOwnKeeps
  <2>8. CASE WaitTok
    BY <2>8, WaitTokKeeps
  <2>9. CASE \E size \in TxSizes : Send(size)
    BY <2>9, SendKeeps
  <2>10. CASE UNCHANGED vars
    BY <2>1, <2>10, SendingSideKept DEF vars
  <2> QED BY <2>2, <2>3, <2>4, <2>5, <2>6, <2>7, <2>8, <2>9, <2>10 DEF Next, Card, Driver
<1>3. TxInv => SentIntact
  BY DEF TxInv
<1> QED BY <1>1, <1>2, <1>3, PTL DEF Spec

-------------------------------------------------------------------------------
(* The receive ring.  The frames not yet read lie between the driver's offset *)
(* and the card's; a place is known by how far around the ring it lies from   *)
(* the driver's offset, and no frame reaches that far around.                 *)

Starts == {p \in 0 .. RingSize - 1 : p % 4 = 0}
RxFrames == [id: Nat, size: RxSizes, at: Starts]
Occupied(frame) == Align(HeaderSize + frame.size + CrcSize)
Gap(p) == IF p >= rxOffset THEN p - rxOffset ELSE p - rxOffset + RingSize

RxTypes ==
  /\ left \in [rx: Nat, tx: Nat] /\ rxOffset \in Starts /\ cbr \in Starts
  /\ unread \in Seq(RxFrames)
Chained ==
  /\ capr = Capr(rxOffset) /\ Begin(1) = rxOffset
  /\ \A k \in 1 .. Len(unread) : Begin(k + 1) = After(unread[k])
Apart ==
  \A k \in 1 .. Len(unread) : \A j \in k + 1 .. Len(unread) + 1 :
    Gap(unread[k].at) + Occupied(unread[k]) <= Gap(Begin(j))
LiesWhole(frame, memory) ==
  /\ memory[frame.at] = Header(frame.size + CrcSize)
  /\ \A i \in 1 .. frame.size : memory[frame.at + HeaderSize + i - 1] = <<frame.id, i>>
UnreadWhole == \A k \in 1 .. Len(unread) : LiesWhole(unread[k], ring)

RxInv == RxTypes /\ Chained /\ Apart /\ UnreadWhole /\ DeliveredIntact

-------------------------------------------------------------------------------
(* Counting around the ring. *)

LEMMA NoWrap ==
  ASSUME NEW size \in Nat \ {0}, NEW x \in Nat, x < size
  PROVE  x % size = x
OBVIOUS

LEMMA OneWrap ==
  ASSUME NEW size \in Nat \ {0}, NEW x \in Nat, size <= x, x < 2 * size
  PROVE  x % size = x - size
OBVIOUS

LEMMA Around ==
  ASSUME NEW size \in Nat \ {0}, NEW a \in Nat, NEW b \in Nat, a < size, b < size
  PROVE  (a + b) % size = IF a + b < size THEN a + b ELSE a + b - size
<1>1. CASE a + b < size
  BY <1>1, NoWrap
<1>2. CASE a + b >= size
  <2>1. PICK sum \in Nat : sum = a + b
    OBVIOUS
  <2>2. size <= sum /\ sum < 2 * size
    BY <1>2, <2>1
  <2>3. sum % size = sum - size
    BY <2>2, OneWrap
  <2> QED BY <2>1, <2>2, <2>3
<1> QED BY <1>1, <1>2

LEMMA AlignIs ==
  ASSUME NEW x \in Nat
  PROVE  Align(x) \in Nat /\ Align(x) >= x /\ Align(x) <= x + 3 /\ Align(x) % 4 = 0
BY DEF Align

LEMMA AlignBehind ==
  ASSUME NEW p \in Nat, NEW x \in Nat, p % 4 = 0
  PROVE  Align(p + x) = p + Align(x)
BY DEF Align

LEMMA Size ==
  /\ RingSize \in Nat \ {0} /\ RingSize % 4 = 0 /\ RingSize <= 65536
  /\ Mtu \in Nat /\ Spill \in Nat /\ MaxLength \in Nat
<1>1. RingSize \in Nat \ {0} /\ 65536 % RingSize = 0
  BY RingAssumption
<1>2. RingSize <= 65536
  BY <1>1
<1> QED BY <1>1, <1>2, RingAssumption

(* The register lags behind by 16 bytes and counts to 65536. *)
LEMMA RegisterIsOffset ==
  ASSUME NEW offset \in 0 .. RingSize - 1
  PROVE  ((Capr(offset) + 16) % 65536) % RingSize = offset
<1>1. offset \in Nat /\ offset < 65536
  <2>1. RingSize \in Nat /\ RingSize <= 65536
    BY Size
  <2>2. offset \in Nat /\ offset < RingSize
    BY <2>1
  <2> QED BY <2>1, <2>2
<1>2. (Capr(offset) + 16) % 65536 = offset
  <2>1. CASE offset < 16
    <3>1. Capr(offset) = offset + 65520
      BY <1>1, <2>1 DEF Capr
    <3> QED BY <1>1, <3>1
  <2>2. CASE offset >= 16
    <3>1. Capr(offset) = offset - 16
      BY <1>1, <2>2 DEF Capr
    <3>2. Capr(offset) + 16 = offset
      BY <1>1, <3>1
    <3>3. offset % 65536 = offset
      BY <1>1
    <3> QED BY <3>2, <3>3
  <2> QED BY <1>1, <2>1, <2>2
<1> QED BY <1>2, Size, NoWrap

LEMMA ReadIsOffset ==
  ASSUME RxInv
  PROVE  CardRead = rxOffset
BY RegisterIsOffset DEF RxInv, RxTypes, Chained, Starts, CardRead

(* A frame takes a part of the ring, and the next one begins where it ends. *)
LEMMA RingFrame ==
  ASSUME NEW frame \in RxFrames
  PROVE  /\ frame.size \in Nat \ {0} /\ frame.id \in Nat /\ frame.at \in Starts
         /\ frame.size + CrcSize <= MaxLength /\ frame.size + CrcSize <= Spill
         /\ Occupied(frame) \in 1 .. RingSize - 1 /\ Occupied(frame) >= frame.size + 8
         /\ After(frame) \in Starts
         /\ After(frame) = IF frame.at + Occupied(frame) < RingSize THEN frame.at + Occupied(frame)
                           ELSE frame.at + Occupied(frame) - RingSize
<1> DEFINE bytes == HeaderSize + frame.size + CrcSize
           used == Occupied(frame)
<1>1. /\ frame.size \in Nat \ {0} /\ frame.id \in Nat /\ frame.at \in Starts
      /\ frame.size + CrcSize <= MaxLength /\ frame.size + CrcSize <= Spill
      /\ Align(frame.size + HeaderSize + CrcSize) < RingSize
  BY RingAssumption DEF RxFrames
<1>2. bytes \in Nat /\ bytes = frame.size + 8 /\ bytes = frame.size + HeaderSize + CrcSize
  BY <1>1 DEF HeaderSize, CrcSize
<1>3. used = Align(bytes) /\ used < RingSize
  BY <1>1, <1>2 DEF Occupied
<1>4. used \in Nat /\ used >= bytes /\ used % 4 = 0
  BY <1>2, <1>3, AlignIs
<1>5. frame.at \in Nat /\ frame.at < RingSize /\ frame.at % 4 = 0 /\ RingSize \in Nat \ {0} /\ RingSize % 4 = 0
  BY <1>1, Size DEF Starts
<1>6. After(frame) = (frame.at + used) % RingSize
  <2>1. frame.at + HeaderSize + frame.size + CrcSize = frame.at + bytes
    BY <1>1, <1>5 DEF HeaderSize, CrcSize
  <2>2. Align(frame.at + bytes) = frame.at + used
    BY <1>2, <1>3, <1>5, AlignBehind
  <2> QED BY <2>1, <2>2 DEF After
<1> HIDE DEF bytes, used
<1>7. After(frame) = IF frame.at + used < RingSize THEN frame.at + used ELSE frame.at + used - RingSize
  BY <1>3, <1>4, <1>5, <1>6, Around
<1>8. After(frame) \in Starts
  <2> PICK a, u \in Nat : a = frame.at /\ u = used
    BY <1>4, <1>5
  <2>1. CASE a + u < RingSize
    BY <1>4, <1>5, <1>7, <2>1 DEF Starts
  <2>2. CASE a + u >= RingSize
    <3>1. (a + u - RingSize) % 4 = 0 /\ a + u - RingSize \in 0 .. RingSize - 1
      BY <1>3, <1>4, <1>5, <2>2
    <3> QED BY <1>4, <1>5, <1>7, <2>2, <3>1 DEF Starts
  <2> QED BY <1>5, <2>1, <2>2
<1>9. used \in 1 .. RingSize - 1 /\ used >= frame.size + 8
  BY <1>1, <1>2, <1>3, <1>4, <1>5
<1> QED BY <1>1, <1>7, <1>8, <1>9 DEF used

(* Two parts of the ring that lie one behind the other share no byte of the  *)
(* memory, the one behind the ring included.                                 *)
LEMMA PartsApart ==
  ASSUME NEW ringSize \in Nat, NEW offset \in 0 .. ringSize - 1, NEW p \in 0 .. ringSize - 1, NEW q \in 0 .. ringSize - 1,
         NEW u \in Nat, NEW v \in Nat,
         (IF p >= offset THEN p - offset ELSE p - offset + ringSize) + u
           <= (IF q >= offset THEN q - offset ELSE q - offset + ringSize),
         (IF q >= offset THEN q - offset ELSE q - offset + ringSize) + v <= ringSize,
         NEW x \in 0 .. u - 1, NEW y \in 0 .. v - 1
  PROVE  p + x # q + y
OBVIOUS

LEMMA GapIs ==
  ASSUME RxTypes, NEW p \in Starts
  PROVE  Gap(p) \in 0 .. RingSize - 1
BY Size DEF RxTypes, Starts, Gap

(* What lies untouched still lies whole. *)
LEMMA StillWhole ==
  ASSUME NEW frame \in RxFrames, NEW old, NEW new, LiesWhole(frame, old),
         \A x \in 0 .. frame.size + 7 : new[frame.at + x] = old[frame.at + x]
  PROVE  LiesWhole(frame, new)
<1>1. frame.size \in Nat /\ frame.at \in Nat
  BY RingFrame, Size DEF Starts
<1>2. new[frame.at] = old[frame.at]
  <2>1. 0 \in 0 .. frame.size + 7 /\ frame.at + 0 = frame.at
    BY <1>1
  <2> QED BY <2>1
<1>3. ASSUME NEW i \in 1 .. frame.size
      PROVE  new[frame.at + HeaderSize + i - 1] = old[frame.at + HeaderSize + i - 1]
  <2>1. PICK x \in Nat : x = HeaderSize + i - 1
    BY DEF HeaderSize
  <2>2. x \in 0 .. frame.size + 7 /\ frame.at + HeaderSize + i - 1 = frame.at + x
    BY <1>1, <2>1 DEF HeaderSize
  <2> QED BY <2>2
<1> QED BY <1>2, <1>3 DEF LiesWhole

(* What the card stores lies whole where it wrote next, and the rest of the  *)
(* memory is as it was.                                                      *)
LEMMA StoredLies ==
  ASSUME NEW frame \in RxFrames, frame.at = cbr
  PROVE  /\ LiesWhole(frame, Stored(frame))
         /\ \A a \in Memory : (\A x \in 0 .. Occupied(frame) - 1 : a # cbr + x) => Stored(frame)[a] = ring[a]
<1>1. /\ frame.size \in Nat \ {0} /\ cbr \in Nat /\ cbr % 4 = 0 /\ cbr < RingSize /\ RingSize % 4 = 0
      /\ frame.size + CrcSize <= Spill /\ RingSize \in Nat /\ Spill \in Nat
      /\ Occupied(frame) \in Nat /\ Occupied(frame) >= frame.size + 8
  BY RingFrame, Size DEF Starts
<1>2. cbr + 4 <= RingSize
  BY <1>1
<1>3. cbr + HeaderSize = cbr + 4 /\ cbr + HeaderSize + frame.size + CrcSize = cbr + frame.size + 8
  BY <1>1 DEF HeaderSize, CrcSize
<1>4. \A a \in Memory : Stored(frame)[a] =
        CASE a = cbr -> Header(frame.size + CrcSize)
          [] a \in cbr + 1 .. cbr + 3 -> Header(0)
          [] a \in cbr + 4 .. cbr + frame.size + 7 -> Cell(frame, a - (cbr + 4) + 1)
          [] OTHER -> ring[a]
  BY <1>1, <1>3 DEF Stored
<1>5. LiesWhole(frame, Stored(frame))
  <2>1. cbr \in Memory
    BY <1>1 DEF Memory
  <2>2. ASSUME NEW i \in 1 .. frame.size
        PROVE  Stored(frame)[cbr + HeaderSize + i - 1] = <<frame.id, i>>
    <3>1. PICK a \in Nat : a = cbr + HeaderSize + i - 1
      BY <1>1 DEF HeaderSize
    <3>2. /\ a = cbr + 3 + i /\ a \in Memory /\ a # cbr /\ a \notin cbr + 1 .. cbr + 3
          /\ a \in cbr + 4 .. cbr + frame.size + 7 /\ a - (cbr + 4) + 1 = i
      BY <1>1, <1>2, <3>1 DEF Memory, HeaderSize, CrcSize
    <3>3. Stored(frame)[a] = Cell(frame, i)
      BY <1>4, <3>2
    <3> QED BY <3>1, <3>3 DEF Cell
  <2> QED BY <1>4, <2>1, <2>2 DEF LiesWhole
<1>6. ASSUME NEW a \in Memory, \A x \in 0 .. Occupied(frame) - 1 : a # cbr + x
      PROVE  Stored(frame)[a] = ring[a]
  <2>1. a \in Nat
    BY <1>1 DEF Memory
  <2>2. a \notin cbr .. cbr + frame.size + 7
    <3> SUFFICES ASSUME a \in cbr .. cbr + frame.size + 7  PROVE FALSE
      OBVIOUS
    <3>1. a - cbr \in 0 .. Occupied(frame) - 1 /\ a = cbr + (a - cbr)
      BY <1>1, <2>1
    <3> QED BY <1>6, <3>1
  <2>3. a # cbr /\ a \notin cbr + 1 .. cbr + 3 /\ a \notin cbr + 4 .. cbr + frame.size + 7
    BY <1>1, <2>1, <2>2
  <2> QED BY <1>4, <2>3
<1> QED BY <1>5, <1>6

(* A frame that fits does not reach around the ring to the driver's offset.   *)
LEMMA FitsBefore ==
  ASSUME RxInv, NEW size \in RxSizes, Fits(size), NEW frame \in RxFrames, frame.size = size
  PROVE  Gap(cbr) + Occupied(frame) < RingSize
<1>1. /\ Gap(cbr) \in 0 .. RingSize - 1 /\ RingSize \in Nat \ {0}
      /\ Occupied(frame) \in 1 .. RingSize - 1
      /\ rxOffset \in Nat /\ cbr \in Nat /\ rxOffset < RingSize /\ cbr < RingSize
  <2>1. RxTypes
    BY DEF RxInv
  <2>2. Gap(cbr) \in 0 .. RingSize - 1
    BY <2>1, GapIs DEF RxTypes
  <2> QED BY <2>1, <2>2, RingFrame, Size DEF RxTypes, Starts
<1>2. Occupied(frame) = Align(size + HeaderSize + CrcSize)
  <2>1. size \in Nat
    BY RingFrame
  <2>2. HeaderSize + size + CrcSize = size + HeaderSize + CrcSize
    BY <2>1 DEF HeaderSize, CrcSize
  <2> QED BY <2>2 DEF Occupied
<1>3. CardRead = rxOffset
  BY ReadIsOffset
<1>4. CASE BufferEmpty
  <2>1. Gap(cbr) = 0
    BY <1>1, <1>3, <1>4 DEF BufferEmpty, Gap
  <2> QED BY <1>1, <2>1
<1>5. CASE Occupied(frame) < Room
  <2>1. Room = (RingSize + rxOffset - cbr) % RingSize
    BY <1>3 DEF Room
  <2>2. CASE rxOffset = cbr
    <3>1. Gap(cbr) = 0
      BY <1>1, <2>2 DEF Gap
    <3> QED BY <1>1, <3>1
  <2>3. CASE rxOffset < cbr
    <3>1. PICK x \in Nat : x = RingSize + rxOffset - cbr /\ x < RingSize
      BY <1>1, <2>3
    <3>2. Room = x
      BY <1>1, <2>1, <3>1, NoWrap
    <3>3. Gap(cbr) = cbr - rxOffset
      BY <1>1, <2>3 DEF Gap
    <3> QED BY <1>1, <1>5, <3>1, <3>2, <3>3
  <2>4. CASE rxOffset > cbr
    <3>1. PICK x \in Nat : x = RingSize + rxOffset - cbr /\ RingSize <= x /\ x < 2 * RingSize
      BY <1>1, <2>4
    <3>2. Room = x - RingSize
      BY <1>1, <2>1, <3>1, OneWrap
    <3>3. Gap(cbr) = cbr - rxOffset + RingSize
      BY <1>1, <2>4 DEF Gap
    <3> QED BY <1>1, <1>5, <3>1, <3>2, <3>3
  <2> QED BY <1>1, <2>2, <2>3, <2>4
<1> QED BY <1>2, <1>4, <1>5 DEF Fits

(* The next frame begins as much farther around the ring as this one takes. *)
LEMMA GapAfter ==
  ASSUME RxTypes, NEW frame \in RxFrames, Gap(frame.at) + Occupied(frame) < RingSize
  PROVE  Gap(After(frame)) = Gap(frame.at) + Occupied(frame)
<1>1. /\ frame.at \in 0 .. RingSize - 1 /\ rxOffset \in 0 .. RingSize - 1 /\ RingSize \in Nat
      /\ Occupied(frame) \in Nat
  BY RingFrame, Size DEF RxTypes, Starts
<1>2. After(frame) = IF frame.at + Occupied(frame) < RingSize THEN frame.at + Occupied(frame)
                     ELSE frame.at + Occupied(frame) - RingSize
  BY RingFrame
<1>3. PICK a, u \in Nat : a = frame.at /\ u = Occupied(frame)
  BY <1>1
<1>4. (IF a >= rxOffset THEN a - rxOffset ELSE a - rxOffset + RingSize) + u < RingSize
  BY <1>3 DEF Gap
<1>5. PICK b : b = After(frame)
  OBVIOUS
<1>6. b = IF a + u < RingSize THEN a + u ELSE a + u - RingSize
  BY <1>2, <1>3, <1>5
<1>7. (IF b >= rxOffset THEN b - rxOffset ELSE b - rxOffset + RingSize)
        = (IF a >= rxOffset THEN a - rxOffset ELSE a - rxOffset + RingSize) + u
  BY <1>1, <1>3, <1>4, <1>6
<1> QED BY <1>3, <1>5, <1>7 DEF Gap

(* The bytes of a frame and its header are memory. *)
LEMMA InMemory ==
  ASSUME NEW frame \in RxFrames, NEW x \in 0 .. frame.size + 7
  PROVE  frame.at + x \in Memory /\ x \in 0 .. Occupied(frame) - 1
<1>1. /\ frame.size \in Nat /\ frame.at \in Nat /\ frame.at % 4 = 0 /\ frame.at < RingSize /\ RingSize % 4 = 0
      /\ frame.size + CrcSize <= Spill /\ RingSize \in Nat /\ Spill \in Nat
      /\ Occupied(frame) \in Nat /\ Occupied(frame) >= frame.size + 8
  <2>1. /\ frame.size \in Nat \ {0} /\ frame.at \in Starts /\ frame.size + CrcSize <= Spill
        /\ Occupied(frame) \in 1 .. RingSize - 1 /\ Occupied(frame) >= frame.size + 8
    BY RingFrame
  <2> QED BY <2>1, Size DEF Starts
<1>2. frame.at + 4 <= RingSize
  BY <1>1
<1> QED BY <1>1, <1>2 DEF Memory, CrcSize

LEMMA ApartInMemory ==
  ASSUME RxTypes, NEW old \in RxFrames, NEW frame \in RxFrames, frame.at = cbr,
         Gap(old.at) + Occupied(old) <= Gap(cbr), Gap(cbr) + Occupied(frame) < RingSize
  PROVE  \A x \in 0 .. Occupied(old) - 1, y \in 0 .. Occupied(frame) - 1 : old.at + x # cbr + y
<1>1. /\ old.at \in 0 .. RingSize - 1 /\ cbr \in 0 .. RingSize - 1 /\ rxOffset \in 0 .. RingSize - 1
      /\ RingSize \in Nat /\ Occupied(old) \in Nat /\ Occupied(frame) \in Nat
  BY RingFrame, Size DEF RxTypes, Starts
<1>2. Gap(cbr) \in Nat /\ Gap(cbr) + Occupied(frame) <= RingSize
  <2>1. Gap(cbr) \in Nat
    BY <1>1 DEF Gap
  <2> QED BY <1>1, <2>1
<1> QED BY <1>1, <1>2, PartsApart DEF Gap

-------------------------------------------------------------------------------
(* One lemma per action of the receiving side. *)

LEMMA ReceivingSideKept ==
  ASSUME RxInv, UNCHANGED rx, left' \in [rx: Nat, tx: Nat]
  PROVE  RxInv'
<1>1. /\ ring' = ring /\ rxOffset' = rxOffset /\ capr' = capr /\ cbr' = cbr /\ unread' = unread /\ got' = got
  BY DEF rx
<1>2. RxTypes' /\ UnreadWhole' /\ DeliveredIntact'
  BY <1>1 DEF RxInv, RxTypes, UnreadWhole, DeliveredIntact
<1>3. Chained'
  BY <1>1 DEF RxInv, Chained, Begin
<1>4. Apart'
  BY <1>1 DEF RxInv, Apart, Begin, Gap
<1> QED BY <1>2, <1>3, <1>4 DEF RxInv

(* An empty ring. *)
LEMMA EmptyRing ==
  ASSUME rxOffset = 0, capr = 65536 - 16, cbr = 0, unread = <<>>, left \in [rx: Nat, tx: Nat]
  PROVE  RxTypes /\ Chained /\ Apart /\ UnreadWhole
<1>1. Len(unread) = 0
  OBVIOUS
<1>2. RxTypes
  <2>1. 0 \in Starts
    BY Size DEF Starts
  <2>2. <<>> \in Seq(RxFrames)
    OBVIOUS
  <2> QED BY <2>1, <2>2 DEF RxTypes
<1>3. Chained
  <2>1. Capr(0) = 65536 - 16
    BY DEF Capr
  <2> QED BY <1>1, <2>1 DEF Chained, Begin
<1>4. Apart /\ UnreadWhole
  BY <1>1 DEF Apart, UnreadWhole
<1> QED BY <1>2, <1>3, <1>4

LEMMA StartsAgain ==
  ASSUME RxInv, InitAgain
  PROVE  RxInv'
<1>1. /\ rxOffset' = 0 /\ capr' = 65536 - 16 /\ cbr' = 0 /\ unread' = <<>> /\ left' = left /\ got' = got
  BY DEF InitAgain
<1>2. left' \in [rx: Nat, tx: Nat]
  BY <1>1 DEF RxInv, RxTypes
<1>3. (rxOffset = 0 /\ capr = 65536 - 16 /\ cbr = 0 /\ unread = <<>> /\ left \in [rx: Nat, tx: Nat])
        => RxTypes /\ Chained /\ Apart /\ UnreadWhole
  BY EmptyRing
<1>4. (rxOffset' = 0 /\ capr' = 65536 - 16 /\ cbr' = 0 /\ unread' = <<>> /\ left' \in [rx: Nat, tx: Nat])
        => RxTypes' /\ Chained' /\ Apart' /\ UnreadWhole'
  <2>1. Len(<<>>) = 0 /\ <<>> \in Seq(RxFrames) /\ Capr(0) = 65536 - 16
    BY DEF Capr
  <2>2. 0 \in Starts
    BY Size DEF Starts
  <2> QED BY <2>1, <2>2 DEF RxTypes, Chained, Apart, UnreadWhole, Begin
<1>5. DeliveredIntact'
  BY <1>1 DEF RxInv, DeliveredIntact
<1> QED BY <1>1, <1>2, <1>4, <1>5 DEF RxInv

(* A frame comes in: it is the last one, and touches none before it. *)
LEMMA ArrivalKeeps ==
  ASSUME RxInv, NEW size \in RxSizes, FrameArrives(size)
  PROVE  RxInv'
<1>0. PICK m : m = Len(unread)
  OBVIOUS
<1>1. /\ left.rx > 0 /\ left' = [left EXCEPT !.rx = @ - 1] /\ rxOffset' = rxOffset /\ capr' = capr /\ got' = got
  BY DEF FrameArrives
<1>2. left' \in [rx: Nat, tx: Nat]
  BY <1>1 DEF RxInv, RxTypes
<1>3. CASE ~Fits(size)
  <2>1. UNCHANGED rx
    BY <1>1, <1>3 DEF FrameArrives, rx
  <2> QED BY <1>2, <2>1, ReceivingSideKept
<1>4. CASE Fits(size)
  <2> DEFINE frame == StoredFrame(Frame(left.rx, size), cbr)
  <2>1. /\ ring' = Stored(Frame(left.rx, size)) /\ unread' = Append(unread, frame)
        /\ cbr' = Align(cbr + HeaderSize + size + CrcSize) % RingSize
    BY <1>4 DEF FrameArrives
  <2>2. /\ unread \in Seq(RxFrames) /\ m \in Nat /\ rxOffset \in Starts /\ cbr \in Starts /\ RxTypes
        /\ left.rx \in Nat
    BY <1>0 DEF RxInv, RxTypes
  <2>3. frame \in RxFrames /\ frame.at = cbr /\ frame.size = size
    BY <2>2 DEF StoredFrame, Frame, RxFrames
  <2>4. ring' = Stored(frame) /\ cbr' = After(frame)
    BY <2>1 DEF Stored, Cell, StoredFrame, Frame, After
  <2> HIDE DEF frame
  <2>5. /\ Gap(cbr) + Occupied(frame) < RingSize
        /\ Gap(cbr') = Gap(cbr) + Occupied(frame) /\ cbr' \in Starts
    BY <1>4, <2>2, <2>3, <2>4, FitsBefore, GapAfter, RingFrame
  <2>6. /\ Len(unread') = m + 1 /\ unread'[m + 1] = frame /\ \A k \in 1 .. m : unread'[k] = unread[k]
        /\ unread' \in Seq(RxFrames)
    BY <1>0, <2>1, <2>2, <2>3
  <2>7. \A p : Gap(p)' = Gap(p)
    BY <1>1 DEF Gap
  <2>8. /\ \A k \in 1 .. m + 1 : Begin(k)' = Begin(k)
        /\ Begin(m + 1) = cbr /\ Begin(m + 2)' = cbr'
    <3>1. ASSUME NEW k \in 1 .. m  PROVE Begin(k)' = Begin(k)
      BY <1>0, <2>2, <2>6 DEF Begin
    <3>2. Begin(m + 1) = cbr /\ Begin(m + 1)' = frame.at /\ Begin(m + 2)' = cbr'
      BY <1>0, <2>2, <2>6 DEF Begin
    <3> QED BY <2>2, <2>3, <3>1, <3>2
  <2>9. \A k \in 1 .. m : unread[k] \in RxFrames /\ Gap(unread[k].at) + Occupied(unread[k]) <= Gap(cbr)
    <3>1. \A k \in 1 .. m : m + 1 \in k + 1 .. m + 1
      BY <2>2
    <3> QED BY <1>0, <2>2, <2>8, <3>1 DEF RxInv, Apart
  <2>10. RxTypes'
    BY <1>1, <1>2, <2>2, <2>5, <2>6 DEF RxTypes
  <2>11. Chained'
    <3>1. Begin(1)' = rxOffset'
      BY <1>1, <2>2, <2>8 DEF RxInv, Chained
    <3>2. ASSUME NEW k \in 1 .. m + 1  PROVE Begin(k + 1)' = After(unread'[k])
      <4>1. CASE k = m + 1
        BY <2>2, <2>4, <2>6, <2>8, <4>1
      <4>2. CASE k \in 1 .. m
        <5>1. k + 1 \in 1 .. m + 1
          BY <2>2, <4>2
        <5> QED BY <1>0, <2>6, <2>8, <4>2, <5>1 DEF RxInv, Chained
      <4> QED BY <2>2, <4>1, <4>2
    <3> QED BY <1>1, <2>6, <3>1, <3>2 DEF RxInv, Chained, After
  <2>12. Apart'
    <3> SUFFICES ASSUME NEW k \in 1 .. m + 1, NEW j \in k + 1 .. m + 2
                 PROVE  Gap(unread'[k].at) + Occupied(unread'[k]) <= Gap(Begin(j)')
      <4>1. Len(unread') + 1 = m + 2
        BY <2>2, <2>6
      <4> QED BY <2>6, <2>7, <4>1 DEF Apart
    <3>1. CASE k = m + 1
      <4>1. j = m + 2
        BY <2>2, <3>1
      <4>2. /\ Begin(j)' = cbr' /\ unread'[k] = frame
        BY <2>6, <2>8, <3>1, <4>1
      <4>3. Gap(cbr) + Occupied(frame) \in Int
        <5>1. Gap(cbr) \in Int /\ Occupied(frame) \in Int
          BY <2>2, <2>3, GapIs, RingFrame, Size
        <5> QED BY <5>1
      <4> QED BY <2>3, <2>5, <4>2, <4>3
    <3>2. CASE k \in 1 .. m /\ j = m + 2
      <4>1. /\ Gap(unread[k].at) \in Nat /\ Occupied(unread[k]) \in Nat /\ Gap(cbr) \in Nat /\ Occupied(frame) \in Nat
        <5>1. unread[k] \in RxFrames
          BY <2>9, <3>2
        <5>2. unread[k].at \in Starts /\ Occupied(unread[k]) \in Nat
          BY <5>1, RingFrame, Size
        <5>3. Occupied(frame) \in Nat
          BY <2>3, RingFrame, Size
        <5> QED BY <2>2, <5>2, <5>3, GapIs, Size
      <4>2. Gap(unread[k].at) + Occupied(unread[k]) <= Gap(cbr)
        BY <2>9, <3>2
      <4>3. Gap(unread[k].at) + Occupied(unread[k]) <= Gap(cbr')
        BY <2>5, <4>1, <4>2
      <4> QED BY <2>6, <2>8, <3>2, <4>3
    <3>3. CASE k \in 1 .. m /\ j \in k + 1 .. m + 1
      <4>1. j \in 1 .. m + 1
        BY <2>2, <3>3
      <4> QED BY <1>0, <2>6, <2>8, <3>3, <4>1 DEF RxInv, Apart
    <3> QED BY <2>2, <3>1, <3>2, <3>3
  <2>13. UnreadWhole'
    <3>1. /\ LiesWhole(frame, Stored(frame))
          /\ \A a \in Memory : (\A x \in 0 .. Occupied(frame) - 1 : a # cbr + x) => Stored(frame)[a] = ring[a]
      BY <2>3, StoredLies
    <3>2. ASSUME NEW k \in 1 .. m  PROVE LiesWhole(unread[k], ring')
      <4>1. PICK old : old = unread[k]
        OBVIOUS
      <4>2. /\ old \in RxFrames /\ LiesWhole(old, ring) /\ Gap(old.at) + Occupied(old) <= Gap(cbr)
        BY <1>0, <2>9, <4>1 DEF RxInv, UnreadWhole
      <4>3. \A x \in 0 .. Occupied(old) - 1, y \in 0 .. Occupied(frame) - 1 : old.at + x # cbr + y
        BY <2>2, <2>3, <2>5, <4>2, ApartInMemory
      <4>4. ASSUME NEW x \in 0 .. old.size + 7
            PROVE  ring'[old.at + x] = ring[old.at + x]
        <5>1. old.at + x \in Memory /\ x \in 0 .. Occupied(old) - 1
          BY <4>2, InMemory
        <5> QED BY <2>4, <3>1, <4>3, <5>1
      <4> QED BY <4>1, <4>2, <4>4, StillWhole
    <3>3. ASSUME NEW k \in 1 .. m + 1  PROVE LiesWhole(unread'[k], ring')
      <4>1. CASE k = m + 1
        BY <2>4, <2>6, <3>1, <4>1
      <4>2. CASE k \in 1 .. m
        BY <2>6, <3>2, <4>2
      <4> QED BY <2>2, <4>1, <4>2
    <3> QED BY <2>6, <3>3 DEF UnreadWhole, LiesWhole
  <2>14. DeliveredIntact'
    BY <1>1 DEF RxInv, DeliveredIntact
  <2> QED BY <2>10, <2>11, <2>12, <2>13, <2>14 DEF RxInv
<1> QED BY <1>3, <1>4

(* What is taken out of the ring makes every other frame lie that much less   *)
(* far around it.                                                             *)
LEMMA GapBehind ==
  ASSUME RxTypes, NEW frame \in RxFrames, frame.at = rxOffset, rxOffset' = After(frame),
         NEW p \in Starts, Occupied(frame) <= Gap(p)
  PROVE  Gap(p)' = Gap(p) - Occupied(frame)
<1>1. /\ rxOffset \in 0 .. RingSize - 1 /\ p \in 0 .. RingSize - 1 /\ RingSize \in Nat
      /\ Occupied(frame) \in 1 .. RingSize - 1
  BY RingFrame, Size DEF RxTypes, Starts
<1>2. rxOffset' = IF rxOffset + Occupied(frame) < RingSize THEN rxOffset + Occupied(frame)
                  ELSE rxOffset + Occupied(frame) - RingSize
  BY RingFrame
<1>3. PICK a, b, u : a = rxOffset /\ b = rxOffset' /\ u = Occupied(frame)
  OBVIOUS
<1>4. /\ a \in 0 .. RingSize - 1 /\ u \in 1 .. RingSize - 1
      /\ b = IF a + u < RingSize THEN a + u ELSE a + u - RingSize
      /\ u <= IF p >= a THEN p - a ELSE p - a + RingSize
  BY <1>1, <1>2, <1>3 DEF Gap
<1>5. (IF p >= b THEN p - b ELSE p - b + RingSize) = (IF p >= a THEN p - a ELSE p - a + RingSize) - u
  BY <1>1, <1>4
<1> QED BY <1>3, <1>5 DEF Gap

(* What is taken out is the oldest frame, as long as it does not reach the    *)
(* end of the ring.                                                           *)
LEMMA ReadIsFrame ==
  ASSUME NEW frame \in RxFrames, LiesWhole(frame, ring), frame.at = rxOffset
  PROVE  Crosses(frame) \/ ReadFrame(Mtu) = Up(frame, Mtu)
<1> SUFFICES ASSUME ~Crosses(frame)  PROVE ReadFrame(Mtu) = Up(frame, Mtu)
  OBVIOUS
<1>1. /\ frame.size \in Nat \ {0} /\ rxOffset \in Nat /\ RingSize \in Nat \ {0} /\ Mtu \in Nat
      /\ rxOffset + 4 + frame.size <= RingSize
  <2>1. frame.size \in Nat \ {0} /\ frame.at \in Nat
    BY RingFrame DEF Starts
  <2>2. frame.at + 4 + frame.size <= RingSize
    BY <2>1, Size DEF Crosses, HeaderSize
  <2> QED BY <2>1, <2>2, Size
<1>2. Length - CrcSize = frame.size
  <2>1. Length = frame.size + CrcSize
    BY DEF Length, LiesWhole, Header
  <2> QED BY <1>1, <2>1 DEF CrcSize
<1>3. PICK n \in Nat : n = IF frame.size < Mtu THEN frame.size ELSE Mtu
  BY <1>1
<1>4. n <= frame.size
  BY <1>1, <1>3
<1>5. ReadFrame(Mtu) = [i \in 1 .. n |-> DataAt(i)]
  BY <1>2, <1>3 DEF ReadFrame
<1>6. ASSUME NEW i \in 1 .. n  PROVE DataAt(i) = <<frame.id, i>>
  <2>1. PICK x \in Nat : x = rxOffset + HeaderSize + i - 1
    BY <1>1 DEF HeaderSize
  <2>2. x < RingSize
    BY <1>1, <1>3, <1>4, <2>1 DEF HeaderSize
  <2>3. x % RingSize = x
    BY <1>1, <2>2, NoWrap
  <2>4. i \in 1 .. frame.size
    BY <1>1, <1>4
  <2> QED BY <2>1, <2>3, <2>4 DEF DataAt, LiesWhole
<1>7. Up(frame, Mtu) = [i \in 1 .. n |-> <<frame.id, i>>]
  <2>1. Bytes(frame) = [i \in 1 .. frame.size |-> <<frame.id, i>>]
    BY DEF Bytes
  <2>2. Up(frame, Mtu) = SubSeq(Bytes(frame), 1, n)
    BY <1>3 DEF Up
  <2> QED BY <1>1, <1>4, <2>1, <2>2
<1> QED BY <1>5, <1>6, <1>7

(* The driver takes a frame: it reads a header where the oldest one begins.   *)
LEMMA ReceiveKeeps ==
  ASSUME RxInv, Receive
  PROVE  RxInv'
<1>0. PICK m : m = Len(unread)
  OBVIOUS
<1>1. /\ unread \in Seq(RxFrames) /\ m \in Nat /\ rxOffset \in Starts /\ cbr \in Starts /\ RxTypes
      /\ left \in [rx: Nat, tx: Nat]
  BY <1>0 DEF RxInv, RxTypes
<1>2. /\ ~BufferEmpty /\ cbr' = cbr /\ ring' = ring /\ left' = left /\ capr' = Capr(rxOffset')
  BY DEF Receive
<1>3. m \in 1 .. m
  <2>1. CardRead = rxOffset /\ rxOffset # cbr
    BY <1>2, ReadIsOffset DEF BufferEmpty
  <2>2. m # 0
    BY <1>0, <2>1 DEF RxInv, Chained, Begin
  <2> QED BY <1>1, <2>2
<1>4. PICK frame : frame = unread[1]
  OBVIOUS
<1>5. frame \in RxFrames /\ Head(unread) = frame /\ unread # <<>> /\ frame.at = rxOffset
  BY <1>0, <1>1, <1>3, <1>4 DEF RxInv, Chained, Begin
<1>6. LiesWhole(frame, ring)
  BY <1>0, <1>1, <1>3, <1>4 DEF RxInv, UnreadWhole
<1>7. ring[rxOffset] = Header(frame.size + CrcSize) /\ Length = frame.size + CrcSize
  BY <1>5, <1>6 DEF LiesWhole, Header, Length
<1>8. HeaderOk
  <2>1. frame.size \in Nat \ {0} /\ frame.size + CrcSize <= MaxLength
    BY <1>5, RingFrame
  <2> QED BY <1>7, <2>1 DEF HeaderOk, Header, CrcSize
<1>9. /\ rxOffset' = NextOffset /\ unread' = SubSeq(unread, 2, Len(unread))
      /\ got' = [frame |-> frame, bytes |-> ReadFrame(Mtu)]
  BY <1>5, <1>8 DEF Receive
<1>10. rxOffset' = After(frame)
  <2>1. frame.size \in Nat /\ rxOffset \in Nat
    <3>1. frame.size \in Nat
      BY <1>5, RingFrame
    <3>2. rxOffset \in Nat
      BY <1>1, Size DEF Starts
    <3> QED BY <3>1, <3>2
  <2>2. rxOffset + Length + HeaderSize = rxOffset + HeaderSize + frame.size + CrcSize
    BY <1>7, <2>1 DEF HeaderSize, CrcSize
  <2> QED BY <1>5, <1>9, <2>2 DEF NextOffset, After
<1>11. /\ Len(unread') = m - 1 /\ \A k \in 1 .. m - 1 : unread'[k] = unread[k + 1]
       /\ unread' \in Seq(RxFrames)
  BY <1>0, <1>1, <1>3, <1>9
<1>12. \A k \in 1 .. m : Begin(k)' = Begin(k + 1)
  <2>1. ASSUME NEW k \in 1 .. m - 1  PROVE Begin(k)' = Begin(k + 1)
    <3>1. k + 1 \in 1 .. m
      BY <1>1
    <3> QED BY <1>0, <1>11, <3>1 DEF Begin
  <2>2. Begin(m)' = Begin(m + 1)
    <3>1. m \notin 1 .. m - 1 /\ m + 1 \notin 1 .. m
      BY <1>1
    <3> QED BY <1>0, <1>2, <1>11, <3>1 DEF Begin
  <2> QED BY <1>1, <2>1, <2>2
<1>13. RxTypes'
  BY <1>1, <1>2, <1>5, <1>10, <1>11, RingFrame DEF RxTypes
<1>14. Chained'
  <2>1. Begin(2) = After(frame)
    BY <1>0, <1>1, <1>3, <1>4 DEF RxInv, Chained
  <2>2. Begin(1)' = rxOffset'
    BY <1>1, <1>3, <1>10, <1>12, <2>1
  <2>3. ASSUME NEW k \in 1 .. m - 1  PROVE Begin(k + 1)' = After(unread'[k])
    <3>1. k + 1 \in 1 .. m
      BY <1>1
    <3>2. Begin((k + 1) + 1) = After(unread[k + 1])
      BY <1>0, <3>1 DEF RxInv, Chained
    <3> QED BY <1>11, <1>12, <3>1, <3>2
  <2> QED BY <1>2, <1>11, <2>2, <2>3 DEF Chained, After, Capr
<1>15. Apart'
  <2> SUFFICES ASSUME NEW k \in 1 .. m - 1, NEW j \in k + 1 .. m
               PROVE  Gap(unread[k].at)' + Occupied(unread'[k]) <= Gap(Begin(j))'
    BY <1>1, <1>11 DEF Apart
  <2>1. k + 1 \in 1 .. m /\ j + 1 \in (k + 1) + 1 .. m + 1 /\ j \in 1 .. m /\ k + 1 \in 1 + 1 .. m + 1
        /\ j + 1 \in 1 + 1 .. m + 1 /\ 1 \in 1 .. m /\ k \in 1 .. m
    BY <1>1
  <2>2. PICK f, p : f = unread[k + 1] /\ p = Begin(j + 1)
    OBVIOUS
  <2>3. f \in RxFrames /\ p \in Starts /\ f.at \in Starts /\ Begin(k + 1) = f.at
    <3>1. f \in RxFrames /\ Begin(k + 1) = f.at
      BY <1>0, <1>1, <2>1, <2>2 DEF Begin
    <3>2. p \in Starts
      BY <1>0, <1>1, <2>2, RingFrame DEF Begin
    <3> QED BY <3>1, <3>2, RingFrame
  <2>4. Gap(f.at) + Occupied(f) <= Gap(p)
    BY <1>0, <2>1, <2>2 DEF RxInv, Apart
  <2>5. Gap(frame.at) = 0
    <3>1. rxOffset \in Nat
      BY <1>1, Size DEF Starts
    <3> QED BY <1>5, <3>1 DEF Gap
  <2>6. Gap(frame.at) + Occupied(frame) <= Gap(f.at) /\ Gap(frame.at) + Occupied(frame) <= Gap(p)
    BY <1>0, <1>4, <2>1, <2>2, <2>3 DEF RxInv, Apart
  <2>7. /\ Occupied(frame) \in Nat /\ Occupied(f) \in Nat /\ Gap(f.at) \in Nat /\ Gap(p) \in Nat
    <3>1. Occupied(frame) \in Nat /\ Occupied(f) \in Nat
      BY <1>5, <2>3, RingFrame, Size
    <3>2. Gap(f.at) \in 0 .. RingSize - 1 /\ Gap(p) \in 0 .. RingSize - 1
      BY <1>1, <2>3, GapIs
    <3> QED BY <3>1, <3>2, Size
  <2>8. Occupied(frame) <= Gap(f.at) /\ Occupied(frame) <= Gap(p)
    BY <2>5, <2>6, <2>7
  <2>9. Gap(f.at)' = Gap(f.at) - Occupied(frame) /\ Gap(p)' = Gap(p) - Occupied(frame)
    BY <1>1, <1>5, <1>10, <2>3, <2>8, GapBehind
  <2>10. unread'[k] = f /\ Begin(j)' = p
    BY <1>11, <1>12, <2>1, <2>2
  <2>11. Gap(unread[k].at)' = Gap(f.at)' /\ Gap(Begin(j))' = Gap(p)'
    BY <2>10 DEF Gap
  <2> QED BY <2>4, <2>7, <2>9, <2>10, <2>11
<1>16. UnreadWhole'
  <2> SUFFICES ASSUME NEW k \in 1 .. m - 1  PROVE LiesWhole(unread'[k], ring')
    BY <1>11 DEF UnreadWhole, LiesWhole
  <2>1. k + 1 \in 1 .. m
    BY <1>1
  <2> QED BY <1>0, <1>2, <1>11, <2>1 DEF RxInv, UnreadWhole
<1>17. DeliveredIntact'
  <2>1. Crosses(frame) \/ ReadFrame(Mtu) = Up(frame, Mtu)
    BY <1>5, <1>6, ReadIsFrame
  <2> QED BY <1>9, <2>1 DEF DeliveredIntact, Crosses, Up, Bytes
<1> QED BY <1>13, <1>14, <1>15, <1>16, <1>17 DEF RxInv

LEMMA InitRx == Init => RxInv
<1> SUFFICES ASSUME Init  PROVE RxInv
  OBVIOUS
<1>1. left \in [rx: Nat, tx: Nat]
  BY RingAssumption DEF Init
<1>2. RxTypes /\ Chained /\ Apart /\ UnreadWhole
  BY <1>1, EmptyRing DEF Init
<1>3. DeliveredIntact
  <2>1. got.frame.size = 0 /\ got.bytes = <<>>
    BY DEF Init, NoFrame
  <2>2. Bytes(got.frame) = [i \in 1 .. 0 |-> <<got.frame.id, i>>]
    BY <2>1 DEF Bytes
  <2>3. Bytes(got.frame) = <<>>
    BY <2>2
  <2>4. Up(got.frame, Mtu) = <<>>
    BY <2>1, <2>3, Size DEF Up
  <2> QED BY <2>1, <2>4 DEF DeliveredIntact
<1> QED BY <1>2, <1>3 DEF RxInv

LEMMA NextRx == RxInv /\ [Next]_vars => RxInv'
<1> SUFFICES ASSUME RxInv, [Next]_vars PROVE RxInv'
  OBVIOUS
<1>1. left \in [rx: Nat, tx: Nat]
  BY DEF RxInv, RxTypes
<1>2. CASE \E size \in RxSizes : FrameArrives(size)
  BY <1>2, ArrivalKeeps
<1>3. CASE CardTakes \/ (\E i \in 0 .. 3 : CardSends(i)) \/ WaitOwn \/ WaitTok \/ ReceiveNothing
  <2>1. UNCHANGED rx /\ left' = left
    BY <1>3 DEF CardTakes, CardSends, WaitOwn, WaitTok, ReceiveNothing, vars
  <2> QED BY <1>1, <2>1, ReceivingSideKept
<1>4. CASE Receive
  BY <1>4, ReceiveKeeps
<1>5. CASE InitAgain
  BY <1>5, StartsAgain
<1>6. CASE \E size \in TxSizes : Send(size)
  <2>1. UNCHANGED rx /\ left.tx > 0 /\ left' = [left EXCEPT !.tx = @ - 1]
    BY <1>6 DEF Send
  <2> QED BY <1>1, <2>1, ReceivingSideKept
<1>7. CASE UNCHANGED vars
  BY <1>1, <1>7, ReceivingSideKept DEF vars
<1> QED BY <1>2, <1>3, <1>4, <1>5, <1>6, <1>7 DEF Next, Card, Driver, Poll

LEMMA RxInvHolds == Spec => []RxInv
BY InitRx, NextRx, PTL DEF Spec

-------------------------------------------------------------------------------

(* The driver and the card agree on the ring of any size, for frames of any   *)
(* size that fit it, however often it goes round and the driver starts again: *)
(* no unread frame is written over, every read begins at a header, and the    *)
(* 16 bit register that lags 16 bytes says just what was read (receive).      *)
THEOREM RingInStepTheorem == Spec => []RingInStep
<1>1. RxInv => RingInStep
  BY ReadIsOffset DEF RxInv, Chained, UnreadWhole, LiesWhole, RingInStep
<1> QED BY <1>1, RxInvHolds, PTL

(* What receive hands on is the oldest frame of the ring, byte for byte up to *)
(* the size of the buffer, unless it lies across the end of the ring          *)
(* (receive, NetDevice::receive).                                             *)
THEOREM DeliveredIntactTheorem == Spec => []DeliveredIntact
<1>1. RxInv => DeliveredIntact
  BY DEF RxInv
<1> QED BY <1>1, RxInvHolds, PTL
===============================================================================
