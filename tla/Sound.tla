--------------------------------- MODULE Sound ---------------------------------
(* The sound driver (drivers/sound.rs) and the programs that play: the       *)
(* player of the console (apps/player.rs), the music window                  *)
(* (gui/widgets/music.rs) and the piano (apps/piano.rs).                     *)
(*                                                                           *)
(* The card plays a buffer of two halves round and round, by DMA; a song is  *)
(* streamed by filling the half that is not playing.  Each sample the card   *)
(* takes is a step of its own.  The card and the DMA controller are external.*)
EXTENDS Integers, Sequences, FiniteSets

CONSTANTS
  HalfLen,    \* STREAM_HALF_LEN
  LowByte,    \* 256: how many values the low byte of the DMA count has
  Songs,      \* SONGS: the lengths of the songs
  Seeks,      \* where on the bar the user clicks, in parts of BarWidth
  BarWidth,   \* width of the bar
  PianoKeys,  \* keys the pianist uses
  Notes,      \* those that have a note
  MaxClicks   \* bound: clicks and keys in the music window

ASSUME SoundAssumption ==
  /\ HalfLen \in Nat \ {0} /\ LowByte \in Nat \ {0} /\ BarWidth \in Nat \ {0}
  /\ Songs \in Seq(Nat \ {0}) /\ Songs # <<>> /\ Seeks \subseteq 0 .. BarWidth
  /\ Notes \subseteq PianoKeys /\ MaxClicks \in Nat

VARIABLES
  card,    \* the card and its DMA channel: what it plays and the next sample
  stream,  \* STREAM_BUF, LAST_PLAYING_HALF, and a read of the count half done
  song,    \* SongPlayer
  sounds,  \* the program that plays and its state
  heard    \* history: what follows the sample heard last, and the pauses since then

svars == <<card, stream, song, sounds, heard>>

BufLen == 2 * HalfLen
Half(h) == h * HalfLen .. h * HalfLen + HalfLen - 1

Silence == <<0, 0>>
Sample(s, i) == <<s, i>>
NoSong == [id |-> 0, pos |-> 0, silence |-> 0]
Nothing == [id |-> 0, next |-> 0, pauses |-> 0]

Off == [mode |-> "off", at |-> 0, note |-> ""]
NoProgram == [name |-> "none", state |-> "stopped", current |-> 1, clicks |-> 0,
              held |-> "", down |-> {}, shift |-> FALSE]

SoundInit ==
  /\ card = Off
  /\ stream = [buf |-> [a \in 0 .. BufLen - 1 |-> Silence], ready |-> FALSE, last |-> 0,
               low |-> -1, ticked |-> TRUE]
  /\ song = NoSong /\ sounds = NoProgram /\ heard = Nothing

-------------------------------------------------------------------------------
(* SongPlayer. *)

Size(p) == Songs[p.id]
Finished(p) == p.pos >= Size(p)
DrainedEarly(p) == p.silence >= 1   \* Mistake: one silent half is enough
Drained(p) == p.silence >= 2
Take(p) == IF Size(p) - p.pos < HalfLen THEN Size(p) - p.pos ELSE HalfLen

(* fill_half: the next samples, the rest of the half silent. *)
Filled(buf, p, h) ==
  [a \in DOMAIN buf |->
     IF a \notin Half(h) THEN buf[a]
     ELSE LET k == a - h * HalfLen
          IN  IF k < Take(p) THEN Sample(p.id, p.pos + k) ELSE Silence]
(* Mistake: silent halves are not counted. *)
AfterFillUncounted(p) == [p EXCEPT !.pos = @ + Take(p), !.silence = 0]
AfterFill(p) ==
  [id |-> p.id, pos |-> p.pos + Take(p), silence |-> IF Take(p) = 0 THEN p.silence + 1 ELSE 0]

SeekTo(p, pos) == [id |-> p.id, pos |-> IF pos < Size(p) THEN pos ELSE Size(p), silence |-> 0]

-------------------------------------------------------------------------------
(* stop, stream_start and stream_tick. *)

Stop == card' = Off

(* Mistake: the half that was played last before is still on record. *)
LastKept == stream.last
LastAtStart == 0

(* stream_start: both halves are filled and the card starts at the first.    *)
(* The buffer is allocated once; when that fails nothing is started.         *)
StreamStart(p) ==
  LET one == AfterFill(p)
      two == Filled(Filled(stream.buf, p, 0), one, 1)
  IN  /\ stream' = [buf |-> two, ready |-> TRUE, last |-> LastAtStart, low |-> -1, ticked |-> TRUE]
      /\ song' = AfterFill(one)
      /\ card' = [Off EXCEPT !.mode = "stream"]

(* The user asks for a song from here on. *)
HeardFrom(p) == heard' = [id |-> p.id, next |-> p.pos, pauses |-> 0]
FromStart(s) == LET p == [NoSong EXCEPT !.id = s] IN StreamStart(p) /\ HeardFrom(p)

(* alloc_frames, once, may have no frame or none below 16 MiB. *)
NoBuffer == ~stream.ready

(* The count register: transfers still to come before the buffer starts over. *)
Count == BufLen - 1 - card.at
Played(count) == BufLen - 1 - count

(* dma_current_count reads the low byte and then the high one; a sample may  *)
(* be taken in between.                                                      *)
ReadLow ==
  /\ stream.low = -1
  /\ stream' = [stream EXCEPT !.low = Count % LowByte]
  /\ UNCHANGED <<card, song, sounds, heard>>

FreeHalf(playing) == 1 - playing

CountRead == stream.low + (Count \div LowByte) * LowByte
PlayingHalf == IF Played(CountRead) < HalfLen THEN 0 ELSE 1

(* The rest of stream_tick: stream and song afterwards. *)
TickNews == PlayingHalf # stream.last
TickedStream ==
  [buf |-> IF TickNews THEN Filled(stream.buf, song, FreeHalf(PlayingHalf)) ELSE stream.buf,
   ready |-> stream.ready, last |-> PlayingHalf, low |-> -1, ticked |-> TRUE]
TickedSong == IF TickNews THEN AfterFill(song) ELSE song

-------------------------------------------------------------------------------
(* The card takes a sample.  Assumed: a program looks at the stream at least *)
(* once while a half plays (185 ms), and no two samples are taken between    *)
(* the two reads of the count.                                               *)

Boundary == card.at + 1 \in {HalfLen, BufLen}

CardPlays ==
  /\ card.mode = "stream"
  /\ Boundary => stream.ticked
  /\ stream.low # -1 => stream.low = Count % LowByte
  /\ LET sample == stream.buf[card.at]
     IN  heard' = IF sample = Silence THEN heard
                  ELSE [id |-> sample[1], next |-> sample[2] + 1, pauses |-> 0]
  /\ card' = [card EXCEPT !.at = (@ + 1) % BufLen]
  /\ stream' = [stream EXCEPT !.ticked = IF Boundary THEN FALSE ELSE @]
  /\ UNCHANGED <<song, sounds>>

-------------------------------------------------------------------------------
(* The player of the console: play. *)

Free == sounds.name = "none"
Unread == stream.low = -1       \* no tick is half done

PlayCommand ==
  /\ Free
  /\ \E s \in DOMAIN Songs : FromStart(s)
  /\ sounds' = [NoProgram EXCEPT !.name = "player"]

Ends == Stop /\ song' = NoSong /\ sounds' = NoProgram /\ heard' = Nothing

PlayerTick ==
  /\ sounds.name = "player" /\ ~Unread
  /\ stream' = TickedStream
  /\ IF Finished(TickedSong) /\ Drained(TickedSong) THEN Ends
     ELSE song' = TickedSong /\ UNCHANGED <<card, sounds, heard>>

PlayerEsc == sounds.name = "player" /\ Unread /\ Ends /\ UNCHANGED stream

-------------------------------------------------------------------------------
(* The music window. *)

InWindow == sounds.name = "music"

OpenPlayer ==
  /\ Free
  /\ sounds' = [NoProgram EXCEPT !.name = "music"]
  /\ UNCHANGED <<card, stream, song, heard>>

Silent == Stop /\ song' = NoSong /\ heard' = Nothing

(* start; without a buffer the window says so. *)
Start(program, s) ==
  \/ /\ FromStart(s)
     /\ sounds' = [program EXCEPT !.current = s, !.state = "playing"]
  \/ /\ NoBuffer
     /\ Silent /\ UNCHANGED stream
     /\ sounds' = [program EXCEPT !.current = s, !.state = "stopped"]

NextSong(s) == (s % Len(Songs)) + 1
PrevSong(s) == ((s + Len(Songs) - 2) % Len(Songs)) + 1

(* pump: at the end of a song the next one starts. *)
MusicTick ==
  /\ InWindow /\ ~Unread
  /\ IF Finished(TickedSong) /\ Drained(TickedSong) THEN Start(sounds, NextSong(sounds.current))
     ELSE /\ stream' = TickedStream /\ song' = TickedSong
          /\ UNCHANGED <<card, sounds, heard>>

Clicked == [sounds EXCEPT !.clicks = @ + 1]
CanClick == InWindow /\ Unread /\ sounds.clicks < MaxClicks

(* Pausing keeps the place the song was read to: what the buffer still holds *)
(* is not heard.                                                             *)
Toggle ==
  CASE sounds.state = "playing" ->
         /\ Stop /\ sounds' = [Clicked EXCEPT !.state = "paused"] /\ UNCHANGED <<stream, song>>
         /\ heard' = [heard EXCEPT !.pauses = @ + 1]
    [] sounds.state = "paused" ->
         StreamStart(song) /\ sounds' = [Clicked EXCEPT !.state = "playing"] /\ UNCHANGED heard
    [] OTHER -> Start(Clicked, sounds.current)

StopButton ==
  /\ IF sounds.state = "playing" THEN Stop ELSE UNCHANGED card
  /\ song' = NoSong /\ heard' = Nothing
  /\ sounds' = [Clicked EXCEPT !.state = "stopped"]
  /\ UNCHANGED stream

(* seek_to: a playing song starts again from there. *)
SeekBar ==
  /\ song # NoSong
  /\ \E rel \in Seeks :
       LET p == SeekTo(song, (Size(song) * rel) \div BarWidth) IN
       /\ IF sounds.state = "playing" THEN StreamStart(p)
          ELSE song' = p /\ UNCHANGED <<card, stream>>
       /\ HeardFrom(p)
  /\ sounds' = Clicked

MusicClick ==
  /\ CanClick
  /\ \/ Toggle \/ StopButton \/ SeekBar
     \/ \E s \in DOMAIN Songs \cup {NextSong(sounds.current), PrevSong(sounds.current)} : Start(Clicked, s)

(* Mistake: the window goes, the song plays on. *)
DroppedPlaying == song' = NoSong /\ sounds' = NoProgram /\ heard' = Nothing /\ UNCHANGED card
(* drop: a paused song has been stopped already. *)
Dropped ==
  /\ IF sounds.state = "playing" THEN Stop ELSE UNCHANGED card
  /\ song' = NoSong /\ sounds' = NoProgram /\ heard' = Nothing

ClosePlayer == InWindow /\ Unread /\ Dropped /\ UNCHANGED stream

-------------------------------------------------------------------------------
(* The piano.  A key comes as its character, which a modifier changes.  Notes *)
(* have a buffer of their own; without it a key is held in silence.          *)

AtPiano == sounds.name = "piano"

StartPiano ==
  /\ Free
  /\ sounds' = [NoProgram EXCEPT !.name = "piano"]
  /\ UNCHANGED <<card, stream, song, heard>>

(* Shifted characters have no note. *)
Char(k) == IF sounds.shift THEN "shifted" ELSE k

PianoPress(k) ==
  LET pressed == [sounds EXCEPT !.down = @ \cup {k}] IN
  /\ AtPiano
  /\ IF Char(k) # sounds.held /\ Char(k) \in Notes
     THEN /\ sounds' = [pressed EXCEPT !.held = Char(k)]
          /\ \/ card' = [mode |-> "note", at |-> 0, note |-> Char(k)]
             \/ Stop
     ELSE sounds' = pressed /\ UNCHANGED card
  /\ UNCHANGED <<stream, song, heard>>

ReleasedHeld(k) == Char(k) = sounds.held

PianoRelease(k) ==
  LET released == [sounds EXCEPT !.down = @ \ {k}] IN
  /\ AtPiano /\ k \in sounds.down
  /\ IF ReleasedHeld(k) THEN Stop /\ sounds' = [released EXCEPT !.held = ""]
     ELSE sounds' = released /\ UNCHANGED card
  /\ UNCHANGED <<stream, song, heard>>

PianoShift ==
  /\ AtPiano
  /\ sounds' = [sounds EXCEPT !.shift = ~@]
  /\ UNCHANGED <<card, stream, song, heard>>

PianoEsc == AtPiano /\ Stop /\ sounds' = NoProgram /\ UNCHANGED <<stream, song, heard>>

-------------------------------------------------------------------------------

Streaming == sounds.name = "player" \/ (InWindow /\ sounds.state = "playing")
Tick == (Streaming /\ ReadLow) \/ PlayerTick \/ MusicTick
SoundUser ==
  \/ PlayCommand \/ PlayerEsc \/ OpenPlayer \/ MusicClick \/ ClosePlayer
  \/ StartPiano \/ PianoShift \/ PianoEsc
  \/ \E k \in PianoKeys : PianoPress(k) \/ PianoRelease(k)

SoundNext == Tick \/ CardPlays \/ SoundUser

-------------------------------------------------------------------------------
(* Properties. *)

(* The samples the song may go on with: the one after the sample heard last, *)
(* and each pause since then gave up at most what the buffer holds.          *)
MayFollow == heard.next .. heard.next + heard.pauses * BufLen

(* What the card takes next is the sample that follows the one heard last,   *)
(* and silence only behind the end of the song: no half is refilled before   *)
(* it has been heard nor too late, whatever the order of samples and looks   *)
(* at the count (stream_tick, fill_half).  Only a click makes a song leap:   *)
(* on the bar to the place clicked, and pausing, which keeps the place read  *)
(* and not the one heard, over no more than the buffer holds (toggle).       *)
HeardInOrder ==
  card.mode = "stream" /\ heard.id # 0 =>
    \E i \in MayFollow :
      stream.buf[card.at] = IF i < Songs[heard.id] THEN Sample(heard.id, i) ELSE Silence

(* A song that ends by itself has been heard to its last sample (play and    *)
(* pump count the silent halves); only one that was paused after the sample  *)
(* heard last may end without samples, no more than the buffer holds.        *)
WholeSong ==
  [][~Unread /\ song # NoSong /\ (song'.id # song.id \/ sounds'.name # sounds.name)
       => \E i \in MayFollow : i >= Size(song)]_svars

(* The card streams exactly while a program plays a song, and a note sounds  *)
(* only at the piano: pausing, the buttons, the end of a song, Esc and the   *)
(* closing of the window all leave the card silent.                          *)
SilentUnlessPlaying ==
  /\ card.mode = "stream" <=> Streaming
  /\ card.mode = "note" => AtPiano

(* A song comes to its end, and with it the player; the window goes on to    *)
(* another song (pump and play look for the end at every tick).              *)
SongEnds == \A s \in DOMAIN Songs :
  Streaming /\ song.id = s ~> ~Streaming \/ song.id # s
================================================================================
