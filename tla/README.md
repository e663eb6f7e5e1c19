# IluminOS in TLA+

IluminOS is a hobby operating system in Rust: one x86-64 kernel with its own
memory management, file system, PS/2, sound and network drivers, a text shell, a
desktop with windows and a Gemini browser. It runs on one core, enables no device
interrupt and has no threads. The only asynchronous entry into the kernel is the
page fault, everything else is a loop that polls. What makes it hard to test is
therefore not parallel code. It is devices that act between two polls, a disk that
remembers half an operation when the machine stops, resources that run out half
way, and state that survives from one program to the next.

All paths below are under `src/kernel/src/`.

## The parts of the system

| part | state it keeps | operations | talks to |
|---|---|---|---|
| file system, `fs/mod.rs` | on disk: superblock, block bitmap, 64 inodes, data sectors; in memory: `CWD` | `init`, `format`, `create`, `mkdir`, `chdir`, `read`, `write`, `remove`, `list`, `find_recursive`, `pwd_into` | `drivers/ata.rs`; called by shell, editor, Files window, browser, scripts |
| disk driver, `drivers/ata.rs` | none | `read_sector`, `write_sector` with time limits | the disk |
| keyboard and mouse, `drivers/keyboard.rs`, `drivers/mouse.rs` | modifiers and prefix, half a mouse packet, pointer | `try_read_key`, `try_read_key_event`, `read_key`; `mouse::init`, `poll` | the controller with its single output byte; read by every program |
| memory, `mem/` | frame bitmap, page tables, `COMMITTED` | `alloc_frames`, `map`, `grow`, the fault handlers | heap (a library) above it, drivers beside it |
| sound, `drivers/sound.rs` | two DMA buffers, what the card plays, the song player | `beep`, `play_freq`, `stream_start`, `stream_tick`, `stop` | the DSP and DMA controller; piano, player, music window |
| network card, `drivers/net/rtl8139.rs` | receive ring and offset, four send buffers | `init`, `send`, `receive` | the card; `device.rs` wraps it for the TCP/IP library |
| ping, DNS, Gemini protocol, `drivers/net/` | sockets of the library | `cmd_ping`, `resolve`, `connect`, `write_all`, `read_to_end`, `fetch` | the card, a TLS library |
| Gemini client, browser window | page, history, links on the screen | `navigate`, `back`, `render_html`, `link_at` | the Gemini protocol, HTML and gemtext parsers |
| editor, `apps/editor.rs` | grid of lines, cursor, mode, mark of unsaved changes | `load`, the key handlers, `save` | file system, keyboard |
| shell, `shell/mod.rs` | line, history, command count | `read_line`, `tab_complete`, about 45 commands | everything |
| desktop, `gui/desktop.rs`, `gui/wm.rs`, `gui/widgets/` | the one open window, pointer, pixels under it, the desktop behind the window | `run`, `handle_click`, `redraw_active`, routing to the window | keyboard, mouse, framebuffer, file system |
| script language, calculator | variables; accumulator | `run_file`, `eval_expr`; `press` | shell, desktop |
| framebuffer, `gui/framebuffer.rs` | text cursor, saved pixels | `write_char`, `newline`, `save_under_cursor`, ... | all output |
| the rest | boot order, clock, random generator, banner, login, monitor, WebAssembly calls, C library wrappers, PCI registers, an interrupt skeleton that is not connected | | |

Interaction is by calls on one stack and by static variables behind locks that
nothing contends for. Shared state between parts: `CWD`, which the shell, the
terminal window and the Files window all change; the keyboard's `STATE`, which two
decoders use; the mouse's `PACKET`, which outlives the desktop; the frame bitmap;
the disk.

### What makes each part correct, and what is hard about it

* **File system.** The entries form a tree, names are unique, a file reads as what
  was written last, no block has two owners, none is lost. Hard: inodes are reused
  in any order while names are looked up by scanning, a write frees its old blocks
  before it allocates the new ones, and every operation is several sector writes
  with nothing that repairs the disk at boot.
* **Keyboard and mouse.** No key lost, none invented, no modifier stuck, packets in
  step. Hard: both devices share one output byte, two decoders share one state, and
  three kinds of loops read different parts of it.
* **Memory.** No frame has two uses, mappings stay, `COMMITTED` is what is mapped,
  the machine stops only when memory is exhausted. Hard: one bitmap serves faults,
  tables and DMA buffers in any order, and running out is possible at every step.
* **Sound.** The half of the buffer being filled is not the one being played; a note
  ends when its key does.
* **Network.** Frames come out of the ring whole and in order.
* **Gemini.** A page, its address, its links and the history belong together. Hard: they
  are four variables, and redirects, questions, failures and pages cut off by a time
  limit come between them.
* **Editor.** No key leaves the arrays, the grid is the text, saving writes all of it.
  Hard: lengths, counts and cursor are unsigned and each key relies on the ones before.
* **Shell and Files window.** The line on the screen is the line Enter runs; a name is
  deleted in the folder that shows it. Hard: the same cells are drawn by characters,
  rubbing out, the blinking cursor and scrolling; the listing was made earlier.
* **Script, calculator.** The value is what the input means. Hard: evaluation goes on after
  an error, and the calculator keeps its number as text.
* **Desktop.** The pointer leaves nothing behind and a closed window neither. Hard: there
  is one frame buffer and no other copy; who draws has to lift the pointer first.

## Modules

| module | models | kind |
|---|---|---|
| `FileTree` | what the file system promises: a tree of named folders and files | abstract specification |
| `FileSystem` | `fs/mod.rs`, one action per public operation, over inodes, bitmap, sectors and `CWD` | component |
| `FsDisk` | the same operations one sector write at a time, with stops of the machine | component, extends `FileSystem` |
| `Ps2` | `keyboard.rs`, `mouse.rs`, the controller, the polling loops of shell, piano and desktop | component |
| `Memory` | `mem/`, and the frames taken by `rtl8139.rs` and `sound.rs` | component |
| `Rtl8139` | `drivers/net/rtl8139.rs`, `device.rs`, against the card | component |
| `Pages` | `gui/gemtext.rs`, `gui/html.rs`: lines or tags to blocks | functions |
| `GeminiProto` | `gemini_proto.rs` with `resolve` of `dns.rs`, against name server and server | component, extends `Pages` |
| `GeminiConsole`, `BrowserWindow` | `apps/gemini.rs`; `widgets/browser.rs` | components, extend `GeminiProto` |
| `Gemini` | the two clients on one protocol, and the properties of both | composition |
| `EditorText` | what the editor promises: a list of lines with a cursor | abstract specification |
| `Editor` | `apps/editor.rs`, one action per key | component |
| `FilesWindow` | `widgets/files.rs` over `FileTree` | component |
| `Shell` | the commands on files, the editor and the Files window over one tree | composition |
| `Console`, `ShellLine` | `framebuffer.rs` as the console; `read_line` of `shell/mod.rs` on it | component, extends `Console` |
| `Arithmetic`, `Script`, `Calculator` | `apps/script.rs`; `widgets/calc.rs` | functions and components |
| `Sound` | `sound.rs`, `widgets/music.rs`, `apps/player.rs`, `apps/piano.rs`, against card and DMA | component |
| `Desktop` | `gui/desktop.rs`, `gui/wm.rs`, `widgets/paint.rs`, the pointer and drawing of `framebuffer.rs` | component |
| `Programs` | the six kinds of session above the drivers | composition |
| `MC...` | instances for TLC | |
| `FileTreeProofs`, `FileSystemProofs`, `FsDiskProofs`, `MemoryProofs`, `Rtl8139Proofs`, `GeminiProofs` | theorems about the module of that name | proofs |
| `InputProofs`, `ProgramsProofs` | theorems about `Ps2`, `Desktop`, `Calculator` and `ShellLine`; about `Editor`, `FilesWindow`, `Shell`, `Sound` and `Script` | proofs |

Definitions named "Mistake" in a module are wrong variants of the definition that
follows them, each a bug this code could well have. Each property was seen to fail
when one of them takes the place of the right one. They take part in no run.

### FileSystem and FileTree

`inode` is the table of 64 inodes as read and written by `read_inode` and
`write_inode`, `bitmap` the set of marked data blocks, `sector` the contents of the
data area, `cwd` the static `CWD`. `Create`, `Mkdir`, `ChdirRoot`, `ChdirUp`,
`ChdirInto`, `Write`, `Remove` and `Boot` are the public operations; an operation
that returns an error before it wrote anything changes nothing and appears as a
guard. `Matches` and `Find` are the scan of `find_in_dir`, `FreeInode` the scan of
`alloc_inode`, `FirstFit` the repeated scan of `alloc_block`. Sizes are counted in
sectors: how much of the last sector is in use is part of its payload.

`FileTree` knows only nodes, names, parents and contents. `FileSystem` maps its
inodes to nodes (`Entries`), the contents of a file being the sectors its block
array names. `ImplementsFileTree` says every step is a step of `FileTree` or leaves
the tree alone, so a file reads as what was last written to it.

### FsDisk

`pc` and `job` are the point inside the call under way and its local variables.
Each sector write is a step: superblock, bitmap, an inode, a data sector. A stop of
the machine (`Crash`) may come between any two; it loses `cwd` and the call. The
next boot sees `magic` and either takes the disk as formatted or formats it.
`done` is a history variable: bitmap and data area when the last operation
returned. With it `ImplementsFileSystem` shows that without crashes a call amounts
to the single step of `FileSystem` at the moment it writes its inode.

### Ps2

`port` is the controller's output byte with the status bit that tells the mouse's
bytes; `kbd`, `aux` and `answer` are what the devices have not handed over. The
kernel's side is `kb` (the `STATE` of `keyboard.rs`), `packet` and `left` (`PACKET`
and `STATE` of `mouse.rs`) and `mode`, the loop that runs: text programs, the two
programs that follow presses and releases, the desktop, or one of the three reads
of `mouse::init`. `TextKey`, `EventKey`, `DesktopKey` and `PollMouse` are one turn of
the loops. Of the characters only those are followed that no modifier changes;
`owed` holds the ones pressed and not yet given to a program.

`wait_read` gives up after 100,000 polls. The model takes the devices to answer
before that, as they do in the emulator the project runs in.

### Memory

Addresses are counted in frames and pages of 4096 bytes. `memmap` is what the
bootloader reports; `frames`, `used` and `bitmap` are the allocator, `tables` and
`pages` the page tables below `root` as far as they cover the heap, `mapping` the
call of `map` under way. Boot (`InitAllocator`, `InitPaging`, `CommitPage`,
`HeapReady`) follows `mem::init`; then page faults, `rtl8139::init` and the sound
buffers come in any order, each allocation being a step so that memory may run out
at every one. `NextTable` is `next_table`, `PageFault` is `grow`, every `...Fails` is a
panic or the halt in the fault handler. Without memory map or room for the bitmap
the kernel runs on its emergency heap: `frames` stays empty, `dynamic` FALSE.
No caller frees a frame or unmaps a page, so neither function is an action.

### Rtl8139

`ring`, `rxOffset`, `capr` and `cbr` are the receive ring, the driver's offset and the
card's two registers; `tx`, `txCur`, `cardTx` the four send buffers with their
descriptors and the place of driver and card in them. `FrameArrives` is the card writing a
frame and its header behind the last one, `Receive` the whole of `receive`: header,
refusal of bad packets with the reset of the ring, copying, alignment, CAPR. `Send` writes
a buffer, `WaitOwn` and `WaitTok` are the two waits of `send`, which end when the card is
done or at their time limit; `InitAgain` is `init`. Bytes are `<<frame, index>>`, so a byte
that is stale, of another frame or at another place shows. `unread`, `got`, `unsent`
and `sent` are history.

### Gemini

`nav` is the navigation of the client that runs, `fetch` the call of `fetch` and `peer`
whether there are bytes of the answer to be read, and its end. `GeminiProto` goes through
`Begin`, `Resolve`, `Connect`, `Handshake`, `SendRequest`, `ReadBlock` and `ReadEnd`, each
with its failure and its limit counted in `spins`. The answer is read in blocks of bytes
that stop anywhere: `fetch.got` counts the lines that have come whole, the header being the
first, and the end, an error and the limit alike leave those and whatever there is of the
next (`Received`). What there may be of a line that breaks off is `Fragments` of that line,
any lines of its kind or text: of a link also a link with half its target. The urls in
`Endless` answer with a last line that never ends; while bytes come, `spins` starts anew
with each block, as in the code. An address is a scheme, a port and parts of a path;
`NormalizePath` and `ResolveRelative` are those of the code. `con` is the `Browser` of
`apps/gemini.rs` with its history, `win` the browser window with its page, place on the
page and clickable rows. `Site` is what the servers answer and external.

### Editor, FilesWindow, Shell

`grid`, `len`, `n`, `r`, `c`, `mode`, `pending` and `dirty` are the fields of the
editor, `edited` the name it was opened with. Each key is an action, with the copying of
rows done by `UpFrom` and `DownFrom`. `TextLines` maps the grid to the list of lines of
`EditorText`. `Shell` puts the file commands, the editor with `load` and `save`, and
the Files window over the variables of one `FileTree`; what `FileSystem` implements is
what these programs work on. `files` is the window: its listing, the row that is marked
and its prompt.

### Console, ShellLine

`screen` is the cells of the console with its cursor; `WriteChar`, `Back`, `ToNewline` and
`ToggleCursor` are `write_char`, the character 0x08, `newline` and the blinking.
`ShellLine` has an action per key of `read_line`, with history and completion.

### Script, Calculator

`Eval` is the evaluator by recursive descent, with the place and the error it carries
on. The methods call each other, so what they return is a function of the call: the method
(`Rules`, where a loop that goes on counts as a call of its own) and the place, value and
error it is called with (`Returned`). `Meaning` is what the expression means, defined
without it, by splitting at the last operator of least binding. `Calculator` has `press` on a display that is a text: `Parsed` and
`TextOf` are `parse_i64` and `i64_to_string`. A result beyond `Limit` stops the kernel
(the default build checks overflow), which sets `on` to FALSE. The property computes the
value anew from all keys pressed.

### Sound

`card` is what the card does and where the DMA channel is, `stream` the buffer of two
halves and `LAST_PLAYING_HALF`, `song` the `SongPlayer`, `sounds` the program that plays.
Each sample the card takes is a step (`CardPlays`); a tick reads the DMA count in two
bytes (`ReadLow`, then the rest of `Tick`) and the card may take a sample in between. Two
things are assumed and written into the guard of `CardPlays`: a tick comes at least once
while a half is played, and at most one sample is taken between the two reads.
`heard` is history and belongs to what the user hears: the sample that follows the one
heard last, and the pauses since. Starting a song or a click on the bar sets it (`HeardFrom`);
pausing and going on do not, although the code then goes on from `pos`, what was read and not
what was heard. `MayFollow` is what that can skip: a buffer, both halves, for each pause.

### Desktop

The screen is a strip of cells; a cell stands for a column of pixels of the kind the code
draws at once. `Turn` is one turn of the loop of `run`, in its order: motion with the
brush, the tick of the window, the click, the key. Each of them lifts the pointer, draws and
puts it down by `LiftPointer` and `PutPointer`, which work on the same cells as
`DrawOn`. `patch` is `CLEAN_WINDOW_BG`; `desk.drawn` is history, the picture as it would be
without a pointer. Windows are what they show and where they draw; Paint keeps
nothing, what was painted is only on the screen, as in the code. That the windows draw
within their content is an assumption: the terminal does not keep it (see below).

### Programs

A session does one of six things: files, the command line, scripts, sound, the desktop, the
calculator. They share no state and the shell waits for what it started, so `Programs`
lets one of them run and leaves the others alone; one run checks all.

## Runs

| run | instance | distinct states | result |
|---|---|---|---|
| `fs` | 4 inodes, 2 blocks each, 6 data blocks, names `/` and `a`, 2 payloads | 26,624 | holds |
| `fs_disk` | 3 inodes, 2 blocks each, 4 data blocks, 3 names, 2 payloads, no crash | 176,672 | holds |
| `fs_disk_crash` | the same with 1 payload and 2 crashes | 183,157 | holds |
| `fs_disk_shared` | 1 crash | | violated: `FilesApart` |
| `fs_format_crash` | 1 crash while formatting | | violated: `FormattedHasRoot` |
| `ps2` | 8 keys, 2 down at once, 4 bytes in keyboard and mouse, a user who waits | 118,464 | holds |
| `ps2_console` | keys Enter and Esc, a user who waits | | violated: `KeysAlwaysRead` |
| `ps2_config` | keys Enter and Esc, a user who does not wait | | violated: `ConfigIsConfig` |
| `memory` | 7 memory maps of up to 22 frames, heap of 5 pages, 2 pages per table | 9,851 | holds |
| `ring` | ring of 32 bytes, frames of 1, 4 and 6 bytes, 5 in and 0 out or 1 in and 5 out, one more `init` | 112,925 | holds |
| `gemini` | 2 servers, 9 addresses with answers, one of them without end, 2 files of HTML, history of 3 | 352,248 | holds |
| `programs` | see below | 473,149 | holds |

**fs.** Type, block ownership (`BlocksOK`: sizes agree, no block shared, bitmap
exact), `NeverFull`, `TreeOK`, `ImplementsFileTree`. Four inodes give a folder in a
folder with a file, two files beside each other, and reuse of an inode by another
kind of entry. Six blocks are exactly what three files can name: the tightest disk
the assumption allows, so that `NeverFull` is not won by spare blocks. The name `/` is
there because `chdir` gives it a meaning and `create` does not refuse it.

**fs_disk.** The same promises for single sector writes, from an unformatted disk
with arbitrary contents. `OthersUntouched` looks at every intermediate state: no
sector of a file the call is not about differs from what the last call left.
Two inodes per sector, as in the code, make formatting take two writes.

**fs_disk_crash, fs_disk_shared, fs_format_crash.** What survives a stop and what does
not. The tree does (`TreeSurvives`), because an inode is written whole. The separation
of files does not: blocks are freed on disk before the inode that names them is
rewritten. A disk interrupted during its first boot counts as formatted and has no
root. Two crashes let a leak of the first fill the disk for the second, the only way
the "disk full" exit of `write` is reached.

**ps2.** The passing run has a user who waits for the machine: no key is touched
before the last was read, and in the console not while a byte is on its way. Under
it keys, releases and mouse packets still interleave freely in the desktop, where
both devices are live. The eight keys are one for each path through the decoders:
both Ctrl keys (same make code with and without prefix), Win and space (layout
change), the arrow and the keypad key of the same code, Enter and Esc (which change
the loop). The two violations drop one part of the good case each: what happens
after the desktop returns with the mouse still streaming, and what `mouse::init`
does when the Enter that started the desktop is released meanwhile.

**memory.** The maps are: none; one frame, two frames; regions too small for the
bitmap; a machine that is full before the heap is there; memory in parts with a part
too small for the bitmap before the one that is taken; and one part of 18 frames. Two pages per
table make the heap's five pages need three tables of the last level, so a fault takes one,
two or four frames. The DMA limit lies inside the memory, so both outcomes of the
sound buffers occur, and `rtl8139::init` repeats until nothing is left.

**ring.** `RingInStep`: unread frames lie one behind the other from the driver's offset to
the card's, and the card counts as read what was read. `DeliveredIntact`: a frame given to
the library is the oldest, byte for byte, unless it lies across the end of the ring.
`SentIntact`: the card takes each frame as it was given, in order. `FramesTaken`: a frame in
the ring is taken out. Frames take 12 or 16 of the 32 bytes, so the ring fills with two
and its end falls between frames and inside one; five frames in take the ring round
more than once, five frames out come back to the first of the four buffers. One frame
is larger than the library's buffer.

**gemini.** `ConsolePage`, `WindowPage`: page, address and links belong together: the page is
the answer of that address to where it broke off, all of its lines whole but the last, which
may be a beginning (`Beginnings`). The run breaks lines off inside a link, before its target,
and to nothing. `PageHasEntry`: a page that appears is the last of the history,
unless it was asked for by an entry without a scheme.
`LinksStayBelowRoot`: relative links stay on their server and have no `..`. `HitsMatchPage`:
a click finds the links where they are drawn. `HtmlTextKept`: no text of a file is lost or
shown twice, and each is shown as the link it stands in by the nesting of `<a>` and `</a>`
(`LinkAround`), never as another one. What `html.rs` does to text behind a `<p>`, `<li>` or
heading inside of a link, to show it as none, is not taken for the meaning of the file but
named as an exception (`BlockInLink`); `b.html` has such a text, and one behind a `<b>` that
is none of them. `NavigationEnds`: each fetch ends, or the kernel stays for ever in the read
loop at an address of `Endless`, which sends on and on. The run has one, and without that
alternative the property is violated. The site has links up and down, a redirect that ends, one in
a circle longer than the limit, one without address, a question, a page that is not there
and a second port; pages are longer than the window, so scrolling matters.

**programs.** One session of the six, each from its start:
* files: a grid of 3 by 3, two characters, two changes per text, names `a` and `b`, a disk
  with a text that fits or one too large in both directions; `InBounds`, `ImplementsText`,
  `UnmarkedIsSaved`, `ListFresh`. Three lines are what joining, splitting and deleting
  in the middle need; two changes let one rely on what another left.
* command line: a screen of 3 lines of 4, lines of 5 characters, 6 keys, commands with a
  common beginning; `ShownIsLine`. A line is longer than a row, and the prompt with it
  reaches the last line, so that ends of rows and scrolling happen while it is typed.
* scripts: all scripts of five tokens over two numbers and one variable;
  `ValueIsMeaning`. Five are the least for brackets with an operation inside, and for
  two operators.
* sound: a buffer of two times 4, songs of 9, 4 and 2 samples, 3 clicks; `HeardInOrder`,
  `WholeSong`, `SilentUnlessPlaying`, `SongEnds`. The songs are longer than the buffer,
  exactly one half, and less than one. Three clicks start a song, pause it and let it go on; a song of 4 paused once has nothing left to be heard.
* desktop: 15 cells with a window of 9, a pointer of 2, four windows; `ScreenAsDrawn`.
  The pointer reaches both edges of the screen, the window's edge and its close button.
* calculator: five keys over digits 0 and 6, two digits on the display; `ShownIsChain`.
  The digit 6 makes results of two digits and of more, negative ones and 0.

Deadlock is checked in all runs except `ps2`, where a mouse byte nobody reads stops
everything, and `memory`, where a halted machine stops.

### Fairness

`Ps2` assumes three things: `WF_vars(FillPort)`, because the controller hands a byte
over whenever its output byte is free; `SF_vars(FillFromKeyboard)`, because it does not
prefer the mouse for ever, without which no driver could promise anything; and
`WF_vars(Kernel)`, because every loop calls its read functions again and again, none of
them blocks, and nothing else runs. Users and the mouse owe nothing.

`Rtl8139` assumes that the driver is polled and its two waits go on (`Poll`, `WaitOwn`,
`WaitTok`: the library polls in a loop, the waits are loops with a limit) and that the
card works on what it was given. The network owes no frame. `Gemini` assumes
`WF_gvars(Fetching)`: the steps of a fetch and of the navigation that called it are one
call, which goes on; the servers and the network owe nothing, which is why the end of a
fetch rests on its limits. They count polls that bring nothing, so a server that never stops
sending is held by none of them (`NavigationEnds` says so). `Programs` assumes that the loops of the players tick and
that the card plays (`Tick`, `CardPlays`); who listens owes nothing. The specifications of
the file system, of memory and of the other programs are safety only.

## Proofs

All theorems hold for every value of the constants that the named assumptions allow.

* `FileTreeProofs`: `TreeIsKept`. Unique names, live parents and a live current
  directory are inductive together with the root being its own parent.
* `FileSystemProofs`: `InvIsKept`, from it `TypeIsKept`, `BlocksAreKept`,
  `DiskIsNeverFull`. `SizesAssumption` (number of inodes other than the root times
  blocks per inode at most the number of data blocks, 756 against 2000 in the code)
  is what makes the block count work. Block ownership is not inductive alone: that an
  allocation finds enough free blocks needs the count of all blocks named, which needs
  the root to name none (`RootKept`), which needs that no operation can rewrite
  inode 0.
  `InodesFormATree` and `FileSystemImplementsFileTree`: each
  action is shown to be the action of `FileTree` of the same name on `Entries`. The
  step that needs the block invariant is `Write`: that the contents of all other files
  are unchanged follows from no block being shared.
* `FsDiskProofs`: `TreeSurvivesTheorem`, `OthersUntouchedTheorem`,
  `FsDiskImplementsFileSystem`, from two invariants.
  `DiskInv` holds at every sector write and with any number of stops: types, and, for each
  place inside each call (`pc`), what is true of the inode the call is about and of the copy
  in memory (`UnderWay`): it is an entry of the current directory, differs from the disk in
  its blocks at most, and as many of its slots name blocks as the loop has filled. The tree
  is the one of `FileTreeProofs` without contents (`Bare`), whose lemmas are reused.
  `TreeSurvivesTheorem` needs that no stop falls into formatting (`~CrashInFormat`): a disk
  formatted by halves has no tree, which is what `fs_format_crash` shows.
  `WorkInv` holds as long as nothing has stopped (`crashes = 0`) and adds what bitmap and
  data area have become at this `pc` since the last operation returned (`InStep`) and the
  invariant of `FileSystem` on the disk as that operation left it. `OthersUntouched`, which
  speaks of the time up to the first stop, follows from it. Each sector write is a stutter of
  `FileSystem` except the last of a call, which is its step. Two lemmas carry it: picking
  the lowest free block again and again gives what one scan of the bitmap gives
  (`LeastIsNext`), and the "disk full" exit of `write` is not reachable (`NotFull`). The
  refinement reads `DSpec /\ [](crashes = 0) => ImplementsFileSystem`; with stops it is
  false (`fs_disk_shared`).
* `MemoryProofs`: `TypeIsKept`, `FramesStayApart`, `CommittedStaysBacked`,
  `HaltMeansFull`, `MappingsStay`. `FramesApart` becomes inductive with `PhaseInv`: free
  frames are usable ones, no bit is set before the allocator runs, the pages mapped
  during boot are exactly those below `addr`, and a page being mapped after boot has no
  frame yet. Steps are of two kinds, each with its lemma: one holder gets fresh frames
  (`OneMore`), or holders exchange what they hold (`Exchanged`).

* `Rtl8139Proofs`: `FramesLeaveIntact`, under the hypothesis `MaxLate <= 3`: `send` does
  not look whether the card is done with a buffer when its time limits run out, so with
  four buffers the card may be at most three frames behind when a call gives up. The
  invariant (`TxInv`) says that the frames not yet taken lie in the slots from the card's
  place to the driver's (`InStep`) and that a slot is given to the card exactly when it
  holds one of them (`GivenAreUnsent`).
  `RingInStepTheorem` and `DeliveredIntactTheorem` have no hypothesis beyond
  `RingAssumption`. Each frame in the ring carries, as history, where the card put it
  (`at`). The invariant (`RxInv`) measures places by how far around the ring they lie from
  the driver's offset (`Gap`): the unread frames lie one behind the other without going all
  the way round (`Apart`), so no two share a byte of the ring or of the memory behind it
  (`PartsApart`), and the frame that comes in touches none of them (`StoredLies`). The
  free space the card computes is what makes the next frame fit (`FitsBefore`); that its
  strict comparison is needed shows there: a ring filled to the last byte looks empty.
* `InputProofs`: `NoStuckModifierTheorem`, `TypedAsPressedTheorem`, `MouseInStepTheorem`,
  under the hypothesis `HandsOff`, a user who waits for the machine. It is needed:
  `ps2_config` is what happens to one who does not. The invariant (`Ps2Inv`) says that the codes on their way are those of one key at most, whole
  or without the prefix the decoder has seen (`ToRead`), that a modifier that is on is held
  or its release is on its way, and that exactly the character of that key is still owed
  (`KeysInStep`); that the mouse's bytes in `packet`, in the output byte and in the mouse are
  whole packets in their order, the last with the button as it is (`WholePackets`); and that
  during `mouse::init` the one byte on its way is the answer it waits for (`InitInStep`).
  `PointerLeavesNoTrace`, about `Desktop`. The invariant (`DeskInv`) adds to
  `ScreenAsDrawn` what the pointer has saved, and that outside the part kept when the
  desktop was drawn no window changed anything (`KeptBehind`), without which closing a
  window would not give the desktop back. Inside a turn the pointer is up or down (`Up`,
  `Down`); each part of the loop is a lemma that takes one to the other.
  `ShownIsChainTheorem`, about `Calculator` on its own (`CalculatorSpec`). The invariant
  (`CalcInv`) says that the operator that waits is the last one pressed, that `acc` is the
  value up to it, and that the display is that value as text or the digits typed since, as
  far as they have room (`TypedDigits`). `i64_to_string`, `parse_i64` and the value of a chain
  are functions that look at smaller numbers; that such a function exists (`Recursion`), that
  the first two undo each other (`TextIsRead`) and that a further key leaves earlier values as
  they are (`ChainStays`) are shown by the smallest number at which it would fail. It needs
  no bound on the keys; a result beyond `Limit` ends the run, as it stops the kernel.
  `ShownIsLineTheorem`, about `ShellLine` on its own (`LineSpec`). The cells are counted
  one after the other (`At`, `Place`), so that the end of a row is a place like any other
  and scrolling moves all places by one row (`NewlineAt`). `Shows` says of a screen that a text stands
  right before the place and nothing behind; `Follows` what a character makes of the
  text (`OneWritten`), and `PutShows` carries that through everything printed. The
  invariant (`LineInv`) is that the screen shows the prompt and the line, and that line
  and history fit a line. `LineAssumption` asks that a line has room above the last row:
  128 characters on a console of 80 by 25 or more; without it the prompt scrolls away.
* `ProgramsProofs`: `EditorStaysInBounds`. `InBounds` is inductive; there is a lemma for what
  each way of moving rows, characters and the cursor keeps.
  `ListFreshTheorem` and `UnmarkedIsSavedTheorem` are about the shell, the editor and the
  Files window on one tree of files (`ShellSpec`), from any disk that holds a tree
  (`DisksAssumption`; that the file system leaves nothing else on a disk is
  `InodesFormATree`). The invariant (`ShellInv`) needs the bounds of the editor, without
  which a saved text is no text; that names are unique in a folder, so that the file
  written is the file that is looked at (`OneOfAName`); and that no window is open while the
  editor runs. Loading what has room in the grid and saving it gives it back (`LoadShows`).
  `EditorImplementsText`: `Editor` implements `EditorText`. From `InBounds` alone a step
  of the grid is a step of the text or none, with one lemma for each key (`InsertIs`,
  `SplitIs`, `JoinIs`, ...). `RowText` and `TextOf` say what text the rows in use hold; where
  a row lies, and what stays behind the end of a line or below the last one, does not matter
  (`SameText`, `SameRow`), which is why rows may be moved in place. What taking out, putting
  in and splitting do to a sequence are lemmas of their own (`Inserted`, `Cut`, `Doubled`).
  For `dw` the end of the word is the first space behind the cursor (`HasSmallest`).
  `ValueIsMeaningTheorem`, about `Script` on its own (`ScriptSpec`). The invariant
  (`ScriptInv`) says no more than that variables have values and a line is made of tokens;
  the argument is about the expression. Evaluator and meaning are recursive functions, of a
  call and of a part of the expression; that such functions exist, and do what their
  definitions say (`EvaluatorIs`, `MeaningIs`), follows from a size that is smaller for what
  they look at: the tokens that are left and the level of the method (`CallSize`), the
  length of the part (`PartSize`; `Solution` is the common argument). Then two statements,
  each shown at the least size at which it could fail. What a method returns without an
  error is the value of the tokens it has read (`AllSound`): they are a part with brackets
  that match (`Piece`), and going on with a loop makes a part with one more operator,
  which is then the last that splits it (`JoinedSplits`). And a part that means something is
  read to its end (`AllComplete`). Together: an error is reported exactly when the expression
  means nothing (`EvalIsMeaning`). A value is any integer here; in the code a result beyond
  64 bits stops the kernel.
  `SongHeardInOrder`, `WholeSongHeard`, `SilentAtRest`, under the
  hypothesis `BytesFit`: the low byte of the count has 256 values and a half of the
  buffer is a multiple of 256 samples (2048 in the code; the run has a byte of two values
  and a half of four samples). Without it a look at the count between two samples could
  name the wrong half. The theorems are about `Sound` on its own, without fairness
  (`SoundSpec`), with the two assumptions in the guard of `CardPlays`. The first two
  allow what the code gives up at a pause, a buffer for each since the sample heard last
  (`MayFollow`), and nothing else: no tick, no look at the count and no other click makes a
  gap or a repetition. The invariant
  (`SoundInv`) says, for the place of the card in the buffer (`Flows`), that the half
  that plays holds the song from some sample on that may follow, that the other half holds what follows
  or nobody has looked since the card went over, and what the count of silent halves
  tells of the end; and that a half done read of the count is at most one sample old
  (`ReadIsRecent`), which is what makes the half read the right one (`LookIsRight`). While a
  song is paused, the place it will go on from is one that may follow (`PauseIs`): `pos` is
  at most a buffer ahead of what is heard.

* `GeminiProofs`: `ConsolePageTheorem`, `LinksStayTheorem`, `WindowPageTheorem`,
  `HitsMatchTheorem`, `PageHasEntryTheorem`, `HtmlTextKeptTheorem`, for every `Site`, every
  set of addresses and files (`GeminiAssumption` says what they are made of: only links have
  a reference, no host is named `..`, a line that breaks off is a line of its kind or text,
  and between two texts of a file lies a tag) and all limits. What a page, a path or a list of links becomes is a
  fold over a sequence, which the library defines by recursion over sets of positions. The
  first part shows that a function that satisfies the recursion exists, built up one number
  after the other (`FoldExists`, `FoldTable`; `Stepwise` stands for induction: there is no
  smallest number at which it fails), and so gives the value of a fold element after element
  (`FoldsTo`, `Trace`). From it come the lemmas about the code's functions: a normalized path
  has no `..` (`NormalizePath`), link n of a page is the n-th line that is a link and not
  preformatted (`CollectLinks`, counted by `Rank`), blocks are the lines without
  the toggles (`ToBlocks`). The invariant (`GeminiInv`) has for the fetch that its url is the
  one asked for, taken apart, that no more lines have been read than its answer has, and that
  the result is a beginning of that answer (`ProtoInv`, `BeginningIs`); for the console that page, links and base belong
  together and that what is being fetched either will get an entry or has the last one, also
  between the steps of a redirect or a question (`ConsoleFits`); for the window that the
  clickable places were drawn from the page that is shown (`WindowFits`). `PageHasEntry`
  leaves out a page that is asked for again by an entry without a scheme: the first address
  is kept as typed, and when it is asked for again it is resolved against the page it led
  to. TLC found this when such addresses were added to the run for the proof.
  `HtmlTextKept` holds of every file by itself (`HtmlShows`): after each token (`ParsedUpTo`)
  style and title are those of the last tag that changes them (`MarksStep`), a text that was
  read waits in the buffer, and the blocks with a text are, one by one, the texts before it
  (`HasCollected` on both sides). The link of that style is the one around the text by
  `<a>` and `</a>`, or none behind a block inside of it (`StyleIs`). That the page of the window is what `parse` makes of one of
  the files is kept by every step (`FromFile`, `DocTurns`).

Only model-checked. Out of the prover's reach: `KeysRead`, `FramesTaken`, `NavigationEnds`
and `SongEnds`, which are liveness under fairness.

## Seen in the code

What the models show or take over as the code does it, without a run of its own:

* network card: a frame across the end of the ring is read modulo 8192 although the card
  was told not to wrap (`rtl8139.rs:219`), hence the condition in `DeliveredIntact`;
* Gemini: a page broken off by an error or the time limit is shown as if it were whole, with
  half of its last line, and when that is a link, it can be followed to an address the page
  does not have (`gemini_proto.rs:331`); reading an answer has no limit as a whole
  (`gemini_proto.rs:327`), neither of time nor of memory; `back` after a
  failed page leaves the history shortened; the first address is kept as typed; the answer
  to a question is appended to an address without path; a trailing slash is dropped by
  `normalize_path`; a redirect in the window forgets the port; links scrolled out of the
  window can still be clicked;
* editor: a file too large for the grid is cut on loading and written back cut; a save
  that fails clears the mark; `:q` leaves without a question;
* Files window: Esc in its prompt never arrives, the desktop takes it; rows beyond the
  visible ones cannot be reached; folders named `.` or `..` cannot be entered;
* keyboard: the keypad's Enter and slash, whose codes come behind a prefix, give nothing;
* HTML: `docs/INTERNALS.md:17` says that text between tags inherits the active style and a
  closing tag restores it; paragraphs, list items and headings start from the plain
  style and go back to it (`html.rs:207-211`, `234-240`), so that text behind one inside of
  a link, or of bold text, has lost it;
* sound: pausing and going on skips what was filled and not yet heard, up to both halves
  (`sound.rs:339-343`), and a song paused when its last samples were filled ends unheard; a buffer above 16 MiB is
  not given back; a piano note stays when a modifier changes before its key is released;
* scripts and calculator: overflow, and the smallest number divided by -1, stop the kernel;
  two operators one after the other apply the shown value again;
* desktop: a line longer than the terminal's window is drawn beside it and stays when
  the window is closed.

## Not modelled

`PROJECT.json` lists every component with its status. Left out for good: fonts,
icons, shapes, colours, the wallpaper and music data, the bootloader, libraries
(heap lists, TCP/IP, TLS, WebAssembly), PCI and clock registers, the interrupt skeleton
that is not connected, the self test of the C wrappers, programs that only display
(monitor, banner) and the one prompt of the login.

Simplified in what is modelled: sector reads and writes succeed; names are atoms and
never too long; the last sector of a file is one value; tables that turn scan codes into
characters are data; the reset of the card and of the DSP with their polls succeed;
TLS handshake and request are a step each with their outcomes; how rows of text break in
the browser, styles and lists of HTML are left out, and a search for words shows no
page; a script's text is tokens already and its numbers do not overflow; the screen of
the desktop is a strip; the terminal window shows a value and not its lines, and its
three commands are left out; `ping` and commands of the shell that only print are left out,
and `beep`, whose note ends by itself; a line that is no UTF-8, which the console shows and
no program is given, has no letter in the model.

## Plan

Done: `FileTree`, `FileSystem` and their refinement, `FsDisk`, `Ps2`, `Memory`, `Rtl8139`,
Gemini with its two clients, sound, editor, Files window, shell, scripts, calculator and
desktop. Left, in this order:

1. Sectors that cannot be read or written, and what `init` and `write` make of it.
2. The terminal window with its lines and commands, which change `CWD` too.
3. `pwd_into`, with names as lengths.
4. Scripts with numbers of bounded width, in a build without overflow checks.
