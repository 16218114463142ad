# Bouncy World client: models, checks and proofs

This directory holds TLA+ models of the Bouncy World client (`src/`), the TLC
configurations that check them on small instances, and proofs checked by TLAPS.
The client is a small C program for Atari, BBC, Amiga, Linux and MS-DOS. It
registers with a server over one TCP stream, polls the state of a shared world
of bouncing shapes, draws it, and sends the player's commands.

The program is simple as long as one thing happens at a time. What is hard is
where two things meet: two Amiga tasks and one connection without a lock; a
request that was accepted although its write reported a failure; answers without
identifiers that only their order ties to the requests; a byte stream that cuts
frames anywhere and may end with one; one buffer that every answer overwrites;
two screen buffers that have to agree about an overlay drawn once into each; shapes
that hang over the edges of a world without edges.

## 1. The system

| Part | Source (under `src/src/`) | State | Operations | Hard behaviour |
|---|---|---|---|---|
| Framed readers | `common/connection.c` 194-545 | `read_offset`, locals of the loops | `read_response_wait`, `_min`, `_prefix` over `read_raw` | pieces of any size, end of stream, wrong sizes |
| Requests | `common/connection.c` 73-210, 585-611 | `write_offset`, `server_handle`, cached `x-w` | `send_command`, `request_client_data`, `connect_service`, `disconnect_service`, registration | retry of a write that may have been accepted |
| Simulation loop | `main.c`, `common/run_simulation.c` | `is_running_sim`, `current_step` | connect, preview, loop, disconnect; the Atari starts again | the answer buffer is shared by everything the loop calls |
| World and status | `common/world.c`, `status.c`, `who.c` | world globals, `clients_buffer`, `app_data` | `get_world_state`, `get_world_clients`, `get_world_cmd`, `get_broadcast`, `handle_app_status` | one status byte, several changes; changes between status and request |
| Keyboard | `common/keyboard.c`, `broadcast.c` | flags, `current_broadcast` | `handle_kb`, toggles, `do_command`, `add_body` | who runs a command while the worker lives |
| Amiga worker | `amiga/interpolation.c`, loop in `run_simulation.c`, `app_errors.c` | `worker_running`, `worker_alive`, ring, three snapshots | start, stop, copy, queue, pop, publish | preemption anywhere; an error in either task |
| Display | `common/display.c`, `*/double_buffer.*`, `*/playfield_clr.*`, `amiga/conio.c`, overlay of `amiga/perf.c` | `info_display_count`, buffers, pending flip | `show_screen`, `amiga_show_screen_shapes`, swap and present | overlay drawn once per buffer; flips later or refused |
| Amiga console | `amiga/conio.c` | cells, cursor, message port, what was opened | open, close, `kbhit`, `cgetc`, `cputc`, cursor | what is under the cursor block; opening that stops half-way |
| Shape previews | `*/shapes_preview.c` | tick counters | poll while waiting for a key | answers dropped |
| Small-stream adapter | `atari/stream/network.c` | read-ahead buffer, `failed` | init, open, close, read, write | uncertain operations, buffered frames, late EOF |
| Atari main | `main.c`, `atari/sio_mode.c`, `title_fx.s`, `vbi.s` | `saved_index`, `restore_needed`, interrupt vectors | title, switch off, game, restore, exits | one step of several fails; interrupts beside transactions |
| Keyboard fallback | `atari/key_fallback.s`, `vbi.s` | interrupt count, frames | interrupt, VBI sampling | interrupt races with the sampler |
| Interpolation | `common/bwc_interpolation_math.c`, blend in `amiga/interpolation.c` | two snapshots, tick counters | match, blend, publish | seams, images, ties, stalls |
| Decoding | `shape_decode.c`, `shapes.c` | the shape table | decoding records | widths, signs, bounds |
| Amiga graphics | `amiga/gfx.c`, `amiga/vector_outline.c` | cached outlines | tracing, clipping, drawing | shapes over the edges of the screen |
| Set-up | `common/get_info.c`, `get_line.c`, `appstore_settings.c`, `fetch_pacing.c`, `add_client_csv.c`, `title_edit` | input lines, stored settings, interval | editing, loading, saving, pacing, building the registration | failing store, last place of a line, limits |
| Rendering and shims | counters of `amiga/perf.c`, `bbc/*`, `atari/title*`, `linux/conio.c`, `msdos/conio.c`, sound | output only | | none that a model checker reaches |

How they interact: `main` connects, registers, shows the preview and calls
`run_simulation`. The loop calls `fetch_client_state` (a request, then a framed
reader into `app_data`), `handle_app_status` (which makes further requests into
the same buffer), `show_screen` and `handle_kb` (which makes requests too). On
the Amiga a second task makes all the requests while the first only draws and
reads keys, handing commands over in a ring. Every error ends in `handle_err`,
which on the Amiga waits for a key and then is `exit(1)`.

## 2. What makes each part correct

- Framed readers: a call leaves the stream at the next frame or at its end,
  stores nothing past its buffer, returns what the server sent, and ends.
- Requests: the answer a caller reads is the answer to its own request, whatever
  writes failed in between.
- Loop, world, status: what the client believes of the world is the server's
  current state, or a notification is under way; the frame on the screen is the
  frame fetched last; quitting takes effect.
- Amiga worker: the tasks never use the connection together; nothing is sent
  after the handle is closed; commands are run in order and not lost; snapshots
  are consecutive; quitting never waits for ever.
- Display: drawing never touches the buffer on display; the overlay in both
  buffers agrees with the data; the frame loop is never stuck on a flip; what was
  opened is closed in an order the system can bear.
- Console: the row of the editor shows what was typed, whatever was under the cursor.
- Decoding and graphics: a body is drawn at the place the server told, and of its
  outline the part that is on the screen, no more and no less.
- Small-stream adapter: it is a byte stream; an operation that may have been done
  is not followed by a different one; commands arrive whole.
- Atari main: the user's high-speed index survives any failure; no transaction runs
  beside foreign display interrupts; handlers are given back.
- Interpolation: bodies never leave the way between two snapshots and never jump
  when one arrives.
- Set-up: a line is what was typed; a setting reported as stored is the next
  run's; the interval on the screen is in use and within its limits; the server
  reads the registration that was meant.
- Keyboard fallback: no key twice, and a held key is heard although its interrupt
  was lost.

`PROJECT.json` lists under "hazards" the places of the code where these can
break.

## 3. Modules

| Module | Models | Variables and the code | Runs |
|---|---|---|---|
| `AsyncFetch` | the two Amiga tasks, the sequential loop used when `CreateTask` fails, and what an error does in either task | `fg`, `wk`: program counters; `todo[t]`: server calls a task has begun and not finished; `wire`: unanswered requests; `worker_running`, `worker_alive`, `command_*`: the file-scope variables; `published`, `previous`, `older`: snapshot numbers | `async`, `async_error` |
| `AsyncFetch_proofs` | theorems about `AsyncFetch` | | |
| `Framing` | the framed readers on a stream of offsets, in both builds (`small`) | `sent`, `closed`: the server's side; `read_offset`, and of what it counts the `surplus` nobody had asked for; `by_offset`: which of two kinds of transport; `total`, `want`, `have_header`, `payload_total`, `remaining`: the loops' locals; `pc`, `stage`: which loop | `framing`, `framing_eof` |
| `Framing_proofs` | theorems about `Framing` | | |
| `Session` | one client against the server it polls, from connecting to closing; `config` says which platform's loop and which world | `inbox`, `answers`: the two directions; `ahead`: the device accepted a request at `write_offset` that the client believes failed; `todo`, `calling`, `attempt`: the running handler; `app_byte`: `app_payload[0]`; `view`, `rows`: the client's idea of the world | `session`, `session_stale` |
| `Session_proofs` | theorems about `Session` | | |
| `Screen` | the info bar and the Amiga's overlay on the screen buffers; `platform` says which kind of screen | `bar[b]`: what the info rows of buffer b show; `info_display_count`, `is_showing_info`, `is_showing_clients`, `is_showing_broadcast`, `cur`, `flip`: the code's; `long_list`, `long_message`: `clients_buffer` and `broadcast_message` have lines down there | in `screen` |
| `Console` | the Amiga's console and keyboard as operators on a record | `px`: what the bitmap shows; `cell`: what the console believes (`screen_chars`, `screen_rev`); `on`, `at`, `saved`: the cursor block | in `screen` |
| `AmigaDisplay` | a program's display from its start to its end: opening, one field of the welcome screen on `Console`, the loop of `Screen`, closing | `held`: what `close_all` has to give back; `con`, `text`, `port`, `pushed`: console, the field's string, `win->UserPort`, `pushed_key`; `stage`: the place in the program | `screen` |
| `AmigaDisplay_proofs` | theorems about `Screen` and `AmigaDisplay` | | |
| `ByteStream` | what the framed readers expect of the TCP functions under them | `sent`, `closed`: the peer; `delivered`, `ended`: what the caller got | |
| `SmallStream` | the Atari adapter over carrier operations; implements `ByteStream` | `failed`, `pending`, `pending_at`, `pending_eof`: the file-scope state; `received`: the library's reply area; `connected`, `uncertain`, `taken`, `accepted`: the carrier; `command`, `length`, `actual`, `idle`: `bwc_stream_write` | `small_stream` |
| `SmallStream_proofs` | theorems about `SmallStream` | | |
| `AtariMain` | the Atari program around the sessions: title, SIO speed, interrupt vectors, exits | `hsio`, `fast`: FujiNet's index and the BIOS's speed tables; `saved_index`, `restore_needed`: `sio_mode.c`; `dli_enabled`, `vdslst`, `vvblki`, `vkeybd` and the saved handlers; `pc`: the place in `main` | `atari_speed`, in `atari` |
| `KeyFallback` | the Atari's keyboard: interrupt, sampler and the latch `CH` | `key_irq_count`, `key_baseline`, `key_frames`, `key_handled`: `key_fallback.s`; `key_down`, `kbcode`, `irq`: POKEY | in `atari` |
| `AtariProgram` | `AtariMain` and `KeyFallback` together: the vectors one takes over are the handlers of the other | theirs | `atari` |
| `AtariProgram_proofs` | theorems about `AtariMain` and `AtariProgram` | | |
| `ShapeDecode` | the records of a frame as bytes, from the server's side and `bwc_decode_shapes` | operators only | in `interpolation` |
| `VectorOutline` | `vo_trace` and `vo_clip_segment` | operators only | in `interpolation` |
| `AmigaGfx` | the shape table and the pixels `gfx_show_shape_px` lights | operators only | in `interpolation` |
| `Interpolation` | where the Amiga draws a body between two snapshots, from the bytes to the pixels | `published`, `previous`: records; `interval`, `elapsed`: differences of the tick counters; `body`: the server's world | `interpolation` |
| `Interpolation_proofs` | theorems about `ShapeDecode`, `VectorOutline`, `AmigaGfx` and `Interpolation` | | |
| `LineEditor` | a line of text being typed | `text`, `size` | |
| `Setup` | welcome screen, both line editors (implementing `LineEditor`), stored settings, pacing, registration record | `buf`: the character arrays; `i`: the editors' index; `fetch_interval_ms`; `store`: the app-store | `setup` |
| `Setup_proofs` | theorems about `Setup` | | |
| `MC*` | sets and scripts for TLC | | |

Definitions whose comment says `(mutant)` are changed copies of the definition
that follows them, kept to show that a property notices a plausible mistake.
They are used by no specification.

How the modules fit together: `Framing` reads from what `ByteStream` promises and
`SmallStream` implements; `Session` and `AsyncFetch` use the answers `Framing`
assembles; `Session` is one game of the `AtariMain` loop; `Interpolation` draws
the snapshots that `AsyncFetch` rotates, decoded by `ShapeDecode` and drawn by
`AmigaGfx`; `Setup` runs before every session, and `AmigaDisplay` shows one of its
fields before the frames begin.
`AtariProgram` is a composition in the strict sense: each step is one of `AtariMain`
or one of `KeyFallback`, and taking over the vectors is a step of both.

### What is abstracted

- Payload bytes: a frame is its length, a snapshot its number, a command its
  key press. `app_byte` keeps the one payload byte that the control depends on.
- `Framing` models how the bytes of an answer arrive; `Session` and `AsyncFetch`
  take an answer as one unit. `Framing` shows that this is sound as long as the
  stream goes on: `Aligned` and `WholeOnSmallStream`.
- In `Framing` a read may serve more than it was asked for, except on the small stream,
  whose adapter does not (`network.c:67-70`). `read_offset` advances by what was served,
  the caller's buffer takes what it had room for, as at `connection.c:295-307` and
  `423-436`. Whether the surplus is served again by the next read is up to fujinet-nio:
  with `by_offset` the transport goes by the offset it is given, which is behind the
  surplus, otherwise by the order of the stream. Either way nothing past the answer
  can be served, since no frame follows before the next request. What the surplus is
  made of is not modelled: a byte is its place in the stream.
- In `AsyncFetch` a server call is a request and an answer; both orders of the
  other task's steps between them are explored. A Forbid/Permit section is one
  step, because Exec does not switch tasks inside it.
- A `bwc_tcp_write` that reports a failure may have been accepted. The device
  accepts at most one request per write offset, so a repeated write at the same
  offset delivers nothing more. This is an assumption about fujinet-nio, whose
  source is not in this repository; the client's retry at an unchanged offset
  depends on it.
- `Session` leaves out the keys that only change how the screen looks; `i`, `w` and
  `o` are in `Screen`. A step is a byte, and what no frame was fetched or shown
  for is a value outside of the bytes (`NoFrame`), because `current_step` begins with
  one (`NoStep`, 0xff). `Screen` leaves out the shapes; the frame's content is in
  `Session`, its pixels in `AmigaGfx`. `get_world_state`, the reset of `info_display_count` that
  follows it and `get_world_clients` are one step of `Screen`. Of the client list and
  the message it has whether their frame reaches the last two rows: `show_clients`
  starts at row 2 and `broadcast` at row 4, so that takes 19 names (of at most 20, and
  never on the Amiga's 32 rows) or 17 lines (25 on the Amiga). The objects stay above
  the bar (`max_y` and `max_row` in `display.c`). On the BBC both texts are written
  straight into the screen and the rows of the playfield are copied over them
  (`bbc/double_buffer.c:18`), so that only what is below them is seen. What a message
  prints below the last row is not modelled.
- `SmallStream`: a byte is its position; a carrier operation is one step and, when
  it fails, may have been done. `BUSY` leaves everything as it was.
- `AtariMain`: a game is one place of the program. The stream build, which leaves
  the speed alone, is not considered; a sound or colour register is no state.
- `Console`: a cell is a character and whether it is reversed; that the block is
  painted and taken away with complement or copy is one assignment of the cell.
  `AmigaDisplay` has one field of the three, in the order of its code; what is
  stored and how the program starts with it is in `Setup`. The field is in one row,
  below the first and beside at least one more cell, and it starts with printable
  characters that fit, which is what `get_line` stores (`StoredAssumption`). The grave
  accent goes by its name, because a backquote in a TLA+ string is a quote.
- `AsyncFetch`: `cgetc` in the error screen is one step for the task that opened
  the window, and for the other no step at all.
- `Framing`: a header either tells the size of the frame it is part of, or one at
  which the reader gives up. A server that lies otherwise loses the alignment, and
  there is nothing a client could do.
- `AmigaGfx`: a contour is the list of its points; the orientation that would tell a
  hole from an outline is left out, since contours are stroked. `Line` is
  graphics.library's `Draw`, for lines without a slope. `ShapeAssumption` says that the
  embedded shapes are squares of one to five cells a side with some cell filled, as
  they are in `embedded_shapes.c`.
- `ShapeDecode`: angles take their place in a record and are skipped.
- `Interpolation`: the clock counts in units; the screen is a few pixels wide, so
  that seams, images and ties are all reached. Angles are left out, the client
  does not ask for them. The server sends the images of a body up to a margin
  outside of the screen. The assumptions are that the margin is at most the
  screen, that positions fit into 16 bits, that bodies are on the screen with
  identifiers other than 0 (`PlacesAssumption`), and that a snapshot's records fit
  into `SHAPE_POS_MAX` places (`RoomAssumption`): the client stops decoding at the 84th, and
  a body cut off in one snapshot would be drawn without a blend, or blended with an
  image that is not the nearest.
- `KeyFallback`: the keyboard interrupt may come, be masked for a blank or two, or be
  lost; the sampler is atomic, since it runs in the non-maskable interrupt. One key
  goes down per frame at most. The OS's own key repeat is left out, and its handler
  is a step that puts the code into `CH`.
- `Setup`: characters are digits, a blank and letters that stand for all others;
  cursor, wording and the scheme put before an endpoint are left out, and so are
  the signs that `strtoul` accepts. The assumptions are those of the code: the field of
  the interval has the four places of 1000, capabilities have 16 bits, the numbers of
  the registration are a positive `int` of the 8-bit builds ("small by construction",
  `CsvAssumption`), and a registration without capabilities, which is built without a
  look at the size, fits with the longest name (`LegacyAssumption`).
- History variables (`accepted` and `executed` of `AsyncFetch`, `fetched`, `shown`,
  `drawn`, `past`, `suppressed`, `overdrawn`, `original`, `off_lost`, `restore_failed`, `reached`,
  `kept`, `loaded`, `meant`, `body_before`, `heard`, `unseen`, `quiet`, `busy`) record the past for the properties; no guard of a modelled
  action reads them, except `drawn`, which only the end of a round clears.

## 4. Runs

| Run | What it shows | Bounds, and why they are enough |
|---|---|---|
| `async` | the tasks exclude each other on the connection, answers go to the caller, the ring is a FIFO, snapshots are consecutive; quitting and queued commands complete, or an error screen stands in their way | ring of 2 or 3 slots so that it is full and wraps; enough keys to fill it and wrap; 3 snapshots, the depth of the rotation; statuses that cause none, one and several calls; any call of either task may fail |
| `async_error` | violation: after an error in the worker, quitting joins a task that waits for ever | one key and one fetch: the failing call and the quit |
| `framing` | both builds of the readers with all pairs of calls | buffers of 1 to 3 bytes and chunks of 4, payloads from empty to one more than fits (prefix: a drain of one and of more than one chunk, a chunk longer than the buffer); headers that tell less than their own size; two calls, so that the second shows where the first left the stream; reads of any number of bytes that are there, on the two kinds of transport that may serve more than was asked |
| `framing_eof` | violation: a whole frame together with end-of-stream is returned as empty on a packet transport | as `framing` |
| `session` | the loops of Atari, MS-DOS and desktop: repeated sessions, abandoned polls, server commands and messages, more clients than rows | two steps so that the step wraps, and without commands three, with 0xff, the value `current_step` begins with; one or two changes of the world, one to three keys: the poll, its retry and a command overlap already |
| `session_stale` | violation: the step is read from a buffer another answer has replaced | the desktop configuration |
| `screen` | four kinds of screen: the info bar settles in both buffers, flips may be queued or refused, updates may come from another task, a long client list or message is drawn over the bar and what is left of it goes with the next change, the overlay covers the bar and leaves; on the Amiga also opening that fails anywhere, the field of the welcome screen, and closing with a flip under way | three changes: one per buffer and one in between, or the bar on, a long text on and off again; a console of 6 by 2 cells with a field of 3 and the cursor's cell beside it; a letter, the menu's letter, a digit, erase, return and keys without a character, two of them waiting; a field that starts empty or full |
| `small_stream` | the adapter is a byte stream, commands are whole, nothing follows an uncertain operation, writes end | a carrier buffer of 2 bytes and an idle limit of 2; reads and commands of 1 and 3 bytes, smaller and larger than the buffer; two opens, so that state of the first could leak into the second |
| `atari` | transactions against display interrupts, the index across any failures, interrupt handlers; keys come once and held keys are heard | OFF and one other speed; an interrupt masked for one blank, since the second sample supplies the key; a counter of four where at most three interrupts come before a key is handled; games are repeated without limit |
| `atari_speed` | violation: after a half-failed restore the next game runs at high speed | `AtariMain` alone with three speeds |
| `interpolation` | the drawn position lies on the way, does not jump, does not depend on the order of records; the pixels are those of the shape's outline that are on the screen | a screen of 8 by 5 pixels for a world of 4 by 2 cells, where halves are whole and rows do not divide evenly, with a margin of 2: every seam, two images in sight and exact ties; gaps of up to 3 ticks, frames later than an interval; one body that is at the edges or inside, one at a seam or away; all the embedded shapes at every place that is drawn, so also larger than the screen |
| `setup` | lines are what was typed, stored settings come back, the interval shown is used and paced as a ceiling, the registration is read as it was meant | two edits, over any number of restarts; lines of 2 to 4 places, so that the last place, the one before it and numbers beyond 1000 are reached; a buffer that the longest registration overruns by its terminator |

Each run that expects a violation corresponds to an entry of "findings".

Further observations, without a run:

- An error in the simulation leaves through `handle_err`, so that the comment at
  `run_simulation.c:123` ("Either errored or user quit - deregister from the
  server") holds for quitting only.
- The Amiga's worker may reset `info_display_count` between the foreground's test
  and its increment (`display.c:239`). The lost update has no lasting effect only
  because the Amiga's `playfield_clr` clears the info rows as well: the mutant
  `PlayfieldRedraw_Keeps` shows the bar out of date for ever if they were kept.
- For the same reason the bar is gone with the third frame on the Amiga, Linux and
  MS-DOS, where `src/README.md:242-243` lists keys "in the on-screen legend (info
  overlay)"; `BarSettles` asks for less there.
- The overlay is drawn after `ChangeScreenBuffer` was asked to show the buffer
  (`run_simulation.c:75`, `display.c`), so it may be painted while it is on the display,
  against "Make sure all graphics.library drawing has reached the back bitmap before
  asking Intuition to display it" (`amiga/conio.c:195-196`). `DrawsOffScreen` is
  about the frames.
- "One overlay frame never combines two different exchanges" (`amiga/perf.c:265-267`)
  is ensured on the reader's side only: the worker stores the fields one by one,
  outside any Forbid, at `connection.c:152-153` and `world.c:69`.
- On an NTSC machine the bitmap has 200 rows, but the console draws text rows up to
  the 31st. The registered size and the wrap use 256 rows (`connection.c:560`,
  `interpolation.c:165`), while shapes are scaled with the real height. The model has
  one height for both, as on PAL.
- The editor of an endpoint takes 60 characters from column 5 of 40 columns: the line
  wraps, and the moves within it act on the row the cursor is then in.
- The last place of a full line stays on the screen when the line is edited again:
  `get_input` blanks one place less than the line has. `TypedIsShown` tells it by
  `meant.last`.
- A digit under shift has no character on the Amiga. Its window has no close gadget,
  so `IDCMP_CLOSEWINDOW` never comes. Without a display the program runs on, and the
  welcome screen polls a `kbhit` that is always 0 for ever (`get_info.c:196`).
- The hand-made outlines say "shape 1: 5x5 plus" and "shape 2: 5x5 hollow square"
  (`amiga/gfx.c:62-65`), but the embedded shape 1 is another tile and shape 2 is 4 by 4,
  so that its loops leave the shape's "own 0..width grid" (`gfx.c:29`). They are also
  drawn without the test for shapes that are off the screen. `OutlineDrawn` leaves
  the two out.
- "Shapes render as filled vector silhouettes by default" (`src/README.md:240`): only
  outlines are stroked (`gfx.c:24`).
- `vo_trace` stores the start of a 17th contour one past `contour_start`, before it
  notices that there is no room (`vector_outline.c:123`). No shape of five cells a side has more than 15: see section 5.
- A key held since before the game is supplied once more two frames after the game has
  installed its handlers: `key_fallback_init` (`key_fallback.s:22`) does not look whether
  a key is down, where `src/README.md:139-141` promises the code only for a key without an
  interrupt. `GameKeyOnce` excepts it by `unseen`.
- A broadcast is printed one word a row with no limit of rows (`broadcast.c`), so that
  17 words or more go over the info bar, and so do 19 clients (`who.c`). Where the clearing
  leaves the bar's rows (Atari, BBC) what was written there stays after the list or the
  message was switched off, because neither the W key (`keyboard.c:84`) nor the
  server's commands (`world.c:187-199`) reset `info_display_count`; the next change of
  the world or the I key takes it away. `BarIsCurrent` and `BarSettles` except it by
  `overdrawn`, and only what a text left since the last reset.
- A first frame with the step 0xff is not drawn: `current_step` begins with that value
  (`data.c:57`). `ScreenIsCurrent` excepts it; the screen is drawn with the next step.
- A key that is looked at for two frames while `CH` still holds the one before it is
  marked as handled (`key_fallback.s:71-78`) and not supplied later, however long it is
  held. The same happens to a key that goes down before the sampler has seen the one
  before it go. `HeldKeyHeard` excepts both (`busy`, `unseen`).
- A name with a comma in it is registered as other fields (`add_client_csv.c:118`);
  `RegistrationRead` excepts it. The buffer of the registration has 64 bytes, but so
  has `cmd_tmp`, which holds the command before it as well (`data.c:22`); the numbers
  in use are short enough for both.
- "The surplus stays queued for the next read" (`connection.c:295-297`) holds only for a
  transport that takes no notice of the offset it is given. `read_offset` advances by all
  that was served (303), the buffer takes what was asked for (304-307), and the next read
  is made at the offset behind the surplus (257): a transport that goes by the offset
  never serves it, and a header read of two bytes that served three leaves
  `read_response_wait` waiting for ever for its last byte. `CallEnds` excepts it by
  `Skipped`; without the exception TLC gives this trace. Which kind of transport
  fujinet-nio is cannot be seen here.
- `read_response_prefix` returns what it has of a chunk that the end of the stream cuts
  short while it drains (`connection.c:533-535`). That is no length of the caller's
  buffer and may be more than it; `get_world_clients` happens to limit it to the rows
  on the screen (`world.c:139`). `StaysInBuffer` says so.
- More client rows than `CLIENT_ROWS_MAX` are drained into `app_data`, over the step
  of the frame just fetched. `ScreenIsCurrent` is about worlds with no more clients
  than rows, as it is about servers without commands (the run `session_stale`).
- `read_response_wait` returns fewer bytes than the exact length when the stream
  ends inside the payload, and `get_world_state` decodes the buffer all the same.
- The comment that the match is "independent of the server's packet/set order"
  (`bwc_interpolation_math.c:101`) does not hold for two images exactly half a
  world away; `OrderIrrelevant` excepts them. The cut-off for implausible moves of
  `docs/snapshot-interpolation.md:64-66` is not in the code.
- With nothing stored the fetch interval's field is empty although 100 is in use:
  `appstore_read_setting` clears the default put there before (`get_info.c:282`).
  After a store error, a rejected interval shows that old error instead of its
  limits (`get_info.c:251`).

### Fairness

- `AsyncFetch`: weak fairness for each task, because both run at one priority
  and Exec time-slices them; weak fairness of sending and receiving, because the
  server answers what it is asked. Errors are never required. An error screen of the
  foreground ends with a key, which nobody has to press.
- `Framing`: weak fairness of the reader without its transport errors, which are
  never required, and of the server's delivery. A server that neither answers
  nor closes leaves the reader spinning: NOT_READY repeats without a limit.
- `Session`: weak fairness of the client's steps and the server's; strong
  fairness of `ServeFrame`, since a server that answers every poll with an empty
  frame keeps the loop from ever reading the keyboard (`run_simulation.c:91`);
  strong fairness of `PollSent`, since on MS-DOS failing polls are repeated for
  ever. The user, the world and failures have none.
- `AmigaDisplay`: as `Screen`, in the loop; opening, typing and closing have none, since
  what is said of them is safety.
- `Screen`: weak fairness of the frame loop and of Intuition finishing a flip it
  accepted, strong fairness of `FlipAsked`: not every flip is refused.
- `SmallStream`: weak fairness of the write loop only. Neither the device nor the
  peer is required to do anything: the idle limit ends the write.
- `AtariProgram`, `Interpolation`, `Setup`: none; their properties are safety.

## 5. Proofs

Each `*_proofs` module shows, for every value of the constants that its component's
assumptions allow, what a run shows on a small instance. Its `IInv` is the inductive
invariant: it holds at the start, every step keeps it, and the properties follow from
it. It was checked by TLC on the run's instance before it was proved. The bounds of the
runs (how many fetches, keys, changes, edits) are never used, so the theorems hold
without them. `PROJECT.json` lists every theorem with what it states.

| Module | Theorems | States |
|---|---|---|
| `AsyncFetch_proofs` | `TypeCorrect`, `ConnectionInvariant` | `TypeOK`, `IInv` |
| | `ConnectionIsExclusive`, `NothingAfterClose`, `AnswersAreOwn` | `ConnectionExclusive`, `NoCallAfterClose`, `AnswerIsOwn` |
| | `RingIsAFifo`, `SnapshotsAreConsecutive` | `RingIsFifo`, `SnapshotsConsecutive` |
| `Framing_proofs` | `FramingInvariant` | `IInv` |
| | `CallsStayAligned`, `CallsStayInBuffer`, `FramesAreWhole` | `Aligned`, `StaysInBuffer`, `WholeOnSmallStream` |
| `Session_proofs` | `SessionInvariant` | `IInv` |
| | `AnswersAreOwn`, `ViewStaysFresh`, `ScreenStaysCurrent` | `AnswerIsOwn`, `ViewIsFresh`, `ScreenIsCurrent` |
| `SmallStream_proofs` | `StreamInvariant`, `CommandsAreWhole` | `IInv`, `CommandsWhole` |
| | `UncertainIsLeftAlone` | `NothingAfterUncertain`, an action property |
| | `AdapterIsByteStream` | `IsByteStream`: `SmallStream` implements `ByteStream` |
| `AtariProgram_proofs` | `AtariInvariant` | `IInv` of `AtariMain` |
| | `IndexIsKept`, `TransactionsAreUndisturbed`, `HandlersAreRestored` | `IndexKept`, `TransactionsUndisturbed`, `HandlersRestored` |
| | `ProgramIsAtariMain` | `ProgramSpec => Spec`: the composition implements `AtariMain` |
| | `ProgramInvariant`, `GameKeyComesOnce`, `HeldKeyIsHeard` | `IInv /\ KInv`, `GameKeyOnce`, `HeldKeyHeard` |
| `AmigaDisplay_proofs` | `DisplayInvariant` | `IInv` |
| | `DrawnOffScreen`, `BarStaysCurrent` | `DrawsOffScreen`, `BarIsCurrent` |
| | `DisplayIsReleasedInOrder` | `ReleasedInOrder`, an action property |
| | `TypedShown` | `TypedIsShown` |
| `Interpolation_proofs` | `DecodingGivesBack` | for all capabilities, counts and room: `Decode` gives back the records `Payload` packed, up to the room |
| | `BlendingStaysBetween`, `ArrivalsAreSmooth`, `OrderDoesNotMatter` | `NeverExtrapolates`, `NoJumpAtArrival`, `OrderIrrelevant` |
| | `BodiesAreOutlined` | `OutlineDrawn` |
| `Setup_proofs` | `SetupInvariant`, `SettingsAreKept` | `IInv`, `SettingsKept` |
| | `ShownIntervalIsUsed`, `RegistrationIsRead` | `ShownIsUsed`, `RegistrationRead` |
| | `IntervalIsPaced` | `Paced(fetch_interval_ms)`, in the menu and elsewhere |
| | `FieldIsALine` | `IsLine`: the editors implement `LineEditor` |

The arguments:

- `AsyncFetch`. Exclusion is not inductive: that the worker is idle when the
  foreground closes the connection follows from the stop handshake, not from the
  present program counters. `Handshake` says what `worker_running` and `worker_alive`
  tell of the tasks at each place: from `join` on the flag is down, and a worker that
  is not announced yet can only go to its test, which sends it out. `CallOwner` says
  at which places a task may have calls to make; in particular the foreground has none
  while the worker runs, because its keys are queued. `OneOnWire` says that the wire
  holds at most one request, the one at the head of its task's list. The FIFO rests on
  two lemmas about the ring for every size: taking from `command_tail` takes the
  first of what the ring holds, and a slot filled at `command_head` is its new last;
  that the ring is refused when one slot is free keeps full and empty apart.
- `Framing`. `Loops` relates the locals of each reading loop (`want`, `total`,
  `remaining`) to the call; `Place` says where in its frame the stream is at each
  stage, so that a loop that ends leaves it at the next frame; `NotAhead` that
  without the adapter no byte of a later frame has arrived. The sum over earlier
  frames never appears: a frame's `start` is part of the script, and `ScriptAssumption`
  says that each starts where the one before it ends and that a header is honest or
  refused. Sizes are those an `int16_t` holds. Where a surplus is skipped the
  place in the stream runs ahead of the count of stored bytes (`Place` says it is at
  least as far), but never past the frame (`NotAhead`), so that the loop cannot end:
  this is why `Aligned` holds in spite of it and `CallEnds` excepts it (`Skipped`). That a read is never counted past its buffer
  (`past`) is the clamp's doing alone.
- `Session`. `Place` lists what is left to ask at each place of the loop; `Wire` and
  `Own` say that a request awaited is the last one on the way, behind polls that were
  given up, and the only one where none is given up; from this a reader finds its own
  answer. `Fresh` and `FreshClients` say how the picture of the world may be old: then
  a status bit is pending or on its way, or the request for it is still in the list.
  An answer on its way may be old too, but only in the same case. `Shown` follows the
  step from the poll through `app_data` to the screen; it needs `NothingQueued`, that
  no other answer overwrites it.
- `SmallStream`. `Latched` says that an uncertain operation has latched its error and
  left every loop; `WriteInStep` that the byte to be written follows the last accepted one;
  `CacheInStep` that what was delivered and what is cached are together the bytes taken
  from the carrier. The refinement maps each step to one of `ByteStream` or to none.
- `AtariMain`. `Ownership` says whose handlers are installed at each place,
  `IndexWhere` where the user's index is kept, `SpeedLowered` how far the switch to
  standard speed has got; properties at one place need what earlier places ensured.
- `AtariProgram`. The fallback supplies a key when no interrupt was counted since the
  baseline, and a byte counter may come round. `FewInterrupts` shows that at most two are
  counted before the next baseline, so that equal counts mean no interrupt. This needs
  `CountAssumption`: a counter of more than two values (256 in the code), and an
  interrupt that is not masked over two blanks; if it were, the key would come twice.
- `AmigaDisplay`. `Swapped` and `Queued` say which buffer is drawn and which displayed
  in each kind of build; `BarDrawn` counts the buffers that have the bar, or
  the text drawn over it since the last reset. The assumption
  on builds is the code's: where `playfield_clr` leaves the info rows, frames are shown
  at once and the loop handles the events itself. `Opened` says that the opening holds
  whole groups, so that giving up leaves nothing half-open.
- `TypedIsShown` compares a row of pixels with a text that is known only when no key is
  waiting, so the invariant has to say what is shown and what is still to come.
  `EditInv` does both: the console stands exactly as the menu, or the line
  being edited, would leave it (`Shown`: every cell of the bitmap, what the console believes of each, the
  cursor block and the cell saved under it), and the keys in the port, with the one that was
  read early and pushed back, lead from the present text to the text meant (`After`).
  The last place of a full line is a parameter of it, since `get_input` leaves it on the
  screen. Each console operation has a lemma that says which cell it changes; the loop
  over a string is one such operation by induction over the string, and so is the reading
  of keys over the messages that give none. `FreshInv` says that nothing
  is written and no key is read before the welcome screen.
- `Interpolation`. The decoder is shown one field at a time: the signed and the wide
  readers give back each number of their range, and each record starts where the one
  before it ends. `Ranked` shows that the server's order numbers the images, so that a
  snapshot holds exactly the images in sight. `OneAxis` is the geometry, and the reason
  for the margin's assumption: along each axis, whatever copy of the body is nearest to
  a place, some image that was sent reaches a place as near with one shift. Distances add
  by axis, so `ImageIsNearest`: the first of the nearest candidates is as near as any
  copy in the endless tiling. `PartOfTheWay` is the division that rounds towards zero: the
  blend lies between its ends and begins at the first of them. `Consistent`
  says that the two snapshots are those of the two latest worlds. For the order of
  records: whichever of the nearest candidates comes first, it is at the same place when
  only one place is nearest.
- `OutlineDrawn`. The four sides at a corner of the grid are those of the four cells
  around it, so as many edges of the boundary come to a corner as leave it
  (`StartsBalanced`), and taking away a closed contour keeps it so. A walk along unused
  edges can therefore only get stuck where it began (`WalkCloses`), whichever of them
  `next_edge` prefers, and there are edges enough for it to get there (`ContourCloses`). No two
  edges face each other, so a closed walk has four edges or more
  (`ClosedWalkIsLong`). The middles of the edges are different, and there are 60 places for them
  (`EdgesFew`). Hence at most 15 contours, one less than `VO_MAX_CONTOURS`, and nothing is
  ever truncated (`ShapeTraced`): every shape is drawn from contours that have each
  edge between a filled cell and an empty one, and no other. A segment without a slope is
  clipped in at most two of the seven turns, each of which keeps what it lights of the screen
  (`ClipStep`, `ClippingIs`). `Placed` says that no frame draws outside of `Area`, which is
  what TLC enumerates.
- `Setup`. `Edited` is the text in the array during an edit: `title_edit` keeps a
  terminated string, `get_line` nothing but terminators behind its index, with the last
  place as an exception. `StoredOK`, `IntervalStored` and `Loaded` relate the store, what
  the user believes and the values in use, also after a write that failed. `FrameAssumption` says
  that a byte holds the frames of the longest interval, with 16 or 20 ms a frame.
  Numbers are written by dividing and read by multiplying: `FiguresAre` says which
  figures a number gives, to the last that is not zero, and `ValueOfFigures` that
  reading them gives the number, for decimal and hexadecimal alike. With it
  `ShownIsUsed` is that each write of the field is of a number in range.
  `RegistrationRead` reads at the commas: `FieldsOfNext` and `FieldsOfOne` say that a
  word without a comma, put behind a comma, is one more field, and leaves the others.
  A buffer passed to the registration ends within its array (`Terminated`), which the editors and the app-store ensure.

Recursive functions are shown what they compute by a least counterexample: the library's
induction rules take an operator as a parameter, which the provers cannot instantiate, but
a set of natural numbers that has a member has a least one (`LeastOfNaturals`), and from it
follows induction over a set (`Induction`). A recursive function is a `CHOOSE` of a function that
satisfies its equation, so one that is shown to exist does.

Four of these proofs changed what was stated. `ScreenIsCurrent` did not hold with more
clients than rows, `StaysInBuffer` not for a drain cut short, and `GameKeyOnce` not for
an interrupt masked over two blanks; the observations and assumptions above are the
result. The proof of `TypedIsShown` found that the table of the keys was read by the parser
with fewer characters than it was written with, because of the backquote.

Only checked by TLC, and why:

- All liveness (`QuitCompletes`, `CommandsRun`, `CallEnds`, `QuitEnds`,
  `CommandsFetched`, `BarSettles`, `FramesGoOn`, `WriteEnds`): it needs fairness and ENABLED.
- The four expected violations, which are counterexamples.

## 6. Not modelled, and the plan

Done: `AsyncFetch`, `Framing`, `Session`, `Screen`, `ByteStream` and
`SmallStream`, `AtariMain`, `KeyFallback`, `AtariProgram`, `Interpolation`,
`LineEditor` and `Setup`, `Console` and `AmigaDisplay`, `ShapeDecode`,
`VectorOutline` and `AmigaGfx`, and the proofs of section 5.

Left out for good: the drawing of the BBC, sound, title screens, the consoles of Linux
and MS-DOS, the wording of the info bar, of the list of clients and of broadcasts, and
what they print above the info rows, the previews' animation, the performance counters,
debugging and timing helpers, scripts and build files. They are output or tooling, with
no state that another part depends on. The messages of the set-up screen (its row 18)
are left out for the same reason; whether storing failed is in `Setup`.
