# websocket-std in TLA+

TLA+ modules, TLC configurations and TLAPS proofs for the synchronous WebSocket
client of this repository (`src/websocket/src/sync/client.rs` and what it calls).
`PROJECT.json` maps every definition to the lines it models and lists runs,
mutants, findings, hazards and theorems. Line numbers below are of
`src/websocket/src/sync/client.rs` unless another file is named.

## 1. The system

| Component | State | Operations |
|---|---|---|
| Client API (104-207) | every field of `WSClient` (82-101) | `new`, `init`, `send`, `set_message_size`, `set_timeout`, `protocol` |
| Event loop (209-528) | `connection_status`, `stream`, `recv_storage`, `recv_data`, `input_events`, `output_events`, `websocket_key` | `event_loop`, its read, its input handlers, its output handlers |
| Drop (530-566) | the same, and a start time | clears the queues, queues a Close, runs `event_loop` until CLOSE, error or timeout |
| Frames, headers (`ws_basic/frame.rs`, `header.rs`, `core/binary.rs`) | none | `DataFrame::new`, `ControlFrame::new`, `serialize`, `bytes_to_frame` |
| Status codes (`ws_basic/status_code.rs`) | none | `from_bits`, `evaulate_status_code` |
| HTTP (`http/`) | none | `Request::serialize`, `Response::parse` |
| Key, mask (`ws_basic/key.rs`, `mask.rs`) | none | `gen_key`, `verify_key`, `gen_mask` |
| Reading (`core/net.rs`) | none | `read_into_buffer` |
| C interface (`ffi/`, with its program `src/ffi/example.c`) | one raw pointer to a client, two threads, no lock | `wssclient_new/init/loop/send/drop`, `from_rust_event` |
| Errors, extensions | none | an enum; an enum that nothing uses |
| Outside the repository | TCP stream, server, callback, program | what the client calls, and who calls it |

**Interaction.** Everything runs on the thread that calls `event_loop`. One call
(209-226) reads once without blocking, takes at most one frame or response out of
`recv_storage`, pops at most one event off `output_events`, *then* handles the
input and *then* writes the popped event. Handlers call the program's callback with
`&mut self`, so the callback can call `send` or `init` before the handler's caller
goes on. `init` only records what to do; the next `event_loop` connects. Drop runs
the same loop itself. The C interface forwards to the same client, and its example
runs the loop in a thread of its own.

**What is hard.** The server and the network act between any two system calls, so
reads return any prefix of what was sent and writes may block, block half way or
fail. The output event is popped before the input is handled and written after it,
in a state the input may have changed. A `?` may leave at any point between two
assignments. Two Closes may cross. `init` resets no queue. The callback re-enters.
Drop's wait races the answer. Reads end inside a header, a character or a separator;
lengths choose between encodings; sizes are cut to the width of `usize`. The threads of
the C example share a client without a lock.

**What makes it correct.** Frames reach the server in the order `send` took them,
once each, never before the handshake nor after a Close; texts reach the callback in
the order the server sent them; the closing handshake is one Close each way and one
event; no handler unwraps a stream that is gone; Drop returns; queues drain. As bytes: the
frames of a text are the text, the server decodes what was encoded, the client
decodes what the server sent however it is cut, and a read never leaves the client out of step.

## 2. The modules

```
whole items:  WSEvents <- WSConnection <- WSEventLoop <- WSClient <- WSProperties <- MCWSClient
                                                            |             |
                                                  WSClientProofs     INSTANCE WSSession (abstract)
                                                            |
                                                  WSOrderProofs (EXTENDS WSProperties, too)
                                                            |
                                                  WSHandshakeProofs <- WSCloseProofs <- WSSessionProofs

bytes:        WSBytes <- WSSend <-+
                 |         |      WSWire <- WSWireProperties <- MCWSWire
                 +<----- WSHttp <-+   |             |   (WSWire takes ReplyStatus from WSEvents)
                                      |             |
                              WSBytesProofs <- WSWireProofs

threads:      WSThreads <- WSThreadsProofs
```

The client is modelled twice, each time with the other half of its difficulty left
out. The first chain has every interleaving (blocked writes, lost connections,
`init` again, Drop, a callback that calls back) over frames that arrive whole; the
second has the bytes (masks, lengths, headers, reads that end anywhere) over a
client that connects once and is never dropped. What one chain takes for granted
of the other is written at its place: that an item which has partly arrived has not
arrived (`Aligned`, `WSWire`), that a byte stream comes from a queue in order
(`FramesInOrder`, `WSProperties`).

**WSEvents** gives a name to what the client queues, writes and reads. An *item* is
a whole frame, an HTTP message or "no data" (`enum Event`, 37-44), with the number
of the frame, ping or key, or the status of a Close. BINARY is not told apart from TEXT,
as in the client (`frame.rs` 22-32, 207). `from_utf8` is modelled by what
it decides (is a character open, closed or interrupted between these pieces?);
`ReplyStatus` by `from_bits` and `evaulate_status_code`; `ResponseAsFrame` is what
`bytes_to_frame` makes of the bytes `HTTP/1.1 101`, which it does see when a client
is dropped over an unread response; what is left of the response behind those 86 bytes stays in
`recv_storage` (`RestOfResponse`), also for the next connection.

**WSConnection** is external: the stream and the server. `srv_sent` is what the
server wrote, `rd` how much of it the client has read, `wire` what the client wrote,
`peer` what the socket will say of the other end. The server reads the request and
accepts or refuses, sends frames that RFC 6455 allows (fragmentation and UTF-8
included), closes; the connection ends (`eof`) or is lost (`reset`). For the client
it offers `Readable`/`Arrived` (a non-blocking read), `ReadError` (from
`core/net.rs` 9-25), `WriteAll`/`WouldBlock` (`write_all` on a non-blocking socket)
and `ShutdownFails`.

**WSEventLoop** is the client. Its variables are the fields of `WSClient` and the
locals of `event_loop`; `pc` is the point a call has reached. Actions:

| Action | Code |
|---|---|
| `init`, `set_message_size`, `set_timeout`, `Send` | 128-140, 183-207 |
| `event_loop_idle`, `start_init` (unreachable, blocking socket, connected) | 209-212, 142-175 |
| `read_bytes_from_socket`: read, take one event, pop one event | 214-220, 228-250, 300-310, 409-450 |
| `read_fails` | 413 |
| `handle_recv_frame`, `handle_recv_http_response`, `recv_ping`, `recv_pong`, `recv_undefined`, `recv_close_from_server`, `recv_close_answer`, `recv_close_ignored` | 252-298, 312-349, 468-527 |
| `write_sent`, `write_sent_closing`, `write_sent_shutdown_fails`, `write_blocks`, `write_fails` | 351-382, 452-466 |

One call is three steps, read / input / output, because these are the places at which the
server and the network can act; the steps between them touch only the client's own
fields. `Report` is a handler's call of the callback together with what the
callback does about the event: nothing, one `send`, or one `init`. `input_events` is empty outside a call and holds at most one event
inside it, so the variable is replaced by `in_event`. A `todo!()` or a slice out of
bounds leads to `pc = "panicked"`, `send` with a message size of 0 to `"diverged"`.

Operators marked *faulty* stand just before the definition they are a mistake in.
No specification uses them; each is the form a plausible bug would take, and shows
that a property can tell it from the code.

**WSBytes** is `ws_basic/frame.rs`, `header.rs`, `mask.rs` and `core/binary.rs` as
operators on sequences of bytes: `header_bytes` and `length` (67-101 of `header.rs`),
`DataFrame` and `ControlFrame`, which cut what does not fit (104-123 of `frame.rs`),
`serialize`, `masked`, and `bytes_to_frame` with its outcomes: frame, incomplete, refused (the code is taken
from five bits), panic. It panics on an extended length that has not arrived, on one that overflows the sum of
line 187 (`overflows`), and on a control frame whose length is less than its header's, which it cuts as if
the header had two bytes (213-214). `from_utf8` is what Rust's is: whole characters (`char_at`), no overlong
forms and no surrogates; `is_char_boundary` is the other question the code asks of a `&str`.

**WSSend** is `send` (191-207), one step per turn of its loop, with
`message_size as usize` cut to `Usize` and the panicking slices. **WSHttp** is
`Request::serialize`, `Response::parse` and the join of the protocols. A text
is a sequence of bytes, with the separators as they are and each word one letter. `lossy` is line 43 of
`response.rs`: of bytes that are no text, and of those that `from_utf8_lossy` cannot finish because a read
ended inside a character, nothing is left; whole characters stay, except U+FFFD.

**WSWire** composes them with a client and a server at byte level. Actions: `send`
(`WSSend`), `start_init` (request with the headers in either order of the map, in front of
what was queued), `event_loop` (a read of 0 to `BufferSize` bytes, `Found`, one input handler,
one output, in one step), `ServerReadsRequest`, `ServerReadsFrame` (an RFC 6455 server, external:
it decodes with `Unframed`, encodes with `Framed` and speaks when the first frame reaches it). A `Case` is a
conversation: the text, the message size, the protocols, the response, the server's frames. `written` is a history:
the events whose bytes went out, from which the server has yet to read those behind `Taken`. Payloads are shorter than
2^31 bytes (`WireAssumption`), because `be64` writes four zeros; protocol names hold no end of a line, which `Request`
would copy into the head.

**WSThreads** is `src/ffi/example.c` over `ffi/`: main creates the client, starts the
thread, initialises, joins, drops; the thread loops until its ten seconds are over or
the loop returns an error. `event_loop` is reduced to the fields it reads, the event it
reports and the error it returns; `BecomesVisible` is the moment when one of main's
unsynchronised stores reaches the other thread.

**WSClient** adds Drop (`drop_now`, `drop`, `Tick`, `drop_ends`), the program, the
server and `Spec`. **WSProperties** holds the properties. **WSSession** is the
abstract specification: one connection as the program and the server see it. Frames are numbered as
they are handed over; the set `pending` is what has not passed, `passed` what has, the lowest number goes
first, the connection opens once and closes once, and the program hears of it. **MCWSClient** and
**MCWSWire** define values for TLC. The modules with **Proofs** in their names hold the theorems (section 4): each of
the client's extends the one before, because it needs its invariant.

## 3. The properties and the runs

Twelve runs, six of which are expected to find a violation. `CHECK_DEADLOCK FALSE`: the systems stop
for good after Drop, a panic, an endless `send`, the end of a conversation or of the program; that
they do not stop elsewhere is what the liveness properties, `NothingIsLeft` and `ProgramEnds` show.

| Run | Explores | Checks |
|---|---|---|
| `one_connection` (MCWSClient) | every legal server (rejecting too) and network, one `init`, with and without callback, under `FairSpec` | `TypeOK`, `StreamPresent`, `FramesInOrder`, `NothingLost`, `HandshakeFirst`, `NothingAfterClose`, `EveryTextDelivered`, `DropWaits`, `CloseIsReported`, `SilentAfterClose`, `ImplementsSession`, `DropReturns`, `CloseCompletes`, `QueueDrains`, `PingIsAnswered` |
| `echo` (MCWSClient) | a callback that sends, as in `src/examples` and `src/ffi/example.c`; fragmented messages both ways, message sizes 0 and 3, two-byte characters, half writes | `NothingLost`, `ImplementsSession` |
| `reconnect` (MCWSClient) | two more `init`s at any time, from the program or the callback; refusals; spaces in old bytes | `StreamPresent`, `FramesInOrder`, `KeyIsCurrent` |
| `bad_frames` (MCWSClient) | frames that are refused, panic or split a character; frames after the server's Close; a server that speaks first; Closes with statuses on both sides of each branch of `evaulate_status_code` and `from_bits` | `FramesInOrder`, `RefusalCostsOne`, `CloseIsAnswered` |
| `wire` (MCWSWire) | 59 conversations as bytes, every read of 0 to all bytes in flight | `WireTypeOK`, `TextIsCut`, `NeverWraps`, `ServerGetsText`, `ProtocolsOffered`, `ControlMirrored`, `Aligned`, `HandshakeAgrees`, `HeardIsSent`, `OrdinaryIsUnderstood`, `NothingIsLeft`, `WireInv` |
| `threads` (WSThreads) | the C example, stores visible in order | `ThreadsTypeOK`, `LoopOwnsClient`, `InitSeenWhole`, `ProgramEnds` |

What these show, in a sentence each:

- `FramesInOrder`: no write that blocks, no PONG or Close that jumps the queue, no
  second connection makes a data frame overtake another or go out twice.
- `NothingLost`: while the connection is up, the numbers of the frames on the wire, in the call and
  in the queue are exactly those `send` gave, 1 to `queued`; as they increase along that line
  (`FramesInOrder`), the line is the sequence of the frames `send` took.
- `RefusalCostsOne`: with inputs that are refused, on an open connection, no step loses a frame except a call that
  ends in the refusal of its input (`InvalidFrame`, `DecodingFromUTF8`), and that one loses the output it had popped and
  nothing else: not what is queued behind it, not what a blocked write put back, not what an accepted input came with.
- `HandshakeFirst`: no frame leaves before the request, nor before the acceptance of
  this key was read, also for frames queued before `init`. It is stated for one
  connection; `KeyIsCurrent` is its counterpart when `init` is called again.
- `NothingAfterClose`: no data and no second Close behind our Close, whoever began.
- `CloseIsAnswered`: when the callback hears SERVER_CLOSE, the last frame on the wire
  is a Close with the status reported, which is the right answer to one the server sent.
- `CloseIsReported`: unless the connection was lost, exactly one closing event, the
  last, and with the right cause.
- `EveryTextDelivered`: each text is heard, in hand, in storage or unread; what was heard comes before what was not,
  and both are in order, each text once.
- `DropWaits`: Drop leaves its loop without error only at CLOSE or after the whole timeout.
- `StreamPresent`: none of the `stream.as_mut().unwrap()` meets a `None`.
- `SilentAfterClose`: no step that begins in CLOSE writes, not even the output that
  was popped before the Close was handled.
- `ImplementsSession`: all of the client, its callback, the server and the network is a
  `WSSession`: among other things, frames that were queued are given up when closing begins except for the
  one already in hand, and nothing is heard before ON_CONNECT or after the close. Behind a half-written frame the stream
  is out of step, so `Session` maps the first of them to a failed stream (`Failed`): no frame counts as passed behind it (`Reached`), nor as
  on its way (`Leaving`). `echo`, where writes stop half way, shows the rest of `WSSession` to hold all the same.
- `DropReturns`, `CloseCompletes`, `QueueDrains`, `PingIsAnswered`: Drop ends against a silent server, a
  server's Close does not hang between answer and shutdown, what was put back is sent in the end, and a
  PING that was handled gets its PONG, unless the connection ends first.
- `TextIsCut`, `NeverWraps`: the frames of `send` are the text cut every `message_size as usize` bytes, TEXT
  first, FIN on the last and on no other, and no sum passes `usize`. Both are also proved (section 4).
- `ServerGetsText`: a server that decodes by RFC 6455 gets that text back, from lengths 1 to 65536, masked,
  behind the request.
- `ProtocolsOffered`: the server reads the protocols the program gave, whatever the order of the headers, when they are tokens
  (`Tokens`: not empty, without white space or comma; the client joins whatever it is given).
- `ControlMirrored`: a PONG carries the PING's payload and the answer to a Close the reason behind its own status (`Answers`). Of
  a payload above 125 bytes, which RFC 6455 forbids, it is the beginning (`Mirrors`).
- `Aligned`: with the bytes in flight, `recv_storage` is always a whole number of the server's frames; no
  read, wherever it ends, leaves the client in the middle of one.
- `HandshakeAgrees`: the client opens on a response that accepts its key, refuses any other, and takes the protocol
  named: repeated headers, other cases, bytes that are no text, characters that a read may cut, wrong codes.
- `HeardIsSent`: texts sent in single frames are heard byte for byte, in order.
- `OrdinaryIsUnderstood`, `NothingIsLeft`: a conversation of the kind `Ordinary` describes is never refused, never panics and
  comes to rest only when it is over: every text of the server was heard, and either its Close was answered and reported with the
  status of the answer, or the server has the client's whole text. Not both: a Close clears the queue (489), so a text in several
  frames may be cut short (`CutCases`). `Ordinary` names what it leaves out, and each of those is an observation or a finding below.
- `WireInv`: the inductive invariant behind these (section 4); it says where every byte is between the two ends.

`Aligned`, `ControlMirrored` and `HeardIsSent` are about responses without a body (`HasBody`): what arrives of a body after the
head is taken for frames, and may then be heard or answered (observations below).

In the C program:

- `LoopOwnsClient`: the thread runs the loop only on a live client that main is not dropping.
- `InitSeenWhole`: no loop works with half of what `wssclient_init` stored.
- `ProgramEnds`: the program ends, whatever the server and the network do.

`CloseIsAnswered` and the texts of `one_connection` hold under restrictions that are
part of the run: the server sends no PING before its Close (`bad_frames`), does not speak before the
client's first frame and sends whole messages and nothing that is refused (`one_connection`). `IncompleteWaits`
fails only for extended lengths, which is what `Ordinary` excludes, and `InitSeenWhole` only when stores are
reordered. Each restriction is lifted in a run that is expected to fail:

| Run | Property | What the code does |
|---|---|---|
| `fragments` | `WholeMessages` | A first fragment is stored, joined to itself, reported and dropped (254-286): "Hel" + "lo" is heard as "HelHel", then "lo". |
| `ping_then_close` | `CloseIsAnswered` | The PONG popped in the call that handles the Close is written in SERVER_WANTS_TO_CLOSE and so completes the close (362); our Close is never sent and the callback hears status 0. |
| `eager_server` | `EveryTextDelivered` | Bytes behind the response are cleared (307). |
| `torn_write` | `TornFramesAreFinished` | After a half write the whole frame is sent again (360, 453). |
| `partial_header` | `IncompleteWaits` | The two or eight bytes of an extended length are sliced before they have arrived (`frame.rs` 178-184): a text of 126 bytes or more panics when a read ends there. |
| `race` | `InitSeenWhole` | The loop thread starts before `wssclient_init` (`example.c` 108, 114) and may see the status before the fields. |

### Observations without a run

Met while modelling, each reproducible by changing one constant of a run:

- With `CallbackOps = {"send"}` and `DefaultTimeout = 2`, `NothingAfterClose` fails: `send` (193) returns
  early only in CLOSE, so a callback that answers a text during Drop's loop puts data behind the Close.
- With `DefaultTimeout = 1`, half a second, `DropWaits` fails: both sides of 552 are cut to whole
  seconds, so the limit is 0 and Drop never runs the loop. `echo` uses this value on purpose: its Drop
  ends at once, which keeps the observation above out of that run.
- At the end of the stream `?` (413) returns before `recv_storage` is looked at: complete frames in it
  are never handled.
- Each fragment is decoded by itself (262), so a message whose frames split a character is
  refused; if the first fragment was kept in `recv_data` the half character refuses every later text as well.
- When `shutdown` fails at 364 or 509 the status is CLOSE already and the callback never hears of it;
  hence "unless the connection was lost" in `CloseIsReported`.
- A frame with a reserved opcode is not drained (166-170 of `frame.rs`): every later call fails on it.
- In CLIENT_WANTS_TO_CLOSE any Close is the answer (504), also one the server sent while our own is still queued; the
  queue is cleared, our Close is never written and CLIENT_CLOSE is reported.
- A refused input returns from `event_loop` (222) with the popped output, which is lost: `RefusalCostsOne` says that no
  other is, and `NothingLost` fails with refused frames.
- A response taken for a Close (a client dropped over it) leaves its last bytes in `recv_storage` (247). If the client
  connects again, they are read in front of the next response, which may then not parse, or panic for want of words in its first line.

In the byte model (`wire`):

- A payload of 125 bytes takes the longer form of the length (`< 125`, `header.rs` 81), while
  `ws_basic/test.rs` 23 speaks of a "Payload less than 126 bytes". Servers decode it all the same (`ServerGetsText`).
- `ControlFrame::new` announces a payload above 125 bytes as 125 and cuts it to 124 (`frame.rs` 110). No such frame goes out: the
  client writes only what it received or two bytes of its own, and `bytes_to_frame` makes the same cut as it reads. What a PONG
  then carries is the beginning of the PING's payload (124 or 125 bytes of it), which RFC 6455 forbids a server to send.
- An empty control frame (an empty PING, or a Close without status) and every PONG panic: 213-215 of `frame.rs`, and `todo!()` at 475. So
  do a control frame with an extended length that is less than the four or ten bytes of its header, and an extended length within ten of 2^64
  (187: the sum overflows).
- `set_message_size(0)`, or 2^32 on a 32-bit target, makes `send` loop for ever; a size that cuts a character panics.
- Bytes of the response's body that arrive in a later read are taken for frames (307, 335).
- A header line without a colon makes `parse` return none (`response.rs` 71) for ever: HANDSHAKE never ends, and nothing times it out.
- A status line of one or two words is indexed out of bounds (`response.rs` 57, 62).
- `Some(&[])` for the protocols panics in `start_init` (162).

In the C interface:

- A text with a NUL makes `CString::new(..).unwrap()` panic in an `extern "C"` function, which aborts (`ffi/common.rs` 76; `loop_aborts`).
- The strings and boxes that `from_rust_event` makes for each event (`into_raw`) have no function that frees them.
- `wssclient_new` copies a client into place and lets the original be dropped; in NOT_INIT that drop does nothing that the copy could see.
- When `pthread_create` fails main returns without `wssclient_drop`.

### Bounds

| Bound | Values | Why enough |
|---|---|---|
| `MaxServer` | 3 | a response and two frames: PING then Close, two fragments, text then Close, Close then anything |
| `MaxQueued` | 2, 3 | a text cut in two or three and one queued before or behind it; order and loss show with two |
| `MaxInits`, `MaxKeys` | 1; 3 and 2 in `reconnect` | a connection and those that replace it: what is left of a response that the second drops over reaches the third |
| `DefaultTimeout`, `Timeouts` | 1, 2, 4 half seconds | below, at and above a whole second |
| `ShortTexts`, `WideTexts` | lengths 1, 3, 4 | below and above the message sizes 2 and 3, divisible or not |
| `Usize` | 2^20 | sizes are at, just below and just above it, so that the cut to `usize` and its remainder both happen; TLC's integers end at 2^31 |
| `BufferSize` | 1024 | the code's; reads of every length from 0 to it, and texts longer than it |
| `MaxFrames` | 6 | a text of 4 bytes in frames of 1, and two turns of a loop that never ends |
| `Cases` | 59 | each length of 124 to 127, 65535, 65536; each outcome of `bytes_to_frame` and `parse`; sizes that divide, do not divide, exceed the text, cut a character, are 0 |
| `MaskKeys` | 2 | bytes 0 and 255, and four different bytes, so that a shifted index shows |
| `Limit`, `MaxTexts` | 3, 2 | the time limit before, between and after any event; a text in the thread and one in Drop |

Numbers tell frames apart; they are given in order, so a larger instance has more of
the same. The queue itself is never long-bounded: `MaxQueued` counts `send`s, PONGs come on top.

### Fairness

`FairSpec` is used by `one_connection` only.

- `WF(event_loop)`: both examples, the C example and Drop call it in a loop. A program that
  stops calling it gets no progress, which no property could promise.
- `WF(Tick)`, `WF(drop_ends)`: time passes; a loop whose condition is false ends.
- `SF(read_bytes_from_socket /\ rd' # rd)`: a non-blocking read may find nothing again and
  again, but bytes that were sent arrive in the end. Strong, since each call also
  passes through steps in which no read is enabled.
- `SF(write_sent \/ write_sent_closing)`: a write may block again and again, but a
  server that reads frees the buffer. Without it the client may try for ever; that is what TCP gives.

No fairness is assumed of the server: it may never answer. `DropReturns` then rests
on the timeout; the other properties speak of what the client has already received
or queued, and end when the connection or the program does.

`WSThreads!Spec` has weak fairness only, of main, of the thread, of time, and of the end of Drop's loop, which is
`DropReturns`. `WSWire` has none: `NothingIsLeft` says instead, as an invariant, that no state in which
nothing more can happen is short of the end of the conversation.

## 4. What is proved

`tlapm` checks every leaf of the eight modules `WSClientProofs`, `WSOrderProofs`, `WSHandshakeProofs`, `WSCloseProofs`,
`WSSessionProofs`, `WSBytesProofs`, `WSWireProofs` and `WSThreadsProofs`.

### The client

These theorems hold for all values of the constants that satisfy
`ServerAssumption` and `ClientAssumption`, which only type them: any set of
frames, any callback operations, any number of inits and texts. Whatever else a theorem needs stands in its statement:

| Theorem | States | Under |
|---|---|---|
| **TypeCorrect** | `TypeOK` | |
| **StreamSafe** | `StreamPresent` | |
| **ClosedIsSilent** | `SilentAfterClose` | |
| **OrderKept** | `FramesInOrder` | |
| **KeyCurrent** | `KeyIsCurrent` | |
| **FramesAfterHandshake** | `HandshakeFirst` | `inits <= 1` |
| **DropIsPatient** | `DropWaits` | a timeout of whole seconds |
| **CloseReported** | `CloseIsReported` | a callback that does not call `init` |
| **CloseIsLast** | `NothingAfterClose` | `inits <= 1`, `[][QuietDrop]_vars` |
| **CloseAnswered** | `CloseIsAnswered` | `inits <= 1`, `PingsAreEmpty` |
| **NothingIsLost** | `NothingLost` | `inits <= 1`, `WholeFrames` |
| **RefusalsCostOne** | `RefusalCostsOne` | `inits <= 1` |
| **SessionImplemented** | `ImplementsSession` | `MaxInits <= 1`, `WholeFrames`, `[][QuietDrop]_vars` |
| **TextsDelivered** | `EveryTextDelivered` | `inits <= 1`, `PlainTexts` |

No condition is for the proof's sake: without it TLC finds the property violated.

- `inits <= 1`: the histories `wire`, `srv_sent` and `rd` are those of one connection. `HandshakeFirst` fails
  in `reconnect`: `init` again over the socket of an unanswered handshake, then Drop, puts a Close on that socket.
- whole seconds: `DropWaits` fails with `DefaultTimeout = 3` (one and a half seconds) in `one_connection`.
- no `init` in the callback: `CloseIsReported` fails in `reconnect`. A callback that calls it inside Drop's loop
  leaves CLIENT_WANTS_TO_CLOSE, so a Close of the new server is reported while the client is being dropped.
- `QuietDrop` (nothing is queued while the client is being dropped: of the callback, it asks not to answer texts
  that arrive then): `NothingAfterClose` and `ImplementsSession` fail with `DefaultTimeout = 2` in
  `echo` (first observation of section 3). A callback that never sends meets it (`QuietCallback`), so `QuietIsLast` and
  `QuietSession` state the two without it; one that echoes before Drop does, too.
- `PingsAreEmpty` (no PING of the server carries two bytes or more, so none is answered with a PONG): `ping_then_close`.
- `WholeFrames` (opcodes of RFC 6455, no character divided between frames): `NothingLost` and `ImplementsSession` fail
  with the frames of `bad_frames`. `RefusalsCostOne` is what is left without it.
- `PlainTexts` (the server does not speak before the client's first frame; each text is one frame, whole; texts are numbered by
  their place): `eager_server` for the first part, `fragments` and the observation on split characters for the second. The
  number is the label by which the property tells texts apart.

### The inductive invariants

**Types and streams** (`WSClientProofs`). Besides the types, `TypeOK` says that the locals of a call
live as long as it: no event is in hand between calls, and while output is handled there is one. `StreamSafe`
covers every `event_loop` also with a callback that calls `init`; it does not cover Drop's own `unwrap` (563),
where such a callback may reconnect.
`StreamPresent` is not inductive. A state in the input step with status CLOSE, or
in the output step with CLOSE and a live socket, satisfies it and breaks it (or
`SilentAfterClose`) one step later. `StatusInv` excludes them: the input step is
only ever in a status in which bytes are read; by the output step a handler may have
closed the connection, and then the socket is shut down, so the write that follows
fails; and while Drop runs the status is CLIENT_WANTS_TO_CLOSE or CLOSE unless the
callback calls `init`. `IInv == TypeOK /\ StatusInv /\ StreamPresent` is inductive; the module proves it
one lemma per part of `Next`, over lemmas on `send`, `Report` and the item operators.

**Order** (`WSOrderProofs`). `FramesInOrder` does not say that the next frame gets a number that is not yet on the line.
`OrderInv` adds that every number on the wire, in the hand of `event_loop` and in the queue is at most `queued`, and states the order
piece by piece (`InOrder` within a piece, `Precedes` between two), so that each action is a small lemma on pieces: a pop (`PipedPop`),
a write (`PipedWrite`), a frame put back (`PipedRequeue`), a `send` behind the queue (`PipedSend`), an item that is no data frame
anywhere (`PipedOther`). `TypeOK` is needed for the pop: it finds nothing in hand, because `out_event` never outlives its call.

**Keys** (`WSHandshakeProofs`). `init` resets neither the queue nor `recv_storage`, so requests and responses of an
earlier connection may still lie there. `KeyInv` says why they do no harm: every key anywhere is at most the key generated last
(`KeysUpTo`), a server responds once and to the first request (`RespondsOnce`), and a response that carries the current key, in
`recv_storage` or in hand, was read on the current connection (`AnswersAreRead`). `OnceInv` adds what is true of the first connection only:
nothing is written before the socket is connected, no frame is written or in hand in the handshake, and it is over when the answer was read.

**Closing** (`WSCloseProofs`). For `CloseIsReported`, `CloseHeardLast`: no close was heard while the connection is in use or its socket is left over, and
only Drop closes for the client. For `NothingAfterClose`, `CloseInv`: before Drop no Close is on the wire, because the one that
answers the server's ends the connection when it is written; while Drop closes, its Close is in one of three places, wire,
hand or queue, and nothing behind it may not follow it (`ClosingLine`); what a callback sends to a server that is closing is behind the answer. For `CloseIsAnswered`, two invariants.
`ReceivedInv` is about the way in: `recv_storage` is the last items read, item for item, the first of all was the response, and the one in hand
is the last one taken. `AnswerInv` is about the way out: without a PONG, the only control frame waiting while the server closes is the answer to a Close that was read.

**Losses** (`WSSessionProofs`). `Numbered`: what is on the line was queued. `Linked`: from the handshake on there is a stream, so no write is dropped for want of one. A case lemma for
each part of `Next` then says that it *accounts* for every frame (each new one, and no other, joins the line), or that it is
one of the named ways to lose some: a close, a failed stream, a refused input, which takes what is in hand and no more (`OnlyRefusalsLose`).
`LosslessInv` excludes the refusals under `WholeFrames`; without it, a step in which something goes missing is a refusal (`RefusalReturns`: the call ends with one
of the two errors), and that is `RefusalsCostOne`.

**Refinement** (`WSSessionProofs`). `SessionInv` adds `ClosingInv` to `LosslessInv` and `OrderInv`: Drop leaves no frame but its Close; nothing is in hand when the connection
has closed; the answer to the server's Close is the next to be written, or behind the one frame that was in hand (`EndsSoon`); and an
input is handled with the head of the queue in hand, so that no PONG gets between. Each action is then a step of `WSSession` or none
(`ProgramStep`, `StartStep`, `ReadStep`, `InputStep`, `OutputStep`, `ServerStep`). `OrderInv` shows that the frame written is the foremost of those pending. A half write fails the abstract stream (`Torn`), after which what is
written passes nothing (`ReachedAppend`). What
the program or the callback sends goes behind what is queued and so changes neither (`QueuedBehind`).

**Texts** (`WSSessionProofs`). `EveryTextDelivered` does not say that the text in hand is the next one. `Delivering` does: what was heard are the texts
among the items done with, no text was sent before the handshake was over (so what line 307 clears holds none), and no
fragment is kept. With `ReceivedInv`, which says where the others are, the property follows.

### Sending and bytes

What `WSBytesProofs` says of `send` rests on `SendAssumption`: texts are bytes, not longer than half of `Usize` (no Rust object exceeds
`isize::MAX`), sizes are natural numbers, `Usize` is any positive number.

- **SendNeverWraps**: `SendSpec => []NeverWraps`. The text is shorter than half of `usize`, but the size may be anything
  below it, so the sum alone could wrap; it does not because the index is a multiple of the size and still inside the text:
  a second turn happens only when the size, too, is smaller than the text.
- **SendCutsText**: `SendSpec => []TextIsCut`. The frames are the text in pieces of the size set.

`TextIsCut` is not inductive, as it says nothing of `data_sent`. `Steps` adds that `data_sent` is the number of frames times the size,
and inside the text before each turn. `SInv == SendTypeOK /\ Steps /\ TextIsCut` is inductive.

The rest of `WSBytesProofs` is about single frames, for every payload below 2^31 bytes (`Longest`: TLC's integers, and the four zeros in
`be64`) and whatever bytes follow:

- **FrameRoundTrip**: `bytes_to_frame` reads back the unmasked data frame that `serialize` wrote, and where it ends.
- **ClientReadsServer**: it reads the flag, the code, the payload and the end of every frame that a server writes in the
  shortest of the three forms: data of any length, control frames of 2 to 125 bytes. The lower bound is the code's: an empty
  control frame is a panic in `bytes_to_frame` (`wire`, in its cases with an empty PING).
- **NeverTooEarly**: it takes no proper part of such a frame for a frame. It waits, and panics if and only if the part ends inside
  an extended length; so the finding of `partial_header` is the whole of what is wrong there, for every length.
- **ServerReadsClient**: what `serialize` wrote with a mask, unmasked the way RFC 6455 says, is the payload, with flag, code and the
  place where the next frame begins, for every mask and all sixteen opcodes. It needs `header.payload_len` to be the length of the
  data, which every frame the client writes meets: what it echoes was cut to fit when it was read (section 3).
- **TextArrives**: `SendSpec => []PiecesArrive`. It joins the last theorem with `TextIsCut`: whatever `send` has pushed so far is read by
  a server as the text in pieces of the size set.

The argument has three layers. `XorTwice` takes a byte into its eight bits (`BitsOfByte`), on which `xor` is a sum without
carry (`XorOfBits`), so that masking twice is the identity. `Announces` says what the one, three or nine bytes of a length are, and `LengthBytes`,
`ShortLengthBytes` that client and server write such bytes. `Begins` and `Carries` say where header, mask and payload stand in a
longer sequence; `ReadsLength` finds the length there with the mask bit set or not, and both readers rest on it.
`xor` is written as a sum of eight terms rather than as a fold so that the provers can expand it.

### The conversation

`WSWireProofs` proves every property of the run `wire` that is about the conversation as a whole, for every text,
message size, width of `usize`, mask, list of frames (any flags, any opcode, any payload below 2^31 bytes), response and
protocols, for every size of the read buffer and wherever reads cut the bytes.

| Theorem | States | Under |
|---|---|---|
| **WireTyped** | `WireTypeOK` | |
| **WireAlways** | `WireInv` | |
| **ServerGetsTheText** | `ServerGetsText` | |
| **OffersItsProtocols** | `ProtocolsOffered` | |
| **StaysAligned** | `Aligned` | |
| **HearsWhatIsSent** | `HeardIsSent` | |
| **MirrorsControls** | `ControlMirrored` | |
| **HandshakeAsAWhole** | the client opens as the whole response says, and with its protocol | |
| **AgreesWhereverCut** | `HandshakeAgrees` | `CaseIsTrue` |
| **OrdinaryTraffic** | `OrdinaryIsUnderstood` | `CaseIsTrue` |
| **RestsAtItsEnd** | `NothingIsLeft` | `CaseIsTrue` |

`CaseIsTrue` is not about the client: a `Case` carries what is expected of its response (`accepts`, `protocol`), so that TLC
compares the client with what was written down beside the response; for any response at all, what is written down has to be what
`parse` makes of the whole of it. **HandshakeAsAWhole** says the same without a `Case`'s word for it.

*Induction over data.* Sequences of frames, events and header lines are flattened (`FlattenSeq`), and the library's induction theorems take an
operator, which the provers cannot instantiate. `WFMin` with `NatLessThanWellFounded` does not: from it follow a least element
(`LeastOf`), induction over a set of numbers (`SetInduction`) and over a set of sequences (`SeqInduction`), each with a *set* in place of the
operator, and from these what `FlattenSeq` makes of one sequence behind another (`FlattenConcat`, `FlatThrough`). `Sent`,
`TextFrames`, `Stream`, `DataOf` and `Heard` are written with it, so that each is a map that goes through a sequence piece by piece; `lossy`
is one, too, but of bytes with those behind them, and is treated below.

*The invariant.* None of the properties is inductive: they speak of what the ends have, not of what is in between. `WireInv` does.

- `Phases`: which of the request, the response and the frames exists in which status.
- `InTransit`: the bytes to the server are those of the events written and not yet read, and each frame it read is the one written.
  Its step (`BaseFrame`) is `ServerReadsClient` for the first of many frames, and for the request that its head ends where it ends
  (`HeadIsRequest`: no line of it is empty).
- `TextInOrder`: the data frames written, then those waiting, are a beginning of the frames of `send`. With `TextIsCut` this gives `ServerGetsText`.
- `InStep`: for some `j`, the bytes ahead are the frames after the `j`-th and what was heard are the texts up to it. Its step (`TakesOneMore`) needs
  that a frame found at the front of a *part* of the stream is the next frame, whole (`FrameAligned`), for all flags and codes, also
  those the client misreads; `Aligned` and `HeardIsSent` follow.
- `ControlsAnswer`: every control frame waiting or written answers one of the server's.
- `Course`, for `NothingIsLeft`: an ordinary conversation is talking (the text is written or waits, and only the PING taken last is to be answered) or
  ending (the answer to the Close is all that waits, or it is written and reported).

*The request.* `OffersItsProtocols` follows it from the list of names to the server and back. `SplitsAgain` says that a text made of pieces, each
with a separator of two different bytes behind it, is split into those pieces, when none holds the first byte of the separator and the last
separator is cut off: `Joined` cuts ", " off the names, and where the head ends cuts an end of line off the lines. So the server has the lines
back (`LinesAgain`), among them the one of the protocols at either place, and out of its value (`trim` takes the space off and
nothing else, `Untrimmed`) the names. The invariant `Offering` adds that what waits or is written first is a request of `start_init`, and
that a list without names never gets that far.

*The response.* It is read again from its start after every read, so what is needed is that a part of it without its end is no response
(`ParseIs`: `parse` asks for the empty line first) and that what follows the head changes nothing (`HeadDecides`). For both, what `lossy` keeps of a
part must begin what it keeps of the whole (`LossyMore`). It does not go through a sequence piece by piece: a part may end inside a character, of which
it then keeps nothing, and the rest of the bytes may complete it. But a character that has arrived stays, and behind a
byte with which an unfinished one begins there are only continuation bytes, of which nothing is kept (`CharStays`): so what a later read adds, it adds at the end.

### Threads

`WSThreadsProofs` holds for every time limit and every number of texts.

- **ThreadsTypeCorrect**: `Spec => []ThreadsTypeOK`. `TypesInv` adds that no store is pending twice.
- **LoopIsOwner**: `Spec => []LoopOwnsClient`, stores reordered or not. The invariant is `Control`: while the thread is started and not
  ended, main is before or at the join; that is what keeps its drop away from the loop.

`InitSeenWhole` is not among them. It holds when main's stores become visible in order, which `threads` assumes to show that nothing else breaks it;
but no lock, atomic or thread creation orders them for the other thread, so a theorem under that assumption would say nothing of this program. `race` is the run without it.

### Only model-checked

- Liveness: `DropReturns`, `CloseCompletes`, `QueueDrains`, `PingIsAnswered`, `ProgramEnds` (fairness is beyond the prover).
- `InitSeenWhole` under visibility in order (above).
- The violated properties of section 3.

## 5. What is not modelled

- SHA-1, base64 and randomness: a key is a number or a letter and `verify_key` an equality with what a server makes of it; a mask is any of a set.
- Liveness of the byte model: TLC's evaluation of ENABLED over the reads is too slow; `NothingIsLeft` states the safety part.
- Frames whose first byte carries several flags are read, but extensions (`extension.rs`, `extensions`) are not used by the code.
- White space and letters outside ASCII: `trim` and `to_lowercase` are those of ASCII. No name or word that the client looks up holds others.
- A callback that calls the client more than once in one event.
- The C names of statuses and events (`ffi/common.rs`, `websocket-std.h`): two lists in the same order, compared by reading them.
- A callback that calls `event_loop` or drops the client's owner; unwinding through Drop after a panic.
- Texts of length 0 in the item model (`send` queues nothing for them).
- `close_iters`, `cb_data`: never read, or passed through.
- `wssclient_send` and the strings that cross the C interface: the example's program sends from inside its callback only, which is `echo`.
- `src/websocket/tests` and `src/examples` are programs that use the client: what they do is in the program's and the server's actions.

## 6. Plan

Done: WSEvents, WSConnection, WSEventLoop, WSClient, WSSession, WSProperties and their five proof modules; WSBytes, WSSend, WSHttp, WSWire,
WSWireProperties, WSBytesProofs, WSWireProofs; WSThreads, WSThreadsProofs. Next, by importance:

1. Proofs: what `ControlFrame` cuts of a payload above 125 bytes, and what a server then reads; `from_utf8` of two texts one after the other.
2. **TextReassembly**: `recv_data` against an abstract stream of messages, once the fragments finding is settled.
3. A client behind a lock, as the specification that the C program should implement.

Abstract specifications worth stating: WSSession (done), the text as one sequence (`TextIsCut`, done), a stream of
reassembled messages (2), a client behind a lock (3).
