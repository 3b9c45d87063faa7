# A verification of minimote-server

minimote-server (`src/`) lets a phone act as mouse and keyboard of a Linux host: it takes
packets over TCP and UDP and turns them into events of a virtual input device.
This directory holds TLA+ models of its parts, the TLC runs that check them, and
TLAPS proofs of what matters most.

## 1. The system

One process, one thread, one signal handler.

| part | source | state | operations |
|---|---|---|---|
| process | `main.c` | `minimote_server_is_running`, set by `start` and cleared by the SIGINT handler | set up, start, stop, destroy |
| server loop | `server/minimote_server.c` | master sockets, `read_sockets`, the clients | `select`, then every ready client, then one `accept`, then one datagram |
| client record | `client/minimote_client.c` | address of the first message, `tcp_socket_fd`, `tcp_buffer`, controller | made at the first message of an IP address, removed at the end of its connection |
| client table | `commons/containers/hash` | 8 buckets of linked nodes, the key is the IP address alone | put, get, delete, foreach |
| TCP connection | `server/minimote_server.c` | bytes read and not yet handled | `recv`, push, parse, advance, handle |
| ring buffer | `net/ring_buffer.c` | storage, `start`, `end` | init, push (with a roll), advance, length, get |
| packet format | `packet/minimote_packet.c` | - | parse, data, payload length |
| controller | `controller/minimote_controller.c` | `last_move` | move, buttons, scroll, write, keys, hotkey |
| display | `display/minimote_display.c` | the uinput device, xkb tables | emit events |
| keyboard map | `commons/utils/xkb_utils.c`, `io_utils.c` | the keymap; keysym -> (keycode, modifiers); modifier -> keycode | fetched from X11 or Wayland, scanned and parsed, once at start |
| arguments, log, string, list, I/O helpers | `args`, `log`, `commons` | - | parsing and formatting |

How they interact: `main` installs the handler and calls `minimote_server_start`, whose
loop calls everything else.  The loop shares with the handler one flag, with the
kernel the descriptor table and the sockets, and with the peers nothing but
messages.  A client record is found by IP address by both the TCP and the UDP side.

What is hard here:

* the stream is cut anywhere by `recv`, and the ring buffer rolls while packets are partial;
* `select` says what is ready, and the answer is used while connections come and go;
* one record per IP address, whatever the number of its connections and sockets;
* the result of `accept` and of `ring_buffer_push` is ignored;
* `hash_delete` is called from inside `hash_foreach`;
* datagrams are lost, duplicated and reordered, and mixed with TCP packets;
* SIGINT may come between any two steps, also before `select` or before the start;
* a Wayland compositor sends its events when it likes, and the keymap is waited for with calls
  that any event satisfies;
* the modifiers are read from the text of the keymap, over a hash whose keys are names but
  are compared as integers, by a loop that can turn on the spot.

What makes each part correct, and where it is stated:

| part | correct when | stated as |
|---|---|---|
| ring buffer | it is a bounded byte queue whose cursors stay in the storage | `RingBufferSpec!ImplementsQueue`, `TypeOK` |
| TCP connection | the packets handled are the packets sent, each of them unless one is malformed or the connection is reset | `HandledInOrder`, `ImplementsChannel`, `CloseLosesNothing`, ... |
| server loop | each record owns its descriptor; nobody blocks, evicts or starves anybody; answers reach who asked | `OwnFd`, `RecvWouldNotBlock`, `NoEviction`, `Served`, `AnswersGoHome`, ... |
| client table | it is a map that frees each value once and walks each node once, also when the walk deletes | `ImplementsMap`, `OwnedOrFreedOnce`, `VisitsEachOnce` |
| process | SIGINT, and nothing else, ends it, soon | `StopsAfterSigInt`, `AtMostOneMoreWait`, `LeavesOnlyWhenAsked` |
| controller | the cursor follows the finger whatever the network does, and never jumps | `Tracks`, `LateMovesNothing`, `NoJump` |
| display | nothing stays pressed that was not asked for; characters are typed as asked | `HeldAsAsked`, `WritesWhatIsAsked`, ... |
| keyboard map | it is that of the right seat, and gets ready; the combination stored for a symbol generates it, with as few modifiers as can be; the key stored for a modifier is one of its keys | `FetchesKeymap`, `StartsUp`, `FewestModifiers`, `EverySymbolMapped`, `MappingGenerates`, `ModifiersResolved` |

## 2. The modules

```
ByteQueue  <-implements-  RingBufferSpec --.
                                           RingBuffer <--.
                          MinimotePacket <-- TcpStream --' -implements-> PacketChannel
MinimoteServer      Lifecycle      Hash -implements-> HashMap      Pointer
XkbKeymap <-- XkbFetch, XkbKeysyms, XkbModifiers <-- Display
```

| module | models | state and actions |
|---|---|---|
| `RingBuffer` | `ring_buffer.c` | a buffer is a record `buffer`, `start`, `end`; one operator per function, with `uint32` arithmetic modulo `UintRange`. `Push` returns the answer and the buffer, which has rolled also when it refuses |
| `RingBufferSpec` | the buffer under its callers | `PushBlock`, `AdvanceBy`; what is proved of it is in `RingBufferSpec_proofs` |
| `ByteQueue` | the abstract queue | `Accept`, `Refuse`, `Dequeue` |
| `MinimotePacket` | `minimote_packet_parse` | what it returns, for a length byte and a byte count |
| `TcpStream` | `handle_client_ready` and `try_handle_client_buffer` on one connection | `RecvData` (recv and push), `HandlePacket` (one turn of the `while`), `StopDrain` (its end), `RecvEof`, `RecvError`; the peer sends, closes or resets in between |
| `PacketChannel` | what a peer is promised | `Send`, `Handle`, `Break` |
| `MinimoteServer` | `minimote_server_start`'s loop, the handlers of the three kinds of sockets, the records | one action per handler and outcome: `Select`, `RecvData`, `RecvEof`, `RecvError`, `Accept`, `AcceptFails`, `HandleDatagram`, `Stop`, `Destroy`; the environment connects, sends, ends, delivers datagrams, interrupts |
| `Lifecycle` | `main` and the loop around `select` | `pc` walks through both functions; `SigInt` may run at any of its values |
| `Hash` | `hash.c` | `Put`, `Delete`, `Destroy` in one step each; `hash_foreach` step by step, its callback keeping or deleting the node |
| `HashMap` | the abstract map | `Put`, `Delete`, `Clear` |
| `Pointer` | `minimote_controller_move`, the payload it is called with, and the client | the client moves, lifts its finger, waits; `Move` handles any packet that was sent, at any time, any number of times |
| `XkbKeymap` | a keymap as libxkbcommon gives it | `desktop`, what each key produces under each mask, and the lines of the text |
| `XkbFetch` | `xkb_get_keymap_x11`, `xkb_get_keymap_wayland` | `fetch` walks through the function; two queues, of requests and of events, lead to the compositor and back, and each wait takes any batch of the events that are there |
| `XkbModifiers` | `xkb_keymap_get_modifiers_mapping`, its callback, `string_parse` | `ParseLine` gives one line to the callback, `Resolve` looks the names up; `Slot` is what the hash tells names apart by |
| `XkbKeysyms` | `xkb_keymap_get_keysyms_mapping` | `Scan` treats one mask of one keycode with the symbols, one or more, that it gives, in any order of the masks |
| `Display` | `minimote_display_init`; then buttons, wheel, keys, hotkeys and characters, from packet to kernel | `Start` fetches, scans and parses, in this order; then `Handle` turns a packet into events, `Emit` writes one, and the kernel and the desktop take it |

The server is described at two grains.  `TcpStream` has one connection, byte by byte, with
the buffer's real layout and with malformed packets; `MinimoteServer` has several hosts and
connections, and a packet there is two tokens, so that a read may still cut it and the
residue of an old connection meets the bytes of a new one.  What `MinimoteServer` does with
the two tokens is what `ImplementsChannel` says of a connection whose packets are well formed.
In the same way its `clients` is the map that `Hash` implements, and its action `Remove`
the walk that deletes, of which `Hash!VisitsEachOnce` speaks; and its `Stop` abstracts from
the timeout of `select`, which `Lifecycle` has.

Definitions with a comment "Mutant of D" are bugs that could be in the code.  No specification
uses them; each property is known to fail when one takes the place of D.

## 3. The runs

| run | question | instance | expected |
|---|---|---|---|
| `tcp_stream` | are packets handled once each and in order, however `recv` cuts them? | `MCTcpStream` | pass |
| `tcp_stream_waits` | does the server wait only when bytes are missing? | same | violated |
| `server_connections` | descriptors, records and sockets of three connections of two hosts | `MCMinimoteServer` | pass |
| `server_answers` | where answers go, and what datagrams can disturb | same | pass |
| `server_liveness` | is everybody served, accepted, released; does SIGINT stop it? | same | pass |
| `server_discover` | does the answer reach the socket that asked? | same | violated |
| `server_leak` | is the socket of a peer that hung up closed? | same | violated |
| `lifecycle` | does SIGINT, and nothing else, end the process? | `MCLifecycle` | pass |
| `hash` | is the table a map, also when a walk deletes? | `MCHash` | pass |
| `pointer` | does the cursor follow the finger over a bad network? | `MCPointer` | pass |
| `display` | does the start end with the right keymap, is it read well, and do the events mean what was asked? | `MCDisplay` | pass |
| `display_keysyms` | does each stored combination make its symbol? | same | violated |

Why the bounds are enough:

* `tcp_stream`: the header is two bytes in place of eight, packets are two to four bytes, a
  `recv` returns up to three, and the buffer has seven, the least `RecvAssumption` allows (the
  real numbers are 255 + 64 <= 8192).  Four packets overrun the buffer, so that it rolls with
  nothing, with part of a packet and with a whole one in it; payload bytes are themselves
  possible lengths, so that a parser off by one goes on with a wrong packet instead of stopping.
* `server_*`: two hosts are one that acts and one that might be disturbed; they are symmetric,
  except in the runs with liveness.
  - `server_connections`: with three connections a host reconnects while the other connects, and
    descriptors 3 and 4 are too few for three, so that `accept` also fails.  Two tokens are one
    packet, read whole or in halves.  No datagrams come here; that they evict nobody is for the
    theorem `NoUnjustEviction`, which has them.
  - `server_answers`, `server_discover`: datagrams of every kind from two ports, which tell a
    host's sockets apart, beside one connection.  `AcceptErrors` lets `accept` fail here with a
    descriptor left; in the other runs it fails only for want of one.
  - `server_liveness`: two connections, of one host or of two, and a descriptor for each, so that
    both are served at a time; one byte for each to read, and datagrams without end beside them.
    Here `accept` never fails: what its failure does to the waiting connection is excepted from
    the properties.
  - `server_leak`: the same without datagrams.
* `lifecycle`: two ticks let data arrive in the middle of a wait, and a second SIGINT comes
  after the first.
* `hash`: three keys in one bucket have a first, a middle and a last node; the fourth is in
  another bucket.  Five values replace one key at least.
* `pointer`: steps of 1, 3 and 4 on both axes, at sensibility 3/2, are cut off in both
  directions, over positions that use every byte of a payload.  Three moments, three contacts and
  four deliveries let a packet be lost, repeated and overtaken, within a contact and across two;
  with two movement ids the first and the third contact have the same.
* `display`: 343 desktops.  On 324 of them, two symbols or none stand under the four masks of one
  key, in every way, and one of them again under one mask of a second key.  On 16, a level of a key has two
  symbols at once, and another level may have one of them too.  The other three have
  one symbol with each of two modifiers, and texts that differ: one line for a modifier with
  several keys, some not at the front; modifiers whose keys have names with the same first four
  bytes (`<LVL3>`, `<LVL5>`); a modifier without a key.  The registry announces a seat with a
  keyboard, one without, both in either order, or none, with other globals before or behind.  The
  keys of packets include a modifier and a letter that the keyboard has too, and the wheel turns by
  two notches.

`CHECK_DEADLOCK FALSE` stands where the system stops: a connection that is gone, a server that
is destroyed, a process that has ended, a client that sends no more, a display without a keymap.

### Fairness

* `TcpStream`, `MinimoteServer`: weak fairness of `Server`, all steps of the one thread together.
  The process is scheduled; `select` returns when something is readable; no step of a pass blocks
  (`RecvWouldNotBlock` is checked, not assumed).  No fairness between sockets is assumed: that all
  are served follows from a pass that visits every ready one.  Peers, network and user owe nothing.
* `Lifecycle`: weak fairness of `Main`, with the passing of time in `select` among its steps.
* `Hash`: weak fairness of the steps of a walk, which is a loop in one thread.
* `Display`: weak fairness of `Start`, the steps of the program until it is ready, and of the
  compositor, which answers what it is asked: without it a Wayland client waits for ever, rightly.

## 4. The proofs

Proved for every value of the constants that the assumptions allow:

| theorem | says |
|---|---|
| `RingBufferTypeCorrect` | the cursors stay in order and in the storage, and no `uint32` wraps |
| `RingBufferImplementsQueue` | the buffer is a `ByteQueue`: a push is refused only when the bytes do not fit, and none is lost, repeated or moved |
| `TcpStreamInvariant` | `IInv` below |
| `TcpStreamTypeCorrect` | the buffer of a connection is well formed |
| `PacketsHandledInOrder` | the packets handled are a prefix of those sent |
| `PushFailureIsHarmless` | a push is refused only behind a malformed packet |
| `BufferIsDrained` | no whole packet is left in the buffer at `select` |
| `CloseIsGraceful` | a peer with well-formed packets that closed has had all of them handled |
| `StallPermanence` | behind a malformed packet nothing is ever handled |
| `ImplementsChannelSafely` | the connection implements the safety part of `PacketChannel` |
| `ServerTypeCorrect` | the types of `MinimoteServer`; between steps no buffer holds a whole packet |
| `RecordsOwnDescriptors` | `OwnFd`: no two records share a descriptor, none has that of a master socket or of `stdin`, each that of its own host |
| `ServerDoesNotBlock` | `RecvWouldNotBlock`: what `select` reported holds when it is acted upon |
| `AnswersReachTheAsker` | `AnswersGoHome`: an answer goes to the host that asked, a pong to the port of the ping |
| `OrderInvariant` | the backlog is the newest connections, in order; an accepted one has at most one descriptor |
| `NoUnjustEviction` | `NoEviction`: only its own end, its host, a failed `accept` or the end of the server takes a connection's record |
| `PacketsComeWhole` | `PacketsAreWhole`: what a record handles as a packet is one packet of its host, unless a connection of that host was given up in the middle of one |
| `LeaksOnlyByReconnect` | `LeakOnlyByReconnect`: only a newer connection of its host, or a failed `accept`, leaves a connection open without a record |
| `LifecycleTypeCorrect`, `ServiceEndsOnlyWhenAsked`, `OneMoreWait` | `Lifecycle`: the time left stays within the timeout; only SIGINT or a failed start ends the loop; after SIGINT at most one more wait |
| `PointerInvariant` | the controller keeps the latest packet it has seen, and later contacts have later packets |
| `PointerTypeCorrect`, `CursorTracks` | `TypeOK`, `Tracks`: the cursor moves as far as the finger, less than a pixel off for each packet followed |
| `OvertakenMovesNothing`, `CursorNeverJumps` | `LateMovesNothing`, `NoJump`: no late packet moves the cursor, no new contact makes it jump |
| `HashInvariant`, `HashTypeCorrect`, `TableWellChained` | `IInv`, `TypeOK`, `WellChained`: each key stands once, in its own bucket |
| `ValuesOwnedOrFreedOnce` | `OwnedOrFreedOnce`: a value is in the table or was freed, and that once |
| `WalkVisitsEachOnce` | `VisitsEachOnce`: a walk visits what was there when it began, each once, though it deletes |
| `HashImplementsMap` | `ImplementsMap`: the table is a `HashMap` |
| `DisplayInvariant`, `DisplayTypeCorrect` | `IInv` below and `TypeOK` of `Display` |
| `KeymapIsFetched` | `FetchesKeymap`: if the last seat has a keyboard, it is its keymap that is read |
| `SymbolsNeedFewest`, `SymbolsAreMapped` | `FewestModifiers`, `EverySymbolMapped`: the scan maps every symbol it comes by, with the fewest modifiers |
| `ModifiersAreResolved` | `ModifiersResolved`, if the text is `Orderly` and its names are apart: a modifier gets a key of its own |
| `NothingStaysPressed`, `HotkeysAreChords` | `HeldAsAsked`, `HotkeyIsAChord`: between packets what is pressed is what was asked for; a hotkey is pressed all at once |
| `CharactersAreTyped` | `WritesWhatIsAsked`, on a `Regular` keyboard: a character on one key is typed, by one key press that makes it |

`RingBuffer_proofs` has one lemma per function of the buffer, in terms of `Contents`, the bytes
it holds: `Roll` keeps them, `Push` appends or refuses, `Advance` drops.  Everything else cites
these and never looks at the storage.

`HandledInOrder` is not inductive: it does not say what is in the buffer.  `IInv` adds it.
`Framing` keeps the offsets at which the packets end in the stream.  `BufferHoldsRest` says that
as long as no push was refused the contents of the buffer are exactly the bytes of the stream
between the end of the last packet handled and what has arrived; so the byte at the head is the
length byte of the next packet sent, and the packet taken off is that packet (`HandledIsNext`).
For a push to be refused the buffer must hold more than `Capacity - MaxRecv` bytes, and at
`select` there is no whole packet in it (`NothingLeftBehind`): so its head is no length that a
packet can have (`IncompleteIsShort`), and it is the head of a packet that was malformed when
sent; from then on the head never changes (`StalledUnderRecv`).  `RecvAssumption`, that the
longest packet and one read fit together, is used there and nowhere else.

For the server the invariant of `MinimoteServer_proofs` is `TypeOK`, `OwnFd`, `ReadyStays` and
`StoppedIdle`.  They need one another: that `accept` finds a connection in the backlog is
`ReadyStays`; that removing a client closes nobody else's descriptor, so that the other ready
sockets stay ready, is `OwnFd`; that `Destroy` does not come in the middle of a pass is
`StoppedIdle`.  `accept` returns a free descriptor, so nobody's, and `OwnFd` follows for the record
that gets it; that two records never share one is a consequence, for a connection has one host
(`DistinctFds`).  For the answers, `HomeAddress` is added: a record found by its host has an address
of that host, though maybe of another port.

A second part of the module adds the history of the connections: `BacklogIsTail` (the backlog holds
exactly the newest connections, oldest first) and `TableOnce` (an accepted connection has at most
one descriptor, one in the backlog has none).  Only `Accept` moves the border between the two
(`OldConnsGrow`), by one.  So what `Accept` replaces is always older than what it takes
(`AcceptReplaces`), and closing a record's descriptor really closes its connection
(`RemovedIsClosed`): the only steps left that leave a connection open without a record are those
that `LeakOnlyByReconnect` names.

`PacketsAreWhole` needs to know what is in a buffer.  `BufferFollows` says it: an empty buffer
means that the connection was read up to the end of a packet, a buffer with one token that it was
read into the middle of one, and the token is its last; unless the host has an older connection that
was given up in the middle of a packet, the exception that the property names.  `Fresh` is that a
connection in the backlog has not been read.  The two together carry the residue of an old
connection, and nothing else, over to a new one.

For the life cycle the strengthening is `ClearedByHandler`: in a started server
the flag is cleared only by the handler.

For the pointer, `Ordered` says that later contacts have later packets, and `LastIsLatest` that
`last` is one of the packets seen, and none seen is later: so what has been overtaken is
discarded.  When a packet is followed, its contact is therefore that of `last` or a later one, and
if it is a later one with the same movement id, it is at least `IdSpace` contacts later
(`IdsGoRound`) and nothing in between was seen.  `PayloadIsRead` shows that the server reads in a
payload the position that the client has put there, though the coordinates share a byte.  `Tracks`
is inductive with `TypeOK`: a packet followed adds to each axis what was cut off once
(`ScaledError`, `AxisTracks`), and one that begins a movement starts at zero.

`Hash_proofs` has lemmas about any table `b`: where a key stands in it, and what inserting,
replacing and deleting a node make of its keys and of their order.  `Proper` (a key is in its own
bucket, once) turns a table into a map and is what every operation keeps; `Owning` and `Counted` say
of its values and of `size` what the code keeps in step by hand.  For the walk the strengthening is
`Complete`: what was there when the walk began is what was visited, together with the keys from the
`Cursor` on (`KeysFrom`), and nothing is in both.  The cursor is the node that the walk is at; once
that is deleted, it is the successor that the walk has remembered, which `AtNode` says is still in the
table.  So each step of the walk moves one key, or none, from the one set to the other.

For the start of the display, `Chatting` says what is under way in the two queues at each stage
(`AskGlobals`, `AwaitGlobals`, `AskKeymap`, `AwaitKeymap`).  What matters is the order of a few
messages: the answer to the roundtrip is behind the globals that were announced before, and behind the
keymap; the `sync` is behind the `get_keyboard`; and the keymap has come, is on its way, or has been
asked for.  These are statements about the entries of sequences, and the lemmas at the head of the
module say what appending, cutting and taking from the front make of them, so that it does not matter
how many events a dispatch takes.  `SeenIsMapped` carries the scan: every combination behind
the loop's place produces a symbol that is mapped.

`HeldAsAsked` speaks of an empty `todo` alone.  What is kept by every event is `WillHold`: of the
events that are still to come, the last one about a code leaves it as the packets ask, and a code
that none is about is so already (`Settles`).  A chord's last event about each of its codes is a
release (`ChordSettles`), also if a key is in it twice.  `Pressing` says of a hotkey which keys are
down and that the others are pressed next.

For the modifiers, `Kept` relates the callback's two hashes to the lines read so far.  It supposes of
the text that the keys are in the section of the keycodes, the modifiers behind it, and that the
first key in each line of a modifier is one of the section (`Orderly`), and of the names that no
two share a slot of the hash (`NamesApart`), which is what the comparison of four bytes
(`xkb_utils.c:155`) comes down to: without it the code takes one key for another.  For a character, `Typing` says of
its chord that the modifiers are pressed, one after the other, before the key, and that the
key is seen once; `PutAsSeen`, that key and modifiers of a symbol were both seen to produce it, maybe
not together, which is why the property speaks of symbols on one key.  That one key press comes at
all is part of what is proved: a symbol on one of the `TypingKeys`, the keys that the scan looks
at, the device is registered for and no modifier has, is mapped when packets are served
(`EverySymbolMapped`).  Where a level has several symbols, the key press makes all of them, and the
one that was asked for is among them.  The rest is what has to be true of a keyboard (`Regular`): no key is of two modifiers, and the codes of the modifiers are below
255, the first that `minimote_display_init()` does not register.  The proof uses each of
these; `MCDisplay` has TLC evaluate them, `NamesApart` excepted, on its keymaps.  That a mask is
the sum of the powers of two that its bits stand for (`MasksAreBinary`) is arithmetic of `2 ^ i`,
of which the provers know nothing; it is a hypothesis, which TLC evaluates too.

Ordered sequences of a finite set (`AscendingExists`) and its bounds (`FiniteIsBounded`) need
induction on the number of elements: there the least counterexample, which well-founded `<` gives, takes
the place of the induction.

Assumptions: `ByteAssumption`, `CapacityAssumption`, `UintAssumption` (no cursor reaches 2^32),
`HeaderAssumption`, `LengthAssumption` (a byte is at most `MaxLength`), `PacketAssumption` (a
well-formed packet's first byte is its length; a malformed one's is below the header size),
`RecvAssumption`; for the server `BoundsAssumption` (at least three descriptors; `accept` may fail with one left, or not), `PortAssumption`,
`KindAssumption`; for the life cycle `TimeoutAssumption`; for the
pointer `PositionAssumption` (twelve bits for a coordinate), `SensibilityAssumption` (a fraction that
is not negative), `IdAssumption` (at most 256 movement ids) and `BoundAssumption`; for the hash
`CapacityAssumption` (it has a bucket), `HashAssumption` (any function to the numbers),
`BoundAssumption` and `NoneAssumption`; for the display `KeycodeAssumption` (finitely many, one at
least, from 8 up), `ModAssumption`, `DesktopAssumption` (the types of a keymap; a line of a modifier has a
name), `SeatAssumption` and `AnnouncementAssumption` (any seats and other globals in any order),
`KeyAssumption` (codes below 255), `ButtonAssumption` (codes above), `HotkeyAssumption`, `ScrollAssumption`, and
`NameAssumption` and `MappingAssumption`, which keep `None` apart from what may be
something.

Only model-checked: liveness (`ImplementsChannel` with its fairness, `Served`,
`HangupReleases`, `PendingIsAccepted`, `StopsEventually`, `StopsAfterSigInt`, `WalkEnds`,
`StartsUp`), which is out of the prover's reach.  Every invariant and every action property of a
passing run is stated by a theorem.

## 5. What the runs found

1. A length byte below the header size (`minimote_packet.c:33`) is answered like a packet that is not
   there yet: the connection waits for ever with bytes in hand (`tcp_stream_waits`).
   `StallIsPermanent` is the other side of it.
2. The answer to a discover request goes to the address of the first message of its host, not to
   the socket that asked (`minimote_server.c:513`, `server_discover`).
3. A host that connects again leaves its old descriptor open, unwatched (`minimote_server.c:271`,
   `server_leak`).  `LeakOnlyByReconnect` says that this is the only way, failure of `accept` apart;
   `HangupReleases` says that otherwise a hang-up does close the descriptor; `PacketsAreWhole`
   excepts what the residue of the old connection does to the first packet of the new one.
4. A symbol found on a second key with fewer modifiers gets the modifiers of the second and keeps
   the keycode of the first (`xkb_utils.c:377`, `display_keysyms`).

## 6. What the models take for granted

* A freed hash node keeps its link until the walk has read it (`hash.c:187`): glibc's `free` writes
  the first two words of a chunk, the link is the third.  With an allocator that does otherwise
  the walk is undefined.
* `FD_ISSET(-1)`, for clients without a connection, is true or false for all of them, and
  `FD_SET(-1)` has no effect on the sets.
* When `accept` fails, the address it did not write is that of any host, and the connection waits
  on.  `recv` on a connection that was reset gives what had arrived, or fails at once.
* Clients send the payloads that their packets call for: hotkeys have at most `MAX_HOTKEY_LENGTH`
  keys, of types in the enumeration, and a character has one, two or four bytes.  One client
  stands behind the record that `Pointer` describes.
* Modifiers are in effect while their key is held: Lock, which toggles, is left out.
* libxkbcommon writes no line of white space, no keycode above `INT_MAX`, and at most twelve keys
  in a line of `modifier_map` (`tokens` at `xkb_utils.c:91` has 16 places).
* A compositor answers requests in order, and a request for the keyboard of a seat without one by
  a protocol error; its keymap compiles.  A descriptor that was never set (`xkb_utils.c:517`) ends
  the start, as does the lack of a keymap; which way is not told apart.
* The user does not switch the layout: the keymap is fetched once.
* `WritesWhatIsAsked` supposes that no key is held when the character comes, and that every
  modifier has a key; it says nothing of symbols on several keys, on the last keycode, on a key of
  a modifier, or on one whose code is above 254.
* `select` fails only because of SIGINT or of a descriptor that is closed.
* A SIGINT after the handler is installed and before `minimote_server_start` sets its flag is lost
  (`minimote_server.c:105`): `Lifecycle` has that behaviour, and `StopsAfterSigInt` begins after it.

Not modelled: the linked list, which nothing uses; logging; option parsing, where `--scroll-reverse`
sets what is set already (`args.c:69`, `conf.h:9`); opening and closing the device; the conversions
of `commons`, but for those of a MOVE packet; the byte layout of the answers; the destruction of the
keyboard map, whose functions stand inside `#ifdef WAYLAND` (`xkb_utils.c:541-549`), so that a build
for X11 alone has none.  `PROJECT.json` has the reason for each.

## 7. Plan

Done: the core (connection, server loop, life cycle), the hash, the controller, the display, and
the start of the keyboard map: fetching it, its symbols, its modifiers; and the proofs of what is
safe about each of them.

Hazards that no property covers are listed in `PROJECT.json` with the reason: some cost only
processor time (`minimote_server.c:185, 248`), some are outside of what the models have, and of
some the repository does not say what should happen.

Left, models: two clients behind one record in `Pointer` (a clock ahead of another's);
`MinimoteServer` as the composition with a table that `Hash` implements; the options.

Left, theorems: that the table of `MinimoteServer` is a `HashMap`, which needs the composition; that
`Orderly` and `NamesApart` hold of every text that libxkbcommon writes, for which the repository has no source.
