# TLA+ models of NoxTLS

NoxTLS is a C library with TLS 1.0 – 1.3, DTLS 1.2 and DTLS 1.3, X.509 and the
cryptography under them. This directory models the parts whose correctness
depends on *order*: what DTLS endpoints do when a network loses, repeats, delays
and reorders their datagrams; what TLS endpoints do when a transport takes or
returns part of a record and the call is repeated later; how the two step
machines of a handshake meet, with retries, resumption and early data; what
connections do to each other through the session stores they share; and what any
order of calls does to the static memory pool. The modules are checked with TLC
on small instances; the safety of the DTLS record layers, reassembly,
acknowledgements and recovery, of the TLS 1.3 stream, of the TLS 1.3 handshake, of
the TLS 1.2 handshakes with their session stores and of the memory pool is proved
with TLAPS for every value of their parameters.

`PROJECT.json` is the index: `map` gives, for each definition, the source lines
it models; `runs` the checked configurations; `hazards` the places of the code
the properties are aimed at; `mutants` a plausible bug for each property, which
the property detects.

    tlc -workers 2 -config MCDtls12Record.cfg MCDtls12Record
    tlapm Dtls12Record_proofs.tla

## 1. Inventory

Paths are below `src/noxtls-lib/`. The library has no threads of its own: an
endpoint is a context driven by its caller through `*_connect`, `*_accept`,
`*_send`, `*_recv`. What is concurrent is the two endpoints, the network between
them and the timers they arm, and several connections of one process that share
the global session stores; memory comes from `NOXTLS_MALLOC`, which may fail at
any call.

| Component | State | Operations | What makes it hard, and what it must do |
|---|---|---|---|
| DTLS 1.2 record layer (`tls/noxtls_dtls_common.c`, `tls/noxtls_tls_record.c`) | write epoch and counter, the counter of the previous epoch, flight buffer, read epoch, replay window | send plaintext, protected and ChangeCipherSpec records; resend a flight; receive | The epoch changes in the middle of a flight that is resent later; sends fail after a number was used; forged records. No number for two payloads, no number opened twice, no fresh record refused. |
| DTLS 1.3 record layer (`tls/noxtls_tls_record.c`, `tls/noxtls_tls13.c`) | the same, with a window and a highest number for each value of two epoch bits | send, resend, KeyUpdate, reconstruct a number, open | Epochs and numbers are truncated on the wire: after four KeyUpdates epochs alias, at 256 the field grows. The same three promises. |
| DTLS reassembly (`tls/noxtls_dtls_common.c`, `tls/noxtls_tls_common.c`) | in-progress message and its bitmap, a queue of later messages, bytes held | receive a fragment, take a queued message, discard at the read keys | Overlapping fragments, queue and budget at their limit, allocations that fail before and after a message counts as received, unauthenticated fragments. Whole messages, in order, once, none skipped without an error, eventually all. |
| DTLS 1.3 acknowledgements (`tls/noxtls_dtls_common.c`) | ranges of received numbers, their array, the limit | note a number, flush, change the limit | Eviction at the limit, merging, an epoch change with numbers owed. Only received numbers are acknowledged, none is lost without need. |
| DTLS 1.3 flight recovery (`tls/noxtls_tls13.c`) | flight and its number range, attempt budget; the server's retained ACK | send, time out and resend, receive, acknowledge, release | Lost final ACKs, passes cut short, a small budget. The flight is released only when delivered; delivered and released in the end. |
| DTLS 1.2 flights and timers (`tls/noxtls_dtls_common.c`, `tls/noxtls_tls12.c`) | retransmission timer, backoff, final flight, per-read budgets | arm, expire, answer a repeated flight | Both sides waiting on each other, the last flight lost. |
| DTLS cookies (`tls/noxtls_tls12.c`, `tls/noxtls_tls13.c`) | cookie secret, bytes received and sent by an unvalidated peer | HelloVerifyRequest / HelloRetryRequest, validate | Budget of three times the received bytes; a stalled flight must resume. |
| DTLS 1.3 connection IDs (`tls/noxtls_tls13.c`) | own and peer's IDs, spares | request, announce, promote on first use | The ID changes while datagrams under the old one are in transit. |
| TLS 1.3 handshake (`tls/noxtls_tls13.c`) | step of the client and server machine, transcript, keys, early data | one step per message, HelloRetryRequest, client authentication, 0-RTT | Steps are resumable after would-block; early records that cannot be opened; optional messages. Both ends agree, nobody is left unauthenticated, early data arrives exactly or not at all, failures have a cause, the handshake ends. |
| TLS 1.3 PSK and tickets (`tls/noxtls_tls13_psk.c`) | ticket store | add, look up, consume, binders | A ticket looked up twice in one handshake, single-use tickets, a ticket beside an external PSK. |
| TLS 1.2 handshake (`tls/noxtls_tls12.c`) | step, transcript; the process-wide client session and server ticket cache | full and abbreviated handshake, client authentication, store and look up sessions, renegotiation | The stores change between the steps of one handshake; resumption with other parameters. Both ends agree, resuming loses neither authentication nor extended master secret, the store stays genuine. |
| TLS 1.0 and 1.1 (`tls/noxtls_tls10.c`, `noxtls_tls11.c`) | none of their own | wrappers of TLS 1.2 | – |
| TLS record layer over streams (`tls/noxtls_tls_common.c`, `tls/noxtls_tls_record.c`, `tls/noxtls_tls13.c`) | output queue and its limit, counters, the record being read, kept application data | send, flush, KeyUpdate, close, receive | Short reads and writes, a full queue, failed allocations. A reliable stream: in order, once, complete, and an end that is the end. |
| Version negotiation (`tls/noxtls_tls_unified.c`, `tls/noxtls_tls_auto.c`) | peeked bytes, selected context | connect, accept, dispatch | Bytes consumed by the peek are replayed. |
| Key exchange, key schedule, extensions | – | computation on byte strings | – |
| PAKE (`pake/`, EC J-PAKE in TLS 1.2) | round, shares | rounds of EC J-PAKE, SPAKE2+, PASE | Rounds called out of order. |
| DRBG (`drbg/`) | seed, reseed counter | instantiate, generate, reseed | Reseed at the interval; a failed reseed. |
| Stateful signatures (`pkc/lms`, `pkc/xmss`) | next one-time index | sign, store | An index used twice after a failed store. |
| Certificates (`certs/`) | – | parse, build and validate a path | – |
| Primitives (`encryption/`, `mdigest/`, `mac/`, `pkc/`) | – | arithmetic and block functions | – |
| Memory allocator (`common/noxtls_memory.c`) | static pool: headers, free list, buckets, counters | malloc, calloc, realloc, free, cleanup | Splitting and merging in any order of calls, double free, rounding. Blocks tile the pool, bytes are private, a request fails only when nothing fits. |
| Hardware crypto (`common/noxtls_cc13xx_crypto.c`, `vendor/`) | lock around the engine | acquire, release | Nested use, early returns with the lock held. |

How they interact: the handshake machines call the record layer to send and
receive; a DTLS receive goes datagram → record → replay window → reassembly →
handshake message; each handshake message sent enters the flight buffer, which
timers resend through the record layer; DTLS 1.3 receives note record numbers
that become ACKs, and an ACK releases the peer's flight. Over a stream, the
transport's would-block travels up to the caller, who calls the same function
again; TLS 1.2 connections of one process meet in `g_tls12_client_session` and
`g_tls12_ticket_cache`.

## 2. Modules

| Module | Models | Composes |
|---|---|---|
| `ReplayWindow` | `noxtls_dtls_check_replay`, `noxtls_dtls_update_replay_window` and their DTLS 1.3 twins | – |
| `Dtls12Record` | one direction of the DTLS 1.2 record layer | `ReplayWindow` |
| `Dtls12Record_proofs` | its theorems | |
| `Dtls13Record` | one direction of the DTLS 1.3 record layer from the handshake keys on | `ReplayWindow` |
| `Dtls13Record_proofs` | its theorems | |
| `HandshakeDelivery` | abstract: messages whole, in order, once, passed over only with an error, eventually all | – |
| `DtlsReassembly` | reassembly, queue, budget | implements `HandshakeDelivery` |
| `DtlsReassembly_proofs` | its theorems, the refinement among them | |
| `AckRanges` | the data structure of ranges of received numbers | – |
| `AckTracking` | the receiver's side of it, with failing allocations | `AckRanges` |
| `Dtls13Recovery` | client and server around the client's last flight | `AckRanges` |
| `DtlsAck_proofs` | lemmas on the loops of `AckRanges`, the theorems of `AckTracking` and `Dtls13Recovery` | both |
| `ReliableStream` | abstract: data in order, once, an honest end, all of it unless a failure is reported | – |
| `Tls13Stream` | one direction of a connected TLS 1.3 session over byte callbacks | implements `ReliableStream` |
| `Tls13Stream_proofs` | its theorems, the refinement among them | |
| `Tls13Handshake` | the TLS 1.3 client and server step machines | – |
| `Tls13Handshake_proofs` | its theorems | |
| `Tls13SplitHello` | the server's first read when the ClientHello takes two records | extends `Tls13Handshake` |
| `Tls12Sessions` | TLS 1.2 handshakes that share the session stores | – |
| `Tls12Sessions_proofs` | its theorems | |
| `MemoryPool` | the static allocator in its three modes | – |
| `MemoryPool_proofs` | its theorems | |
| `MC…` | constants, settings and state constraints for TLC | |

### ReplayWindow
The 64-bit `window_bitmap` is the set of its one bits; bit `b` stands for
`last_seq - b`, a left shift drops what passes the top. The size is a constant.

### Dtls12Record
`tx` holds `epoch`, `write_seq_num` and `prev_write_seq_num`, `flight` the buffered
records with the number they went out under and whether they are sealed again on
a resend (`protect`), `resend` the cursor of the loop in `dtls_flight_retransmit`
(sends of the application cannot interleave with a pass, but a pass may stop at
any record). `rx` is the reader: `read_epoch`, `read_seq_num`, `replay_window`.
`wire` holds every record ever handed to `send_callback`; since the reader may
take any element any number of times, loss, repetition, delay and reordering
need no actions of their own. A failed send also puts the record on the wire:
the transport may have sent it, and if it has not, the record is one that was
lost. `ReceiveUnauthentic` is a record that does not authenticate: it may move
`read_seq_num`, never the window. `opened` is history.

On a resend, a plaintext record of epoch 0 is renumbered in place, from the
current counter or, one epoch later, from the kept one; a protected entry of the
current epoch is sealed again under a fresh number; a record that was handed
over already sealed goes out verbatim; an entry whose counter or keys are gone is
skipped. A failed send or a used-up counter ends the pass.

### Dtls13Record
As above, with `replay_windows` and `highest_recv_seq` indexed by the two low
epoch bits. `KeyEpoch` is the choice of keys (`use_handshake`), `Reconstruct` is
`dtls13_reconstruct_record_number`, and `Opens` holds when the keys tried are
those of the record's epoch and the number reconstructed is its number: with
other keys the AEAD refuses. The sender switches its epoch with the KeyUpdate;
the reader when it opens it. A KeyUpdate whose send failed stays in the flight
while the epoch stays. Because a record under other keys cannot open, and a
record number is reconstructed wrongly only to fail, the interesting mistakes
are refusals, which `NoFalseReject` states.

### DtlsReassembly
A byte of a message is abstracted to the message it comes from; where it is
stored is its offset. A message put together from two, or with a hole (`Zero`),
differs from `Message(n)`. `hs` is the in-progress buffer with its bitmap,
length and capacities (they count in the budget), `queue` the active slots of
`reassembly_queue`. Each receive chooses its fragment from every cut of every
message, and whether an allocation it makes succeeds. Allocations fail at two
places with different results. In reassembly (buffer, bitmap, slot, the copy of a
complete message) the state stays such that the message can still be completed. In
`tls_dtls_deliver_handshake`, and for the DTLS 1.3 handshake buffer,
`expected_message_seq` has advanced when what the caller gets is allocated: the
message is freed, the caller gets an error, and retransmissions are discarded as
old (`LoseMessage`; `lost` is the history of these errors). The caller may read
again after any error. In DTLS 1.3 the messages
from `PlainMessages` on arrive in protected records, and `ReassemblyDiscard` is
the call made when the read keys are installed. `Foreign` are bytes of plaintext
fragments that are not the peer's.

`HandshakeDelivery` says what the caller may rely on: the entry it is handed next
is the message with number `next`, whole and unmixed, and a number is passed over
only by an error (`ReportLoss`). Before the read keys a plaintext message of someone
else may take the place of the peer's (`DeliverForged`), afterwards not.

### AckRanges, AckTracking
`ack_state` is the pending flag, the epoch, the sequence of ranges in array order and
the capacity of the array. `owed` (the numbers received since the last ACK) and
`pressed` (memory or the limit forced something out) are history.

### Dtls13Recovery
Client and server are records of the fields named in the comments of `Init`.
The client sends its flight, one record per message, and is connected; each read
that times out starts a pass under fresh numbers; an ACK whose hull spans the
range of the flight releases it. The server takes messages in order, discards
later ones without acknowledging them, flushes one ACK after it verified the
Finished, and afterwards acknowledges each record that repeats a processed
message in an ACK of its own. `setting` holds the number of messages, the budget
of attempts and what the network and the timer may do.

### ReliableStream, Tls13Stream
A byte is its record and its place in it, so a torn or mixed record is never the
record that was sealed; a unit of data is its position in what the writer sent.
`tx` is the writer's `state`, the bytes in `io_tx_pending`, the queue's limit, key
generation and record number; `rx` is the record being read (`io_rx_header`,
`io_rx_payload`, whether the payload buffer exists), keys, number and the data
the caller's buffer did not hold. A send seals the record, then asks the
transport, which takes any prefix; the rest is queued or, when it does not fit or
memory fails, refused (`fault`), which uses up the number all the same. The
refinement maps the units handed over to `received`, the reader's state after
close_notify to `ended`, and any reported failure to `broken`.

### Tls13Handshake, Tls13SplitHello
`client` and `server` are the step variables of `noxtls_tls13_connect` and
`noxtls_tls13_accept` with the fields they use; the scenario fixes key-share
groups, tickets (known or unknown to the server, single-use or not), external
PSKs (with or without (EC)DHE, or unknown), certificates and what the server asks
of the client. A secret is the tuple of what it is derived from; a record opens
only with the secret that sealed it, so agreement on secrets is agreement on
everything they cover. Records in transit are ordered queues, one per direction;
each step that reads is an action. Early data, its limit, the records that a
server skips, and the compatibility change_cipher_spec records are in.
`Tls13SplitHello` adds a ClientHello in two records of which the second may still
be in transit.

### Tls12Sessions
Two connections of one client process with one server process. Per connection
the client and server contexts (step, transcript, master secret, suite, extended
master secret, what was offered), and the shared `session`
(`g_tls12_client_session`) and `cache` (`g_tls12_ticket_cache`). A step that reads
a message or touches a store is an action; consecutive sends that touch neither
are one. The faults, one per behaviour: an accept that aborts, a ticket that
expires or is damaged in transit, the store cleared by the application. Every
ClientHello offers `ClientSuites`, the table `tls12_client_suites_12`; an allowlist
set by the application narrows what `noxtls_tls12_recv_server_hello` accepts
(`AcceptsSuite`) and not what is offered. Session
IDs are left out because this client sends an empty one.

### MemoryPool
Addresses are bytes of one buffer, headers are kept apart from the bytes they
occupy, and a payload byte is who wrote it. `legacy` is the first-fit list,
`buckets` the fixed sizes, `hybrid` both. Callers (`live`) hold pointers, may free
them twice, and may hand the pool a buffer that is unaligned or too small.

## 3. Runs

| Run | Question and answer | Bounds, and why they are enough |
|---|---|---|
| `dtls12_record` | Numbers unique, opened once, none refused wrongly, with forged records. Holds. | Window 2, numbers 0..3, two epoch changes, two flight entries, five records on the wire: a window can be passed, a flight can hold one record of a kept epoch and one of an epoch that is no longer kept, and each counter can be used twice. |
| `reassembly` | Reassembly implements `HandshakeDelivery`, liveness until a reported loss included; the budget holds; nothing stored before the read keys reaches a message delivered under them. Holds. | Four messages of lengths 2, 2, 0, 3 (equal neighbours reuse the bitmap; one without body), two queue slots and six bytes, so eviction and refusal happen. Three settings: all messages under the peer's control, keys after the first message, and the same with foreign plaintext fragments. Any number of messages may be lost to a failed allocation, and the caller reads on. |
| `ack_tracking` | The ranges fit, hold only received numbers, are maximal, lose nothing short of the limit. Holds. | Eight numbers make four separate ranges, which is the largest limit; capacity 2 makes the array grow; two epochs. |
| `dtls13_recovery` | The flight is released only when delivered; nothing discarded is acknowledged; the flight arrives; a flight of one record is released. Holds. | `EagerTimer`: three records, one pass, two losses or failed sends, two repetitions, a timer that fires at any moment. `Authenticated`: three records, the default four attempts, two losses. `FinishedAlone`: one record, four losses in four attempts. |
| `dtls13_recovery_release_auth` | The release for a flight of two records: **violated**, see Findings. | One loss. |
| `dtls13_record` | Number reconstruction across both field widths, and KeyUpdates until the low bits return. Holds. | Window 2, fields of 6 and 12 numbers instead of 256 and 65536. TLC explores the union of two regions: numbers to 14 with data records in the first two epochs (both changes of width, both sides of half a range), and epochs 2..7 with two numbers each (6 and 7 alias 2 and 3). The window is smaller than half of the short field, as 64 < 128. |
| `tls13_stream` | The direction implements `ReliableStream`, the queue fits its limit, numbers are unique. Holds. | Headers and chunks of two bytes, a transport of two bytes (every header and payload can be torn), two limits, three units of data, four records sealed. |
| `tls13_handshake` | Agreement on all secrets, authentication, exact early data, failures only for cause, the handshake ends. Holds. | Three server group lists (share fits, retry, nothing in common) × tickets and external PSKs × three ways to ask for and to have a client certificate; two early records against a limit of one. |
| `tls13_split_hello` | WANT_READ is resumable: **violated**, see Findings. | One ClientHello in two records. |
| `tls13_early_external` | An offer of early data does not make the handshake fail: **violated**, see Findings. | One unknown ticket beside one external PSK. |
| `tls12_sessions` | Agreement, nothing lost by resuming, a sound store, failures only for cause (nothing is claimed of the connection of a server that warns of the name, see below), every handshake ends. Holds. | Two interleaved connections, the first plain, the second one of 16 variants (allowlists that refuse and that admit what the server prefers, a server with no offered suite among them), with three states of the store before (48 settings); two ticket slots, so the third ticket evicts; one fault. |
| `memory_pool` | Consistent heap, private bytes, failure only when nothing fits. Holds. | 28 bytes, alignment and header 2, three symmetric owners, request sizes 0, 2, 3, 7 and one that overflows `SizeMax`, buffers with an aligned and an unaligned end: enough for three neighbours to be freed in any order, for both buckets to run out and for the rounding at an unaligned end. |

Several questions about one module are asked in one run where an instance
serves them all.

`CHECK_DEADLOCK FALSE` stands in the runs whose bounds (numbers, budget,
messages) let the system stop, which the code does as well when a counter or a
budget is used up.

### Fairness
* `DtlsReassembly`: the caller keeps reading (`TakeQueued`, `ReassemblyDiscard`),
  and the peer resends its flight until it is answered, so every fragment is
  received again, with memory for reassembling it (`ReceiveFromPeer(f, TRUE)`). Failing
  allocations may still happen any number of times in between. Once a message
  is reported lost no more is promised: its retransmissions are discarded.
* `Dtls13Recovery`: both endpoints keep calling connect / accept / recv, so a
  send that is due, a timeout, the end of a pass, a flush happen; what the
  network does not lose it delivers. `PatientTimer` restricts timeouts to states
  without a datagram on its way, i.e. a timer longer than the round trip; the
  setting `EagerTimer` drops it, and the liveness properties are stated for the
  others. Losses are bounded by the setting: a network that loses everything
  exhausts any budget.
* `Tls13Stream`: both applications keep polling, and a transport that is asked
  again and again takes or returns something (`Flush`, `Read`). A writer need not
  send, close or update keys.
* `Tls13Handshake`, `Tls12Sessions`: each end keeps calling connect or accept while
  the handshake can go on, per connection; faults happen or not.

## 4. Proofs

The theorems hold for every value of the constants that satisfies the named
`ASSUME` of the module; the runs evaluate each of them. What they ask for: sizes
and limits are natural numbers (positive where the code divides or allocates),
the window is smaller than half of the short number field (64 < 128) and fields
are even (`Record13Assumption`), the queue takes at least one record
(`StreamAssumption`), a message fits its length (`ReassemblyAssumption`), and the
fields of a scenario or setting have their values (`ScenarioAssumption`,
`SettingAssumption`). `PoolAssumption` is what a build of the allocator has: a header
and the address space are multiples of the alignment, bucket sizes and counts are
positive (`noxtls_mem_init_buckets` refuses others) and can be rounded up in a
`size_t`, a buffer does not wrap around the address space, and buckets have the
alignment of the rest (`NOXTLS_MEM_BUCKET_ALIGNMENT`, by default).

| Module | Theorems that state a checked property |
|---|---|
| `Dtls12Record_proofs` | `TypeCorrect`, `NoncesAreUnique`, `RecordsOpenOnce`, `FreshRecordsPass` |
| `Dtls13Record_proofs` | `Record13TypeCorrect`, `Record13NoncesUnique`, `Record13OpenOnce`, `Record13FreshPass` |
| `DtlsReassembly_proofs` | `ReassemblyTypeCorrect`, `BudgetHolds`, `KeyedAreGenuine`, and `RefinesDelivery` |
| `DtlsAck_proofs` | `AckTypeCorrect`, `OnlyReceivedAcked`, `RangesMaximal`, `AllReceivedHeld` (`AckTracking`); `TypeCorrect`, `ReleaseIsSafe`, `DiscardedStaysUnacked` (`Dtls13Recovery`) |
| `Tls13Stream_proofs` | `TypeCorrect`, `NoncesUnique`, and `RefinesStream` |
| `Tls13Handshake_proofs` | `HandshakeTypeCorrect`, `EndsAgree`, `PeersProved`, `EarlyDataIsExact` |
| `Tls12Sessions_proofs` | `SessionsTypeCorrect`, `SessionEndsAgree`, `ResumingLosesNothing`, `StoreIsSound` |
| `MemoryPool_proofs` | `PoolTypeCorrect`, `HeapStaysConsistent`, `BytesStayPrivate`, `NullOnlyWhenFull` |

Each module proves one inductive invariant (two in `Dtls13Record_proofs`) and
derives the rest.

### Dtls12Record_proofs
* `WireBelowCounters`: a number on the wire is below the counter of its epoch,
  for the current epoch and the previous one. `NonceUnique` is not inductive
  without it: a send is fresh because of it.
* `VerbatimIsSent`: what is repeated verbatim is on the wire already, so a
  verbatim resend adds nothing.
* `OpenedIsRecorded`: numbers opened in the read epoch are at or below
  `last_seq`, and inside the window have their bit. It makes `NoReplay` inductive.
* `BitsAreOpened`: a bit stands for a number that was opened. With it a fresh
  record inside the window passes (`FreshRecordsPass`); without it a forged
  record could have set the bit.

### Dtls13Record_proofs
* `WireBelowCounters`, where the kept counter bounds the handshake epoch only
  while the write epoch is the first application epoch, the only time it is used;
* `OpenedIsRecorded`, stated only for records whose epoch `KeyEpoch` still maps
  its low bits to. A change of the read epoch resets one window: the records
  opened under it belong to older epochs, which the new keys do not open, and the
  handshake epoch's window is not the one reset while `use_handshake` can choose
  its keys (epochs 3, 4 and 5 have other low bits, from 6 on it does not).

`NoFalseReject` needs the other direction, `ExactInv`: the highest number of a
window is the one the reconstruction starts from (`HighestIsLast`) and a bit
stands for a record of the epoch that answers to it (`BitsWereOpened`).
`ReconstructExact` is the arithmetic: a truncated number inside the window or up
to half a field ahead is restored exactly, for both field widths.

### DtlsReassembly_proofs
The invariant says that in-progress buffer and slots count exactly the bytes they
hold (`Counts`), that what only the peer can write is the peer's (`HsOK` and
`QueueOK`, with `Genuine` and `Honest` for who can write), that the queue is empty
once the read keys are installed, and `ReadyMeansIdle`: while a queued message is
due, the in-progress buffer is empty. Without the last, a fragment could be stored
in front of a complete message and `RefinesDelivery` would fail. `RefinesDelivery`
itself is the step simulation: `DeliverSteps` shows that a message leaving
reassembly, handed over or lost, is a step of `HandshakeDelivery` provided its
content is the peer's where only the peer can have written it, and every other
action leaves `delivered`, `lost` and `expected_message_seq` alone. The budget is a
sum over the slots, written as a recursive function of the slot number
(`BytesBelow`), so that what an eviction frees can be proved by induction.

### DtlsAck_proofs
The two loops of `dtls_ack_range_add` (absorb a neighbour, coalesce all) are
recursive functions of the turn. Each lemma on a loop shows that the set of turns
for which the claim holds contains 0 and, with each turn, the next (`Climb`, from
the library's well-foundedness of `<`). `AckRangeAddSound` is the result: the array
after a number was added covers only what it covered and the number, all of it
unless memory failed or the array was at its limit and the number touched no
range; and its ranges are apart.
For `AckTracking` the invariant adds what is owed; for `Dtls13Recovery` that ranges
cover only numbers of processed messages, that a number stands for one message,
and that no ACK exists before the server has the whole flight, from which a
release implies delivery.

### Tls13Stream_proofs
The log of sealed records numbers itself (`Consecutive`, `NumbersBelow`), bytes
under way come from it (`PipeIsSealed`), and the last byte of a refused record
never left (`RefusedIsTorn`), so a refused record is never complete at the
reader. `ReaderPlaced` ties the reader's keys and number to a place in the log up
to which it has exactly what was accepted: a record that opens is the next one.
`RefinesStream` follows step by step: every step is one of `ReliableStream` or
leaves it alone.

### Tls13Handshake_proofs
Neither end sees the other's variables; what it knows comes from records. A
Finished covers the transcript, so the argument is about what a transcript
*shows*: `ShowsPsk`, `ShowsEarly` and `ShowsAppKey` read the PSK, the answer on
early data and the application keys off it, each once (`ShownOnce`). The invariant
says, by step, that each end's own fields are what its transcript shows
(`ClientLocal`, `ServerLocal`), that a Finished in transit is the last record and
its sender's transcript ends with it (`C2sOK`), and that, while the server counts
on reading early data, the early records in transit carry exactly the numbers it
has not kept yet (`EarlyOK`). When the server verifies the Finished the
transcripts are equal, hence all that was negotiated; and as it was the only
record left, no early record is outstanding. Messages have no common type (a
hello holds binders, which hold transcripts), so sequences are typed by their own
elements (`IsSeq`). The theorems cover combinations the scenarios of the run
leave out, such as a single-use ticket beside an external PSK with a retry.

### Tls12Sessions_proofs
As above, an end knows the other only by what its transcript shows, here whether
the handshake is a full one (`Full`: a Certificate follows the two hellos) and
whether the extended master secret was negotiated (`ShowsEms`). `ClientLocal` and
`ServerLocal` say, by step, that each end's fields are what its transcript shows;
`C2sOK` and `S2cOK` that a message in transit shows its sender's state, so that a
ticket is the one issued on its connection and a Finished covers its sender's
transcript; `PairOK` what follows when a Finished was verified: both ends have the
same handshake. The stores outlive connections, so three more parts say where
their contents come from: the ticket of a stored or offered session is of a
handshake for that name which the client verified, its master secret of one whose
certificate was for that name, or both are of the time before (`StoreOK`, `OfferOK`);
a cache entry holds a ticket that was issued, in one slot only (`CacheOK`); a session
whose resumption failed is gone (`Forgotten`). `NothingLostByResuming` is not
inductive without `OfferOK`: the store may change between an offer and its use.

### MemoryPool_proofs
Operations take and return pool values, so the invariant is a predicate on a value
(`PoolOK`) and every operation has a lemma that says what it makes of such a value
and what it leaves alone (`Untouched`): `AllocateOK` (a free block is allocated,
large enough, nothing else of what callers hold changes; or none fits), `FreeOK`
(one block less is allocated), `InitializedOK` (nothing is). Between taking a block
off its list and marking it, and between inserting it and merging, the pool is not
OK; `ShapeOK(p, inHand)` names the blocks an operation has in hand.
* `BlocksOK`, `Tiled`: aligned blocks one behind the other, a block of the list
  ending where the next header or the buffer ends. A split keeps this because the
  rest starts at a multiple of the alignment (`SplitLayout`), a merge because a
  block that ends where the next free one begins has nothing in between.
* `ListOK`, `BucketsOK`: a list holds exactly the free blocks of its kind. That the
  first-fit list is in address order and no two of its blocks touch is an
  invariant of `noxtls_mem_coalesce_fallback` only if it held before the insertion;
  `CoalesceOK` is an induction over the turns of its loop: merged blocks in front,
  untouched ones behind.
* `Clean`: free payload is zero or was never written. The header that a merge
  swallows becomes payload, hence the wipe in that loop is needed here.
* `LiveOK`: callers hold the allocated blocks, with their bytes in them. With it a
  pointer nobody holds fails the header check, so freeing it changes nothing.

The counters are stated as the number of bytes of allocated payloads, which for
blocks that do not overlap is the sum of their sizes.

### Checked by TLC only
* Liveness: `FlightDelivered`, `FinishedReleased`, `HandshakeEnds` (TLS 1.2 and 1.3), and
  the fairness half of `ImplementsDelivery` and `ImplementsStream`; the prover does
  not handle `ENABLED`.
* `FailsOnlyForCause` of `Tls13Handshake`: it does not hold for every scenario
  (Findings 3, and the single-use ticket below), so it is a statement about the
  scenarios of the run.
* `FailsOnlyForCause` of `Tls12Sessions`: it does not hold where the server warns
  of the name (below), and needs, beyond the invariant above, what
  exactly is in transit at each pair of steps.

## 5. Findings

1. **A lost final ACK with client authentication.** A flight of two or more
   records is released only by one ACK spanning all of them, but a server that
   is connected acknowledges each resent record in an ACK of its own
   (`tls13_dtls_handle_ack`, `tls13_dtls_recv_post_handshake`). The client keeps
   the flight and spends its budget; `src/ut/dtls13_recovery/README.md` says a
   lost final ACK still recovers. The connection itself is not harmed.
2. **WANT_READ in the middle of a ClientHello.** `noxtls_tls13_recv_client_hello`
   frees the first record of a ClientHello when the second is not there yet, and
   returns WANT_READ; the retried accept takes the second record for a new
   message and fails. `src/docs/docs/tls.md` calls WANT_READ resumable.
3. **Early data under an external PSK.** A server that does not know the ticket
   but selects the external PSK offered beside it accepts the early data, though
   the client sealed it under the ticket's keys, and fails on the first early
   record instead of skipping it (`noxtls_tls13_send_encrypted_extensions`).

Met while modelling, followed by the models and without a run of their own:

* A request that would fit the last block of a pool whose end is not aligned is
  refused when its rounded size does not: `noxtls_mem_init_fallback` aligns the
  start and leaves the size as it is. `FailsOnlyWhenFull` names the exception.
* `tls13_dtls_resend_retained_final_ack` is called only from the handshake loop,
  which a server that has sent the final ACK no longer runs, although
  `src/docs/dtls13-rfc9147-conformance-plan.md` says it answers replays; a replayed
  record is discarded by the window.
* A DTLS 1.3 record of the next epoch may overtake the KeyUpdate that announces
  it, against a comment in `noxtls_tls13_decrypt_dtls13_record`; it is dropped.
* `tls12_resume_ems_policy` falls back to a full handshake with the session's
  suite, which need not be in the server's list any more (`noxtls_tls12.h:152`
  says the server selects only from it); the fallback for a name selects again.
* The TLS 1.2 client takes the server's *warning* `unrecognized_name`, which
  `noxtls_tls12.h:209` ("warning then continue") means to be survived, for a failure:
  `noxtls_tls12_recv_server_hello` fails on any record that is not a handshake
  record (`noxtls_tls12.c:5194`). It is not counted as a cause; `FailsOnlyForCause`
  leaves out the connection whose server warns (`WarnsOfName`); there the
  client closes at `RECV_SH`. The other connection beside it, and the other
  properties, include this setting.
* A TLS 1.2 client with an allowlist offers suites it will not accept: a server
  that prefers one of them, or resumes a session made with one, is refused with
  illegal_parameter although another suite is common to both
  (`noxtls_tls12.c:5301`). `FailsOnlyForCause` names the allowlist as a cause.
* A DTLS handshake message whose record cannot be allocated is lost for good:
  `expected_message_seq` has advanced, so the retransmission is discarded as old
  (`noxtls_tls_common.c:685`, `noxtls_tls13.c:5767`). The caller gets an error, which
  `HandshakeDelivery` demands; a caller that reads on is handed the next message.
* A TLS 1.2 client whose stored session is replaced or cleared by another
  connection between its ClientHello and the server's answer fails when the
  server resumes: `FailsOnlyForCause` names this as a cause.
* A single-use ticket, an external PSK and HelloRetryRequest together end in
  decrypt_error: the ticket is gone at the second ClientHello while its key is
  still set. The scenarios leave the combination out.
* EndOfEarlyData goes out under the handshake keys and after the client's
  certificate; both ends of this library do the same.

## 6. Not modelled, and the plan

Left out of the modelled components: AEAD, CBC and the number mask (a record
opens exactly under its own keys and number), the split of a datagram into
records, connection IDs in the unified header, the value of the retransmission
timer (only that it may fire), the narrowing of the 64-bit epoch to 16 bits, the
negotiation of suites, signature schemes, SNI and ALPN in TLS 1.3, post-handshake
authentication, renegotiation and OCSP in TLS 1.2, the age arithmetic and the
capacity of the TLS 1.3 ticket store, the allocator's statistics.

Candidates, in this order:

1. `Dtls12Flights`: two DTLS 1.2 endpoints, timer, backoff, final flight, the
   anti-amplification budget and the cookie exchange; liveness of the handshake
   with bounded losses.
2. Connection IDs; the unified API's dispatch on a peeked ClientHello.
3. TLS 1.2 renegotiation, and the TLS 1.2 record formats over a stream.
4. `StatefulSignature` (LMS, XMSS: index against storage), `Drbg` (reseed
   interval), rounds of EC J-PAKE and SPAKE2+, the engine lock of CC13xx:
   sequential, with a counter or a round as their only control state.
5. Proof of `FailsOnlyForCause` of `Tls12Sessions`.

Not planned: parsers, arithmetic and block functions (data far outside a small
instance, no protocol state), ports, applications and tools.
