# EROR in TLA+

EROR is a format for repliable onions. A sender builds an onion that travels
along a path of its choice, the last node of the path reads a payload and may
answer, and the answer travels back over a second path that is hidden inside the
onion. Replies look like any other onion on the wire, and the sender notices any
alteration of either leg.

This directory models the format and the nodes that use it, checks the models
with TLC on small instances, and proves the main results with TLAPS for every
instance. Paths below are relative to the repository's root.

## 1. Inventory

| Component | Source | State it keeps | Operations |
|---|---|---|---|
| Primitives | `src/primitives.rs` | none | `generate_keypair`, `random_key`, `random_tag`, `tag`, `xor_tag`, `asymmetric_encrypt/decrypt`, `derive_key`, `symmetric_encrypt/decrypt`, `prng` |
| Key store | `src/pki.rs` | address -> public key | `insert` (overwrites), `get` |
| Onion format | `src/lib.rs` | the key store it was created with, `max_path_length`, a random generator | `form_onion`, `proc_onion`, `proc_onion_without_reply`, `reply_onion`; inside: `onionize`, `wrap`, `unwrap`, `ae_wrap`, `ae_unwrap`, `ae_enc`, `ae_dec` |
| Errors | `src/error.rs` | none | the variants the operations return |
| Driver | `examples/create_onion.rs` | the onion, where it is, the `ExpectedResponse` | the loop that hands the onion from node to node |
| Wire format | `src/lib.rs` (`Serialize`, `Deserialize`, `pack`, `unpack`) | none | onions, header blocks, metas and packed messages to bytes and back, through bincode |
| Size table | `examples/onion_sizes.rs` | none | prints the sizes of an onion and of a Sphinx packet |
| Benchmarks | `benches/onions.rs` | none | measure time |
| Sphinx | `sphinx/` | none | a vendored copy of another onion format, for comparison |
| Sphinx header | `sphinx/src/header/` | none | `SphinxHeader::new`, `process`, `process_with_derived_keys`; inside: key derivation, filler, nested routing information, MACs |
| Sphinx payload | `sphinx/src/payload/mod.rs` | none | `encapsulate_message`, `unwrap`, `recover_plaintext`, `from_bytes` |
| Sphinx addresses, delays | `sphinx/src/route.rs`, `sphinx/src/header/delays.rs` | none | `try_from_byte_slice`, `try_from_base58_string`; `to_bytes`, `from_bytes`, sampling and sums of delays |
| Sphinx packet, SURB | `sphinx/src/packet/`, `sphinx/src/surb/` | none | `build_packet`, `process`, `process_with_derived_keys`, `from_bytes`; `SURB::new`, `use_surb`, `from_bytes` |

How they interact. The format calls the primitives and reads the key store; it
never writes to it. Nodes share no memory: they exchange onions. The sender is
called back in one place only: `proc_onion` asks the caller for the tag it stored
with an identifier (the header bytes under which the reply arrives), and the
caller answers from the `ExpectedResponse` records it kept itself. Nothing is
written to disk, there are no threads, timers, retries or acknowledgements: what
happens to an onion that is lost or repeated is up to the caller.

What is hard here, and what each component owes:

* **The sender simulates the network ahead of time** (`onionize`). Every hop
  shifts the header by one cell, decrypts the rest with nonces that depend on the
  cell's number, and pads with a decrypted zero cell; the tag of a hop's block
  covers all of these. The sender must know the padding cells that each hop will
  see, and the backward section after each hop. Owed: for all path lengths every
  hop accepts, and the onion arrives as `ExpectedResponse` says.
* **Two legs, one of them built by somebody else's data.** The reply's header comes
  from inside the payload, its forward section is key stream, and its backward
  section is encrypted by the receiver and wrapped by the hops. The sender takes
  these layers off by path lengths it wrote into its own meta. Owed: a reply that
  is accepted is the one the receiver gave; altering either leg is noticed.
* **Sessions at one sender.** Entries are found by header bytes. Owed: concurrent
  sessions do not mix, in any order of arrival.
* **Keys that change and state that is dropped.** A key store may be stale; the
  receiver peels an onion again, later, to answer it; a sender may have lost its
  entries. Owed: a clean refusal with an error that tells the reason, and no
  refusal of an honest onion without one of these reasons.
* **Copies.** No node recognises an onion it has seen. Owed: copies do no harm to
  what is delivered.
* **Sizes.** Owed: on a leg one size on every link, the same for all path lengths. On the way back
  the backward section is as long as the reply, so the two legs have one size only if a receiver
  answers with as many bytes as the payload has; nothing in the code makes it.
* **Borders that are read before they are checked.** An onion's cells, sections and the
  first block's ciphertext have lengths that are read from the bytes, and the tag is compared
  only after the block was decrypted. Owed: whatever bytes arrive, a node refuses them
  or does what it would have done with the onion as it was sent, but for the backward section.
  That section and its length are covered by no tag that a hop or a receiver could check: they
  pass on, or work into their reply, what they read there, and the sender must notice.
* **Nodes that were set up differently.** Each node brings its own `max_path_length`, and
  nothing in an onion says which one its sender had. Owed: a definite failure, at a
  place one can name, and no onion that goes on under another width.
* **Offsets counted by hand** (`nodes.rs`, `surb/mod.rs`, `packet/mod.rs`, `header/mod.rs`). Owed: what
  one function writes the other reads, and nothing is read from another field's place.
* **Sphinx's filler.** Sphinx, too, simulates ahead: node i puts its keystream on the
  zeroes it appends, and the MACs of all later nodes cover the result. Owed: for
  all route lengths every node accepts.
* **Sphinx's blinding.** Every node computes the next link's secret from its own, while the
  sender multiplies scalars; a sender may use its initial secret again and nodes may
  remember what they derived. Owed: both arrive at the same keys, links are
  unrelated, and remembering changes nothing.
* **Sphinx's SURBs** travel as bytes of variable length. Owed: a SURB that is cut never
  yields another message.

## 2. The modules

    RepliableChannel        what users are promised
          ^  refinement: checked by TLC and proved (RelayPath_proofs)
    RelayPath               nodes and packets, by position on the path
          ^  refinement: checked by TLC and proved (OnionNetwork_proofs)
    OnionNetwork            nodes and real onions over an unreliable network
          |  EXTENDS
    OnionFormat             lib.rs as operators        <-- EXTENDS -- OnionJourney
          |  EXTENDS                                       create_onion.rs
    Primitives              primitives.rs as a term algebra

    MixPacket               what a Sphinx packet promises
          ^  refinement: checked by TLC and proved (SphinxJourney_proofs)
    SphinxJourney           Sphinx packets, SURBs, nodes that remember keys
          |  EXTENDS
    SphinxPacket            packet, SURB, header processing as operators
          |  EXTENDS
    SphinxFormat            keys, filler, routing information  -- EXTENDS --> Primitives
          |  INSTANCE
    SphinxPayload           payload layout, byte by byte <-- EXTENDS -- SphinxPayloadTrip

    OnionSizes              the size table of onion_sizes.rs, beside the trips
          |  EXTENDS
    WireTrip                something is written, altered and read
          |  EXTENDS              |  INSTANCE
    OnionWire               SphinxWire        bytes of the two formats
          |  EXTENDS              |  EXTENDS
    WireBytes               bytes, and bincode's numbers and vectors

    OnionWire takes its lengths from OnionFormat, SphinxWire from SphinxFormat (INSTANCE).

`RelayPath_proofs` EXTENDS `RelayPath`, `Primitives_proofs` EXTENDS `Primitives`,
`OnionFormat_proofs` EXTENDS `OnionFormat` and `Primitives_proofs`, and `OnionJourney_proofs`
and `OnionNetwork_proofs` EXTEND `OnionFormat_proofs` and the module they are about;
`SphinxJourney_proofs` EXTENDS `SphinxJourney` and `Primitives_proofs`, `SphinxPayload_proofs`
EXTENDS `SphinxPayloadTrip` and `WireTrip_proofs` EXTENDS `WireTrip`. `OnionNetwork_proofs`
also has `RelayPath_proofs` as an instance, to carry over what is proved there. `MCRelayPath` and
`MCOnionNetwork` give orders and fault bounds to TLC.

### Primitives

Byte strings are *blobs*: what they were at first, their length, and the cipher
passes applied since. A pass cancels exactly against its inverse under the same
key and nonce. An empty slice is left alone, as in the code, which returns early
there because AEZ crashes on it. Tags are sets of atoms with symmetric difference for
`xor_tag`, so xoring twice cancels and the zero tag is the empty set. Keys are
seeds with the chain of roles they were derived with; roles are the pairs that
`discriminant` hashes. Decrypting a public-key ciphertext with another key gives
garbage, as the code does on purpose.

### OnionFormat

One operator per function of `lib.rs`, in the code's order of checks, each
returning `[ok |-> TRUE, ...]` or an error. Where the code fills arrays in loops
the module defines recursive functions over the hop number: `garbage_rows` (462-473),
`backward_sections` (487-496), `forward_sections` (498-502), `onion_layers` (511-523) and
`rewrapped_sections` (716-723). Cells are counted from 1 and not from 0, so the
code's nonce `i + 2` for the cell of index `i` after the first is the cell's
number. `ae_unwrap` and `ae_wrap` cipher tag and vector as one wide block;
`Join` and `Split` model the buffer: half of the output says nothing about the
other half unless the halves are put together again unchanged.

An empty path makes `form_onion` panic (`hops_backward.len() - 1`,
`keys_forward.last().unwrap()`, or `hops[0]`). The model returns `"panic"` there.

### OnionJourney

`examples/create_onion.rs`: `Hop`, `Receiver` and `Ends` are the arms of its
`match` (and the `unwrap` on its result), for every pair of path lengths.

One node, other than the sender, may have an `OnionFormat` with another
`max_path_length`: `odd` says which node and which width, and `proc_onion` and `reply_onion`
take the width of the node they run at. `shifted` is the loop of `unwrap`, with the
header's own number of cells and the node's number kept apart.

### WireBytes, OnionWire, SphinxWire, WireTrip and OnionSizes

The other modules take the parts of an onion as given; here they are bytes. A byte is a
triple: `<<"#", 0, v>>` is a byte of a number with value `v`, and `<<name, k, i>>` is byte `i`
of a field whose value nothing depends on, so a byte in the wrong place is told from the right
one, and lengths are read from the bytes that hold them.

`OnionWire` has `serialize` and `deserialize` for onions, `HeaderBlock` and `unpack` for cells,
`PackMeta` and `ReadMeta` for metas, and `proc_onion` on what was read, with slices out of
bounds told apart (`NoBlock`, `ShortCiphertext`). `unwrap` deciphers the backward section that it
read, of whatever length (`ae_unwrap`): a hop's onion has the result, and of a receiver's
`reply_onion` takes the half of a tag from it (`ae_enc`). Ciphers and MACs are ideal: they are right on
the bytes that were made and on no others, and each byte that comes out of the wide block names all
that went in. `SphinxWire` has each `to_bytes` and `from_bytes` with
the offsets of the code, and the layout of the 60 bytes that `SphinxFormat` calls a slot.

`WireTrip` sends one of these, alters any one byte (to any other content, and bytes of numbers to
their neighbours and some extremes), cuts the end off anywhere, or appends a byte, and lets it
be read by `ReadOnion`, `ReadArtefact` or `ReadAddressString`. A receiver answers at once, as in
`create_onion.rs` (`Handled`), so that the result has the reply and what it was made of. `ReadLayer` is what a Sphinx node
finds under its layer, at every place of every route length. `WireBytes` tells numbers apart below
`TooLarge`, so `LengthsAssumption` says that an onion is shorter than that (16 MiB; the code has
64-bit lengths, and a path of a thousand nodes makes 248 KB). `OnionSizes` adds `PrintRow`, which
prints one line of `examples/onion_sizes.rs`, for each path length that `onion_sizes.sh` builds the
program with.

### OnionNetwork and RelayPath

The same variables and actions, once on onions and once on positions.

| Action | Code |
|---|---|
| `Form`, `FormFails` | `form_onion`, and the caller that keeps the `ExpectedResponse` and sends the onion |
| `Relay`, `Receive`, `Accept`, `Reject` | the results of `proc_onion`: `Hop`, `Receiver`, `Sender`, an `Err` |
| `Reply`, `ReplyFails` | `reply_onion` by a receiver that kept the onion |
| `Rotate`, `Publish` | `generate_keypair` at a node, `Pki::insert` at a sender |
| `Forget` | the process of a sender ends |
| `Lose`, `Corrupt`, the flag `again` | the network |

In `RelayPath` a packet is `[session, leg, hop, reply, mauled, version]`: where it stands, the
reply it carries, which parts were altered, and the number of the last alteration (0 if there was
none). The version keeps packets apart whose onions differ: two copies of an onion, altered in
different places of the same part, take different onions along, and losing one is not losing the
other. `Opens` and `ProcError` say, without any cryptography, which step a node takes. In
`OnionNetwork` the decision is made by `proc_onion` on the onion itself; the
packet travels along as a history variable that no action reads. `ImplementsRelays`
says that the two agree after every step: that is where the cryptography is
checked. `Corrupt` alters any one cell, the tag or the ciphertext of the first
block, the length field in front of that ciphertext, the forward section, or
either half of the backward section, as the tagging tests in `lib.rs` (1041-1145)
do for some of them.

### SphinxFormat and SphinxPacket

Routing information is a sequence of slots of 60 bytes (`FILLER_STEP_SIZE_INCREASE`):
everything the code cuts, shifts or pads by is a multiple of that. A slot is what
was written there and the set of keystream pieces `[key, place]` xored onto it;
the same piece twice cancels. The keystream has one slot more than a header, and
*which* slots of it a step uses is kept: that is what the filler depends on. Points and scalars
are sets of exponents, so Diffie-Hellman is a union and the node's way of blinding
(a point times a factor) and the sender's (a scalar times factors) are computed
separately and have to agree. A MAC is a term over all slots.

`process` and `process_with_derived_keys` share `ProcessedHeader`, as their bodies are the
same but for where the keys come from, the missing blinded secret
(`None` is the empty set), and the `unwrap` that makes an error a panic. Failed
assertions and underflows of `SphinxHeader::new` are gathered in `HeaderPanics`; they
also hit `SURB::new`, which returns a `Result` but checks only two of them.

### SphinxJourney

`Build`, `Relay`, `Arrive` are the steps of `sphinx/tests/integration_test.rs`;
`MakeSURB` and `UseSURB` those of its SURB test, with the SURB's bytes cut in between;
`Maul` alters one part of the packet, or cuts it, on any one link. `Again`, `Known`
and `Remember` are the caller that the comment of `process_with_derived_keys` has in mind:
a sender that uses its initial secret twice, and nodes that remember, by
the packet's shared secret, `compute_routing_keys` and `ProcessedPacket::shared_secret`.

`MixPacket` says what all of this amounts to: a path, a position, a message, and whether header
or payload were damaged. A damaged header stops the packet, a damaged payload travels to the end
and is lost there, and else each step is `Move` or `Deliver`. The mapping takes the path from the
addresses of the route, `damage` from the fault and from a SURB that lost keys (`Damage`), and
`delivered` from what the last node handed out.

### SphinxPayload and SphinxPayloadTrip

`set_final_payload` and `recover_plaintext` on sequences of bytes,
with a security parameter of 2 instead of 16 in TLC. `SphinxPacket` abstracts
from the bytes but takes its size checks from here.

## 3. The runs

| Run | Asks | Properties |
|---|---|---|
| `relay_faults` | one session, honest, answered to a stranger, or refused; every kind of fault once; does every onion come to an end? | `TypeOK`, `FailuresExplained`, `AnswersGenuine`, `ImplementsChannel`, `EveryOnionSettles` |
| `onion_faults` | does the cryptography decide as `RelayPath` says? | `TypeOK`, `UniformSize`, `ArrivesAsPredicted`, `ImplementsRelays` |
| `onion_sessions` | the same with two sessions of one sender, copies, and keys inserted late | `NothingRecurs`, `ImplementsRelays` |
| `onion_live` | the liveness of `relay_faults` on real onions; copies of an onion that are altered differently, an onion altered twice | `EveryOnionSettles`, `ImplementsRelays` |
| `journey` | all path lengths up to 5, empty and other payloads; one node of another width, anywhere | `HeaderIsRight`, `VisitsThePath`, `SizeIndependentOfPath`, `OddWidthEndsIt` |
| `journey_tag` | expected violation | `TagIsTheOneReceived` |
| `sphinx_journey` | a packet or SURB for every route length from 0 to 6, altered anywhere, then a second packet under the same secret over every fork of the route | `TypeOK`, `HonestPacketArrives`, `AlteredHeaderStops`, `OnlyTheMessage`, `LinksUnrelated`, `CachedAgrees`, `ImplementsMixPacket` |
| `sphinx_payload` | does every plaintext come back? | `RecoversMessage`, `ChangeIsLocal` |
| `sphinx_padded` | expected violation | `PaddedLengthAsCommented` |
| `wire` | every byte altered, every cut, of everything that is serialized; every layer of a Sphinx header; the size table | `ProcessedAsSent`, `RefusalsExplained`, `AcceptedIsCanonical`, `CutIsNoticed`, `HopReadsItsOwn`, `SizesAsPublished` |
| `wire_crash` | expected violation | `GarbageNotCrash` |

What the properties say:

* `FailuresExplained` - an honest onion is never refused: each error points at an
  alteration of the right part, a key replaced since, a dropped entry, or a reply
  path that does not end at the sender.
* `AnswersGenuine` - what a sender accepts is what the receiver of its own onion answered,
  and nothing was altered on either leg, including the backward section no hop can check.
* `UniformSize`, `SizeIndependentOfPath` - what an onion's size on a link depends on: the lengths of
  payload and reply and the leg, and not the paths or the place on them.
* `ArrivesAsPredicted` - the onion and the reply's header arrive as the bytes that
  `form_onion` predicted, under all interleavings.
* `NothingRecurs` - no two links show the same bytes.
* `HeaderIsRight` - every cell at every hop is the right one under the right
  layers, for all path lengths.
* `VisitsThePath` - the driver's loop visits the path in order and is answered.
  Each step of the loop goes one hop further and deadlock is checked, so the
  loop cannot stop earlier and needs no separate liveness property.
* `OddWidthEndsIt` - a node that expects more cells than there are panics on the missing one; one
  that expects fewer passes on a header that the next node refuses; only the receiver may expect
  fewer, since it takes the reply's header from the message and shifts none.
* `ImplementsChannel`, `ImplementsRelays`, `ImplementsMixPacket` - the refinements.

* `HonestPacketArrives` - a packet is built exactly when it can be, with the right error
  or panic otherwise, and then every node accepts it and names the right next node and delay.
* `AlteredHeaderStops`, `OnlyTheMessage` - an altered header is refused by the next node; an
  altered payload or a cut SURB never yields another message.
* `LinksUnrelated` - no slot, MAC, secret or payload is seen on two links.
* `CachedAgrees` - with remembered keys a node does what it would do without,
  with one exception that the property spells out: a node that was the last one of the first
  route has no blinded secret to remember, and refuses (`InvalidHeader`) a second
  packet that goes on from there, although it is honest.
* `ProcessedAsSent` - an onion that is not refused is processed as the one that was sent, with the
  backward section it came with, whichever byte was altered: also where an altered length moves
  bytes from one part to another. If anything was altered it was that section or its length, and
  the reader was not the sender. `test_backward_payload_tagging` (`lib.rs`) has one such case.
* `RefusalsExplained` - a cut onion is not even taken apart; trailing bytes change nothing; an
  alteration that is no length is refused by this node or, in the backward section, by the
  sender and nobody else; only the cell count and the first ciphertext's length can lead out of bounds.
* `AcceptedIsCanonical`, `CutIsNoticed` - what was accepted, written again, is what was read; two
  cuts that go unnoticed are spelled out (a packet's payload, and whole keys of a SURB).
* `HopReadsItsOwn` - each node of a Sphinx route reads from under its layer the address, delay, MAC
  and next part that were written for it, for every route length.
* `SizesAsPublished` - the table of `ARTIFACT-APPENDIX.md`, and the formula behind it.
* `RecoversMessage`, `ChangeIsLocal` - the payload's layout can be read back without
  ambiguity; what a change can do without the layers of encryption is limited.

The violations are comments that say something else than the code does. `ExpectedResponse.tag`
(`lib.rs:251`) is the tag *after* the last hop has unwrapped the backward section, not the tag of
the onion as it is received. `asymmetric_decrypt` (`primitives.rs:244`) is said to return garbage
for bytes that are no point, and not to crash; for fewer than 40 bytes its slices are out of bounds,
and how many there are is a length in the first block that is read before its tag is checked. The
comments of `NONCE_BWD` and `NONCE_FWD` (`lib.rs:33-36`) are swapped, which a look at the code shows.

In Sphinx a comment of `destination.rs` (62) gives a formula from the
paper that the code's sizes no longer follow. Two more, seen while
modelling, have no run: `recover_plaintext` drops whatever follows the last 1, not only
zeroes as its comment says (`payload/mod.rs:148`), and its `debug_assert!` (139) excludes
the one size that `from_bytes` (205) admits at its lower bound, where the model returns
`"panic"`. Neither matters as long as a payload was unwrapped before it is read.

### Bounds, and why they are enough

* `Bound[k]` is how often each kind of fault may happen. One of each is enough for
  every pair of kinds to meet, at any two points of a journey. `onion_live` has two alterations
  and a repeat, so that two copies of one onion are altered, or one onion twice. A second
  alteration of the same bytes does not undo the first in the model.
* Paths have one or two hops in the network runs, with `MaxPathLength` 2 or 3: there
  is a first, a middle and a last hop over the two legs, padding on each leg, paths of equal and different
  length, and a node that is on both legs. All lengths up to 5 (the example's) are left to
  `journey`, which has one onion and so is small.
* Two sessions of one sender are enough for one to be taken for the other.
* Sphinx's routes have 0 to `MAX_PATH_LENGTH + 1` = 6 nodes, the code's own constant. Delays are
  as many as the nodes, or one fewer. Sizes of payloads lie below the overhead, between overhead and
  Lioness's block, at exactly that block (32 bytes, which the checks of the parameters admit and
  Lioness does not), one above, and well above. Two packets under one
  secret: a third would find the same entries.
* Wider and narrower: `OddWidths` are 1, 3, 4 and 6 beside 5, at every node but the sender, so
  that a narrower node may keep some cells, all but one, or none.
* On the wire three cells are enough for a first, a middle and a last one, and payloads of 0 and 2
  bytes. A byte of a number changes by one either way or to one of `AlteredValues`: 0, 1, 255, and 39
  and 40, the border of the slices in `asymmetric_decrypt`. Numbers from `TooLarge` (2^24) on are one:
  all are longer than anything there is. One alteration is made, one cut, or one append. `PathLengths`
  and `RowPayloads` are those of the published table.
* Payload bytes are 0, 1 and one other value, plaintexts have up to 4 of them: two marks
  and two zeroes fit in any order.
* Payloads have lengths 0, 2 and 3: empty ones are special in the code
  (`primitives.rs:283`), others are not.
* Two of the three nodes are listed at first in `onion_sessions`, so that
  `KeyNotFound` happens, and stops happening when a key is inserted.
* `CHECK_DEADLOCK FALSE` in the network runs: when all onions are settled, all
  faults spent and all keys published the network really stops. It stays on in `journey` and in the runs of Sphinx, whose `Done` says where the journey may end.

### Fairness

`FairSpec` asks, per session, that an onion on the wire is eventually processed, and
a kept onion eventually answered: the loop of `create_onion.rs` does nothing
else. There is no fairness for faults, key changes or forming onions. A loss is
one of the ways for an onion to settle, since the code has no retry.

## 4. The proofs

TLC checks small instances; the theorems hold for every value of the constants that the named
assumptions admit. `PROJECT.json` lists them under `theorems`.

### Nodes and packets: RelayPath_proofs

For all nodes, sessions, orders, replies, path lengths and fault bounds, under the
assumptions in `RelayPath` (orders name nodes and sequences of nodes; `NoReply` is no
reply; at least one hop is allowed; bounds are natural numbers):

| Theorem | Says |
|---|---|
| `TypeCorrect` | `Spec => []TypeOK` |
| `AnswersAreGenuine` | `Spec => []AnswersGenuine` |
| `FailuresHaveCauses` | `Spec => []FailuresExplained` |
| `RelaysImplementChannel` | `Spec => ImplementsChannel` |

The relays' argument goes in three layers, each inductive relative to those before.

1. `TypeInv` is `TypeOK`, `InvPlaced` (each packet belongs to a formed session and
   stands on a hop of its path) and `InvFormed` (formed orders have two
   non-empty paths). `TypeOK` alone is not inductive: without `InvPlaced`,
   `At(t)` need not be a node, nor a session formed.
2. `OriginInv` says where things come from. Payloads handed out belong to unaltered
   packets at the end of the forward leg; kept onions were handed out; a reply was
   given to a received onion and inherits its alterations; a packet on its way
   back is a reply that was given, with at least its alterations; only the sender
   of a formed session waits for it. `AnswersGenuine` and the refinement need all of
   these: that an answer is unaltered shows, backwards, that the reply was, and so
   that the onion it answers had been.
3. `CauseInv` bounds the keys (a key store never holds a later generation than the
   node's own, nor does an onion) and says that a sender still waits, as long as
   nobody has forgotten anything. From it follows that each error has its cause.

`ReceiptsGenuine` and `SealedStops` are lemmas here. On packets, which are marked as altered,
they say little; `OnionNetwork_proofs` states them of onions, which are not.

The last section maps the relays' variables to the channel's: `Form` is
`Send`, `Receive` is `Deliver`, `Reply` is `Reply`, `Accept` is `Return` (by
`OriginInv`), and every other action leaves the channel as it is.

### Onions: Primitives_proofs, OnionFormat_proofs, OnionJourney_proofs

For every `MaxPathLength` from 1 on (`MaxPathLengthAssumption`) and, in `OnionJourney`, all payload
and reply lengths (`LengthsAssumption`). An order is any call of `form_onion` whose paths have 1 to
`MaxPathLength` hops, each listed in the key store, and whose payload is a blob as the ciphers
make them (`IsOrder`).

| Theorem | Says |
|---|---|
| `HopPeelsItsLayer` | `unwrap` undoes `wrap`: it returns what was sealed for the hop and leaves the next hop's header, padding and forward section, for every number of cells |
| `RewrappingUndoesThePath` | the wide-block layers that the reply's hops put on are those the sender takes off |
| `FormOnionIsOk` | `form_onion` succeeds, and its results are the first and the last layer of the theorems below |
| `ForthHop`, `BackHop` | on either leg `proc_onion` makes of one hop's onion that of the next, and names that hop |
| `ReceiverAnswers` | the receiver gets the payload, and `reply_onion` makes the first onion of the reply path |
| `SenderReadsReply` | the sender finds the tag by the identifier it stored and reads what was answered |
| `OnionsHaveOneSize` | every part has one size on all links of a leg, for all path lengths |
| `HeadersAreRight` | closed form of every cell: block, padding or shifted-in zeroes, under the layers that are still to come off |
| `MisshiftedIsRefused` | a header shifted by a node of a smaller `max_path_length` is refused by the next one |
| `OnionVisitsThePath` | `Spec => []VisitsThePath` |
| `HeadersStayRight` | `Spec => []HeaderIsRight` |
| `SizesIgnoreThePath` | `Spec => []SizeIndependentOfPath` |
| `OddNodeEndsIt` | `Spec => []OddWidthEndsIt` |

`Primitives_proofs` calls a blob what the ciphers can make (`IsBlob`): its list of passes never
holds a pass next to its inverse (`Reduced`). On such blobs a pass cancels exactly against its
inverse, from either side, and keeps the length; on other records it need not.

`OnionFormat_proofs` works out, for a fixed order, what the recursive functions of `OnionFormat`
return. The library's induction theorems cannot be used here, so each `...Recur` lemma shows that
a function given by recursion satisfies its equations, by taking a least counterexample (`WFMin`).
With them `AreLayers` says what stands in each cell of each hop's onion. The tag of a hop's block
covers all cells behind it, and the last ones are garbage that the node itself makes when it shifts:
that the sender's simulation has put the same garbage in the same place is the heart of
`HopPeelsItsLayer`. `IsSection` and `Recovers` follow the backward section, which each hop unwraps
and the sender, who knows all keys, wraps again in the opposite order. `IsCellAt` is the closed form
behind `HeadersAreRight`.

`OnionJourney_proofs` has one inductive invariant, `JourneyInv`: where the loop stands, the onion is
exactly the layer of that hop, and what was logged is what the path says. The properties alone are
not inductive: that an onion has the right size or visits the right node says nothing about the
bytes the next node will compute a tag over. For a node of another width the invariant says how
the header was shifted; a narrower node leaves a cell in a place where no layer has it, hence the
refusal.

### Onions over the network: OnionNetwork_proofs

For all nodes, sessions, orders, replies, path lengths and fault bounds, any number of each, under
the assumptions in `OnionNetwork`: those of `RelayPath`, and that payloads have a length and differ
as bytes if they differ (`PayloadAssumption`).

| Theorem | Says |
|---|---|
| `TypesAreKept` | `Spec => []TypeOK` |
| `SizesAreUniform` | `Spec => []UniformSize` |
| `OnionsArriveAsPredicted` | `Spec => []ArrivesAsPredicted` |
| `OnionsAreRelayed` | `Spec => ImplementsRelays` |
| `OnionAnswersAreGenuine` | `Spec => []Relays!AnswersGenuine` |
| `OnionReceiptsAreGenuine` | `Spec => []Relays!ReceiptsGenuine` |
| `OnionFailuresHaveCauses` | `Spec => []Relays!FailuresExplained` |
| `AlteredOnionsStop` | `Spec => Relays!SealedStops` |
| `OnionsImplementChannel` | `Spec => Relays!ImplementsChannel` |

The argument has two invariants.

1. `NetInv`: every onion on the wire, or kept by a receiver, *fits* its packet. If its header and
   forward section were left alone, it is the layer of that hop, exactly. If they were altered, it has
   the right shape and its node refuses it with the error that `ProcError` names (`AlteredIsRefused`).
   The backward section is the honest one if nobody altered it, and else a *spoilt* one: it can
   be traced, hop by hop, to bytes that no cipher made, and so never carries the tag the sender
   waits for. The weaker statements that the runs check are not inductive, since what
   a hop makes of an onion depends on all its bytes. `Fits` is kept by a hop (`FitsPass`), by the
   receiver's answer (`FitsArrive`) and by an alteration (`FitsAlter`); the sender's decision is
   `FitsReturn`. A header under which an entry is found belongs to that session, as its block holds
   the key that was drawn for it (`IdentifierTells`).
2. `DateInv`: packets tell onions apart. Taking an item off the wire must take one packet off it, so
   no two items may have the same packet (`PacketsOnWire`). An onion that nobody altered is fixed
   by its packet. Any other is traced back to the item that the alteration with the packet's
   `version` made, and passing hops, or being answered, is a function of the bytes (`TrackedUnique`).

With these each action is the action of the same name in `RelayPath` (`FormAgrees`, `RelayAgrees`,
... ), and `Proved`, an instance of `RelayPath_proofs` under the same mapping, carries the
theorems about packets over to onions: end to end, from the terms that `lib.rs` computes to the
channel that users are promised.

### The Sphinx payload: SphinxPayload_proofs

For all byte values, plaintexts, payload sizes and security parameters, under the
assumptions in `SphinxPayload` and `SphinxPayloadTrip` (sizes are natural numbers, the block of
Lioness is longer than the payload's overhead, 0 and 1 are bytes):

| Theorem | Says |
|---|---|
| `RecoverInvertsSet` | `recover_plaintext` returns what `set_final_payload` was given |
| `MessagesComeBack` | `Spec => []RecoversMessage` |
| `ChangesAreLocal` | `Spec => []ChangeIsLocal` |

`SphinxPayload_proofs` first shows what stands at each place of a payload (`PayloadLayout`). From
it follows that the mark behind the plaintext is the last 1, so that `rposition` finds
it whatever the plaintext holds. `RecoversMessage` is not inductive: `UnalteredInv` adds
that a payload nobody altered is still what `set_final_payload` wrote. That the block of
Lioness (32) exceeds the overhead (17) is needed: a payload of exactly the overhead
would fail the debug assertion in `recover_plaintext`. For `ChangeIsLocal`, `ChangedInv` records what
the changed bytes were before; the last 1 among the others bounds what the change can reach.

### The bytes: WireTrip_proofs

For every path length and all payload lengths and alterations that `WireAssumption` and
`LengthsAssumption` admit; delays are below `TooLarge`. The behaviours are those of `WireTrip`:
the rows that `OnionSizes` adds are numbers, and the properties do not speak of them.

| Theorem | Says |
|---|---|
| `HeaderReadsBack` | a Sphinx header is read as it was written, and has `HEADER_SIZE` bytes |
| `HeaderIsCanonical` | bytes that are accepted as a header are those it would be written as |
| `HopReadsBack` | a node parses the address, delay, MAC and next layer that were written for it |
| `LastHopReadsBack` | the last node parses its destination and identifier, and its layer is as long as any other |
| `HopsReadTheirOwn` | `Spec => []HopReadsItsOwn`, for every route length |
| `AcceptedIsProcessedAsSent` | `Spec => []ProcessedAsSent` |
| `AcceptedWasWritten` | `Spec => []AcceptedIsCanonical` |
| `CutsAreNoticed` | `Spec => []CutIsNoticed` |
| `RefusalsAreExplained` | `Spec => []RefusalsExplained` |
| `SizesAreLinear` | the size of an onion for every role, payload and path length, and of a Sphinx header: the formulas in `SizesAsPublished` |

*Sphinx.* Each string is built up field by field. Putting a string behind another gives
the sum of their lengths (`GrownTyped`), the new field at the old end (`GrownEnd`), and moves neither the
fields before it nor the flag (`GrownKeeps`, `GrownFlag`). So the offsets that the parsing functions count
by hand are those at which the fields were put. That a big-endian number is read as it was
written rests on the three digits below `TooLarge` adding up, and on reversing twice. For the
last node, padding and filler fill the rest for every route length (`FinalSizes`). SURBs and packets
have a length of their own: the keys of a SURB are chopped off the rest and joined again
(`ChoppedJoins`), and what remains of a cut SURB are the keys that were first (`CutSurb`).

*bincode.* Everything has two halves: what is written is read, and what was read stood there.
So for numbers (`NumberReadsBack`, `NumberStood`), byte vectors (`VectorReadsBack`, `VectorStood`),
vectors of byte vectors (`VectorsReadBack`, `VectorsStood`, by induction over the number of vectors),
blocks and onions (`OnionReadsBack`, `OnionStood`). The second half is canonicity: bytes that are
accepted as an onion are those that the onion would be written as, and what trails. A cell's
block needs no more than its own bytes, so cells may go on behind it.

*What a node does.* `WireInv` is the invariant: what was sent is an onion, an artefact or a layer, the
change is one that the network can make to its bytes, and a result is what the reader makes of the bytes
as they are. The properties follow from it, one kind of change at a time, but each needs more than it
says of the step:

* `ProcessedAsSent`: of what was accepted, the tag covers the first block's data, the cells and
  the forward section with all their lengths (`MacInputsDiffer`), hence it is as it was sent
  (`UnwrapSame`). Of the backward section a hop or a receiver does the same with whatever it
  reads (`HandledAlike`), and a sender compares it. That the altered byte lies in that section needs
  the borders in front of it: a cell that goes on behind its block is accepted too, so an altered
  length could move what follows. It would move the forward section, whose bytes all differ, and
  then two bytes at least would not be as they were sent (`BordersStand`).
* A cut onion lacks bytes that its lengths announce (`CutOnionIsShort`), one that goes on is
  read up to its end (`WholeOnion`).
* A byte that is no number leaves the lengths in the bytes as they are, or makes one of them larger
  than anything (`LikeNumber`). What is read then is `Like` what was sent, byte by byte, part by part
  (`LikeVectors`, `LikeOnion`), so the first block is taken apart at the same borders and never short
  (`LikeUnwraps`). If the byte is in the backward section, all in front of it is read as it was sent
  (`FrontIsRead`), and only the sender refuses (`AlteredBackward`).
* A node panics only when there is no cell or the ciphertext is shorter than 40 bytes
  (`NoBlockMeans`, `ShortMeans`). What it read stood in the bytes (`OnionStood`), so the number
  of cells is the first eight bytes (`CountFound`) and the ciphertext's length bytes 33 to 40
  (`LengthFound`). Sent were other numbers there (`SentLengths`): one of these bytes was altered.

### Sphinx packets on their way: SphinxJourney_proofs

For every `MAX_PATH_LENGTH` from 1 on (`MaxPathAssumption`) and all message lengths, payload sizes and
lengths of cut payloads (`JourneyAssumption`, which also has one or two packets under a secret).

| Theorem | Says |
|---|---|
| `NodesOpenTheirHeaders` | `process` at each node of a route accepts the header the sender made or the node before left, and leaves for the next the secret, slots and MAC the sender reckoned with |
| `JourneysAreTyped` | `Spec => []TypeOK` |
| `HonestPacketsArrive` | `Spec => []HonestPacketArrives` |
| `AlteredHeadersStop` | `Spec => []AlteredHeaderStops` |
| `OnlyTheMessageIsReceived` | `Spec => []OnlyTheMessage` |
| `RememberedKeysAgree` | `Spec => []CachedAgrees` |
| `LinksAreUnrelated` | `Spec => []LinksUnrelated` |
| `JourneysAreMixed` | `Spec => ImplementsMixPacket` |

The first half is about the operators, for any route. The recursive functions (secrets, fillers, layers
of routing information, layers of encryption) are shown to satisfy their equations (`...Recur`), as in
`OnionFormat_proofs`. Slots are xored place by place, and xoring twice with one piece of
keystream cancels. `IsLayer`, `IsAround` and `IsInnermost` say what stands in each slot of
each layer; `EndsIn` says that the layer of a node ends in the filler of the nodes before it. The heart is
`UnwrapsAround`: the slot of zeroes that a node shifts in, under its keystream, is the last slot
of the next layer, for the filler was made so. Hence the MAC that the sender computed over the
next layer is the MAC over what the node leaves. The node's secrets and the sender's are the
same sets of exponents (`AccumulatorsRecur` against `blind_the_shared_secret`). A
payload under keys i to n is opened by key i into one under the keys i + 1 to n, and one that was altered, or
opened with keys missing, never becomes plaintext (`AlteredPayloadJunk`).

The invariant is `IInv`; TLC checked it before it was proved. At the sender (`AtSender`) there is nothing or
the whole SURB, and whoever gave up had a reason. On the way (`OnTheWay`) the packet is, at each hop,
exactly the sender's layer for that hop, but for the one part that was altered (`PacketRight`);
a header altered in any part fails its MAC (`Refusable`). The properties are not inductive: that
nobody refused the packet so far says nothing about the bytes over which the next node computes its
MAC. `CacheRight` says that each entry a node holds is what it would compute itself, for which
secret ever, and so makes `process_with_derived_keys` interchangeable with `process`; the one exception is
an entry made as the last node of a shorter route, which has no next secret. `FreshSecrets` keeps
that exception from the first packet.

`LinksUnrelated` speaks of all links and not only of the last, so `IInv` is joined by `AllLinks`. What tells
the links apart, each for its own reason:

* Secrets: the one for node h has the blinding factors of all nodes before h (`SecretsAre`), and no two
  are the same, as no secret on the way has the exponent of a node of the route (`NoNodeInSecrets`,
  `SharedDiffer`). So keystreams and MAC keys differ from node to node too, and the MACs with them.
* Slots: one that the sender filled is under the keystream of the node that is to read it and not of
  those before; one that nodes shifted in is under the keystream of the last of them and not of those
  after (`SlotOfNode`, by `LayersUnder` and `FillersLeft`).
* Payloads: `Weighs` counts the layers that are left, or, below zero, those that nodes without a
  layer to take off put on. Each node makes the payload lighter by one, junk included.

An altered header differs from the sender's in something that no other header has (`HeaderLike`).

`JourneysAreMixed` goes action by action: `Build` is `Send`, `UseSURB` is `Send` or `Refuse`, the failures
before it are `Refuse`, `Maul` is `Damage`, `Relay` is `Move`, `Arrive` and `Fail` are `Deliver` or
`Lose`, `Again` is `Reuse`, and `MakeSURB` leaves the abstract packet as it is.

### Model-checked only

* Liveness, which is outside the prover's reach (`EveryOnionSettles`).
* `NothingRecurs`: it compares all pairs of byte strings of all onions. Which cell, section or tag a
  string is would have to be found back from the term, for each of the ways in which strings are made.
* `SizesAsPublished`: the module has one instance of `OnionWire` for each path length, which the
  prover does not take, and published numbers are data. Its formulas are `SizesAreLinear`.
* What the crash in `asymmetric_decrypt` does (`GarbageNotCrash`) is a counterexample, found by TLC.

## 5. Abstractions

* Cryptography is ideal: keys, tags and cipher results are terms and differ
  unless they are computed alike. Onions formed in different sessions use
  different coins.
* In `OnionNetwork` an alteration of the first block's length field is taken as one that exceeds
  the cell, which bincode refuses, and all nodes run with one `max_path_length`. `OnionWire` has
  all values of that field, and `OnionJourney` nodes of other widths.
* The wire is a set: equal items are one, and copies are the flag `again`.
* A receiver gives each answer to an onion once; it may give several answers.
* `bincode` is not in the repository: `WireBytes` is version 1.3 as the code calls it (numbers of
  fixed width, least byte first, trailing bytes allowed), `OnionFormat` has the lengths it writes.
* In `OnionWire` bytes of key stream that are read as a length exceed every length there is.
  Whether an altered point is still one is left open: both ways give garbage.
* Nothing limits the entries a sender keeps: the code does not either.

* In Sphinx a slot under a keystream has no flag that `parse` knows (in the code it has one with
  a probability of 1/128; the MAC keeps such slots from being parsed). The
  random padding of the last node's slot is one term with the destination it follows.
* Clamping and reduction of scalars are left out: products of exponents commute.

Not modelled: the sampling of Sphinx's delays and their arithmetic on `u64` and `f64` (nothing in the
repository but the tests of `delays.rs` uses it), the base58 decoder and `bincode` themselves, the lioness
crate itself (it is taken to refuse up to 32 bytes, as its digest has that size), the benchmarks, the randomness test of the key stream, and the
sampling of keys.

## 6. Plan

Done: the modules above, in the order `Primitives`, `OnionFormat`, `OnionJourney`,
`RelayPath`, `OnionNetwork`, `RepliableChannel`, then the proofs, then
`SphinxPayload`, `SphinxFormat`, `SphinxPacket`, `SphinxJourney`, `SphinxPayload_proofs`, then
nodes of different widths, `WireBytes`, `OnionWire`, `SphinxWire`, `WireTrip`, `OnionSizes`,
`MixPacket`, then `Primitives_proofs`, `OnionFormat_proofs`, `OnionJourney_proofs`,
`OnionNetwork_proofs`, `SphinxJourney_proofs` and `WireTrip_proofs`.

What is left to prove: `NothingRecurs`, from the closed form of the cells in `HeadersAreRight` and
the distinct keys of `LinksAreUnrelated`'s kind. Left to model: the arithmetic of Sphinx's delays.
