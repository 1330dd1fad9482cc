# A TLA+ verification of deskhopplus

deskhopplus is a two-board USB keyboard/mouse switch. Each board sits between one
computer and the shared keyboard and mouse; the boards talk over a UART, and each
computer may run a *helper* that talks to its board over a vendor HID endpoint (the
*channel*). Through helpers and boards the two computers share a clipboard and place
each other's pointer. This project models the channel of the firmware: the queues,
links and rings frames travel through, the session that authenticates them, the
pairing that decides who may have one, and three conversations on top: the clipboard
transfer between helpers, the crossing of the pointer between computers, and the
firmware a board pulls from its peer.

Module, constant and action names follow the source. Paths below are relative to the
repository's `src/`.

## Inventory

Each board runs two cores without an operating system. Core 0 loops over the USB
device, `process_uart_tx_task` and `channel_task` (1 kHz); core 1 over the USB host,
the UART receiver with its message handlers, the firmware pull and the sleep tasks.
There is one lock, `out_lock`, around the outbound queues and the placement state.
Everything else shared between cores is a flag, a counter or an agreement about who
writes what, which is where most of the hard behaviour is.

| Component | State | Operations | Talks to | What makes it correct |
|---|---|---|---|---|
| Outbound queue `core/dh_outq.c` | per band: frame in flight, bytes sent, preamble flag, staging ring; refusal counters | offer, offer_pair, peek, advance, note_preamble, reset | used by the helper seam and by the relay | one frame in mid-drain, order within a band, priority overtakes only what waits, nothing admitted is stranded or lost |
| Helper seam `channel.c`, `core/dh_frame.c` | the pump's view held over an unlock; the reader's partial frame | `channel_pump_out`, `dh_frame_reader_report`, reset on a lost link | USB interrupt reports | a frame handed on is the one queued |
| Relay `core/dh_relay.c`, `uart.c` | burst count, UART queue, reassembly buffer | offer, peek/commit/yield, push, resets | the peer board | a frame arrives whole, once, in order, in the end |
| Inbound ring `core/dh_inq.c` | two free-running bytes, four slots | stage, publish, peek, release, reset | core 1 to core 0 | a bounded FIFO without a lock |
| Pairing `core/dh_pair.c`, `channel.c`, `utils.c`, `config_store.c` | registration, window; running config, page buffer, flash sector | register, open window, tick, set, save, wipe, boot | handlers on both cores, flash | one registration per window; RAM, config and flash agree; a wipe revokes |
| Session `core/dh_session.c`, `core/dh_auth.c` | keys, counter window, stamps, what is owed to the helper, listener count | hello, authenticate, emit, end, tick | the helper; all queues | replays refused, no tag repeated, silence ends it on time, the helper is told |
| Lifecycle `channel_lifecycle.c` | glue of the above, placement and query state | `channel_lifecycle_step` | all of the above | the order of one pass |
| Placement, crossing `channel_lifecycle.c`, `mouse_logic.c` | active output, crossing phase, placement counter, pending query, arrival flag | owe/pump place, query, arrive, crossing task, handlers | both boards, a helper | the last placement wins, an answer is for its own question, the mouse is let go |
| Transfer `core/dh_xfer.c`, seal `core/dh_seal.c`, service `helpers/windows/src/clip_service.cpp` | offer, credits, chunks, retransmit ring, receive bitmap; seal on each end; parked copy | offer, request, chunk, credit, retransmit, done, sweep, cancel, retries | the other helper through both boards | one copy, whole, once, in the end; receipts are true |
| Helper core `core/dh_helper.c` | the helper's state machine | hello, pair, beat | its board | mirrors the session |
| Firmware `fw_upgrade.c`, `tasks.c`, `handlers.c`, `ramdisk.c` | address, checksum, source, dirty flag, page buffer | heartbeat, request, response, program, stall, UF2 block | peer board, host, flash | the image booted is one image; loss alone costs nothing |
| Sleep sync, wake, replug `core/dh_sleep_sync.h` | timers and edges | tasks, handlers | peer board | no lost wake, no echo |
| Everything sequential (HID parsing, hotkeys, config text, file lists, descriptors, LEDs) | little | pure functions | | unit tests reach it |

What is hard here: the gap between the pump's two critical sections; reports and UART
packets lost without sequence numbers; a full queue in mid-frame; a reset on one core
racing a producer on the other; flash written from both cores through one page buffer;
the power failing between erase and program; clocks that wrap; frames that the queue
refuses after their counter was spent; a word of firmware answered twice; a host
writing the image one core is pulling on the other; a helper that restarts in the middle
of a transfer and counts its offers from one again. `PROJECT.json` lists each hazard with its line
and the properties that would catch it going wrong.

## Modules

**`DhOutq`** is the outbound queue as operators on a record: `promote`, `owed_band`,
`dh_outq_offer`, `dh_outq_offer_pair`, `dh_outq_peek`, `dh_outq_advance`, ... A frame is
an id, a band, a length in units of the carrier, the size of its last unit, and whether
its header parses.

**`HelperSeam`** puts the queue between the cores that offer frames and the helper's
reader. `PumpPeek`, `PumpWrite` (or `PumpWriteLost`, `PumpRefused`) and `PumpAdvance`
are the pieces of `channel_pump_out` between which the lock is free. The reader works on
reports with the start flag and the padding rule of `dh_frame_reader_report`; `broken`
is a ghost of whether its buffer still equals the frame it is taken for. One channel is
modelled; the striped channels are copies of it with no shared state but the session.

**`Relay`** is one direction between the boards, over the same `DhOutq`. `PumpBegin`,
`PumpPacket`, `PumpEnd` are `pump_relay`; input reports compete for the UART queue;
`Transmit` delivers the head packet to `dh_relay_rx_push` and `TransmitLost` drops it
(its checksum fails). `dh_relay_rx_reset` is two stores, and packets may arrive between
them. Bytes from the middle of a frame read as a header may decode or not, so both are
allowed.

**`InQ`** is the lock-free ring at its real widths (byte counters, four slots), each
core's code cut at every point where the other can observe it. **`Handoff`** is what it
promises: a bounded FIFO of frames each put once, whose consumer may drop the oldest
ones. `InQ!ImplementsHandoff` is the refinement: the parked frames are read out of the
slots between `head` and `tail`, and the frames put are counted by the publishes.

**`Pairing`** has `dh_pair`, the session's owner, and three copies of the configuration:
running config, page buffer, flash. A configuration is three flash pages, one with the
settings, one with the registration, one with the checksum; a checksum stands for the
content it was computed from, an erased page is `Blank` and one programmed over another
is `Junk`. Either core may change the settings, save or wipe, and no lock keeps them
apart: core 1 for a chord or a packet of the peer board, core 0 for a packet of the
config page between two passes (`usb_control.c`) and for a fresh registration at the end
of one. So `save_config` is cut wherever the other core can see or change what it works
on: the checksum is computed (`config_seal`), stored (`SealStamp`), the config copied to
the page buffer page by page (`SaveCopy`), the sector erased (`SaveErase`), each page
programmed (`write_flash_page`); and a wipe likewise (`wipe_config`, `LoadCopy`,
`load_config`, `channel_config_wiped`). One erase and one program are each one step;
what the flash chip makes of two cores driving it in the same instant is left out. Core
0's pass is also cut in the middle of answering a hello; `channel_init` is a reboot from
any state, and loads the defaults when `config_is_valid` fails. `alone`, `contended` and
`overlap` are history: a save that has had config, buffer and sector to itself, a last
save that had not, and a wipe that ran into a save or a registration.

**`Session`** is `dh_session` with the counter window, one board's side. A pass reads
the clock once (`dh_session_stage_nonce`), handles any frames, and ends with
`channel_lifecycle_update_config` and `dh_session_tick`; time may move within a pass. A
frame is its counter and whether its tag verifies, a key is the pair of nonces it was
derived from, and an old hello may be delivered again. Each frame the session produces
is taken or refused by the queue. A flag and its stamp (`window_started`,
`drops_ever_sent`) are one field with an `Unset` value.

**`Xfer`** is a clipboard transfer from end to end, one direction: the copy side's half
of `dh_xfer`, the paste side's, the seal an offer needs, and the two clipboard services
that drive them and own the clocks. A handler and the pump after it are one action, as
the service runs them in one call. Control frames stay in order, chunks are striped and
may overtake everything. A key is a number drawn once; a frame opens when seal id and key
agree. Small payloads are taken at once (`eager`), others wait for a paste (`lazy`) or are
refused (`big`). Timers run when the path is quiet; a timer that fires while an answer is
still on its way is a fault, as are lost, damaged and overtaken frames, cancels, expiries,
ended sessions and restarts, `MaxFaults` of them together.

**`Crossing`** is the transaction of `mouse_logic.c` on the board with the mouse, which
is the helper's own board or the other one (`remote`), and the channel of the board with
the helper: what core 1 owes (`channel_lifecycle_owe_place`, `channel_query_cursor`,
`channel_lifecycle_arrive`) and what core 0 pumps. Each pump is cut at its unlocks
(`PlaceLooks`/`PlaceActs`, `QueryLooks`/`QueryActs`, `OwedLooks`/`OwedActs`/`OwedClears`).
Coordinates are abstracted to what is decided from them, a placement to its number; the
computer at output O runs no helper. The retry's unlock gap in `mouse_crossing_task` is
not split, because a query that was not sent has no answer to race with.

**`Firmware`** is the board that receives an image. Core 1 pulls it word by word from the
peer board (`PullLooks`/`PullActs`, `ResponseLooks`/`ResponseActs`, so that core 0 may
step in between), core 0 takes UF2 blocks from the host and saves configurations through
the same page buffer. A word is the image it belongs to, the checksum is the sequence of
words fed to it, and the last page stands for the last sector, which the checksum leaves
out. A model page stands for a sector, erased when it is written. Rebooting and the ROM
are final.

The modules meet at their interfaces: what `HelperSeam` and `Relay` admit or refuse is
the `queued` choice in `Session`; frames `Relay` hands on enter `InQ`; `Session`'s
registered helper is `Pairing`'s; the session that ends in `Session` is `SessionEnds` in
`Crossing` and `CopySideSessionEnded` or `PasteSideSessionEnded` in `Xfer`; `Xfer`'s path
is what is left of two seams and a relay, a frame lost or late; the page buffer of
`Firmware` is `Pairing`'s.

## Runs

| Run | Checks | Shows |
|---|---|---|
| `seam_safety` | `TypeOK`, `IntactUnlessStartLost`, `ExactlyOnce`, `PriorityOvertakes`, `PairAdjacent`, `Drains` | the seam under resets, losses and offers in the pump's gap; what was admitted leaves |
| `relay` | `TypeOK`, `ArrivesIntact`, `NoHoles`, `RelayDrains` | frames between boards |
| `inq` | `TypeOK`, `HeldStable`, `ImplementsHandoff` | the ring, past the wrap of its counters |
| `pairing` | `TypeOK`, `StoredMatchesLive`, `NoOrphanSession`, `WindowSingleShot` | registration in RAM, config and flash, with both cores saving and wiping |
| `pairing_wipe` (violated) | `WipeUnpairs` | a wipe overtaken by a save |
| `session` | `TypeOK`, `WindowExact`, `NoTagReuse`, `EvictsOnTime`, `BeatFillsSilence`, `ToldCurrent`, `AlertSurvives` | counters of both directions over several keys, time-outs, beats and what is owed |
| `session_drops` (violated) | `DropReportIsNotABeat` | drop reports displace beats |
| `xfer` | `TypeOK`, `DeliveredWhole`, `ReceiptTrue`, `NoIdentityConflict`, `BurstFits`, `Delivers` | a transfer through any two faults |
| `xfer_reseal` (violated) | `OfferKeepsRetrying` | a lost seal offer ends the retries |
| `crossing` | `TypeOK`, `PlacedLast`, `ReadsItsOwn`, `ArrivalTold`, `LetsGo` | a crossing with the two cores, the link and the session against it |
| `firmware` | `TypeOK`, `WholeImage`, `LossNeverBricks`, `Propagates`, `TransferEnds` | a pull with losses, a drop, a save and a dying peer board |
| `firmware_stranded` (violated) | `HalfWrittenIsLoud` | a half-written image nobody looks at |

### Findings

1. *A wipe may not unpair* (`pairing_wipe`). `channel_lifecycle_step` saves a fresh
   registration without looking at `config_wiped`; a wipe on core 1 in that interval is
   written over, the next pass clears RAM only, and a reboot restores the registration.
   `StoredMatchesLive` carries `~ overlap` for that reason.
2. *A drop report is a beat* (`session_drops`). `dh_session_tick` leaves the idle timer
   alone for `DEVICE_DROPS`, and `channel_lifecycle_queue` charges it one call later. Since
   the totals include frames received, they move with each beat of the helper, and a
   report each interval takes the place of every beat. With that charge removed the same
   instance satisfies the property. Untagged refusals charge the timer too, though a
   helper takes no liveness from them; `BeatFillsSilence` excludes them for that reason.
3. *An offer stops retrying* (`xfer_reseal`). When the far helper has lost its seal, the
   copy side drops its own, notes that the offer is to be made again and sends one
   `SEAL_OFFER`. If that or its answer is lost, nothing repeats it: the offer's retry needs
   a live seal, and the seal's retry looks only for a parked copy. `Delivers` excludes that
   state (`reoffer`) and holds otherwise.
4. *A half-written image stays* (`firmware_stranded`). Whether giving up is loud is asked
   when a transfer is given up. One given up while the peer board still counts as present
   leaves the image dirty; if the peer board goes afterwards, nothing asks again.

Smaller observations, built into the properties as their exceptions. Two cores that save
at once may leave a sector no boot accepts: a checksum computed before the other core's
change, a page buffer copied half before and half after it, or a page programmed twice.
Until the next save that runs alone a reboot loads the defaults, and with them loses the
registration. No document claims otherwise; `StoredMatchesLive` says what is left, that
the running config is right all the same and that the next lone save repairs the sector
(`contended`). A lost start report lets the reader deliver a splice of two frames,
against `docs/protocol.md:266`, and the tag refuses it one layer up
(`IntactUnlessStartLost` is what holds, and it is proved). An arrival noted between the
`ARRIVAL` queued for the one before and the clearing of their common flag is not told
(`raced` in `ArrivalTold`; `docs/protocol.md:624` has one per switch). A drop that
begins between core 1's look and its act, and a peer board rewritten while it is pulled,
can be booted as a mixture that passes its check; a configuration saved in mid-pull goes
into the page buffer and sends the board to ROM, or spoils the last sector unseen
(`blame` in `WholeImage` and `LossNeverBricks`). In `handle_heartbeat_msg` and
`heartbeat_output_task` core 1's look (`handlers.c:626`, `tasks.c:233`) and its stores
(`handlers.c:637-642`, `utils.c:115-117`) are one action of the model; a drop that
begins between those two is the same exception and is not explored.

### Bounds

- `seam_safety`: four frames of five kinds (both bands, one to three reports, one that
  fits a staged slot and one that does not, one unparsable), rings of one slot, two lost
  reports. A splice needs two frames and two losses; overtaking needs a frame in flight,
  one staged and one of the other band. `MaxFrames` and `MaxLost` bound behaviours,
  `UINT32_MAX` is out of reach.
- `relay`: three frames of one and two packets, a UART queue of two that holds one input
  report, a burst of two, two losses, one reset of either board. A burst smaller than a
  frame with its START makes the cap bite; a queue smaller than a frame makes refusals
  happen in mid-frame.
- `inq`: the code's own depth and width; 264 frames take both counters past their wrap
  with the ring in every fill level.
- `pairing`: two helpers, interchangeable (`HelperSymmetry`), a window of one tick on a
  clock that wraps at two, so that a window left open would be open again, and four chords
  or packets (`MaxRequests`): a window, a change of the settings and a save on each core,
  or a save that mixes with another and one that repairs it. A pass completes between two
  ticks: the watchdog reboots a core 0 that takes longer than half a second, and a tick
  stands for a window. `pairing_wipe`: one helper, a window of two ticks.
- `session`: a window of two and counters to two, so that a jump keeps, drops and
  forgets bits and the oldest counter falls out; one hello, delivered again, under two
  nonces; beat after one tick, absence after two, on a clock of five, which leaves the
  signed difference as little room as the code's does at its limit; two policies,
  interchangeable (`PolicySymmetry`), one drop, one refused frame, and four tagged frames
  a session: the ack, the policy, the first drop report, and then a beat, an alert or a
  second report. Other clients are refused only until a session has tagged three frames
  (`MaxStrange`): a refusal after that puts off the beat, which the property excepts.
  `session_drops`: a beat every two ticks, so
  that reports and beats can take turns, and no refusals.
  A pass begins at least once between two ticks, as `channel_task` runs each millisecond
  against intervals of a second.
- `xfer`: payloads of three chunks over a window of two, two copies of any kind, ids that
  start at either end of a range of eight, so that they wrap, and any two faults. Two
  chunks in flight are what it takes to overtake, a window smaller than the payload what
  it takes to need a grant, and a copy interrupted, sealed anew and interrupted again has
  used its two faults. `xfer_reseal` needs one copy.
- `crossing`: three moves, so that a placement, a query and an arrival each meet one of
  their own kind; a lane of three frames, which a placement's pair nearly fills; two faults
  (losses, refusals, a placement gone stale, sessions ended). Ids start just before they
  come round. They do not come round twice: 255 queries of 30 ms outlast any answer.
- `firmware`: three pages of two words, the last unsummed, so that a page is written, one
  is being collected and one is left out of the sum; two faults (three pass as well, in
  four minutes). A repeat, a stall or a restart while words are in flight is a fault: the
  code's 100 ms and 30 s are far over a round trip. The host writes its blocks in order,
  and starts over if it paused; the peer board's own reboot outlasts what is in flight.

`CHECK_DEADLOCK FALSE` is set where the bounds on frames, tags or nonces, or a drained
system with no more frames to come, stop everything; in `Pairing` the clock and the passes
go on when the requests are used up, and `Crossing` and `Firmware` say where they may rest;
those are checked for deadlock.

### Fairness

`HelperSeam`: weak fairness of the pump's peek and advance, as `channel_task` runs each
pass of core 0; strong fairness of the write, as the host polls the endpoint again and
again and TinyUSB does not refuse for ever. `Relay`: weak fairness of the pump's steps,
strong fairness of a transmission and of a packet getting into the UART queue: both tasks
alternate on core 0, the link outruns input, and input that fills the queue just before
every pump, for ever, is excluded. Losses and resets are not fair and are bounded.
`Xfer`: frames on their way arrive or are lost (weak fairness of the head of each path),
the services' ticks come round (strong fairness, as a tick waits for a quiet path).
`Crossing`: weak fairness of the crossing task and of what core 0 has begun; strong
fairness of `pump_query`'s look, since every pass of core 0 tries every pump; a helper
that is there reads its frames. `Firmware`: weak fairness of core 1's tasks and of the
peer board's beats and answers, strong fairness of the stall check.

## Proofs

The theorems of `HelperSeamProofs`, `RelayProofs`, `InQProofs`, `PairingProofs`,
`SessionProofs`, `CrossingProofs`, `FirmwareProofs` and `XferProofs` hold for every value of the
constants. The assumptions are `OutqAssumption`, `SeamAssumption`, `RelayAssumption`
(positive sizes and depths, frame kinds of the right shape), `InqAssumption`,
`PairingAssumption` (a window shorter than the clock's round), `SessionAssumption`
(positive intervals, window and clock), `ClockAssumption` (the deadline under half the
clock's round and a beat under all of it, as 3 s and 1 s are of 2^32 ms),
`CrossingAssumption`, `FirmwareAssumption` and `XferAssumption` (sizes and shapes). Six
theorems carry a hypothesis of their own, given below. Every inductive invariant was checked by TLC on
small instances before its proof.

**The seam.** `SeamInvariant` proves the inductive invariant `SeamInv`: the types; the
queue well formed (a band with nothing in flight has nothing staged and nothing sent, a
frame in flight has units left); at most one band in mid-frame; `ViewFresh`, that the
view the pump holds over the unlock still describes its band, which needs that offers
never touch a frame in flight; and `ReaderTracks`, that while every start report arrived
the reader's frame is the one being written, and that it has fewer reports than were
written once one went missing. The last part is what `IntactUnlessStartLost` lacks to be
inductive: a broken frame can never be completed by its own reports, only by those of a
later frame whose start was lost. `SeamTypeOK`, `SeamIntact`, `SeamOneInFlight` and
`SeamEmptyBand` follow.

The three properties about the history rest on invariants over `SeamInv`. `OrderInv`: a
band holds its own frames in ascending order and no frame is in both; the frame being
assembled was started once; what was handed on precedes what its band holds, except that
the frame whose last report is written and not yet credited is in both. `CountInv`: with
nothing lost the reader is where the writer is, and every frame is accounted for.
Together they give `SeamExactlyOnce`. `OvertakeInv`, that a bulk frame was started ahead
of a waiting priority frame only if the pump's view of it is past its start now, gives
`SeamPriorityOvertakes`: the next start must look at the queue again. `PairInv`, that the
second frame of a pair is directly behind its first in the staging ring, or is the next to
start after it, gives the action property `SeamPairAdjacent`.

**The relay.** `QueueOK` and `PacketsOK` type the UART queue and what its packets name.
`IntactInv` is `ArrivesIntact` made inductive: between two STARTs the queue carries the
packets of one frame in order, and the receiver, in mid-frame, is never further than the
packet due, and behind it if it was spliced; so only a lost START lets a frame be
completed with another's bytes. `OrderInv` has the ids ascend from what was handed on,
over the receiver and the queue, to the sender's bands. `LossInv` adds, for `NoHoles`,
that with nothing lost or reset the places from sender to receiver form an unbroken chain.
`RelayTypeOK`, `RelayArrivesIntact` and `RelayNoHoles` follow. The half-done reset of the
receiver is a state of its own in all three.

**The ring.** `RingInvariant` proves `RingInv`: types, never more parked than slots,
what each core has in hand (`WriterOK`, `ReaderOK`), the parked frames whole and in
order, and the slot the reader holds untouched. Its arithmetic (`PendingMoves`,
`SlotsApart`, `ResetMoves`) is about differences modulo 256 and remainders modulo 4.
`RingHeldStable`, `RingTypeOK` and `RingImplementsHandoff` follow; the last one maps every
step to a put, a take, a drop or a stutter.

**Pairing.** `PairInvariant` proves `PairInv`: the types; `WindowOK`, that the age of an
open window on the wrapping clock is its real age, and that a window which has run out
is closed before the clock moves again (`ElapsedCases` and `ElapsedTick` are the modular
arithmetic); `OwnerOK`, that a hello is only being answered for a registered helper;
`PlacesOK`, where the two cores may be together, and that a save is alone only while the
other core has no job; and, as long as no wipe ran into a save, `CopiesOK`. That one is
what `StoredMatchesLive` lacks, which speaks of quiet states only: `RunningOK`, that the
running config holds the registration in every state, however the saves mix, except where
a wipe or a grant is half done; `WipeOK`, that a wipe has the sector erased and nobody
saving; `FlashOK`, that the sector names the same helper when nobody has a job; and
`SaveOK`, for a lone save only, what it has computed, copied and programmed so far.
`PairTypeOK`, `PairSingleShot`, `PairNoOrphan` and `PairStored` follow.

**The session.** `SessionInvariant` proves `SessionInv`: the types; `Records`, that the
window is the record of every counter accepted under the key (the newest one, and one bit
for each of the `AUTH_WINDOW` last); `TagsFresh`, that every counter tagged under the live
key is below the next one and that a staged nonce is in no key so far; and `ToldCurrent`,
inductive as it stands. `Records` is what `WindowExact` lacks, which says what the window
answers and not what it holds: `WindowAdds` shows that a shift by any distance keeps the
record, `WindowTells` that the record gives the answers. `TagsFresh` is what `NoTagReuse`
lacks, a history flag that says nothing of the next tag. `SessionTypeOK`,
`SessionWindowExact`, `SessionNoTagReuse` and `SessionToldCurrent` follow, and
`SessionAlertSurvives`, an action property, by one case per action. The bounds on tags and
counters are any numbers.

`TimeInv` is about the clock: it is ahead of the pass's one reading by the ticks since,
at most one; the age of the last frame heard, as the pass reads it, is at most the
deadline, and less between passes, and the real silence is that age up to the lag; the
same for the age of the last frame sent and the beat. `SessionEvictsOnTime` and
`SessionBeatFillsSilence` follow. `Tick` is bounded one past what `EvictsOnTime` allows,
so the bound does not give the property. `ClockAssumption` enters where a signed
difference is read back as an age.

**The crossing.** `IInv` has, over the types: `PlaceFirst`, that a `PLACE` is the first
frame of the lane or not there, so that the cursor's resting place can be read off the
lane; `LandOK`, that it is the placement owed last once that one is marked sent;
`LookedOK`, that what core 0 read before its unlock is the placement still owed unless a
newer number superseded it; and `ArrivalOK`, for the flag of an arrival and the gap before
it is cleared. `CrossingTypeOK`, `CrossingPlacedLast` and `CrossingArrivalTold` follow.
`CrossingReadsItsOwn` adds `CountOK`, that the ids not drawn yet occur nowhere, and
`AimOK`, that an id in flight with a placement is recorded for that placement and no
other. It has the hypothesis `moves < ID_MOD`, until the ids come round, which is the
code's limit too: 255 queries within the life of an answer.

**The firmware upgrade.** `WholeInv` over the types: `WordsOK`, that answers in flight are
of the image the peer board has, and `OneSource`, that a pull or a drop has only words of
its own source in the checksum. `VerdictSound` then gives `FirmwareWholeImage`: an image
that passes is the one that was summed; the exceptions are those `blame` names.
`LossInv` over that: `PullOK`, that no word on the link can be taken for a later word of
the pull (`Harmless`) and that what was summed is in the flash or still in the page
buffer; and `DropOK`. `FirmwareLossNeverBricks` has the hypothesis `[]AtMostAPageLeft`: in
no state between two transfers does the link hold more words than a page has, 64 on the
board. It bounds no number of losses, repeats or restarts, of which there may be any. A
pull that starts over with more left over can take a stale word for the first of its
second page before the first page is in the flash; TLC finds that with one word a page,
two words left over. The code sets no such bound, but a word is asked for again only every
tenth of a second, so that 64 of them mean a link that held packets back for seconds.

**The transfer.** `XferInv` is `TypeInv` and `NameInv`. `TypeInv` has the shape of the two
machines and of every frame on the paths, and that ids, seals and keys named there have
been drawn; `XferTypeOK` follows. `NameInv` is about identities: the frames under seal
carry names, a triple of seal, id and copy. Under one seal an id names one copy
(`OneName`), which the offers on record at both ends agree with (`RxNamed`, `TxNamed`).
For that to last, `next_id` must be unused under the live seal (`Unused`): ids ascend to
it by one per copy or less (`Ascending`), and a restart, which counts from one again,
also loses the seal. Seal offers arrive in the order they were drawn (`InOrder`), so the
paste side has no other seal than the one it answered for (`Agreed`). Receipts are not
sealed. `ReceiptsFirst` says that those of earlier offers are ahead of the answer that
makes the next seal live, so none is left when its first id is used. `WholeSoFar` has each
chunk received be of the copy on record. `XferNoIdentityConflict`, `XferDeliveredWhole`
and `XferReceiptTrue` follow, under `copies < ID_MOD - 1`: fewer copies than ids, of which
the code has 2^32 - 1. Without it they are false: with three copies and two ids TLC
violates all three. Actions are first brought to a few forms by what they do to names
(`CopySideForms`, `PasteSideForms`), and the invariant is shown kept by each form.

`XferBurstFits` has its own invariant over that one, `BurstInv`. `Paced` says of a transfer
of which no chunk was asked again: the chunks emitted have arrived at the paste side, were
lost, or are on their way once each (`InFlight`); and what the sender has spent and holds,
with the grants on their way, is at most a window more than what arrived and is paid for
(`Balanced`). The grants would have to be added up along the return path, and what a
recursive sum computes cannot be proved here. `Room` says instead that there is a number
for each place of the path, rising by every grant it passes, from what the sender reached
to what the receiver counted. Frames sent extend it, and frames that arrive or are lost
only cut it off (`RoomAppend`, `RoomTail`). The whole window that opens a transfer is
left out of it: `Opened` says that it counts once, although every repeated offer or
request repeats it. A new offer starts `Paced` because nothing on the paths speaks of its
id: no chunk of the same copy (`OfferedSince`, `ParkedUnused`) and no grant or
retransmission (`ClaimsBehind`, the argument of `ReceiptsFirst` for those two). The
hypothesis is `copies < ID_MOD - 1 /\ seals < ID_MOD - 1`: a copy is offered again, under
the next id, for each seal it outlives. With a single id and one copy TLC violates
`BurstFits` at the second seal, when chunks of the first offer are counted for the second.

Only model-checked: liveness (`Drains`, `RelayDrains`, `Delivers`, `LetsGo`, `Propagates`,
`TransferEnds`), which is out of the prover's reach. Every invariant the runs check is also
a theorem.

## Not modelled

Cryptography (a tag verifies or not, a key is what it was derived from, a seal opens or
not); the development build, which skips authentication; byte layouts; the UART's
byte-level receiver; TinyUSB. Of the configuration, all but one setting and the
registration. Of the transfer, the switches `may_send` and `may_receive`, the payload of
no bytes, which is complete at `DONE` (`dh_xfer.c:712-717`), the offer of a file set
already read, which is made again without its metadata (`clip_service.cpp:1183`) and
refused by the paste side (`clip_service.cpp:911-917`), the truncation at `acts_cap`, a
build without AEAD, and two transfers in opposite directions at once, which meet only
where `CANCEL` names an id and no direction. Of the crossing, coordinates, screen
chains, the seam map and the walk of a cursor, which are sequential arithmetic;
placements the operating system refuses or puts off (`cursor_placement.cpp`); the notice
of the peer board's helper (`pump_peer_board_session`), one flag told again when it
changes. Of the firmware, the config-mode exit after a drop and blocks written out of
order.

Sequential parts (HID parsing, hotkeys, config text, file lists, descriptors, LEDs) have
no interleaving to explore. The vendored `pico-sdk` and the other libraries are most of
the repository's lines and no part of it.

## Plan

1. `Helper`: the helper's side of hello, pairing and liveness, composed with `Session`.
2. `SleepSync`: the press, the kept wake and the heartbeat bit between two boards.
