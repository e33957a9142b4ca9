# HornetHunter verification

TLA+ models of HornetHunter, their TLC configurations, and theorems about them
checked with TLAPS. HornetHunter is a fleet of direction-finding *stations* (a
KrakenSDR with a Raspberry Pi, `src/kraken_pi`) and one *management* Pi, the
master (`src/management_pi`), that talk over a half-duplex LoRa modem, the DTU,
with the protocol of `src/shared` (HH-Link). The functional specification is
`src/docs/hornethunter-fsd.md` ("FSD" below).

Contents: 1 the system, 2 modules and their correspondence to the code, 3 runs,
4 fairness, 5 theorems, 6 known disagreements, 7 what is not modelled, 8 what is left.

## 1. The system

Short paths: `shared/` is `src/shared/src/hornethunter_shared`, `management/` is
`src/management_pi/src/hornethunter_management`, `kraken/` is
`src/kraken_pi/src/hornethunter_kraken`.

| component | state | operations | what makes it correct |
|---|---|---|---|
| stop-and-wait ARQ, `shared/arq.py` | per peer: sequence number, pending frame, attempts; the receiver's last accepted number | `start`, `on_ack`, `on_timeout`; `accept` | no delta applied twice or out of order; an ACK comes of the transaction it ends; a transaction ends |
| distributor and mirror, `management/param_dist.py`, `mirror.py` | per station: state shown, pending push, `resynced`, `latched`; persisted settings, version, previous snapshot | `prepare_delta`, `prepare_full_push`, `on_ack`, `observe_bearing`, `on_full_report`; `seed`, `accept`, `revert` | the mirror holds only what a station proved, and so does its file, whichever threads save; one automatic push per divergence; a latch is the operator's to clear |
| master loop, `management/master.py` | per station: sender, outbox, push in flight, queued edit | `step` = `_receive`, `_service_arq`, `_maybe_beacon`; the operator's `queue_delta`, `request_full_read`, `push_full`, `revert` | what the operator asks for leaves the master; an ACK is attributed to the push that caused it |
| agent, `kraken/agent.py` | duplicate filter, TDMA state | `step` = pump the source, drain the carrier, transmit by schedule | only its own slots; one answer per frame |
| settings client, `kraken/settings_client.py` | write route, cached CRC | `_probe`, `read`, `apply_delta` | the CRC reported is that of what the KrakenSDR holds |
| schedule, `shared/schedule.py` with master and agent | last heard per station, beacon number; at a station: timing-zero, slots, slots used, JOIN sent | `saw`, `live`, `beacon`; `_on_beacon`, `_tdma_tick`, `_maybe_join` | no collision in the data slots; fair shares; every station joins and rejoins |
| frame reader, `shared/frame.py` | the bytes not yet understood, three counters | `FrameReader.feed`, `decode` | no valid frame is lost after noise; the way a stream is cut into reads makes no difference |
| fragmentation, `shared/protocol.py` | reassembly buffers | `fragment`, `Reassembler.add` | never mixes two reports |
| link health, `management/health.py` | arrival times of a station's bearings, judged at the time of the master's last round | `record_bearing`, `snapshot` | a station that is gone turns RED, one that is there does not stay RED |
| transport selection, `management/transport.py` | probe counters, active carrier, pin | `on_probe`, `set_pin` | no flapping; the pin wins |
| supervisor, `kraken/supervisor.py` | last sign of life, last attempt, attempts, exhausted | `note_alive`, `tick` | recoveries are few and keep their distance; the feed comes back or the fault is indicated |
| DTU provisioning, `shared/dtu.py` | the DTU's own: AT mode or transparent, its settings; the result of the run | `provision` (`_enter_at`, `_verify`, `_exit_at`), `maybe_provision_dtu` | the DTU is transparent when it is used; what is reported is true; only what differs is written; the program comes up |
| bearing pipeline, `kraken/pipeline.py`, `doa_source.py` | source back-off, last line seen, latest measurement, last position sent | `pump`, `update`, `build`, `reset_counts` | nothing stale is sent as fresh |
| user interface, `management/ui.py` | none of its own | HTTP handlers on their own threads, acting on the master | what is asked for is sent; the handlers leave mirror, file and queues whole |

How they interact. The master's loop (one daemon thread, `management/cli.py`)
and the HTTP handlers (other threads) share the master's per-station records
without a lock. The master's frames are broadcast: every station hears them; a
station is heard by the master. A delta is answered with an ACK carrying the
station's cached CRC, a read with a report, and nothing else is answered.
Bearings carry the same cached CRC; the distributor compares it with the
mirror's. All of this, and the beacons and JOINs, share one lossy channel, and
nothing but the mirror file survives a restart.

The hard behaviours are therefore: lost and late frames and answers crossing
retransmissions; giving up and starting the next transaction; restarts of either
side with sequence numbers and flags back at their start; ACKs judged against
whatever is pending by then; broadcasts reaching the wrong station; partial
failures between writing to the KrakenSDR and reading it back; stations timing
their slots by beacons they may have missed; a byte stream that may be cut and
damaged anywhere; threads that interleave between any two accesses to the mirror,
its file and the queues; a modem that may miss a command or answer it too late,
and that keeps its mode when the program is killed; and a feed whose source, supervisor and KrakenSDR wait for one
another while the loop itself is held up. `PROJECT.json` lists these
hazards one by one, with the line where each bites and the properties aimed at
it.

## 2. Modules

| module | models | abstraction of |
|---|---|---|
| `ReliableLink` | abstract: transactions started, applied or refused in order at most once, with an outcome | - |
| `ArqOps` | `StopAndWaitSender` and `DedupReceiver` as operators on records | frames are opaque |
| `Arq` | one exchange over the medium; refines `ReliableLink` | a payload is the number of its transaction |
| `ArqProofs` | theorems about `Arq` | |
| `ParamOps` | the distributor's and the mirror's operations as operators | a CRC is the covered part of the settings |
| `Distributor` | the two together for one station: its record, its mirror entry, the operations on them; `ConfigPath` implements it | what makes an operation happen |
| `ParamDist` | `Distributor` against any environment, with history | |
| `ParamDistProofs` | theorems about `Distributor` and `ParamDist` | |
| `MasterThreads` | the master's loop and the threads of the page, access by access, with the saves of the mirror | settings are one field; any mismatch may have any consequence |
| `MCMasterThreads` | values of `MasterThreads`' constants | |
| `ThreadsProofs` | theorems about `MasterThreads` | |
| `ConfigPath` | master loop, operator, medium, agents, settings clients, over `ArqOps` and `ParamOps` | a report is one packet |
| `MCConfigPath` | values of `ConfigPath`'s constants for TLC | |
| `ConfigProofs` | theorems about `ConfigPath` | |
| `Tdma` | the schedule at both ends | time in whole frame slots |
| `TdmaProofs` | theorems about `Tdma` | |
| `Feed` | the KrakenSDR's feed: `KrakenSource` with its back-off and the `Supervisor` | time in ticks; a line is not parsed |
| `Indication` | extends `Feed` by the measurement and its age, the free-running stream, the master's loop, and staleness at its time | a report is `data` or `no_data` |
| `FeedProofs` | theorems about `Feed` and `Indication` | |
| `FrameReader` | `FrameReader` and `decode` over a line of bytes | the CRC is a parameter |
| `MCFrameReader` | a small alphabet and the lines | |
| `FrameReaderProofs` | theorems about `FrameReader` | |
| `DtuProvision` | `provision()` over the AT commands, its failures and its restart | a reply is a value, text without one, or none |
| `MCDtuProvision` | the parameters of a small `[dtu]` table, by `params_from_config` | |
| `DtuProofs` | theorems about `DtuProvision` | |

**Arq.** `sender` is the `StopAndWaitSender`, `lastSeq` the `DedupReceiver`,
`down` and `up` the two directions of the medium, which keeps the order of one
transmitter and loses whole packets. `Start`, `Retransmit` and `Exhaust` are the
three ways through `Master._service_arq`; `OnAck` is `Master._on_ack`; `Receive`
is `_on_param_delta` including the early duplicate path, which acknowledges
without applying. `ApplyDelta` may refuse a delta at any time (read-only, or an
`OSError`): the agent takes no notice and acknowledges it like one that was applied.
What is applied and when it fails is detailed in `ConfigPath`. A timeout is not tied to a clock: it may be observed whenever
the sender is busy (`Timely = FALSE`), that is, also while the answer is on its
way; with `Timely = TRUE` it is seen only when nothing is under way, as with a
round trip below `ack_timeout_ms`. The ghosts `applied`, `refused`, `acked` and
`failed` record what happened to each transaction.

**Distributor, ParamDist.** `st` is `_Station`, `mirror` the `StationMirror` of the
file. The environment may acknowledge or report any CRC at any time, so every
property holds for every station and medium. `ParamDist` adds two ghosts to the
operations: `proven`, the CRCs the station has reported, and `autos`, which counts the
automatic pushes of one divergence. `Restart`
keeps the file and rebuilds `_Station`. `BearingRaises` is the `KeyError` of
`canonical_crc` on a mirror that came from an empty report: the guard of
`ObserveBearing` here, the end of the master's thread in `ConfigPath`.

**ConfigPath.** One action per handler, in the order of the code: `Service` is the
whole of `_service_arq` for one idle or exhausted sender, authoring of the queued
edit included; `OnAck` completes the sender, clears `inflight`, lets the
distributor judge the CRC and queues the automatic push that follows. The
automatic push that `observe_bearing` returns in `_on_bearing` is dropped, as in
the code. `OnParamDelta` records the sequence number before anything can fail and
answers with the cached CRC whatever became of the delta. `Dist(a)` is `Distributor`
for station `a`: its record is `st[a]` and its entry `mirror[a]`. Under this mapping
an operator's request, an authored edit, an ACK judged against the push pending by
then, a bearing, a report and a restart are steps of `Distributor`, everything else is
a stutter; an ACK with nothing pending is an `ObserveBearing`. `ApplyDelta` fails
before the write, fails after it (the KrakenSDR is changed, the cached CRC is
not), is rejected without a write route, or succeeds. `StationRestart` may find
the KrakenSDR unreachable: the settings client then has no write route and the
initial CRC until its next start. `kset` is the KrakenSDR, external; `held` is a
ghost: the CRCs it has held. `Factory` are the settings it starts with.

**MasterThreads.** The same handlers as in `ConfigPath`, on two threads and cut
where shared state is accessed: a step is what one thread does from one access to
the next. `pc` names a thread's next access and `local` holds its local variables:
the station (`at`), the CRC heard (`seen`), settings it has read or will write
(`mine`, `record`), the payload of its save, and where it goes then (`next`).
`_save` reads one record at a time (`Collect`) and puts the file in place at once
(`Replace`), or raises and leaves the old one (`SaveFails`), which ends the request
or the loop's thread (`running`). `Author` sets the pending push and `Enqueue` queues
it, so another thread may come between, and may replace the pending push between
the loop's look at it (`Judge`) and its end (`Settle`). `Clear` empties the slot of
the queued edit after `Consider` has read it. What becomes of a mismatch depends on
flags that `ParamDist` has; here it may latch, push or do nothing. The ghosts are
`proven` (settings reported), `held` (records that were in memory) and `behind` (a
save has failed or overlapped since the last that did not).

**Tdma.** A step of time is one frame slot (`EndSlot`). Slot 0 carries the beacon,
slot 1 is the contention window, the data slots follow. In each slot every
station runs one round of its loop (`Step`: `_drain_incoming`, then
`_tdma_tick`) unless it is held up: the settings client's HTTP and file accesses
block the same thread. Stations time their slots by `elapsed`, the slots since
they *processed* a beacon. Frames in one slot destroy each other or one survives
(`Heard`).

**Feed.** One `Round` is `_pump_source`, `note_alive` if the source is available,
`tick`; between two rounds any time may pass and in one tick any number of rounds
run. Times are kept as the ticks since an event, up to the limit that the code
compares with. The external KrakenSDR may stop, or wedge: it then serves its old
file. A restart boots it, or raises and changes nothing. The ghost `fired` counts
the restarts of one outage, `lives` the lives of the agent in it, and `last` is the
time since the last restart in *any* outage. The supervisor forgets its own records
when the feed is back, and with every restart of the agent (`AgentRestart`, in
`Indication`), which the ghosts outlast.

**Indication.** The round is split at the point where it may be held up: `Begin`
reads the feed and supervises it, `Send` is `_maybe_stream` and
`_transmit_bearing` with the time at which the round began (`behind` ticks ago).
`csv` is the KrakenSDR's file seen by `_ingest`: only a line whose timestamp
differs from the last is a measurement, and a restarted agent, which has forgotten
the last, takes an old line for one (`AgentRestart`). A bearing waits in `inbox`
until the master's next round: `MasterRound` is `step`, which sets `_now_s` and
dispatches what has come, the last bearing winning. `silent` is what `snapshot`
computes, the time of the last round less that of the last bearing; `lag` is how
long ago that round was. `MasterDies` ends the loop's thread, after which the page
goes on with the `silent` it had. The ghosts `waiting` and `seen` are the true ages
of the measurements on their way and on display.

**FrameReader.** The buffer is a window of a `line` of bytes that never changes:
`got` bytes were read, the first `pos` of them removed. Each branch of the loop in
`_next_frame` is an action, and `decode` is the classification `Defect`, in the
order of its checks. `Whole` is the reference to which `ChunkFree` compares: what the
same rules find in one pass over all that was read. An unknown type in a valid frame raises a plain `ValueError`,
which `except FrameError` lets through (`Raise`).

**DtuProvision.** One command of `_send` is a step: `reset_input_buffer`, the
write, and what is in the buffer when the settle time is over. `pc` is the phase of
`provision`. The DTU either obeys or ignores the command (`Obeys`, `Ignores`). One
it ignores, AT+EXIT and AT+REBOOT too, may have an echo or an ERROR for an answer all
the same, or none (`Replies`, `Neglect`); an exit that is answered and not heeded is a
fault of its own, `refused`. A
reply is prompt, lost, or late: then it is read with that of the next command,
or cleared before it. `Read` puts a late reply before the command's own, and
`Parsed` takes the first value in the two, as `_parse_value` takes that of the first
line that has one. Outside AT mode whatever the radio receives is read in place of
a reply. Writes are stored, and in effect from `AT+EXIT` on. `PortError` is an
`OSError` before or after the DTU got the command: while parameters are written it
runs through the `finally` clause (`failing`), at the escape or the first exits it
ends the program, and at the reboot it is suppressed. `Kill` ends the program at any
moment, and `Start` is systemd's restart: the DTU keeps its mode and its settings.

The identity of code and definition, line by line, is the `map` of
`PROJECT.json`. Definitions whose name ends in a variant of another's
(`AnyCrcConfirms`, `DivergedUnmarked`, `AnyDue`, ...) and whose comment says
*mutation* are plausible bugs in that other one; no specification uses them.
Each shows that a property can fail: with the definition replaced by its
mutation the run reports the property.

## 3. Runs

All pass within five minutes with two workers.

| run | what it asks | bounds, and why they are enough |
|---|---|---|
| `arq_faults` | `AtMostOnceInOrder`, `AckProvesHandling`, `RefinesLink`, `TransactionEnds` for one exchange with everything that can happen to it | 4 transactions over sequence numbers modulo 3, so that numbers wrap and a number comes round again; 2 attempts, so that both a retry and giving up happen; 2 losses, a restart of either side, an undecodable payload, and any delta may be refused; 3 packets per direction: a packet and its late copies |
| `paramdist_any` | `Coherent`, `MirrorWasProven`, `OneAutoPush`, `LatchNeedsOperator` | no bound on steps: the state space is finite; two fields of two values, one of them not covered by the CRC, so that settings with equal CRCs differ |
| `config_faults` | the end-to-end properties `MirrorWasHeld`, `InflightIsSent`, the refinement `RefinesDistributor`, and `WorkDrains`, with a station that need not answer | two operator requests of every kind in every order (an edit overtaking a push, a revert during a read), and one each of loss, local change, unreachable KrakenSDR, restart; sequence numbers modulo 2 |
| `config_pair` | `MirrorWasHeld` for two stations that hear and apply each other's deltas | two requests, one local change, three values, so that the value of one station is not that of the other |
| `config_calm` | `Converges`: edits and reads, fewer losses than attempts, timely answers: in the end master and station agree on what the KrakenSDR holds | four requests, two losses against three attempts |
| `tdma_pair` | `NoCollision`, `FairShares`, `AllStream` | two stations, one of them not configured at the master; five slots (three for data, so that shares are unequal), beacon numbers modulo 4; one each of a lost frame, a held-up loop, a restarted station and a restarted master |
| `indication_any` | `Bounded`, `Spaced`, `RecoveredOrIndicated` of the feed; `FreshWhenShown`, `DeadFeedShown`, `LiveIsPresent` of what is shown of it | two faults or failed restarts, in addition to a KrakenSDR that is stopped at first, against a budget of two restarts; the boot takes longer than the gap and the back-off cap, so that a booting KrakenSDR is restarted and polled in vain; the gap is longer than the stall threshold. One tick of hold-up per round of the agent and between two rounds of the master, one lost bearing, one restart of the agent or the master, the end of the master's loop at any time |
| `dtu_startup` | `PipeWhenRunning`, `AppliedOrReported`, `WritesOnlyWhatDiffers`, `ComesUp` | five parameters: the mode, the address, a channel that is two of them, the key that cannot be read back; a DTU that has the wanted values or others, and is in AT mode or not; per run of the program two lost replies, a late one, three ignored commands (every exit and the reboot), an exit that is answered and not heeded, and an error of the port, against three attempts to enter and two to leave; one run that ends early |
| `threads_shared` | `ProvenOnly`, `DiskWasMemory`, `WrittenThrough`, `Drains` | two stations, since a payload is only torn between records; the loop and one thread of the page; three requests or answers, so that two saves overlap and a third follows; two failed saves or restarts |
| `reader_any` | `NoneLost`, `Sound`, `BufferBounded`, `ChunkFree`, `Conserved` | lines of up to three pieces out of eleven: frames whose payload holds (part of) a sync word, damaged, foreign, untyped and oversized ones, false starts that swallow the frame behind, stray bytes; every cut into reads; with and without RSSI bytes |
| `arq_abandoned` | `NeverAssumedApplied` fails | two transactions and two losses are enough; see section 6 |
| `config_pending` | `PendingIsInFlight` fails | more losses than attempts |

Bounds are constants: `MaxTxn`, `MaxLoss`, `MaxLosses`, `MaxRestarts`,
`MaxStalls`, `MaxResets`, `MaxFaults`, `MaxFailures`, `MaxBlock`, `MaxHold`, `MaxPieces`, `ChanCap`, and `Budget`, a
function from the kind of event to how often it happens. `SeqMod` is 256 (ARQ) and 65536 (beacons) in the code,
`VersionMod` 256. Deadlock checking is off where the bounds let the system stop.

What the properties say:

* `AckProvesHandling` needs its condition: nothing abandoned, nobody
  restarted. `arq_abandoned` shows why. It says that an ACK comes of the transaction it
  completes, not that its delta was applied: the agent acknowledges one that was
  refused (section 6). What was applied is told by the CRC alone, which is what
  `MirrorWasHeld` is about.
* `MirrorWasHeld` is what the CRC in an ACK is for ("end-to-end content proof",
  `param_dist.py` `on_ack`): through every fault of the run, even a delta applied
  by the wrong station, the mirror and the snapshot never hold a configuration
  the KrakenSDR has not held. CRCs do not collide in the model.
* `RefinesDistributor` says that queues, retransmissions, crossing answers, other
  stations and restarts never make the record and the mirror entry of a station
  change apart from one another, or with the settings of another push: each change is
  one whole operation of the distributor.
* `FairShares`: nobody has more than the cap; whoever has a slot, or is live when the
  beacon is sent, has at most one less than anybody else; and while it has less than
  the cap no slot is idle.
* `NoCollision` holds although stations miss beacons: a station that missed one
  is silent in that superframe, since its slots are timed from the last one it
  heard and all lie before the next.
* `Bounded` is per life of the agent: a restarted one has its whole budget again, in
  the middle of an outage, so that one outage may see `max_attempts` restarts for each
  life of the agent in it.
* `Spaced` promises less than the policy's minimum gap: `note_alive` clears the
  record of the last attempt, so after the feed was back for a moment only the
  stall threshold keeps two restarts apart. It holds over restarts of the agent too,
  since a new supervisor waits for the stall threshold first.
* `RecoveredOrIndicated`: the source polls less and less often, the supervisor
  waits for it, and a restart sends a booting KrakenSDR back to its start. None
  of these keeps the feed of a KrakenSDR that had stopped away for ever, unless the
  budget is spent, and then the station ends up shown without data. It excepts a
  KrakenSDR that ends up wedged, which nothing recovers (section 6); that it is shown
  without data too is `DeadFeedShown`. Without data is not RED (section 6).
* `FreshWhenShown` names what the age of a shown bearing adds up to: the age is
  checked against `max_age` with the time of the round's beginning, so a held-up
  round adds to it; the bearing then waits for the master's next round, is shown
  for the staleness threshold, and stays until the round that notices the silence.
  It says nothing once the master's loop has ended (section 6).
* `PipeWhenRunning` names the only ways in which the program can come to use a DTU
  in AT mode as a pipe (`Excused`): every answer to the escape was missed; a late
  reply was taken for that to an exit which the DTU ignored; an exit was answered,
  with an echo or an ERROR, and not heeded; or all exits were ignored without an
  answer and the reboot failed or was ignored too. The third takes a single fault
  (section 6), the others several in one run.
* `AppliedOrReported` shows why `written` and `mismatches` can be believed although
  a lost reply is an empty value and radio bytes may be read for a reply: a
  parameter counts as right only when its own value was read. Its three conditions
  are needed (section 6): no reply is late, no answered exit is unheeded, and fewer
  commands are ignored than there are exits.
* `ProvenOnly` and `DiskWasMemory` hold although nothing is locked: `on_ack` reads
  the pending push once, so what it commits is what it judged, and a record is
  replaced by one assignment. `WrittenThrough` needs its condition: when two saves
  overlap, the one that ends last may have read first (section 6).
* `NoneLost` is about frames that overlap nothing that was found, which includes
  those that begin inside a false start. `Conserved` counts: the bytes discarded are
  those that left the buffer and belong to no frame found, each once. `ChunkFree` too is
  about the frames found: a `feed` that raises at a frame of an unknown type loses those
  it found before it in the same read, so what is delivered does depend on the cut.
* `AllStream` needs stations to lose their slot before they ask for it again: a
  restarted master ignores the bearings of a station it has no entry for, whose
  slots its first beacon takes away.

## 4. Fairness

* `Arq`, `ConfigPath`: both loops run for ever (`run_server`'s thread,
  `run_forever`), hence weak fairness of the master's service and of the
  handling of what has arrived; a loss is never forced. `MasterSpec` makes no
  assumption about the stations. The master's thread ends when an exception
  leaves it; its actions are then disabled (`running`), and `WorkDrains` says so.
* `Feed`, `Indication`: time passes and the agent's loop runs; nothing is assumed
  of the KrakenSDR but that a booting one is up in the end. In `Indication` a loss
  is never forced, and losses are finitely many: `LiveIsPresent` would not hold
  of a station that is never heard. The master's loop runs unless it has ended, and
  a tick waits for a round that is due, which is what `MaxHold` bounds.
* `MasterThreads`: the loop's thread and each thread of the page run on until they
  are idle; new requests and answers, failures and restarts are never forced.
* `DtuProvision`: the program goes on, and is started again when it has ended early
  (`Restart=on-failure` in both systemd units). Of the DTU nothing is assumed beyond
  the budget of faults.
* `Tdma`: weak fairness of the beacon, of time and of each station's loop. Strong
  fairness that a station's JOIN is the one heard, if it keeps trying: the
  random back-off of `join_offset_ms` does not for ever favour the others.

## 5. Theorems

Proved for all values of the constants under the assumptions that the modules
state in an `ASSUME` (`SeqModAssumption`, `SuperframeAssumption`, `PolicyAssumption`,
`FormatAssumption`, ...), all weaker than the code's configuration. Z3, Zenon and LS4
check them in a few minutes.

`ArqProofs`: `TypeCorrect`, `AtMostOnceInOrderHolds`,
`AckProvesHandlingHolds`, `ImplementsLink`. The first invariant, `OrderInv`, says that
the frames in the air are in order, that all frames of one transaction have one
sequence number, and that what belongs to the open transaction has the
sender's. It survives losses, abandonment and restarts, because the medium keeps
order. The second, `UndisturbedInv`, holds until something is abandoned or
restarted: master and station are never more than one transaction apart, and
an ACK in the air is either of the open transaction or carries the number before
it, so a late ACK cannot be mistaken. With both, every step of `Arq` is a step
of `ReliableLink` or a stutter. What the link promises is what the code does: a
transaction is applied or refused at most once and in order, and confirmed only after
one of the two; not that it was applied.

`ParamDistProofs`: `TypeCorrect`, `CoherentHolds`, `MirrorWasProvenHolds`,
`OneAutoPushHolds`, `LatchNeedsOperatorHolds`. Every step of `ParamDist` is one of
`Distributor` with history added (`ParamDistRefines`). The invariant `IInv` adds two facts:
a pending push expects the CRC of the very settings it will commit
(`PendingSound`), and an automatic push leaves its mark until the episode is over
(`AutoMarked`).

`TdmaProofs`: `TypeCorrect`, `NoCollisionHolds`, `FairSharesHolds`. As long as no loop is held up and
the master does not restart, a station less than a superframe away from its last
beacon has the master's time and its slots by the master's current map
(`SyncInv`); one without a slot has asked by the end of the contention window
(`AskedInv`); so whoever is on the air owns the slot (`AirInv`). That the map has
one owner per slot is its type; `NthFacts` proves that `assign_slots` finds one:
the ranks of the live stations are a bijection with `0 .. n-1`.

`FairSharesHolds` needs to know where the map comes from: it is always dealt by
`assign_slots` to some set of stations, after a beacon to the live ones (`MapDealt`).
The rest is about that function. A slot of a station is the station's rank in some
round, so slots are told apart by their rounds, of which there are at most as many as
the cap (`ShareCapped`). Where a station has a slot after the first round, every other
live station has one in the round before, so that nobody has more than one slot more
than another (`SharesClose`). And an idle slot lies behind the last round (`IdleWhenFull`).

`FeedProofs`: `TypeCorrect`, `BoundedHolds`, `SpacedHolds`, the last two of `Indication`,
whose `AgentRestart` makes the supervisor forget. The supervisor's count is
that of the outage in the agent's present life, and each of its lives before spent at
most its budget (`OutageInv`, `Budget`). The last restart is at least as long ago as
its record says or, once the feed or a restart of the agent has cleared the record, as
the supervisor has seen the feed quiet (`LastInv`); a restart needs either to have run out.

`FrameReaderProofs`: `TypeCorrect`, `NoneLostHolds`, `SoundHolds`,
`BufferBoundedHolds`, `ConservedHolds`, `ChunkFreeHolds`, for every line, format and
CRC. A byte leaves the buffer only
as part of a found frame, or when no valid frame begins there: `Skip` and `NoSync`
drop bytes that begin no sync word, `Reject` a single one whose frame is complete
and defective, and a frame that is complete is judged alike whenever it is judged.

`ConservedHolds` and `ChunkFreeHolds` are about a count and about a recursive reading.
`Conserved` is stated as the cardinality of a set, the bytes removed that no frame
covers, and each action adds to it the bytes it drops. For `ChunkFree` the invariant
is that the frames found so far and a reading that goes on from `pos` are together
what one pass finds (`OnCourse`), whichever bytes are still to come. That the recursion
of `FramesFrom` defines a function at all, and that nothing is found where there is no
sync word, is shown with the least position at which it could fail (`Least`, from the
library's well-foundedness of `<`): the least counterexample takes the place of
induction.

The second part of `FeedProofs`, about `Indication`: `StreamTypeCorrect`,
`FreshWhenShownHolds`. Data on its way was fresh when it was sent, which was after the
master's last round (`InboxInv`); what is shown was fresh when it came, has waited
for at most one round, and has aged no more since than the silence that the master
knows of and the time since its last round (`ShownInv`).

`ConfigProofs`: `TypeCorrect`, `MirrorWasHeldHolds`, `InflightIsSentHolds`,
`RefinesDistributorHolds`, `CoherentHolds`, `LatchNeedsOperatorHolds`, for every set of
stations, settings and bounds. `held` only grows, so it is enough that what is
recorded somewhere was held when it was recorded: the CRC a station has cached and
the settings it reads (`StationHeld`), every answer on its way (`AnswersHeld`), hence
the CRC that confirms a push. That push is then the mirror's next record, and its
expected CRC is that of its own settings (`PendingSound`). The mirror is only
ever set to these, to a report, or to its own snapshot. `InflightIsSent` needs
that an entry of the outbox is of the kind of its push (`OutboxMatches`).

`RefinesDistributorHolds` shows of each handler that the station it serves takes a step
of `Distributor` (`Moves`, the same steps as a relation between records) or none,
and that no other station's record is touched (`OthersKept`); only a restart moves
all. The invariant supplies what `Distributor` demands of its environment: settings,
pushes and CRCs of the right kind in every packet. Two results about `Distributor`
thereby hold of every station in the composition: `CoherentHolds` and
`LatchNeedsOperatorHolds`.

`ThreadsProofs`: `TypeCorrect`, `ProvenOnlyHolds`, `DiskWasMemoryHolds`,
`WrittenThroughHolds`, for every number of threads and stations. The invariant says of
each thread what it carries from one access to the next (`Carries`): a record about
to be assigned is proven, a payload consists of records that were in memory. No
other thread can spoil it, since `proven` and `held` only grow. `AloneReads` is for
`WrittenThrough`: a save that nothing overlaps has read what the mirror still holds.

`DtuProofs`: `TypeCorrect`, `PipeWhenRunningHolds`, `AppliedOrReportedHolds`,
`WritesOnlyWhatDiffersHolds`, for every list of parameters, number of attempts and
budget of faults. The first counts: `n` unanswered escapes have cost `n` faults, and
so have `n` exits, unless one of them was answered and not heeded (`Counts`,
`PipeInv`). The second says of every parameter before the index
that it is stored with its value or reported, that nothing stored is undone until the
exit, and what the exit puts in effect. The third says that without faults a value
that was read is the value that is stored.

Only model-checked: liveness (`TransactionEnds`, `WorkDrains`, `Converges`,
`AllStream`, `RecoveredOrIndicated`, `DeadFeedShown`, `LiveIsPresent`, `ComesUp`,
`Drains`), which rests on fairness, hence on `ENABLED`, and which TLAPS does not prove.
Every invariant and every action property that a passing run checks is proved.

## 6. Known disagreements with the documentation

Each of these was met while modelling. The first two have a run whose
counterexample shows it.

* `arq_abandoned`. After giving up, the sender keeps its sequence number, so the
  next transaction may be taken for a duplicate: acknowledged, never applied
  (`shared/arq.py:86`; FSD 898-899 "never silently assumed applied"). The harm is to the
  next change, not to the abandoned one; the CRC of the ACK shows it, unless only
  fields without cover have changed.
* `config_pending`. Giving up leaves the distributor's push pending for ever, and
  bearings are no longer compared (`master.py:397`, `param_dist.py:259`; FSD 543
  "stays pending, not lost, and resumes on return").

Without a run of their own:

* The agent does not look at what `apply_delta` returns, and its ACKs
  never carry a status: a delta that was not applied, because there is no write route
  or the KrakenSDR does not answer, is acknowledged like one that was (`agent.py:280`;
  FSD 1138 "Delta not applied; ACK carries `kraken_down`", also 653). The CRC exposes
  it as a divergence, from which FSD 1138 wants it distinguished.
* A wedged KrakenSDR that still serves its old file is available to the
  source, so the supervisor takes the feed for alive and never recovers it
  (`doa_source.py:402`; `supervisor.py:3-4` "the DSP is unreachable or wedged", FSD 361,
  399).
* A station whose recovery budget is spent goes on sending heartbeats
  without data, which the master counts as signs of life: it stays GREEN, without data
  (`agent.py:181`, `master.py:344`; `supervisor.py:7-8`, FSD 366, 398, 403: "the
  station goes stale → RED at the master").
* Any non-empty reply counts as that to `AT+EXIT` (`dtu.py:117`), and a
  DTU with its echo on answers every command (`dtu.py:87`). An exit that is echoed, or
  answered with ERROR, and not heeded leaves the DTU in AT mode; nothing that was
  written takes effect, and nothing is reported (`dtu.py:5-7` "a DTU is never left in AT
  mode", FR-12.5): the third case of `Excused`, a condition of `AppliedOrReported`.
* A restart of the agent renews the recovery budget in the middle of an outage, since
  the supervisor keeps its count in memory (`supervisor.py:33-43`; FSD 363-364 "up to a
  bounded budget"); that is why `Bounded` counts per life of the agent.
* A local change of the KrakenSDR is never noticed: bearings carry a cached CRC,
  refreshed only by a write or read of the master (`agent.py:189`; FSD 561-563).
* No station handles `PARAM_FULL`: full pushes, automatic ones and reverts have no
  effect (`agent.py:263`; `master.py:236`).
* Frames are not filtered by destination: every station that hears a delta applies
  it (`agent.py:263`; FSD 1663).
* A JOIN may leave the contention window when the loop is held up (`agent.py:246`;
  FSD 417-418); that is why `NoCollision` speaks of undisturbed loops.
* A valid frame of an unknown type raises a plain `ValueError` in `feed`, which
  ends the loop of either program (`frame.py:114`; `frame.py:88` "Raises FrameError
  on any defect").
* There is no frame timeout: a false sync word with a large length holds later
  frames back until enough bytes have come (`frame.py:172`; FSD 905).
* The minimum gap between recoveries is not kept when the feed is back for a
  moment (`supervisor.py:51`; see `Spaced`).
* A restarted agent takes the last line of a wedged KrakenSDR for a measurement of
  age 0: the age starts at the poll, the DSP's timestamp is not used for it
  (`doa_source.py:409`; FR-22.3). `FreshWhenShown` therefore counts from the reading.
* A closed squelch shows GREEN without data, where FSD 1005 and 1061 say RED.
* A bearing of 360.0, which `360 - theta` (FSD 1002) is for `theta` 0, is discarded as
  out of range (`pipeline.py:61`).
* The colours are evaluated at the time of the master's last round
  (`master.py:258-259`): when its thread has ended in an exception they no longer
  change, and a station that is gone stays GREEN (FR-9.3). In `Indication` this is
  what follows `MasterDies`, and why its properties speak of a loop that runs.
* A DTU that answers no escape is used as it is (`dtu.py:132-135`). When the escapes
  were heard and only their answers missed, it is in AT mode (`dtu.py:5-7` "a DTU is
  never left in AT mode", FR-12.5): the first case of `Excused`.
* A late reply to the command before counts as that to `AT+EXIT` too (`dtu.py:117`): the
  second case of `Excused`. Likewise a late reply to a query
  is taken for that to the next one, so that a parameter may count as right without
  having been read (`dtu.py:74`; FR-12.3): the condition of `AppliedOrReported`.
* An `OSError` in `AT+EXIT` leaves `_exit_at`, although "the finally path must not
  raise" (`dtu.py:120`): the reboot is not tried, and the original exception is
  replaced.
* A reboot instead of an exit may drop what was written, and the result still lists
  it as written and verified (`dtu.py:122`, `160`).
* The key is written on every run, since it cannot be read back (`dtu.py:148`;
  `dtu.py:8` "a second run with the same parameters writes nothing").
* When two threads save the mirror at the same time, the file may be left with the
  older payload until the next save (`mirror.py:54-70`; `mirror.py:33` "Every mutation
  is written through to disk"); a save that fails leaves memory ahead of the disk
  (`mirror.py:114-120`). That is the condition of `WrittenThrough`. A first full read
  that adds a station while the page saves raises in `_save` (`mirror.py:61`).
* A revert reads the mirror again to push it (`master.py:239`, `param_dist.py:176`): when
  the loop has accepted something in between, that is pushed and not what was
  restored.
* An edit queued while the loop takes the previous one is lost, and one queued while
  another waits replaces it, though each was answered with ok (`master.py:223`, `411`;
  `ui.py:273`).
* The automatic push of a divergence seen on a bearing is never queued
  (`master.py:345`, against `param_dist.py:43`).
* The retransmission of a delta that could not be decoded is acknowledged
  (`agent.py:273`); that is why `Handled` takes in `Undecodable`.
* A commit by ACK while the latch is set shows in sync and leaves the latch;
  later mismatches then change nothing (`param_dist.py:279`).
* A full read while a push is pending shows in sync and keeps the push pending, so
  later bearings are not compared (`param_dist.py:201`).
* A full read is never acknowledged; each of its copies makes the current
  settings the snapshot, so that a revert changes nothing (`param_dist.py:197`,
  against `mirror.py:108-109`).
* A revert takes the mirror back before the station confirms (`master.py:237`).
* An empty report (settings.json unreachable) makes the next bearing raise in the
  master's thread, which ends while the process lives on (`agent.py:294`,
  `param_dist.py:262`; FSD 1342).
* A settings client that starts while the KrakenSDR is unreachable stays read-only
  (`settings_client.py:176`).
* More live stations than data slots: the last are never served (`schedule.py:73`).
* The values of two status bits are swapped (`param_dist.py:33-34`,
  `settings_client.py:32-33`), without effect since no status is ever sent.
* `Reassembler` mixes fragments of two reports of as many fragments when the first
  fragment of one was lost (`protocol.py:143`); a report is about 110 bytes, hence
  one fragment, unless its strings are long.
* A changed position is sent once, with the next bearing, and never again if that is
  lost (`pipeline.py:135`).

## 7. Not modelled, and why

Triangulation (`shared/geo.py`, `messages.py`) is floating-point geometry without
state. Payload layouts (`bearing.py`, the codecs of `registry.py` and
`protocol.py`) are formatting: a CRC is the set of covered values, and collisions
of CRCs are left out. Serial and TCP carriers, logging, configuration files and
command lines are input and output. Pages, panels and the web socket of the UI
are presentation. `clear_latch` and `Scheduler.retire` have no caller.

`TransportSelector.on_probe` is called by tests only: in the program nothing but the
operator's pin changes the carrier. An exception of `pump` that is no `OSError` (a
response cut short) leaves `available` as it was; the model has no such answer.

Abstractions to keep in mind: the medium loses but does not corrupt (a corrupted
frame fails its CRC) nor duplicate; configuration frames keep to no TDMA slot in
the code, so they collide with bearings and are then lost, which `ConfigPath`
has as a loss and `Tdma` as a lost frame; the master's `step` is taken apart into
its handlers.

The rate window of `health.py` behind ORANGE counts the arrivals of a window of real
time against an expected rate; in the model's ticks it would be a property of the
chosen numbers. Its unlocked use by the page's threads does no harm: an arrival is
appended and trimmed by single operations. Fragmentation is left out because a report
fits into one fragment (`agent.py` `_FRAG_CHUNK`). Positions, counts and signal
strength are data on display.

The settings client's read, merge and write are one step of `ConfigPath`: a change
made by the KrakenSDR's own page in between, which the write undoes, is the same as
one just before. On the file route `kset` is `settings.json`; that the DSP takes half
a second to pick it up, and may refuse or alter a value, is not modelled.

In `MasterThreads` the stations are those of the file: a station's first full read,
which adds a record, is in `ParamDist` and `ConfigPath` only. In `DtuProvision` an
error of `port.open()` is the same as one at the first escape.

## 8. What is left

Done, in this order: `ArqOps`/`Arq`/`ReliableLink` (the exchange everything else
rests on), `ParamOps`/`Distributor`/`ParamDist` (what the exchange is for), `ConfigPath` (their
composition, with the operator, the agents and the KrakenSDR), `Tdma`,
`FrameReader`, `Feed` and `Indication`, `DtuProvision`, `MasterThreads`.

Should the program come to use them, the probes of the transport selection and
reports of several fragments would be next: the first with "no flapping", the
second with "never mixes two reports". Of the properties that are only
model-checked, the safety part of each (a measure that no step increases and that the
fair steps decrease) could be stated as an action property and proved.
