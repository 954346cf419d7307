# Formal model of the ECSS PUS flight software

TLA+ modules, TLC configurations and TLAPS proofs for the on-board software in
`src/`, `include/pus/` and `sim/`. Paths below are relative to the repository
root.

## The system

The on-board software (OBSW) receives telecommand packets, executes them and
answers with telemetry packets through a small queue. It is single threaded and
allocates nothing: all state is in static variables, and each entry point runs
to completion. What is hard is not concurrency inside a call but the order of
calls: commands, minor cycles, downlink and reconnections interleave freely, and
almost every call sends telemetry into a queue of 16 slots that may be full. The
driver adds the ground as a second actor: it sends, pauses and hangs up when it
likes, and its octets arrive in pieces.

| Component | Source | State | Operations |
|---|---|---|---|
| Downlink queue | `src/tm_queue.c` | slots, lengths, head, count, overflow counter | init, push, pop, count, overflow_count |
| Telemetry generation | `src/pus_tm.c` | sequence count, message count per service | reset, build, send |
| Telecommand acceptance | `src/pus_tc.c`, `include/pus/pus_bytes.h` | none | parse, ack_requested |
| Service 1, verification | `src/svc01_verification.c` | none | acceptance, completion, reject_raw |
| Service 3, housekeeping | `src/svc03_housekeeping.c` | enabled structures, phase | init, handle (3,5) (3,6) (3,27), tick |
| Service 5, events | `src/svc05_event.c` | enabled identifiers | init, report, handle (5,5) (5,6) |
| Service 8, functions | `src/svc08_function.c` | none | handle (8,1): mode, heater, temperature, time, counters |
| Service 17, test | `src/svc17_test.c` | none | handle (17,1) |
| Application | `src/obc_app.c` | `obc_state_t`, alarm latch, last overflow count | init, process_tc, tick |
| HAL (host) | `src/hal_host.c` | ticks, epoch, temperature, heater line | init, advance, get/set time, ... |
| CCSDS header, CRC | `src/ccsds.c`, `src/crc16.c` | none | pack, unpack, total_length; crc16 |
| Platform driver | `sim/obc_sim.c` | socket, receive buffer, place in the loop | accept, select loop: receive, tick, drain |
| Test ground segment | `tests/integration/gsw/` | none | packet encoder and decoders |

Interactions. The driver calls `obc_init` for each connection, `obc_process_tc`
for each received packet, `obc_tick` when nothing was received for a tick period,
and after each of them pops the queue empty to write telemetry. `obc_process_tc` parses, reports acceptance, routes to
a service, reports completion. Services call back into the application
(`obc_set_mode`, `obc_set_heater`, `obc_get_state`) and into the HAL. Everything
that sends telemetry goes through `pus_tm_send`, which numbers the packet and
then pushes it; a full queue drops it after the numbers were consumed.

Hard behaviours, and what makes each component right:

- *Queue*: a ring with stale octets and lengths behaves as a FIFO that refuses
  the newest packet, at every wrap and after every re-initialisation.
- *Numbering*: a dropped packet leaves a gap; the ground counts exactly the
  packets lost per service.
- *Application*: heater off in SAFE mode and mirror equal to line, for every
  order of mode commands, heater commands, alarms and restarts; one alarm per
  temperature excursion; a hot unit reaches SAFE mode.
- *Reporting under overflow*: the overflow event must survive being dropped
  itself; failure reports and partially executed one-shot requests meet the same
  full queue.
- *Housekeeping*: snapshots that wait in the queue while the unit moves on.
- *Time*: 32-bit and 16-bit arithmetic with carries, borrows and wraps.
- *Octets*: two codecs, flight and ground, that must agree on bit fields and
  lengths; noise must be refused as noise, whatever field it hits.
- *Driver*: telecommands are cut out of a stream by the length they declare, with
  reads that block; refusing one must not lose the next. Minor cycles run only in
  the pauses of the ground.

## Modules

| Module | Models | Notes |
|---|---|---|
| `PusTypes` | enumerations and C integer types | numbers are those sent in telemetry |
| `BoundedFifo` | the promise of the queue | abstract: a sequence, no ring |
| `TmQueue` | `src/tm_queue.c`, octet by octet | `ImplementsBoundedFifo` is `INSTANCE BoundedFifo WITH fifo <- Stored` |
| `Downlink` | `src/pus_tm.c` over that FIFO | `Emit(pkts)` is a burst of `pus_tm_send` calls |
| `DownlinkGround` | `Downlink` with a ground that watches the counts | bursts, pops and restarts; `SendEach` sends a burst packet by packet |
| `Hal` | `src/hal_host.c` | widths are constants: `U32`, `FINE` |
| `PusBytes`, `Ccsds`, `Crc16` | `include/pus/pus_bytes.h`, `src/ccsds.c`, `src/crc16.c` | pure operators; `Crc16` also has the polynomial reference |
| `PusTc`, `Svc01`, `Svc03`, `Svc05` | acceptance checks and the services | operators give the packets sent and the status returned |
| `TcWire`, `TmWire` | the octets `pus_tc_parse` reads and `pus_tm_build` writes | to and from the records of `PusTc` and `Downlink` |
| `Obsw` | `src/obc_app.c`, services 8 and 17, and the composition | actions `obc_process_tc` (one disjunct per outcome), `obc_tick`, `DownlinkOne`, `obc_init`; `OpenSpec` is the application in any environment |
| `ObswEnv` | a caller with a given set of telecommands | its four entry points in any order |
| `ObswGround` | `ObswEnv` with an observing ground segment | adds what the received events tell; every step is a step of `ObswEnv` |
| `ObcSim` | `sim/obc_sim.c` over `Obsw` and `TcWire` | a thread with a program counter, a connection, an octet stream |
| `GswPackets` | `tests/integration/gsw` encoder and decoders | written by its authors from the interface document, not from the flight code |
| `NoisyLink` | one packet on the link | flight codec against ground codec, with bit errors on the uplink |
| `McTelecommands` | the telecommands of the runs | well-formed, rejected and refused ones |
| `MC*` | instances for TLC | bounds in the `.cfg` files |
| `TmQueueProofs` | theorems about the ring | see Proofs |
| `DataLemmas` | lemmas on naturals, sets and sequences | induction, flattening |
| `DownlinkProofs`, `NumberingProofs` | lemmas on a burst; theorems about the numbering | `Downlink`, `DownlinkGround` |
| `ObswLemmas` | lemmas on the operations and on what they send | true of any caller |
| `ObswProofs`, `ObcSimProofs` | theorems for the callers and for on-board time | `ObswEnv`, `ObswGround`, `Hal`; `ObcSim` |
| `CodecProofs` | theorems about the octets | `NoisyLink` |

Each call of an entry point is one step, because it runs to completion before
the driver makes the next one. Inside a step the order of telemetry is kept: a
function's effect is the state it leaves, the level of the heater line and the
sequence of packets it sends; the queue decides which of them fit.
`EmitIsRepeatedSend` checks that this one-step burst is what `pus_tm_send`, called
packet by packet, computes. Where the code reads the queue in the middle of a
step (diagnostic housekeeping, overflow sampling, the one-shot loop, the answer
of service 17) the model passes the number of packets sent before.

`ObcSim` splits finer where the code can wait or fail: accepting, the select, reading
a header, reading a body (both wait until the octets are there), and writing each
packet of the queue. `send` has no time-out and waits while the connection is full of
telemetry the ground has not read: `unread` counts those packets, `SEND_ROOM` is how many
the connection holds, and `WriteOne` is enabled below it only. Handing a packet over is one step with the read that completes
it. The ground connects, closes, reads telemetry when it likes, sends whole packets and
has them arrive in segments of the sizes `SEGMENTS`; select, accept, recv and send may fail at any time. The
history variables `honest`, `due` and `told` only record what was sent and written.

A telecommand is a record of decoded header fields and application data octets;
whether its CRC verifies is a field. `TcWire` computes that record from octets, so
`ObcSim` runs the same `obc_process_tc` on a byte stream. The request identifier, the
first four octets, is kept as its two 16-bit halves, since TLC's integers have
32 bits with sign. A telemetry packet is its service, subtype,
the numbers in its source data and its two counts. `U16` and `U8` model the casts
on the way into a report, `pus_get_i16` the sign on the way in.

The refusal order of every handler (length before parameter before identifier)
is kept, although only the status shows it. Null pointer checks of handlers are
unreachable from `obc_process_tc` and left out, except in `tm_queue.c`, where they
are part of the modelled interface. `TmWire` has the length check of `pus_tm_build`;
`Downlink` leaves it out, since no report exceeds a packet.

## Runs

| Run | Configuration | Shows |
|---|---|---|
| `tm_queue` | depth 3, 2 octets per slot, 2 octet values, counter saturating at 2 | the ring refines the FIFO; occupied slots hold legal packets |
| `downlink` | depth 2, bursts up to 3, at most 2 drops between restarts, counts modulo 7 and 5 | gaps reveal the loss per service; order of counts; burst equals repeated send |
| `hal_time` | 32-bit words as words of 32 values, seconds of 6 ms and 4 fine units, cycles of 5 ms, commanded coarse times 0, 5 and 31 | set-time reads back, time advances by one cycle |
| `thermal` | depth 2; NOMINAL, heater on, three temperatures | interlock, coherent housekeeping, one alarm per excursion and none silenced by an earlier one; events alone tell mode and heater, and housekeeping agrees with them |
| `services` | depth 2; every service, packets rejected and refused, temperature and event left as they are | failure reports, diagnostic reports, the three cycle counters move together or not at all |
| `flood` | depth 2, counter saturating at 3; ping, overflow event on and off | the overflow event gets through (safety and liveness) |
| `driver` | depth 6; NOMINAL, a hot reading, a runt, an oversized packet, in segments of 4 octets or whole | the stream stays in step, the thread comes back to select if the ground reads its telemetry, alarms are written, a hot unit reaches SAFE mode (safety and liveness) |
| `codec` | 3 telecommands under every 2 inverted bits and every burst of 6 bits; 117 telemetry packets with fields at their limits | both codecs agree, noise is refused as noise, the CRC is the polynomial remainder |

Bounds. `DEPTH` 2 makes the queue fill within one telecommand, so every place where
a burst can be cut is reached; the burst of alarm, mode and heater events of a hot unit
always loses one there, so `EventsTrackUnit` speaks of shorter bursts. In `thermal` the
alarm is what puts the unit into SAFE mode and no telecommand does; `HeaterInterlockHolds`
covers every set of telecommands. In `driver` the
depth is 6, more than any step sends, as 16 is for the packets of that run: there the
question is what draining gives. `SEND_ROOM` is 1, so that every second packet of a burst
waits for the ground. The housekeeping period is 2 (1 in `driver`), so a
period falls together with everything else. `COUNTER_MAX` is 1 to 3: counters saturate,
and, in `flood`, drops occur below saturation too; in `driver`, where nothing is dropped,
it is 0, which removes the counters from the state. No command of `driver` disables an
event, so the exception for a disabled alarm in `AlarmReachesGround` is not exercised.
Runs that are not about numbering use modulus 1, which removes the counts from the
state; `downlink` uses moduli just larger than what can be queued and dropped together, as
16384 and 65536 are far larger; its behaviours run through many wraps of both. In `driver` up to 24 octets are under way, two packets of different kinds or
three runts, so that a segment can end one packet and begin the next; once a packet
with a false length was sent, 13 (`STRAY`), enough for its remains to be cut up with
what follows. The receive buffer has 20 octets, above the longest honest packet and
below the 40 the oversized one declares. In `codec`, two bits anywhere and six bits in
a burst are far inside what a 16-bit checksum must detect; lengths are among the bits
hit. In `hal_time` a cycle is no whole number of fine units and the millisecond
product wraps before the tick counter, as in the real configuration. Temperatures
lie on every side of the thresholds: -10, 30 and 45 degrees, and 20 after a
restart.

Fairness. In `driver` the thread is weakly fair (it runs unless it waits or the
process ends), and so is delivery, since TCP delivers what was sent on an open
connection. `Tick` is strongly fair: a ground that pauses again and again, for a tick
period each time, gets minor cycles again and again. That it does pause is an
assumption about the ground, and `HotUnitGoesSafe` states it as its premise
(`[]<>Idle`): without it the property is false, because the driver ticks only when no
telecommand is waiting. That the ground reads its telemetry is no fairness either: a write
that waits is not enabled, so weak fairness of the thread does not end the wait.
`NeverWedged` has it as its premise, `[]<>CanWrite` (there is room again and again), and
is false without it. `HotUnitGoesSafe` needs no such premise of its own, since the thread
is idle again and again only if its writes get through. Failures, closing and reconnecting need never happen. In
`flood`, `GTick` and `GReceive` are weakly fair for the same reasons: such a ground,
and a queue written out after every call. Telecommands are never assumed to come.

What the driver run does not promise. `InStep` and `NeverWedged` hold while every
packet on the connection has the length it declares. The remains of an oversized
packet are read as the next header, and the thread may then wait for a body nobody
sends, with no minor cycle meanwhile. SWREQ-ROB-030 (a rejected telecommand shall not
affect those that follow) and SWREQ-ROB-050 (discard such a packet) are not met there
to the letter; `tests/integration/test_robustness.py` knows it: "the remaining octets
stay in the stream, so this case deliberately runs last on its own connection".
`AlarmReachesGround` and `HotUnitGoesSafe` hold on such streams too.

A ground that sends telecommands and never reads stops the thread in `send` once the
connection is full: no minor cycle and no telecommand until it reads or the connection
fails, whatever the unit's temperature. One that has
closed its sending side may still read, and until it does the thread waits for it too.

### Disagreements between documents and code

Four runs expect a violation; each states what a document or comment says.

- `completion_is_reported`: a one-shot request with more structures than the queue
  has slots gets no completion report, although SWREQ-SVC1-030 demands one and the
  queue was empty when it arrived. The path is the error break of the one-shot loop,
  which the verification plan (`docs/SVP.md`) lists as unreachable.
- `overflow_forgotten`: at the saturated overflow counter a dropped overflow event
  is not repeated (SWREQ-APP-120).
- `set_time_borrow`: commanding a fine time below the elapsed fraction of the
  current second sets the clock one second late (comment of `hal_set_cuc_time`).
- `time_wrap`: after 49.7 days the 32-bit millisecond product wraps and time steps
  back (SWREQ-HAL-020).

Met while reading, without a run: SWREQ-APP-070 asks for the over-temperature event
in any mode, the code raises it in NOMINAL mode only; service 5 accepts the event
identifiers 7 and 8, which are not defined.

## Proofs

Proved with TLAPS for every value of the constants that satisfies the named
assumptions (positive depth, sizes, moduli and periods; telecommands are records of
the declared type whose application data fills the length, `ReceivableTc`).

### The queue (`TmQueueProofs`)

- `RingImplementsBoundedFifo`: the ring refines the FIFO. The refinement mapping reads
  `count` slots from `head` on; a push changes only the slot behind the last one
  (`SlotsDistinct`), a pop shifts the mapping by one (`HeadAdvance`); stale octets lie
  beyond each length.
- `RingWellFormed`, `IndicesStayInRing`: the inductive invariant is `TypeOK` with
  `OccupiedSlotsHoldPackets`. The latter is needed: `lengths` is not cleared by
  `tm_queue_init`, so that a popped packet is a packet follows only for slots in use.

### The application in any environment

`OpenSpec` (in `Obsw`) is the application with its four entry points called in any
order, with any receivable telecommand. The invariants of the application are proved
once, from `OpenSpec` (`OpenInvariant` in `ObswLemmas`). Both callers implement it:
`ObswEnv` because its telecommands are receivable (`ImplementsOpenSpec`), the driver by
`DriverImplementsApplication`. There is one lemma per action, over lemmas on the
effects of `obc_apply_heater`, `obc_set_mode` and `obc_thermal_control`;
`DownlinkProofs` gives what a burst does to the queue.

| Inductive invariant | Says | Gives |
|---|---|---|
| `IInv` (`ObswLemmas`) | `TypeOK` and `SafeHoldsHeaterOff` | `TypesAreKept`, `HeaterInterlockHolds` |
| `CyclesCounted` with `IInv` (`ObswProofs`) | tick counter and uptime are the minor cycles since the restart, modulo the word; the phase, modulo the period | `CyclesSinceBoot` |
| `TelemetryOK` (`ObswLemmas`) | of every queued packet: essential reports are coherent, no failure report says `PUS_ERR_QUEUE_FULL`, diagnostic reports fit their place in the queue | `HousekeepingIsCoherent`, `QueueFullStaysOnBoard`, `DiagnosticsAreHonest` |

- The interlock needs the types: the level passed to `hal_set_heater` is normalised by
  the HAL, so mirror and line agree only because every level is a flag, which for
  commands follows from the argument checks of `svc08_handle`.
- `CycleCountersAgree`: an action property, so it has no invariant of its own: in a minor
  cycle each of the three counters takes its own successor, a restart zeroes all three,
  and for each telecommand there is a lemma that it moves none. Nothing is asked of the
  period and the word width.
- `CyclesSinceBoot` adds an unbounded counter of the minor cycles since the restart
  (`CountedSpec`) and says what the three hold of it. The period, 10, does not divide
  2^32: after 13.6 years of cycles uptime and tick counter wrap, and the phase can no
  longer be computed from them; it still counts the cycles since the restart, modulo 10.
- `TelemetryOK` is inductive because it speaks of packets only by their place and the
  overflow count, which never decreases while they wait. What it needs of the operations
  is `Truthful(k, c)`: what content `c` may say when it is sent after `k` others of the step.
- `QueueFullStaysOnBoard` is the least obvious one: the one-shot loop does return
  `PUS_ERR_QUEUE_FULL`, and the failure report with that status is sent. It never gets
  in because the loop stops only on a queue that its own reports have filled, and
  nothing leaves the queue before the failure report is offered.
- `DiagnosticsAreHonest` assumes `DEPTH <= 256`. A diagnostic report is made when fewer
  than `DEPTH` packets are queued or is dropped, and its count has one octet; the real
  depth is 16.

### What the ground can conclude from events (`ObswProofs`)

- `OneAlarmPerExcursion`: the invariant `CountOK` ties the number of alarms in the
  excursion to the latch, which `obc_set_mode` does not touch: no alarm was queued in this
  excursion while the latch is open, at most one since it closed. The other half, that a
  closed latch stands for an alarm of this excursion unless its event was disabled or a
  packet dropped, is what makes silence after an alarm mean the same excursion. It rests
  on two things: while no event was disabled all are enabled, which `TrackOK` (below) says,
  and while the overflow counter reads 0 no burst lost a packet, that of the tick that
  closed the latch included (`NothingDropped`).
- `EventsFollowUnit`, `OverflowIsReported`: the run's properties speak of what the
  ground will know once the queued packets have arrived, a recursion over the queue
  (`Heard`). `TrackOK` is the inductive invariant. It says for mode, heater and overflow
  count what `After(gnd, queue)`, the ground's knowledge at the end of the queue, must be,
  and that every essential report matches the knowledge before it. `Brings(a, burst, b)`
  says of a burst that it takes a ground that knows `a` to one that knows `b` with all its
  reports matching; every operation is shown to bring the ground from the unit's old
  mode and heater to the new ones, and `BurstHeard` carries that through the queue when
  the whole burst fits. When part of it is dropped the overflow counter has moved or is
  saturated, and the property asks nothing of mode and heater.
- Two hypotheses. `EventsFollowUnit` and `OneAlarmPerExcursion` assume `COUNTER_MAX # 0`:
  the ground cannot notice a drop that the counter cannot count. `OverflowIsReported` assumes `COUNTER_MAX < 65536`:
  the count travels in 16 bits (`U16`), as `s_overflows` has. Both hold of the code, whose
  counter saturates at 65535.

### The driver (`ObcSimProofs`)

- `DriverStaysInStep`, `TelecommandsArriveAsSent`: for every set of packets, segment
  size, window and buffer size, with the oversized and runt packets of `ObcSim`. The
  invariant `StreamOK` strengthens `InStep` by the place in `receive_tc`: outside it `buf`
  is empty, before the body it holds a header that declares a length the buffer can take,
  and every packet not yet handed over has the length it declares. It needs that the
  octets up to the declared length, taken off the front of any number of concatenated
  packets, are the first packet (the lemmas on flattening in `DataLemmas`).
- `DriverImplementsApplication`: each step of the driver is a call of the application
  or none, and `ReceivedTc` of any octets, honest or not, is a receivable telecommand.
  `InterlockHoldsUnderDriver` follows with no further argument.
- `AlarmGetsThrough`: the invariant `AlarmOK` follows an alarm from the tick that
  latches it through the queue to the write. An alarm that finds the queue full would be
  lost for good, since the latch closes anyway; it cannot be, because the driver ticks
  only with an empty queue and the alarm is the first packet of its burst, which
  `AlarmOK` needs to know for every depth.

### The numbering of packets (`NumberingProofs`)

For every depth, burst length, set of contents and both moduli, as long as what is queued
and what was dropped since the last restart is less than a wrap of either count
(`WrapAssumption`: with more, no ground could tell how many packets a gap stands for; the
real wraps are 16384 and 65536 for a queue of 16).

- `EmitSendsEach`: `Emit` writes a burst in closed form, what fits and what is counted;
  `SendEach` is the loop of `pus_tm_send`. By induction on the number of packets sent
  (`AfterNext`, `SentIsAfter`), queue, overflow counter and both counts agree at every point of the burst.
  The application's model rests on this step.
- `GapsTellLoss`: `MessageInv`, for each service, follows a count from where it is consumed
  to where it is read. The unit's count is ahead of the ground's, modulo the wrap, by what
  is queued of that service and what was dropped and not yet missed; the counts of its
  queued packets lie between the two in the order of the queue. It holds through a burst
  because the queue drops only from the burst's end.
- `SequenceOrder`: `SequenceInv` says how long ago each queued packet was numbered, between
  the packets that stand behind it and those plus what was lost. `DownlinkTypes` follows
  from the conjunction, `NumberingInv`.

### On-board time (`ObswProofs`)

- `CommandedTimeReadsBack`, `TimeAdvances`, `HalTypes`: for every word width, number of
  fine units, length of a second and of a minor cycle for which the code's intermediate
  products fit their 32-bit words (`FineFitsAssumption`; 1000 * 65536 + 65536 < 2^32). Both
  are statements about two integer divisions, a carry and two wraps; the proofs bound each
  quotient and show that the remainders modulo the range of on-board time agree. They are
  proved for `Spec` of `ObswEnv`, where commands set the time between minor cycles at will.

### The octets (`CodecProofs`)

For every set of messages in which a telecommand has header fields within their widths and
telemetry carries the source data of its service (`MessageAssumption`).

- The invariant `LinkInv`: at least six octets are on the link; without noise they are the
  encoding of what was sent; noise never reaches telemetry.
- `CrcIsTheRemainder`: the register and the long division are two recursions over different
  data, one octet and one exponent at a time. What joins them is `Held`: after 8i steps the
  division is left with the register after i octets, times a power of x, plus the octets
  not read yet (`DivisionFollows`, by induction on i). One step of the division is one
  shift, because the data not yet read lies below the register (`DivideStep`, `InnerLoop`),
  and the next octet moves from the data into the register when it is added at the top
  (`OctetEnters`). The arithmetic under it is that `Digits` and `Number` are inverse; the
  provers evaluate 2^k for a literal k only, so it goes digit by digit.
- `BurstsAndOddNoise`: noise on a sound packet goes unnoticed exactly when the generator
  divides the polynomial of the inverted bits (`NoiseDivided`: the division is linear, and
  the sixteen bits of the checksum itself are never looked at by its tests). The invariant
  `NoiseInv` says that what arrives differs from what was sent in the bits of `noise`.
  Then two inductions over the division: the generator spans seventeen exponents, so one
  step takes a burst of sixteen to a burst of sixteen and never to nothing (`BurstRemains`);
  it has four terms, so an odd number of terms stays odd (`OddRemains`). The proof asks
  nothing of where the bits are: header, data, checksum or across them.
- `OneBurstIsCaught`: the invariant `NoiseIsCaught` itself when `FLIPS` is at most 1 and
  `BURST` at most 16, so that noise comes once.
- `HeaderKeepsItsBits`: a header is three words split at powers of two; the proof is about
  any six octets, so it covers every pattern of noise.
- `TcDecodes`: `build_tc` and `pus_tc_parse`, written apart, agree on every field, for any
  declared length and any number of data octets. Of the checksum it uses only that both
  sides compute a word from the same octets (`CrcWord`), and that the ground's way of
  spoiling it changes it.
- `TmDecodes`: the fields of a report have 1, 2 or 4 octets (`FieldWidths`), and the ground
  reads each at the sum of the widths before it. `FieldsFlattened` shows by induction on
  the fields that these offsets are where `pus_tm_build` put them, and that the two
  housekeeping structures have the 9 and 10 octets `decode_hk` insists on (`hk_sound`).

### How far the prover goes

`DataLemmas` proves facts about sequences of any length. The library's induction
theorems take the property as an operator, which the backends cannot instantiate; the
lemmas here take it as a set of naturals instead (`SetInduction`: a set that contains 0
and successors contains every natural number), and each use defines the set of lengths
for which its claim holds.

Only model-checked:

- liveness: `HotUnitGoesSafe`, `NeverWedged`, `OverflowReachesGround`;
- `NoiseIsCaught` for an even number of inverted bits spread over more than sixteen. For four
  and more it is false in general (a 16-bit checksum cannot catch everything); for two it
  depends on the order of x modulo the generator, 32767 bits, which is a computation and
  not an argument. The run covers every two bits of its packets.

## Not modelled

- In `sim/obc_sim.c`: option parsing, socket set-up and logging, which end before the
  first `accept` or change no state; retries after `EINTR`, which are stuttering.
- A second client waiting in the backlog of `listen`: it is the `Connect` that follows
  the end of the first connection.
- Null pointer checks, as said above.
- The socket client of the test ground segment, the unit tests, tools and build files.

## State of the project

Modelled and checked: queue, downlink, HAL, services, application and ground view; octets
(header, CRC, both packet codecs against the ground's); the driver with its stream and its
faults. Proved: every invariant and action property of the passing runs, `NoiseIsCaught` for
bursts and odd numbers of bits. Liveness is model-checked only.
