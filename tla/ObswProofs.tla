----------------------------- MODULE ObswProofs -----------------------------
(***************************************************************************)
(* The application of src/obc_app.c and what an operator can conclude from *)
(* its telemetry, for every queue depth, counter width, housekeeping       *)
(* period and set of telecommands: types, the SAFE mode heater interlock,  *)
(* the cycle counters, on-board time, what queued telemetry says; then one *)
(* alarm per excursion, events and housekeeping that follow the unit, and  *)
(* an overflow count that is never left unreported.                        *)
(***************************************************************************)
EXTENDS ObswGround, ObswLemmas

\* The environment of the runs is one of the environments the application allows.
LEMMA ImplementsOpenSpec == Spec => OpenSpec
<1>1. [Next]_vars => [Call(ReceivableTc)]_vars
  BY TelecommandAssumption DEF Next, Call
<1>2. QED
  BY <1>1, PTL DEF Spec, OpenSpec

\* Every static of the application, its services, the downlink and the HAL keeps
\* to its type: no telecommand, cycle or restart drives one out of its range.
THEOREM TypesAreKept == Spec => []TypeOK
<1>1. IInv => TypeOK
  BY DEF IInv
<1>2. QED
  BY <1>1, ImplementsOpenSpec, OpenInvariant, PTL

\* The heater line follows its mirror and is off in SAFE mode, whatever the
\* commands, the temperatures and the order of events (obc_apply_heater,
\* obc_set_heater, obc_set_mode and obc_thermal_control of src/obc_app.c).
THEOREM HeaterInterlockHolds == Spec => []SafeHoldsHeaterOff
<1>1. IInv => SafeHoldsHeaterOff
  BY DEF IInv
<1>2. QED
  BY <1>1, ImplementsOpenSpec, OpenInvariant, PTL

\* s_ticks of the HAL, uptime_ticks of the application and s_phase of housekeeping, in
\* three files: a minor cycle (obc_tick) advances all three, each modulo its own range, a
\* connection (obc_init) zeroes all three, and nothing else moves one of them.
THEOREM CycleCountersAgree == Spec => ClocksInLockstep
<1>1. OpenSpec => ClocksInLockstep
  BY CallClocks, OpenInvariant, PTL DEF OpenSpec, ClocksInLockstep
<1>2. QED
  BY <1>1, ImplementsOpenSpec, PTL

\* The minor cycles since power-on or the last connection, never wrapped.
VARIABLE cycles
CountedCall == \/ (\E raw \in ReceivableTc : obc_process_tc(raw)) /\ UNCHANGED cycles
               \/ DownlinkOne /\ UNCHANGED cycles
               \/ obc_tick /\ cycles' = cycles + 1
               \/ obc_init /\ cycles' = 0
CountedSpec == Init /\ cycles = 0 /\ [][CountedCall]_<<vars, cycles>>

CyclesCounted == /\ cycles \in Nat
                 /\ ticks = cycles % U32
                 /\ state.uptime_ticks = cycles % U32
                 /\ hk_phase = cycles % HK_PERIOD

LEMMA NextModulo ==
  ASSUME NEW n \in Nat, NEW m \in Nat \ {0} PROVE ((n % m) + 1) % m = (n + 1) % m
<1> DEFINE r == n % m
<1>1. r \in Nat /\ r < m
  BY ModuloBound
<1>2. (n + 1) % m = IF r + 1 < m THEN r + 1 ELSE 0
  BY SuccessorModulo
<1> HIDE DEF r
<1>3. r % m = r
  BY <1>1
<1>4. (r + 1) % m = IF r + 1 < m THEN r + 1 ELSE 0
  BY <1>1, <1>3, SuccessorModulo
<1>5. QED
  BY <1>2, <1>4 DEF r

LEMMA CountedStep == IInv /\ CyclesCounted /\ [CountedCall]_<<vars, cycles>> => CyclesCounted'
<1> SUFFICES ASSUME IInv, CyclesCounted, [CountedCall]_<<vars, cycles>> PROVE CyclesCounted'
  OBVIOUS
<1>1. ASSUME SameClocks, UNCHANGED cycles PROVE CyclesCounted'
  BY <1>1 DEF CyclesCounted, SameClocks
<1>2. ASSUME NEW raw \in ReceivableTc, obc_process_tc(raw) PROVE SameClocks
  BY <1>2, TelecommandIInv DEF ReceivableTc
<1>3. DownlinkOne => SameClocks
  BY DEF DownlinkOne, hal_vars, time_vars, hk_vars, app_vars, SameClocks
<1>4. UNCHANGED vars => SameClocks
  BY StutterIInv
<1>5. ASSUME obc_tick, cycles' = cycles + 1 PROVE CyclesCounted'
  <2>1. CountersAdvance
    BY <1>5, TickClocks
  <2>2. /\ ((cycles % U32) + 1) % U32 = (cycles + 1) % U32
        /\ ((cycles % HK_PERIOD) + 1) % HK_PERIOD = (cycles + 1) % HK_PERIOD
    BY NextModulo, TimeAssumption, HkPeriodAssumption DEF CyclesCounted
  <2>3. cycles' \in Nat
    BY <1>5 DEF CyclesCounted
  <2>4. QED
    BY <1>5, <2>1, <2>2, <2>3 DEF CyclesCounted, CountersAdvance
<1>6. ASSUME obc_init, cycles' = 0 PROVE CyclesCounted'
  <2>1. CountersRestart
    BY <1>6, RestartClocks
  <2>2. 0 % U32 = 0 /\ 0 % HK_PERIOD = 0
    BY TimeAssumption, HkPeriodAssumption
  <2>3. QED
    BY <1>6, <2>1, <2>2 DEF CyclesCounted, CountersRestart
<1>7. QED
  BY <1>1, <1>2, <1>3, <1>4, <1>5, <1>6 DEF CountedCall

\* However long the unit runs: the HAL and the application count the minor cycles since
\* the connection modulo the range of their word, and the housekeeping phase counts them
\* modulo the period, also past the wrap of the words, where uptime_ticks of a telemetry
\* report no longer gives the phase of svc03_tick unless the period divides the range.
THEOREM CyclesSinceBoot == CountedSpec => []CyclesCounted
<1>1. CountedSpec => OpenSpec
  <2>1. [CountedCall]_<<vars, cycles>> => [Call(ReceivableTc)]_vars
    BY DEF CountedCall, Call
  <2>2. QED
    BY <2>1, PTL DEF CountedSpec, OpenSpec
<1>2. OpenSpec => []IInv
  BY OpenInvariant, PTL
<1>3. Init /\ cycles = 0 => CyclesCounted
  <2>1. 0 % U32 = 0 /\ 0 % HK_PERIOD = 0
    BY TimeAssumption, HkPeriodAssumption
  <2>2. QED
    BY <2>1, PowerOn DEF Init, HalInit, CyclesCounted
<1>4. QED
  BY <1>1, <1>2, <1>3, CountedStep, PTL DEF CountedSpec

\* No essential housekeeping report in the queue shows the heater on in SAFE mode,
\* periodic or one-shot, however long ago svc03_generate took the snapshot.
THEOREM HousekeepingIsCoherent == Spec => []HousekeepingCoherent
<1>1. TelemetryOK => HousekeepingCoherent
  BY DEF TelemetryOK
<1>2. QED
  BY <1>1, ImplementsOpenSpec, OpenInvariant, PTL

\* obc_process_tc never gets PUS_ERR_QUEUE_FULL through to the ground: the reports
\* that would carry it are dropped by the queue that caused it.
THEOREM QueueFullStaysOnBoard == Spec => []QueueFullIsNeverReported
<1>1. TelemetryOK => QueueFullIsNeverReported
  BY DEF TelemetryOK
<1>2. QED
  BY <1>1, ImplementsOpenSpec, OpenInvariant, PTL

\* Diagnostic housekeeping tells the queue as it was before the report, for every
\* depth the single octet of the queue count can express (PUS_TM_QUEUE_DEPTH is 16).
THEOREM DiagnosticsAreHonest ==
  ASSUME DEPTH <= 256
  PROVE  Spec => []DiagnosticReportHonest
<1>1. TelemetryOK => DiagnosticReportHonest
  BY DEF TelemetryOK
<1>2. QED
  BY <1>1, ImplementsOpenSpec, OpenInvariant, PTL

-----------------------------------------------------------------------------
(* On-board time *)

\* The milliseconds, seconds and fine units elapsed since the epoch.
LEMMA ElapsedTypes ==
  ASSUME NEW t \in 0 .. U32 - 1
  PROVE  /\ ElapsedMs(t) \in 0 .. U32 - 1 /\ ElapsedSeconds(t) \in Nat
         /\ ElapsedFine(t) \in 0 .. FINE - 1
<1> USE TimeAssumption
<1> DEFINE ms == ElapsedMs(t)
           r == ms % MS_PER_S
<1>1. ms \in 0 .. U32 - 1
  BY ModuloBound, t * TICK_MS \in Int DEF ElapsedMs
<1> HIDE DEF ms
<1>2. ms \div MS_PER_S \in Nat
  <2>1. ms < MS_PER_S * U32
    <3>1. PICK k \in Nat : MS_PER_S = k + 1
      BY MS_PER_S - 1 \in Nat
    <3>2. MS_PER_S * U32 = k * U32 + U32 /\ k * U32 \in Nat
      BY <3>1
    <3>3. QED
      BY <1>1, <3>2
  <2>2. ms \in Int /\ 0 <= ms /\ U32 \in Nat
    BY <1>1
  <2>3. ms \div MS_PER_S \in 0 .. U32 - 1
    BY <2>1, <2>2, QuotientBound
  <2>4. QED
    BY <2>3
<1>3. r \in Int /\ 0 <= r /\ r < MS_PER_S
  <2>1. r \in 0 .. MS_PER_S - 1
    BY <1>1, ModuloBound
  <2>2. QED
    BY <2>1
<1> HIDE DEF r
<1>4. (r * FINE) \div MS_PER_S \in 0 .. FINE - 1
  <2>1. PICK k \in Nat : MS_PER_S = r + k + 1
    BY <1>3, MS_PER_S - r - 1 \in Nat
  <2>2. MS_PER_S * FINE = r * FINE + k * FINE + FINE /\ k * FINE \in Nat /\ r * FINE \in Nat
    BY <1>3, <2>1
  <2>3. r * FINE \in Int /\ 0 <= r * FINE /\ r * FINE < MS_PER_S * FINE
    BY <2>2
  <2> DEFINE a == r * FINE
  <2>4. a \in Int /\ 0 <= a /\ a < MS_PER_S * FINE
    BY <2>3
  <2> HIDE DEF a
  <2>5. a \div MS_PER_S \in 0 .. FINE - 1
    BY <2>4, QuotientBound
  <2>6. QED
    BY <2>5 DEF a
<1>5. QED
  BY <1>1, <1>2, <1>4 DEF ms, r, ElapsedSeconds, ElapsedFine

\* What is read after the time was set to c and f, E whole seconds and F fine units
\* after the epoch.
LEMMA FineReadsBack ==
  ASSUME NEW f \in 0 .. FINE - 1, NEW F \in 0 .. FINE - 1
  PROVE  /\ (((f - F) % FINE) + F) % FINE = f
         /\ (((f - F) % FINE) + F) \div FINE = IF f >= F THEN 0 ELSE 1
<1> USE TimeAssumption
<1> DEFINE d == f - F
           e == d % FINE
<1>1. d \in Int /\ f \in Int /\ 0 <= f /\ f < FINE /\ F \in Int
  OBVIOUS
<1>2. (e + F) % FINE = f
  <2>1. (e + F) % FINE = (d + F) % FINE
    BY <1>1, AddToRemainder
  <2>2. d + F = f
    OBVIOUS
  <2>3. f % FINE = f
    BY <1>1, SmallRemainder
  <2>4. QED
    BY <2>1, <2>2, <2>3
<1>3. (e + F) \div FINE = IF f >= F THEN 0 ELSE 1
  <2>1. e \in 0 .. FINE - 1
    BY <1>1, ModuloBound
  <2> DEFINE q == (e + F) \div FINE
             b == IF f >= F THEN 0 ELSE 1
  <2> HIDE DEF e
  <2>2. q \in Int /\ e + F = FINE * q + f
    <3> DEFINE x == e + F
    <3>1. x \in Int
      BY <2>1
    <3> HIDE DEF x
    <3>2. x \div FINE \in Int /\ x = FINE * (x \div FINE) + (x % FINE)
      BY <3>1, Division
    <3>3. QED
      BY <1>2, <3>2 DEF x
  <2>3. e = d + FINE * b
    <3>1. CASE f >= F
      <4>1. d \in Int /\ 0 <= d /\ d < FINE
        BY <3>1
      <4>2. e = d
        BY <4>1, SmallRemainder DEF e
      <4>3. QED
        BY <4>1, <4>2, <3>1
    <3>2. CASE ~(f >= F)
      <4> DEFINE g == d + FINE
                 k == 1
      <4>1. g \in Int /\ 0 <= g /\ g < FINE /\ k \in Int /\ g = d + FINE * k
        BY <3>2
      <4> HIDE DEF g, d, k
      <4>2. g % FINE = d % FINE
        BY <4>1, <1>1, SameRemainder
      <4>3. g % FINE = g
        BY <4>1, SmallRemainder
      <4>4. QED
        BY <4>1, <4>2, <4>3, <3>2 DEF e, k
    <3>3. QED
      BY <3>1, <3>2
  <2>4. FINE * q = FINE * b /\ b \in Int
    BY <2>2, <2>3, <2>1
  <2>5. q = b
    <3> HIDE DEF q, b
    <3>1. q < b => FALSE
      <4>1. SUFFICES ASSUME q < b PROVE FALSE
        OBVIOUS
      <4>2. PICK k \in Nat : b = q + 1 + k
        BY <2>2, <2>4, <4>1, b - q - 1 \in Nat
      <4>3. FINE * b = FINE * q + FINE + FINE * k /\ FINE * k \in Nat /\ FINE * q \in Int
        BY <2>2, <4>2
      <4>4. QED
        BY <2>4, <4>3
    <3>2. b < q => FALSE
      <4>1. SUFFICES ASSUME b < q PROVE FALSE
        OBVIOUS
      <4>2. PICK k \in Nat : q = b + 1 + k
        BY <2>2, <2>4, <4>1, q - b - 1 \in Nat
      <4>3. FINE * q = FINE * b + FINE + FINE * k /\ FINE * k \in Nat /\ FINE * b \in Int
        BY <2>4, <4>2
      <4>4. QED
        BY <2>4, <4>3
    <3>3. QED
      BY <2>2, <2>4, <3>1, <3>2
  <2>6. QED
    BY <2>5 DEF e
<1>4. QED
  BY <1>2, <1>3

LEMMA CoarseReadsBack ==
  ASSUME NEW c \in 0 .. U32 - 1, NEW E \in Nat, NEW b \in 0 .. 1
  PROVE  (((c - E) % U32) + E + b) % U32 = (c + b) % U32
<1> USE TimeAssumption
<1> DEFINE d == c - E
           e == E + b
           r == d % U32
<1>1. d \in Int /\ e \in Int /\ d + e = c + b
  OBVIOUS
<1>2. r \in Int
  BY <1>1, ModuloBound
<1>3. r + E + b = r + e
  BY <1>2
<1> HIDE DEF e, d
<1>4. (r + e) % U32 = (d + e) % U32
  BY <1>1, AddToRemainder
<1>5. QED
  BY <1>1, <1>3, <1>4 DEF d

LEMMA TimeReadsBack ==
  ASSUME HalTypeOK, NEW c \in CucTimes
  PROVE  ReadsBack(c)
<1> DEFINE E == ElapsedSeconds(ticks)
           F == ElapsedFine(ticks)
<1>1. SUFFICES ASSUME hal_set_cuc_time(c.coarse, c.fine)
      PROVE  /\ Now'.fine = c.fine
             /\ Now'.coarse = (c.coarse + MissingBorrow(c.fine)) % U32
  BY DEF ReadsBack
<1>2. ticks' = ticks /\ epoch_coarse' = (c.coarse - E) % U32 /\ epoch_fine' = (c.fine - F) % FINE
  BY <1>1 DEF hal_set_cuc_time
<1>3. /\ Now'.fine = (epoch_fine' + F) % FINE
      /\ Now'.coarse = (epoch_coarse' + E + (epoch_fine' + F) \div FINE) % U32
  BY <1>2 DEF Now, hal_get_cuc_time, ElapsedSeconds, ElapsedFine, ElapsedMs
<1>4. E \in Nat /\ F \in 0 .. FINE - 1 /\ c.coarse \in 0 .. U32 - 1 /\ c.fine \in 0 .. FINE - 1
  BY ElapsedTypes DEF HalTypeOK, CucTimes
<1>5. MissingBorrow(c.fine) = (IF c.fine >= F THEN 0 ELSE 1) /\ MissingBorrow(c.fine) \in 0 .. 1
  BY DEF MissingBorrow
<1> HIDE DEF E, F
<1>6. /\ (epoch_fine' + F) % FINE = c.fine
      /\ (epoch_fine' + F) \div FINE = MissingBorrow(c.fine)
  BY <1>2, <1>4, <1>5, FineReadsBack
<1>7. (epoch_coarse' + E + MissingBorrow(c.fine)) % U32 = (c.coarse + MissingBorrow(c.fine)) % U32
  BY <1>2, <1>4, <1>5, CoarseReadsBack
<1>8. QED
  BY <1>3, <1>6, <1>7

-----------------------------------------------------------------------------
\* Fine units elapsed since the epoch: the milliseconds, rounded down.
FineSince(t) == ElapsedSeconds(t) * FINE + ElapsedFine(t)

LEMMA FineSinceRounds ==
  ASSUME NEW t \in 0 .. U32 - 1
  PROVE  /\ FineSince(t) \in Nat
         /\ \E g \in 0 .. MS_PER_S - 1 : MS_PER_S * FineSince(t) + g = ElapsedMs(t) * FINE
<1> USE TimeAssumption
<1> DEFINE ms == ElapsedMs(t)
           S == ms \div MS_PER_S
           r == ms % MS_PER_S
           a == r * FINE
           F == a \div MS_PER_S
           g == a % MS_PER_S
<1>1. ms \in Int /\ ElapsedSeconds(t) \in Nat /\ ElapsedFine(t) \in Nat
  BY ElapsedTypes
<1>2. FineSince(t) = S * FINE + F /\ S \in Nat /\ F \in Nat
  BY <1>1 DEF FineSince, ElapsedSeconds, ElapsedFine
<1> HIDE DEF ms
<1>3. r \in Int /\ ms = MS_PER_S * S + r
  BY <1>1, Division
<1> HIDE DEF S, r
<1>4. a \in Int
  BY <1>3
<1> HIDE DEF a
<1>5. g \in Int /\ a = MS_PER_S * F + g /\ 0 <= g /\ g < MS_PER_S
  BY <1>4, Division
<1> HIDE DEF F, g
<1>6. g \in 0 .. MS_PER_S - 1
  BY <1>5
<1>7. S * FINE \in Nat /\ S * FINE + F \in Nat
  BY <1>2
<1>8. MS_PER_S * (S * FINE + F) + g = ms * FINE
  <2>1. ms * FINE = (MS_PER_S * S) * FINE + r * FINE
    BY <1>1, <1>2, <1>3
  <2>2. MS_PER_S * (S * FINE + F) = (MS_PER_S * S) * FINE + MS_PER_S * F
    BY <1>2
  <2>3. QED
    BY <1>2, <1>3, <1>5, <2>1, <2>2 DEF a
<1>9. QED
  BY <1>2, <1>6, <1>7, <1>8 DEF ms

\* On-board time is the epoch plus the fine units elapsed, modulo the range of a time.
LEMMA InstantForm ==
  ASSUME NEW t \in 0 .. U32 - 1, NEW ec \in 0 .. U32 - 1, NEW ef \in 0 .. FINE - 1
  PROVE  \E j \in Int : Instant(hal_get_cuc_time(t, ec, ef))
                          = ec * FINE + ef + FineSince(t) + (U32 * FINE) * j
<1> USE TimeAssumption
<1> DEFINE E == ElapsedSeconds(t)
           F == ElapsedFine(t)
           total == ef + F
           k == total \div FINE
           f == total % FINE
           w == ec + E + k
           q == w \div U32
           c == w % U32
<1>1. E \in Nat /\ F \in Nat /\ total \in Int
  BY ElapsedTypes
<1>2. /\ Instant(hal_get_cuc_time(t, ec, ef)) = c * FINE + f
      /\ FineSince(t) = E * FINE + F
  BY DEF Instant, hal_get_cuc_time, FineSince
<1> HIDE DEF E, F
<1>3. total = ef + F
  OBVIOUS
<1> HIDE DEF total
<1>4. k \in Int /\ f \in Int /\ total = FINE * k + f
  BY <1>1, Division
<1> HIDE DEF k, f
<1>5. w \in Int /\ w = ec + E + k
  BY <1>1, <1>4
<1> HIDE DEF w
<1>6. q \in Int /\ c \in Int /\ w = U32 * q + c
  BY <1>5, Division
<1> HIDE DEF q, c
<1>7. c * FINE + f = ec * FINE + ef + (E * FINE + F) + (U32 * FINE) * (-q)
  <2>1. c = ec + E + k - U32 * q
    BY <1>1, <1>4, <1>5, <1>6
  <2>2. c * FINE = ec * FINE + E * FINE + k * FINE - (U32 * FINE) * q
    BY <1>1, <1>4, <1>6, <2>1
  <2>3. f = ef + F - k * FINE
    BY <1>1, <1>3, <1>4
  <2>4. (U32 * FINE) * (-q) = -((U32 * FINE) * q)
    BY <1>6
  <2>5. QED
    BY <1>1, <1>4, <1>6, <2>2, <2>3, <2>4
<1>8. -q \in Int
  BY <1>6
<1>9. QED
  BY <1>2, <1>7, <1>8

\* The milliseconds follow the tick counter across its own wrap.
LEMMA NextElapsedMs ==
  ASSUME NEW t \in 0 .. U32 - 1, ElapsedMs(t) + TICK_MS < U32
  PROVE  ElapsedMs((t + 1) % U32) = ElapsedMs(t) + TICK_MS
<1> USE TimeAssumption
<1> DEFINE x == t * TICK_MS
           ms == x % U32
           n == t + 1
           j == n \div U32
           s == n % U32
           y == s * TICK_MS
           z == x + TICK_MS
           k == -(j * TICK_MS)
           e == ms + TICK_MS
<1>1. x \in Int /\ n \in Int
  OBVIOUS
<1>2. ms \in 0 .. U32 - 1 /\ ElapsedMs(t) = ms
  BY <1>1, ModuloBound DEF ElapsedMs
<1>3. j \in Int /\ s \in Int /\ n = U32 * j + s
  <2>1. n \in Int /\ U32 \in Nat \ {0}
    OBVIOUS
  <2> HIDE DEF n
  <2>2. QED
    BY ONLY <2>1, Division
<1>4. ElapsedMs((t + 1) % U32) = y % U32
  BY DEF ElapsedMs
<1>5. y \in Int /\ z \in Int /\ k \in Int /\ y = z + U32 * k
  <2> HIDE DEF j, s
  <2>1. s = t + 1 - U32 * j
    BY <1>3
  <2>2. y = t * TICK_MS + TICK_MS - (U32 * j) * TICK_MS
    BY <1>3, <2>1
  <2>3. U32 * k = -((U32 * j) * TICK_MS)
    BY <1>3
  <2>4. y \in Int /\ z \in Int /\ k \in Int /\ (U32 * j) * TICK_MS \in Int /\ x \in Int
    BY <1>3
  <2>5. QED
    BY <2>2, <2>3, <2>4
<1> HIDE DEF y, k
<1>6. y % U32 = z % U32
  <2> HIDE DEF z
  <2>1. QED
    BY <1>5, SameRemainder
<1>7. (ms + TICK_MS) % U32 = z % U32
  <2>1. x \in Int /\ TICK_MS \in Int /\ U32 \in Nat \ {0}
    OBVIOUS
  <2> HIDE DEF x
  <2>2. ((x % U32) + TICK_MS) % U32 = (x + TICK_MS) % U32
    BY ONLY <2>1, AddToRemainder
  <2>3. QED
    BY <2>2
<1>8. e \in Int /\ 0 <= e /\ e < U32
  BY <1>2
<1> HIDE DEF e, ms
<1>9. e % U32 = e
  BY <1>8, SmallRemainder
<1>10. QED
  BY <1>2, <1>4, <1>6, <1>7, <1>9 DEF e

\* The fine units of one minor cycle: TICK_MS to within the unit the divisions round,
\* and less than the range of a time.
LEMMA FineOfOneTick ==
  ASSUME NEW t \in 0 .. U32 - 1, NEW u \in 0 .. U32 - 1, ElapsedMs(u) = ElapsedMs(t) + TICK_MS
  PROVE  /\ FineSince(u) - FineSince(t) \in 0 .. U32 * FINE - 1
         /\ (FineSince(u) - FineSince(t)) * MS_PER_S
              \in (TICK_MS * FINE - MS_PER_S) .. (TICK_MS * FINE + MS_PER_S)
<1> USE TimeAssumption
<1> DEFINE G == FineSince(t)
           H == FineSince(u)
           ms == ElapsedMs(t)
           D == H - G
           w == TICK_MS * FINE
           p == D * MS_PER_S
<1>1. G \in Nat /\ H \in Nat /\ ms \in 0 .. U32 - 1 /\ ElapsedMs(u) \in 0 .. U32 - 1
  BY FineSinceRounds, ElapsedTypes
<1>2. PICK g \in 0 .. MS_PER_S - 1 : MS_PER_S * G + g = ms * FINE
  BY FineSinceRounds
<1>3. PICK h \in 0 .. MS_PER_S - 1 : MS_PER_S * H + h = ElapsedMs(u) * FINE
  BY FineSinceRounds
<1> HIDE DEF G, H
<1>4. ElapsedMs(u) * FINE = ms * FINE + w
  BY <1>1
<1>5. ms * FINE \in Int /\ w \in Nat /\ MS_PER_S * G \in Int /\ MS_PER_S * H \in Int
      /\ D \in Int /\ p \in Int /\ p = MS_PER_S * H - MS_PER_S * G
  BY <1>1 DEF ms
<1>6. p = w + g - h
  <2> HIDE DEF p, w, ms
  <2>1. QED
    BY <1>2, <1>3, <1>4, <1>5
<1>7. p \in (w - MS_PER_S) .. (w + MS_PER_S) /\ p > -MS_PER_S
  <2> HIDE DEF p, w
  <2>1. QED
    BY <1>5, <1>6
<1>8. D >= 0
  <2> HIDE DEF D
  <2>1. SUFFICES ASSUME D < 0 PROVE FALSE
    BY <1>5
  <2>2. PICK k \in Nat : D = -1 - k
    BY <1>5, <2>1, -1 - D \in Nat
  <2>3. p = -MS_PER_S - k * MS_PER_S /\ k * MS_PER_S \in Nat
    BY <2>2
  <2>4. QED
    BY <1>7, <2>3
<1>9. H < U32 * FINE
  <2> DEFINE v == ElapsedMs(u)
             R == U32 * FINE
  <2>1. R \in Nat /\ v * FINE <= R
    <3>1. v \in Nat /\ U32 - v \in Nat
      BY <1>1
    <3> HIDE DEF v
    <3>2. (U32 - v) * FINE \in Nat /\ v * FINE \in Nat /\ R \in Nat
      BY <3>1
    <3>3. R = v * FINE + (U32 - v) * FINE
      BY <3>1
    <3>4. QED
      BY <3>2, <3>3
  <2>2. v * FINE < MS_PER_S * R
    <3>1. v * FINE \in Int /\ v * FINE < R
      <4>1. v \in Nat /\ U32 - v - 1 \in Nat
        BY <1>1
      <4> HIDE DEF v
      <4>2. (U32 - v - 1) * FINE \in Nat /\ v * FINE \in Nat
        BY <4>1
      <4>3. R = v * FINE + (U32 - v - 1) * FINE + FINE
        BY <4>1
      <4>4. QED
        BY <2>1, <4>2, <4>3
    <3>2. PICK k \in Nat : MS_PER_S = k + 1
      BY MS_PER_S - 1 \in Nat
    <3> HIDE DEF R
    <3>3. MS_PER_S * R = k * R + R /\ k * R \in Nat
      BY <2>1, <3>2
    <3>4. QED
      BY <2>1, <3>1, <3>3
  <2> HIDE DEF R
  <2>3. SUFFICES ASSUME R <= H PROVE FALSE
    BY <1>1, <2>1 DEF R
  <2>4. PICK k \in Nat : H = R + k
    BY <1>1, <2>1, <2>3, H - R \in Nat
  <2>5. MS_PER_S * H = MS_PER_S * R + MS_PER_S * k /\ MS_PER_S * k \in Nat /\ MS_PER_S * R \in Int
    BY <2>1, <2>4
  <2>6. v * FINE \in Int
    BY <1>1
  <2> HIDE DEF v
  <2>7. MS_PER_S * H + h = v * FINE
    BY <1>3 DEF v
  <2>8. QED
    BY <1>5, <2>2, <2>5, <2>6, <2>7
<1>10. D \in 0 .. U32 * FINE - 1
  <2>1. U32 * FINE \in Int
    OBVIOUS
  <2>2. QED
    BY <1>1, <1>5, <1>8, <1>9, <2>1
<1>11. QED
  BY <1>7, <1>10 DEF G, H

\* One minor cycle moves on-board time on by the fine units elapsed in it.
LEMMA TimeMovesOn ==
  ASSUME HalTypeOK
  PROVE  OneTickAhead
<1> USE TimeAssumption
<1>1. SUFFICES ASSUME hal_time_advance, ~ElapsedWraps
      PROVE  ((Instant(Now') - Instant(Now)) % (U32 * FINE)) * MS_PER_S
               \in (TICK_MS * FINE - MS_PER_S) .. (TICK_MS * FINE + MS_PER_S)
  BY DEF OneTickAhead
<1> DEFINE t == ticks
           u == (ticks + 1) % U32
           G == FineSince(t)
           H == FineSince(u)
           D == H - G
           M == U32 * FINE
           x == epoch_coarse * FINE + epoch_fine
           d == Instant(Now') - Instant(Now)
<1>2. /\ t \in 0 .. U32 - 1 /\ epoch_coarse \in 0 .. U32 - 1 /\ epoch_fine \in 0 .. FINE - 1
      /\ u \in 0 .. U32 - 1
  <2>1. ticks + 1 \in Int
    BY DEF HalTypeOK
  <2>2. u \in 0 .. U32 - 1
    BY <2>1, ModuloBound
  <2>3. QED
    BY <2>2 DEF HalTypeOK
<1>3. ElapsedMs(u) = ElapsedMs(t) + TICK_MS
  <2>1. ElapsedMs(t) + TICK_MS < U32
    <3>1. ElapsedMs(t) \in 0 .. U32 - 1
      BY <1>2, ElapsedTypes
    <3> HIDE DEF t
    <3>2. QED
      BY <1>1, <3>1 DEF ElapsedWraps, t
  <2>2. QED
    BY <1>2, <2>1, NextElapsedMs
<1>4. Instant(Now') = Instant(hal_get_cuc_time(u, epoch_coarse, epoch_fine))
  BY <1>1 DEF hal_time_advance, Now, Instant, hal_get_cuc_time, ElapsedSeconds, ElapsedFine, ElapsedMs
<1> HIDE DEF u
<1>5. PICK i \in Int : Instant(Now) = epoch_coarse * FINE + epoch_fine + G + M * i
  BY <1>2, InstantForm DEF Now
<1>6. PICK j \in Int : Instant(Now') = epoch_coarse * FINE + epoch_fine + H + M * j
  <2>1. PICK j \in Int : Instant(hal_get_cuc_time(u, epoch_coarse, epoch_fine))
                           = epoch_coarse * FINE + epoch_fine + FineSince(u) + M * j
    BY <1>2, InstantForm
  <2>2. QED
    BY ONLY <1>4, <2>1
<1>7. G \in Nat /\ H \in Nat
  BY <1>2, FineSinceRounds
<1>8. D \in 0 .. M - 1 /\ D * MS_PER_S \in (TICK_MS * FINE - MS_PER_S) .. (TICK_MS * FINE + MS_PER_S)
  BY <1>2, <1>3, FineOfOneTick
<1> HIDE DEF G, H
<1>9. M \in Nat \ {0} /\ x \in Int /\ x = epoch_coarse * FINE + epoch_fine
  BY <1>2
<1> HIDE DEF M, x
<1> DEFINE k == j - i
<1>10. D \in Int /\ k \in Int /\ d \in Int /\ d = D + M * k
  <2>1. Instant(Now) = x + G + M * i /\ Instant(Now') = x + H + M * j
    BY <1>5, <1>6, <1>9
  <2>2. M * k = M * j - M * i /\ M * j \in Int /\ M * i \in Int
    BY <1>9
  <2>3. QED
    BY <1>7, <1>9, <2>1, <2>2
<1> HIDE DEF d, D, k
<1>11. d % M = D % M
  BY <1>9, <1>10, SameRemainder
<1>12. D % M = D
  BY <1>8, <1>9, <1>10, SmallRemainder
<1>13. QED
  BY <1>8, <1>11, <1>12 DEF d, M

\* The statics of the hardware abstraction layer keep to their types under every
\* call the application makes of it: the two counters their 32 bits, the fine
\* epoch its 16, the temperature its 16 signed bits (src/hal_host.c).
THEOREM HalTypes == Spec => []HalTypeOK
<1>1. TypeOK => HalTypeOK
  BY DEF TypeOK
<1>2. QED
  BY <1>1, TypesAreKept, PTL

\* Whenever a telecommand sets the time, what hal_get_cuc_time reports next is the
\* commanded time, or one second more when the commanded fraction precedes the one
\* the tick counter has run into (hal_set_cuc_time of src/hal_host.c): for every
\* tick count, epoch and commanded time, and for the code's widths.
THEOREM CommandedTimeReadsBack == Spec => SetTimeReadsBack
<1>1. HalTypeOK => \A c \in CucTimes : ReadsBack(c)
  BY TimeReadsBack
<1>2. QED
  BY <1>1, HalTypes, PTL DEF SetTimeReadsBack

\* One minor cycle moves on-board time on by its length, to within one fine unit,
\* from every epoch a telecommand can have set and across every carry and wrap but
\* the one of the millisecond product (hal_time_advance, hal_get_cuc_time).
THEOREM TimeAdvances == Spec => TimeAdvancesByOneTick
<1>1. HalTypeOK => OneTickAhead
  BY TimeMovesOn
<1>2. QED
  BY <1>1, HalTypes, PTL DEF TimeAdvancesByOneTick

-----------------------------------------------------------------------------
(* The ground segment *)

\* Every step of the observed application is a call of the application.
LEMMA ObservedStep == [GNext]_g_vars => [Call(ReceivableTc)]_vars
<1>1. GNext => Call(ReceivableTc)
  BY TelecommandAssumption DEF GNext, GProcessTc, GTick, GReceive, GReconnect, Call
<1>2. QED
  BY <1>1 DEF g_vars

LEMMA ObservedInvariant == GSpec => []IInv
<1>1. GInit => Init
  BY DEF GInit
<1>2. QED
  BY <1>1, ObservedStep, InitIInv, CallIInv, PTL DEF GSpec

-----------------------------------------------------------------------------
(* What the ground hears *)

IsHeard(f, g, s, n) == f = [i \in 0 .. n |-> IF i = 0 THEN g ELSE Learn(f[i - 1], s[i])]

LEMMA HeardExists == ASSUME NEW g, NEW s PROVE \A n \in Nat : \E f : IsHeard(f, g, s, n)
<1> DEFINE T == {n \in Nat : \E f : IsHeard(f, g, s, n)}
<1>1. 0 \in T
  <2> DEFINE f == [i \in 0 .. 0 |-> g]
  <2>1. \A i \in 0 .. 0 : i = 0
    OBVIOUS
  <2>2. IsHeard(f, g, s, 0)
    BY <2>1 DEF IsHeard
  <2>3. QED
    BY <2>2
<1>2. ASSUME NEW n \in Nat, n \in T PROVE n + 1 \in T
  <2>1. PICK f : IsHeard(f, g, s, n)
    BY <1>2
  <2> DEFINE last == Learn(f[n], s[n + 1])
             h == [i \in 0 .. n + 1 |-> IF i <= n THEN f[i] ELSE last]
  <2>2. \A i \in 0 .. n : f[i] = IF i = 0 THEN g ELSE Learn(f[i - 1], s[i])
    BY <2>1 DEF IsHeard
  <2>3. ASSUME NEW i \in 0 .. n + 1
        PROVE  h[i] = IF i = 0 THEN g ELSE Learn(h[i - 1], s[i])
    <3>1. CASE i <= n
      <4>1. h[i] = f[i] /\ i \in 0 .. n /\ (i # 0 => h[i - 1] = f[i - 1])
        BY <3>1
      <4>2. QED
        BY <2>2, <4>1
    <3>2. CASE ~(i <= n)
      <4>1. i = n + 1 /\ i # 0 /\ h[i] = last /\ h[i - 1] = f[n]
        BY <3>2
      <4>2. QED
        BY <4>1
    <3>3. QED
      BY <3>1, <3>2
  <2>4. IsHeard(h, g, s, n + 1)
    <3>1. h = [i \in 0 .. n + 1 |-> h[i]]
      OBVIOUS
    <3> HIDE DEF h
    <3>2. QED
      BY <2>3, <3>1 DEF IsHeard
  <2>5. QED
    BY <2>4
<1> HIDE DEF T
<1>3. \A n \in Nat : n \in T
  BY <1>1, <1>2, SetInduction
<1>4. QED
  BY <1>3 DEF T

LEMMA HeardFirst == ASSUME NEW g, NEW s, Len(s) \in Nat PROVE Heard(g, s)[0] = g
<1>1. \E f : IsHeard(f, g, s, Len(s))
  BY HeardExists
<1>2. Heard(g, s) = CHOOSE f : IsHeard(f, g, s, Len(s))
  BY DEF Heard, IsHeard
<1>3. IsHeard(Heard(g, s), g, s, Len(s))
  BY <1>1, <1>2
<1>4. 0 \in 0 .. Len(s)
  OBVIOUS
<1>5. QED
  BY <1>3, <1>4 DEF IsHeard

LEMMA HeardNext ==
  ASSUME NEW g, NEW s, Len(s) \in Nat, NEW i \in Nat, NEW j, j = i + 1, j <= Len(s)
  PROVE  Heard(g, s)[j] = Learn(Heard(g, s)[i], s[j])
<1>1. \E f : IsHeard(f, g, s, Len(s))
  BY HeardExists
<1>2. Heard(g, s) = CHOOSE f : IsHeard(f, g, s, Len(s))
  BY DEF Heard, IsHeard
<1>3. IsHeard(Heard(g, s), g, s, Len(s))
  BY <1>1, <1>2
<1>4. j \in 0 .. Len(s) /\ j # 0 /\ j - 1 = i
  OBVIOUS
<1>5. Heard(g, s)[j] = IF j = 0 THEN g ELSE Learn(Heard(g, s)[j - 1], s[j])
  BY <1>3, <1>4 DEF IsHeard
<1>6. QED
  BY <1>4, <1>5

\* Numbering a packet does not change what it tells.
SameNews(p, q) == p.service = q.service /\ p.data = q.data

LEMMA LearnsSame == ASSUME NEW g, NEW p, NEW q, SameNews(p, q) PROVE Learn(g, p) = Learn(g, q)
<1>1. \A id : IsEvent(p, id) <=> IsEvent(q, id)
  BY DEF SameNews, IsEvent
<1>2. p.data = q.data
  BY DEF SameNews
<1>3. QED
  BY <1>1, <1>2 DEF Learn

\* The news of t is the news of a followed by the news of b.
Joins(t, a, b) ==
  /\ Len(a) \in Nat /\ Len(b) \in Nat /\ Len(t) = Len(a) + Len(b)
  /\ \A i \in 1 .. Len(a) : SameNews(t[i], a[i])
  /\ \A j \in 1 .. Len(b) : SameNews(t[Len(a) + j], b[j])

LEMMA HeardPrefix ==
  ASSUME NEW g, NEW t, NEW a, NEW b, Joins(t, a, b)
  PROVE  \A i \in 0 .. Len(a) : Heard(g, t)[i] = Heard(g, a)[i]
<1> DEFINE T == {i \in Nat : i <= Len(a) => Heard(g, t)[i] = Heard(g, a)[i]}
<1>1. /\ Len(a) \in Nat /\ Len(b) \in Nat /\ Len(t) = Len(a) + Len(b) /\ Len(t) \in Nat
  BY DEF Joins
<1>2. 0 \in T
  BY <1>1, HeardFirst
<1>3. ASSUME NEW i \in Nat, i \in T PROVE i + 1 \in T
  <2> SUFFICES ASSUME NEW j, j = i + 1, j <= Len(a) PROVE Heard(g, t)[j] = Heard(g, a)[j]
    OBVIOUS
  <2>1. j \in 1 .. Len(a) /\ j <= Len(t) /\ i <= Len(a)
    BY <1>1
  <2>2. Heard(g, t)[j] = Learn(Heard(g, t)[i], t[j])
    BY <1>1, <2>1, HeardNext
  <2>3. Heard(g, a)[j] = Learn(Heard(g, a)[i], a[j])
    BY <1>1, HeardNext
  <2>4. Heard(g, t)[i] = Heard(g, a)[i]
    BY <1>3, <2>1
  <2>5. SameNews(t[j], a[j])
    BY <2>1 DEF Joins
  <2>6. Learn(Heard(g, a)[i], t[j]) = Learn(Heard(g, a)[i], a[j])
    BY <2>5, LearnsSame
  <2>7. QED
    BY <2>2, <2>3, <2>4, <2>6
<1> HIDE DEF T
<1>4. \A i \in Nat : i \in T
  BY <1>2, <1>3, SetInduction
<1>5. QED
  BY <1>1, <1>4 DEF T

LEMMA HeardJoin ==
  ASSUME NEW g, NEW t, NEW a, NEW b, Joins(t, a, b)
  PROVE  \A j \in 0 .. Len(b) :
           Heard(g, t)[Len(a) + j] = Heard(Heard(g, a)[Len(a)], b)[j]
<1> DEFINE n == Len(a)
           m == Heard(g, a)[n]
           T == {j \in Nat : \A k : k = n + j /\ j <= Len(b) => Heard(g, t)[k] = Heard(m, b)[j]}
<1>1. n \in Nat /\ Len(b) \in Nat /\ Len(t) = n + Len(b) /\ Len(t) \in Nat
  BY DEF Joins
<1>2. Heard(g, t)[n] = m
  <2>1. n \in 0 .. Len(a)
    BY <1>1
  <2>2. QED
    BY <2>1, HeardPrefix
<1>3. Heard(m, b)[0] = m
  BY <1>1, HeardFirst
<1> HIDE DEF m
<1>4. 0 \in T
  BY <1>1, <1>2, <1>3
<1>5. ASSUME NEW j \in Nat, j \in T PROVE j + 1 \in T
  <2>1. ASSUME NEW i, i = j + 1, NEW k, k = n + i, i <= Len(b) PROVE Heard(g, t)[k] = Heard(m, b)[i]
    <3> DEFINE k0 == n + j
    <3>1. k0 \in Nat /\ k = k0 + 1 /\ k <= Len(t) /\ j <= Len(b) /\ i \in 1 .. Len(b)
      BY <1>1, <2>1
    <3>2. Heard(g, t)[k0] = Heard(m, b)[j]
      BY <1>5, <3>1
    <3> HIDE DEF k0
    <3>3. Heard(g, t)[k] = Learn(Heard(g, t)[k0], t[k])
      BY <1>1, <3>1, HeardNext
    <3>4. Heard(m, b)[i] = Learn(Heard(m, b)[j], b[i])
      BY <1>1, <2>1, HeardNext
    <3>5. SameNews(t[k], b[i])
      BY <2>1, <3>1 DEF Joins
    <3>6. Learn(Heard(m, b)[j], t[k]) = Learn(Heard(m, b)[j], b[i])
      BY <3>5, LearnsSame
    <3>7. QED
      BY <3>2, <3>3, <3>4, <3>6
  <2>2. j + 1 \in Nat
    OBVIOUS
  <2>3. QED
    BY <2>1, <2>2, Zenon
<1> HIDE DEF T
<1>6. \A j \in Nat : j \in T
  BY <1>4, <1>5, SetInduction
<1>7. \A j \in 0 .. Len(b) : Heard(g, t)[n + j] = Heard(m, b)[j]
  BY <1>1, <1>6 DEF T
<1>8. QED
  BY <1>7 DEF m

-----------------------------------------------------------------------------
(* What a burst of telemetry does to the ground's knowledge *)

IsKnowledge(g) == g = [mode |-> g.mode, heater |-> g.heater, overflow |-> g.overflow]

\* A packet that tells nothing of the mode, the heater or the overflow count.
Quiet(p) == /\ ~IsEvent(p, OBC_EVT_BOOT_COMPLETED) /\ ~IsEvent(p, OBC_EVT_MODE_CHANGED)
            /\ ~IsEvent(p, OBC_EVT_HEATER_SWITCHED) /\ ~IsEvent(p, OBC_EVT_TM_QUEUE_OVERFLOW)

LEMMA QuietLearn == ASSUME NEW g, NEW p, Quiet(p) PROVE Learn(g, p) = g
  BY DEF Quiet, Learn


LEMMA LearnEvents ==
  ASSUME NEW g, NEW p, IsKnowledge(g)
  PROVE  /\ IsKnowledge(Learn(g, p))
         /\ IsEvent(p, OBC_EVT_BOOT_COMPLETED) => Learn(g, p) = AfterBoot
         /\ IsEvent(p, OBC_EVT_MODE_CHANGED) =>
              /\ Learn(g, p).mode = p.data[2]
              /\ Learn(g, p).heater = g.heater /\ Learn(g, p).overflow = g.overflow
         /\ IsEvent(p, OBC_EVT_HEATER_SWITCHED) =>
              /\ Learn(g, p).heater = p.data[2]
              /\ Learn(g, p).mode = g.mode /\ Learn(g, p).overflow = g.overflow
         /\ IsEvent(p, OBC_EVT_TM_QUEUE_OVERFLOW) =>
              /\ Learn(g, p).overflow = p.data[2]
              /\ Learn(g, p).mode = g.mode /\ Learn(g, p).heater = g.heater
<1>1. /\ OBC_EVT_BOOT_COMPLETED = 1 /\ OBC_EVT_MODE_CHANGED = 2 /\ OBC_EVT_HEATER_SWITCHED = 5
      /\ OBC_EVT_TM_QUEUE_OVERFLOW = 4
  BY DEF OBC_EVT_BOOT_COMPLETED, OBC_EVT_MODE_CHANGED, OBC_EVT_HEATER_SWITCHED,
         OBC_EVT_TM_QUEUE_OVERFLOW
<1>2. PICK m, h, o : g = [mode |-> m, heater |-> h, overflow |-> o]
  BY DEF IsKnowledge
<1>3. CASE IsEvent(p, OBC_EVT_BOOT_COMPLETED)
  <2>1. p.data[1] = 1
    BY <1>1, <1>3 DEF IsEvent
  <2>2. Learn(g, p) = AfterBoot
    BY <1>1, <1>3, <2>1 DEF Learn, IsEvent
  <2>3. IsKnowledge(AfterBoot)
    BY DEF AfterBoot, IsKnowledge
  <2>4. QED
    BY <1>1, <2>1, <2>2, <2>3 DEF IsEvent
<1>4. CASE IsEvent(p, OBC_EVT_MODE_CHANGED)
  <2>1. p.data[1] = 2
    BY <1>1, <1>4 DEF IsEvent
  <2>2. Learn(g, p) = [g EXCEPT !.mode = p.data[2]]
    BY <1>1, <1>4, <2>1 DEF Learn, IsEvent
  <2>3. Learn(g, p) = [mode |-> p.data[2], heater |-> h, overflow |-> o]
    BY <1>2, <2>2
  <2>4. /\ Learn(g, p).mode = p.data[2] /\ Learn(g, p).heater = g.heater
        /\ Learn(g, p).overflow = g.overflow /\ IsKnowledge(Learn(g, p))
    BY <1>2, <2>3 DEF IsKnowledge
  <2>5. QED
    BY <1>1, <2>1, <2>4 DEF IsEvent
<1>5. CASE IsEvent(p, OBC_EVT_HEATER_SWITCHED)
  <2>1. p.data[1] = 5
    BY <1>1, <1>5 DEF IsEvent
  <2>2. Learn(g, p) = [g EXCEPT !.heater = p.data[2]]
    BY <1>1, <1>5, <2>1 DEF Learn, IsEvent
  <2>3. Learn(g, p) = [mode |-> m, heater |-> p.data[2], overflow |-> o]
    BY <1>2, <2>2
  <2>4. /\ Learn(g, p).heater = p.data[2] /\ Learn(g, p).mode = g.mode
        /\ Learn(g, p).overflow = g.overflow /\ IsKnowledge(Learn(g, p))
    BY <1>2, <2>3 DEF IsKnowledge
  <2>5. QED
    BY <1>1, <2>1, <2>4 DEF IsEvent
<1>6. CASE IsEvent(p, OBC_EVT_TM_QUEUE_OVERFLOW)
  <2>1. p.data[1] = 4
    BY <1>1, <1>6 DEF IsEvent
  <2>2. Learn(g, p) = [g EXCEPT !.overflow = p.data[2]]
    BY <1>1, <1>6, <2>1 DEF Learn, IsEvent
  <2>3. Learn(g, p) = [mode |-> m, heater |-> h, overflow |-> p.data[2]]
    BY <1>2, <2>2
  <2>4. /\ Learn(g, p).overflow = p.data[2] /\ Learn(g, p).mode = g.mode
        /\ Learn(g, p).heater = g.heater /\ IsKnowledge(Learn(g, p))
    BY <1>2, <2>3 DEF IsKnowledge
  <2>5. QED
    BY <1>1, <2>1, <2>4 DEF IsEvent
<1>7. CASE Quiet(p)
  BY <1>7, QuietLearn DEF Quiet
<1>8. QED
  BY <1>3, <1>4, <1>5, <1>6, <1>7 DEF Quiet

-----------------------------------------------------------------------------
(* Bursts one after the other *)

After(g, tm) == Heard(g, tm)[Len(tm)]

\* An essential report shows the mode and the heater line that g has.
IsEssential(p) == p.service = PUS_SERVICE_HOUSEKEEPING /\ p.data[1] = OBC_HK_SID_ESSENTIAL
Matches(p, g) == IsEssential(p) => p.data[2] = g.mode /\ p.data[5] = g.heater

\* Every essential report in tm matches what the ground knows when it arrives.
Agrees(g, tm) ==
  \A j \in Nat : \A i : i = j + 1 /\ i <= Len(tm) => Matches(tm[i], Heard(g, tm)[j])

LEMMA AfterKnows ==
  ASSUME NEW g, IsKnowledge(g), NEW tm, Len(tm) \in Nat PROVE IsKnowledge(After(g, tm))
<1> DEFINE T == {i \in Nat : i <= Len(tm) => IsKnowledge(Heard(g, tm)[i])}
<1>1. 0 \in T
  BY HeardFirst
<1>2. ASSUME NEW i \in Nat, i \in T PROVE i + 1 \in T
  <2> SUFFICES ASSUME NEW j, j = i + 1, j <= Len(tm) PROVE IsKnowledge(Heard(g, tm)[j])
    OBVIOUS
  <2>1. IsKnowledge(Heard(g, tm)[i])
    BY <1>2
  <2>2. Heard(g, tm)[j] = Learn(Heard(g, tm)[i], tm[j])
    BY HeardNext
  <2>3. QED
    BY <2>1, <2>2, LearnEvents
<1> HIDE DEF T
<1>3. \A i \in Nat : i \in T
  BY <1>1, <1>2, SetInduction
<1>4. QED
  BY <1>3 DEF T, After

LEMMA AfterJoin ==
  ASSUME NEW g, NEW t, NEW a, NEW b, Joins(t, a, b)
  PROVE  After(g, t) = After(After(g, a), b)
<1>1. Len(b) \in 0 .. Len(b) /\ Len(t) = Len(a) + Len(b)
  BY DEF Joins
<1>2. QED
  BY <1>1, HeardJoin DEF After

LEMMA SameMatch ==
  ASSUME NEW g, NEW p, NEW q, SameNews(p, q) PROVE Matches(p, g) <=> Matches(q, g)
  BY DEF SameNews, Matches, IsEssential

LEMMA AgreesJoin ==
  ASSUME NEW g, NEW t, NEW a, NEW b, Joins(t, a, b)
  PROVE  Agrees(g, t) <=> Agrees(g, a) /\ Agrees(After(g, a), b)
<1> DEFINE n == Len(a)
           m == After(g, a)
<1>1. n \in Nat /\ Len(b) \in Nat /\ Len(t) = n + Len(b)
  BY DEF Joins
<1>2. ASSUME NEW j \in Nat, NEW i, i = j + 1, i <= n
      PROVE  Matches(t[i], Heard(g, t)[j]) <=> Matches(a[i], Heard(g, a)[j])
  <2>1. i \in 1 .. Len(a) /\ j \in 0 .. Len(a)
    BY <1>1, <1>2
  <2>2. SameNews(t[i], a[i])
    BY <2>1 DEF Joins
  <2>3. Heard(g, t)[j] = Heard(g, a)[j]
    BY <2>1, HeardPrefix
  <2>4. QED
    BY <2>2, <2>3, SameMatch
<1>3. ASSUME NEW j \in Nat, NEW i, i = j + 1, i <= Len(b), NEW k, k = n + j, NEW l, l = k + 1
      PROVE  Matches(t[l], Heard(g, t)[k]) <=> Matches(b[i], Heard(m, b)[j])
  <2>1. i \in 1 .. Len(b) /\ j \in 0 .. Len(b) /\ l = n + i
    BY <1>1, <1>3
  <2>2. SameNews(t[l], b[i])
    BY <2>1 DEF Joins
  <2>3. Heard(g, t)[k] = Heard(m, b)[j]
    BY <1>3, <2>1, HeardJoin DEF After
  <2>4. QED
    BY <2>2, <2>3, SameMatch
<1> HIDE DEF m
<1>4. ASSUME Agrees(g, t) PROVE Agrees(g, a) /\ Agrees(m, b)
  <2>1. ASSUME NEW j \in Nat, NEW i, i = j + 1, i <= Len(a) PROVE Matches(a[i], Heard(g, a)[j])
    <3>1. i <= Len(t)
      BY <1>1, <2>1
    <3>2. QED
      BY <1>2, <1>4, <2>1, <3>1 DEF Agrees
  <2>2. ASSUME NEW j \in Nat, NEW i, i = j + 1, i <= Len(b) PROVE Matches(b[i], Heard(m, b)[j])
    <3> DEFINE k == n + j
               l == k + 1
    <3>1. k \in Nat /\ k = n + j /\ l = k + 1 /\ l <= Len(t)
      BY <1>1, <2>2
    <3> HIDE DEF k, l
    <3>2. Matches(t[l], Heard(g, t)[k])
      BY <1>4, <3>1 DEF Agrees
    <3>3. QED
      BY <1>3, <2>2, <3>1, <3>2
  <2>3. QED
    BY <2>1, <2>2 DEF Agrees
<1>5. ASSUME Agrees(g, a), Agrees(m, b) PROVE Agrees(g, t)
  <2>1. ASSUME NEW k \in Nat, NEW l, l = k + 1, l <= Len(t) PROVE Matches(t[l], Heard(g, t)[k])
    <3>1. CASE l <= n
      BY <1>2, <1>5, <2>1, <3>1 DEF Agrees
    <3>2. CASE ~(l <= n)
      <4> DEFINE j == k - n
                 i == j + 1
      <4>1. j \in Nat /\ i = j + 1 /\ i <= Len(b) /\ k = n + j
        BY <1>1, <2>1, <3>2
      <4> HIDE DEF i, j
      <4>2. Matches(b[i], Heard(m, b)[j])
        BY <1>5, <4>1 DEF Agrees
      <4>3. QED
        BY <1>3, <2>1, <4>1, <4>2
    <3>3. QED
      BY <3>1, <3>2
  <2>2. QED
    BY <2>1 DEF Agrees
<1>6. QED
  BY <1>4, <1>5 DEF m

\* The packets tm take a ground that knows a to knowing b.  The mode and the heater
\* line are known together; the overflow count is known, or not, by itself.
Brings(a, tm, b) ==
  /\ tm \in Seq(TmContent)
  /\ \A g : IsKnowledge(g) =>
       /\ g.overflow = a.overflow => After(g, tm).overflow = b.overflow
       /\ g.mode = a.mode /\ g.heater = a.heater =>
            /\ After(g, tm).mode = b.mode /\ After(g, tm).heater = b.heater
            /\ Agrees(g, tm)

LEMMA ConcatJoins ==
  ASSUME NEW S, NEW a \in Seq(S), NEW b \in Seq(S) PROVE Joins(a \o b, a, b)
<1>1. /\ Len(a \o b) = Len(a) + Len(b)
      /\ \A i \in 1 .. Len(a) + Len(b) : (a \o b)[i] = IF i <= Len(a) THEN a[i] ELSE b[i - Len(a)]
  BY ConcatProperties
<1>2. Len(a) \in Nat /\ Len(b) \in Nat
  BY LenProperties
<1>3. \A i \in 1 .. Len(a) : (a \o b)[i] = a[i]
  BY <1>1, <1>2
<1>4. \A j \in 1 .. Len(b) : (a \o b)[Len(a) + j] = b[j]
  BY <1>1, <1>2
<1>5. QED
  BY <1>1, <1>2, <1>3, <1>4 DEF Joins, SameNews

LEMMA BringsConcat ==
  ASSUME NEW a, NEW b, NEW c, NEW s, NEW t, Brings(a, s, b), Brings(b, t, c)
  PROVE  Brings(a, s \o t, c)
<1>1. s \in Seq(TmContent) /\ t \in Seq(TmContent)
  BY DEF Brings
<1>2. Joins(s \o t, s, t) /\ s \o t \in Seq(TmContent) /\ Len(s) \in Nat
  BY <1>1, ConcatJoins, ConcatProperties, LenProperties
<1>3. ASSUME NEW g, IsKnowledge(g)
      PROVE  /\ g.overflow = a.overflow => After(g, s \o t).overflow = c.overflow
             /\ g.mode = a.mode /\ g.heater = a.heater =>
                  /\ After(g, s \o t).mode = c.mode /\ After(g, s \o t).heater = c.heater
                  /\ Agrees(g, s \o t)
  <2> DEFINE m == After(g, s)
  <2>1. IsKnowledge(m)
    BY <1>2, <1>3, AfterKnows
  <2>2. /\ After(g, s \o t) = After(m, t)
        /\ Agrees(g, s \o t) <=> Agrees(g, s) /\ Agrees(m, t)
    BY <1>2, AfterJoin, AgreesJoin
  <2>3. /\ g.overflow = a.overflow => m.overflow = b.overflow
        /\ g.mode = a.mode /\ g.heater = a.heater =>
             m.mode = b.mode /\ m.heater = b.heater /\ Agrees(g, s)
    BY <1>3 DEF Brings
  <2> HIDE DEF m
  <2>4. /\ m.overflow = b.overflow => After(m, t).overflow = c.overflow
        /\ m.mode = b.mode /\ m.heater = b.heater =>
             After(m, t).mode = c.mode /\ After(m, t).heater = c.heater /\ Agrees(m, t)
    BY <2>1 DEF Brings
  <2>5. QED
    BY <2>2, <2>3, <2>4
<1>4. QED
  BY <1>2, <1>3 DEF Brings

-----------------------------------------------------------------------------
(* Bursts that tell nothing new *)

Calm(a, tm) ==
  tm \in Seq(TmContent) /\ \A i \in 1 .. Len(tm) : Quiet(tm[i]) /\ Matches(tm[i], a)

LEMMA CalmBrings == ASSUME NEW a, NEW tm, Calm(a, tm) PROVE Brings(a, tm, a)
<1>1. tm \in Seq(TmContent) /\ Len(tm) \in Nat
  BY LenProperties DEF Calm
<1>2. ASSUME NEW g PROVE \A i \in Nat : i <= Len(tm) => Heard(g, tm)[i] = g
  <2> DEFINE T == {i \in Nat : i <= Len(tm) => Heard(g, tm)[i] = g}
  <2>1. 0 \in T
    BY <1>1, HeardFirst
  <2>2. ASSUME NEW i \in Nat, i \in T PROVE i + 1 \in T
    <3> SUFFICES ASSUME NEW j, j = i + 1, j <= Len(tm) PROVE Heard(g, tm)[j] = g
      OBVIOUS
    <3>1. Heard(g, tm)[i] = g /\ j \in 1 .. Len(tm)
      BY <1>1, <2>2
    <3>2. Heard(g, tm)[j] = Learn(g, tm[j])
      BY <1>1, <3>1, HeardNext
    <3>3. Quiet(tm[j])
      BY <3>1 DEF Calm
    <3>4. QED
      BY <3>2, <3>3, QuietLearn
  <2> HIDE DEF T
  <2>3. \A i \in Nat : i \in T
    BY <2>1, <2>2, SetInduction
  <2>4. QED
    BY <2>3 DEF T
<1>3. ASSUME NEW g, g.mode = a.mode, g.heater = a.heater PROVE Agrees(g, tm)
  <2>1. ASSUME NEW j \in Nat, NEW i, i = j + 1, i <= Len(tm) PROVE Matches(tm[i], Heard(g, tm)[j])
    <3>1. i \in 1 .. Len(tm) /\ j <= Len(tm)
      BY <1>1, <2>1
    <3>2. Matches(tm[i], a) /\ Heard(g, tm)[j] = g
      BY <1>2, <3>1 DEF Calm
    <3>3. QED
      BY <1>3, <3>2 DEF Matches
  <2>2. QED
    BY <2>1 DEF Agrees
<1>4. \A g : After(g, tm) = g
  BY <1>1, <1>2 DEF After
<1>5. QED
  BY <1>1, <1>3, <1>4 DEF Brings

LEMMA CalmEmpty == ASSUME NEW a PROVE Calm(a, <<>>)
  BY EmptySeq DEF Calm

LEMMA CalmOne ==
  ASSUME NEW a, NEW c \in TmContent, Quiet(c), Matches(c, a) PROVE Calm(a, <<c>>)
<1>1. <<c>> \in Seq(TmContent) /\ Len(<<c>>) = 1 /\ <<c>>[1] = c
  BY Singleton
<1>2. \A i \in 1 .. 1 : i = 1
  OBVIOUS
<1>3. QED
  BY <1>1, <1>2 DEF Calm

\* A report of service 1 or 17.
LEMMA CalmService ==
  ASSUME NEW a, NEW c, c.service \notin {PUS_SERVICE_EVENT, PUS_SERVICE_HOUSEKEEPING}
  PROVE  Quiet(c) /\ Matches(c, a)
  BY DEF Quiet, IsEvent, Matches, IsEssential

LEMMA VerificationCalm ==
  ASSUME NEW a, NEW tc \in RawTc, NEW code \in pus_status_t
  PROVE  /\ Calm(a, svc01_acceptance_success(tc)) /\ Calm(a, svc01_completion_success(tc))
         /\ Calm(a, svc01_completion_failure(tc, code)) /\ Calm(a, svc01_reject_raw(tc, code))
<1>1. ASSUME NEW c, <<c>> \in Seq(TmContent), c.service = PUS_SERVICE_VERIFICATION
      PROVE  Calm(a, <<c>>)
  <2>1. c \in TmContent
    <3>1. Len(<<c>>) = 1 /\ <<c>>[1] = c
      OBVIOUS
    <3>2. QED
      BY <1>1, <3>1, ElementOfSeq
  <2>2. c.service \notin {PUS_SERVICE_EVENT, PUS_SERVICE_HOUSEKEEPING}
    BY <1>1 DEF PUS_SERVICE_EVENT, PUS_SERVICE_HOUSEKEEPING, PUS_SERVICE_VERIFICATION
  <2>3. QED
    BY <2>1, <2>2, CalmService, CalmOne
<1>2. ASSUME NEW st, NEW id, svc01_send_success(st, id) \in Seq(TmContent)
      PROVE  Calm(a, svc01_send_success(st, id))
  BY <1>1, <1>2 DEF svc01_send_success
<1>3. ASSUME NEW st, NEW id, svc01_send_failure(st, id, code) \in Seq(TmContent)
      PROVE  Calm(a, svc01_send_failure(st, id, code))
  BY <1>1, <1>3 DEF svc01_send_failure
<1>4. Calm(a, svc01_acceptance_success(tc))
  BY <1>2, VerificationTypes, CalmEmpty DEF svc01_acceptance_success
<1>5. Calm(a, svc01_completion_success(tc))
  BY <1>2, VerificationTypes, CalmEmpty DEF svc01_completion_success
<1>6. Calm(a, svc01_completion_failure(tc, code))
  BY <1>3, VerificationTypes, CalmEmpty DEF svc01_completion_failure
<1>7. Calm(a, svc01_reject_raw(tc, code))
  BY <1>3, VerificationTypes DEF svc01_reject_raw
<1>8. QED
  BY <1>4, <1>5, <1>6, <1>7

\* The packet of an event that is switched on.
LEMMA EventContent ==
  ASSUME NEW id \in evt_enabled, id \in Nat, NEW severity \in Nat, NEW aux \in Int
  PROVE  \E c \in TmContent :
           /\ svc05_report(id, severity, aux) = <<c>>
           /\ c.service = PUS_SERVICE_EVENT /\ c.data[1] = id /\ c.data[2] = U16(aux)
<1> DEFINE c == [service |-> PUS_SERVICE_EVENT, subtype |-> severity, data |-> <<id, U16(aux)>>]
<1>1. svc05_report(id, severity, aux) = <<c>>
  BY DEF svc05_report
<1>2. U16(aux) \in Nat
  BY DEF U16
<1> HIDE DEF U16
<1>3. <<id, U16(aux)>> \in Seq(Nat)
  BY <1>2
<1>4. c \in TmContent
  BY <1>3 DEF TmContent, TmServices
<1>5. c.service = PUS_SERVICE_EVENT /\ c.data[1] = id /\ c.data[2] = U16(aux)
  OBVIOUS
<1>6. QED
  BY <1>1, <1>4, <1>5

LEMMA EventCalm ==
  ASSUME NEW a, NEW id \in {OBC_EVT_TC_REJECTED, OBC_EVT_TEMP_ALARM},
         NEW severity \in Nat, NEW aux \in Int
  PROVE  Calm(a, svc05_report(id, severity, aux))
<1>1. CASE id \notin evt_enabled
  BY <1>1, CalmEmpty DEF svc05_report
<1>2. CASE id \in evt_enabled
  <2>1. id \in Nat
    BY DEF OBC_EVT_TC_REJECTED, OBC_EVT_TEMP_ALARM
  <2>2. PICK c \in TmContent :
          /\ svc05_report(id, severity, aux) = <<c>>
          /\ c.service = PUS_SERVICE_EVENT /\ c.data[1] = id
    BY <1>2, <2>1, EventContent
  <2>3. Quiet(c)
    BY <2>2 DEF Quiet, IsEvent, OBC_EVT_TC_REJECTED, OBC_EVT_TEMP_ALARM, OBC_EVT_BOOT_COMPLETED,
                OBC_EVT_MODE_CHANGED, OBC_EVT_HEATER_SWITCHED, OBC_EVT_TM_QUEUE_OVERFLOW
  <2>4. Matches(c, a)
    BY <2>2 DEF Matches, IsEssential, PUS_SERVICE_EVENT, PUS_SERVICE_HOUSEKEEPING
  <2>5. QED
    BY <2>2, <2>3, <2>4, CalmOne
<1>3. QED
  BY <1>1, <1>2

-----------------------------------------------------------------------------
(* Events that tell something *)

\* What is to be known of a unit in state s whose overflow count was last reported as o.
Unit(s, o) == [mode |-> s.mode, heater |-> s.heater_on, overflow |-> o]

LEMMA HearOne == ASSUME NEW g, NEW c PROVE After(g, <<c>>) = Learn(g, c)
<1> DEFINE tm == <<c>>
<1>1. Len(tm) = 1 /\ tm[1] = c
  OBVIOUS
<1> HIDE DEF tm
<1>2. Len(tm) \in Nat /\ 1 = 0 + 1 /\ 1 <= Len(tm)
  BY <1>1
<1>3. Heard(g, tm)[1] = Learn(Heard(g, tm)[0], tm[1])
  BY <1>2, HeardNext
<1>4. Heard(g, tm)[0] = g
  BY <1>2, HeardFirst
<1>5. QED
  BY <1>1, <1>3, <1>4 DEF After, tm

LEMMA OneBrings ==
  ASSUME NEW a, NEW b, NEW c \in TmContent, c.service = PUS_SERVICE_EVENT,
         \A g : IsKnowledge(g) =>
           /\ g.overflow = a.overflow => Learn(g, c).overflow = b.overflow
           /\ g.mode = a.mode /\ g.heater = a.heater =>
                Learn(g, c).mode = b.mode /\ Learn(g, c).heater = b.heater
  PROVE  Brings(a, <<c>>, b)
<1>1. <<c>> \in Seq(TmContent) /\ Len(<<c>>) = 1 /\ <<c>>[1] = c
  BY Singleton
<1> DEFINE tm == <<c>>
<1>2. tm \in Seq(TmContent) /\ Len(tm) = 1 /\ tm[1] = c
  BY <1>1
<1> HIDE DEF tm
<1>3. \A g : After(g, tm) = Learn(g, c)
  BY HearOne DEF tm
<1>4. \A g : Agrees(g, tm)
  <2> SUFFICES ASSUME NEW g, NEW j \in Nat, NEW i, i = j + 1, i <= Len(tm)
               PROVE  Matches(tm[i], Heard(g, tm)[j])
    BY DEF Agrees
  <2>1. i = 1
    BY <1>2
  <2>2. QED
    BY <1>2, <2>1 DEF Matches, IsEssential, PUS_SERVICE_EVENT, PUS_SERVICE_HOUSEKEEPING
<1>5. Brings(a, tm, b)
  BY <1>2, <1>3, <1>4 DEF Brings
<1>6. QED
  BY <1>5 DEF tm

LEMMA EventBrings ==
  ASSUME evt_enabled = AllEvents, NEW a, NEW severity \in Nat, NEW aux \in Int
  PROVE  /\ \A b : b.mode = U16(aux) /\ b.heater = a.heater /\ b.overflow = a.overflow
              => Brings(a, svc05_report(OBC_EVT_MODE_CHANGED, severity, aux), b)
         /\ \A b : b.mode = a.mode /\ b.heater = U16(aux) /\ b.overflow = a.overflow
              => Brings(a, svc05_report(OBC_EVT_HEATER_SWITCHED, severity, aux), b)
         /\ \A b : b.mode = a.mode /\ b.heater = a.heater /\ b.overflow = U16(aux)
              => Brings(a, svc05_report(OBC_EVT_TM_QUEUE_OVERFLOW, severity, aux), b)
<1>1. \A id \in {OBC_EVT_MODE_CHANGED, OBC_EVT_HEATER_SWITCHED, OBC_EVT_TM_QUEUE_OVERFLOW} :
        id \in Nat /\ id \in evt_enabled
  BY DEF AllEvents, EventIds, OBC_EVENT_MAX_IDS, OBC_EVT_MODE_CHANGED, OBC_EVT_HEATER_SWITCHED,
         OBC_EVT_TM_QUEUE_OVERFLOW
<1>2. ASSUME NEW id \in {OBC_EVT_MODE_CHANGED, OBC_EVT_HEATER_SWITCHED, OBC_EVT_TM_QUEUE_OVERFLOW}
      PROVE  \E c \in TmContent :
               /\ svc05_report(id, severity, aux) = <<c>> /\ c.service = PUS_SERVICE_EVENT
               /\ IsEvent(c, id) /\ c.data[2] = U16(aux)
  <2>1. id \in Nat /\ id \in evt_enabled
    BY <1>1
  <2>2. PICK c \in TmContent :
          /\ svc05_report(id, severity, aux) = <<c>>
          /\ c.service = PUS_SERVICE_EVENT /\ c.data[1] = id /\ c.data[2] = U16(aux)
    BY <2>1, EventContent, Zenon
  <2>3. IsEvent(c, id)
    BY <2>2 DEF IsEvent
  <2>4. QED
    BY <2>2, <2>3
<1>3. ASSUME NEW b, b.mode = U16(aux), b.heater = a.heater, b.overflow = a.overflow
      PROVE  Brings(a, svc05_report(OBC_EVT_MODE_CHANGED, severity, aux), b)
  <2>1. PICK c \in TmContent :
          /\ svc05_report(OBC_EVT_MODE_CHANGED, severity, aux) = <<c>>
          /\ c.service = PUS_SERVICE_EVENT
          /\ IsEvent(c, OBC_EVT_MODE_CHANGED) /\ c.data[2] = U16(aux)
    BY <1>2
  <2>2. \A g : IsKnowledge(g) =>
          /\ Learn(g, c).mode = U16(aux)
          /\ Learn(g, c).heater = g.heater /\ Learn(g, c).overflow = g.overflow
    BY <2>1, LearnEvents
  <2>3. QED
    BY <1>3, <2>1, <2>2, OneBrings
<1>4. ASSUME NEW b, b.mode = a.mode, b.heater = U16(aux), b.overflow = a.overflow
      PROVE  Brings(a, svc05_report(OBC_EVT_HEATER_SWITCHED, severity, aux), b)
  <2>1. PICK c \in TmContent :
          /\ svc05_report(OBC_EVT_HEATER_SWITCHED, severity, aux) = <<c>>
          /\ c.service = PUS_SERVICE_EVENT
          /\ IsEvent(c, OBC_EVT_HEATER_SWITCHED) /\ c.data[2] = U16(aux)
    BY <1>2
  <2>2. \A g : IsKnowledge(g) =>
          /\ Learn(g, c).heater = U16(aux)
          /\ Learn(g, c).mode = g.mode /\ Learn(g, c).overflow = g.overflow
    BY <2>1, LearnEvents
  <2>3. QED
    BY <1>4, <2>1, <2>2, OneBrings
<1>5. ASSUME NEW b, b.mode = a.mode, b.heater = a.heater, b.overflow = U16(aux)
      PROVE  Brings(a, svc05_report(OBC_EVT_TM_QUEUE_OVERFLOW, severity, aux), b)
  <2>1. PICK c \in TmContent :
          /\ svc05_report(OBC_EVT_TM_QUEUE_OVERFLOW, severity, aux) = <<c>>
          /\ c.service = PUS_SERVICE_EVENT
          /\ IsEvent(c, OBC_EVT_TM_QUEUE_OVERFLOW) /\ c.data[2] = U16(aux)
    BY <1>2
  <2>2. \A g : IsKnowledge(g) =>
          /\ Learn(g, c).overflow = U16(aux)
          /\ Learn(g, c).mode = g.mode /\ Learn(g, c).heater = g.heater
    BY <2>1, LearnEvents
  <2>3. QED
    BY <1>5, <2>1, <2>2, OneBrings
<1>6. QED
  BY <1>3, <1>4, <1>5

-----------------------------------------------------------------------------
(* What the control functions tell *)

LEMMA HeaterBrings ==
  ASSUME evt_enabled = AllEvents, NEW s \in obc_state_t, NEW on \in Flag, NEW o
  PROVE  LET e == obc_apply_heater(s, on) IN Brings(Unit(s, o), e.tm, Unit(e.state, o))
<1> DEFINE e == obc_apply_heater(s, on)
           report == svc05_report(OBC_EVT_HEATER_SWITCHED, PUS_ST05_INFORMATIVE, on)
<1>1. CASE on = s.heater_on
  <2>1. e.state = s /\ e.tm = <<>>
    BY <1>1 DEF obc_apply_heater, NoEffect, Effect
  <2>2. QED
    BY <2>1, CalmEmpty, CalmBrings
<1>2. CASE on # s.heater_on
  <2>1. e.state = [s EXCEPT !.heater_on = on] /\ e.tm = report
    BY <1>2 DEF obc_apply_heater, Effect
  <2>2. e.state.mode = s.mode /\ e.state.heater_on = on
    BY <2>1 DEF obc_state_t
  <2>3. U16(on) = on /\ on \in Int
    BY DEF Flag, PUS_FALSE, PUS_TRUE, U16
  <2> HIDE DEF e
  <2>4. /\ Unit(e.state, o).mode = Unit(s, o).mode /\ Unit(e.state, o).heater = U16(on)
        /\ Unit(e.state, o).overflow = Unit(s, o).overflow
    BY <2>2, <2>3 DEF Unit
  <2>5. Brings(Unit(s, o), report, Unit(e.state, o))
    BY <2>3, <2>4, EventBrings DEF PUS_ST05_INFORMATIVE
  <2>6. QED
    BY <2>1, <2>5 DEF e
<1>3. QED
  BY <1>1, <1>2

LEMMA ModeBrings ==
  ASSUME evt_enabled = AllEvents, NEW s \in obc_state_t, hal_heater \in Flag,
         Interlocked(s, hal_heater), NEW mode \in {OBC_MODE_SAFE, OBC_MODE_NOMINAL}, NEW o
  PROVE  LET e == obc_set_mode(s, mode) IN Brings(Unit(s, o), e.tm, Unit(e.state, o))
<1> DEFINE e == obc_set_mode(s, mode)
           entered == [s EXCEPT !.mode = mode]
           switched == IF mode = OBC_MODE_SAFE THEN obc_apply_heater(entered, PUS_FALSE)
                       ELSE NoEffect(entered)
           report == svc05_report(OBC_EVT_MODE_CHANGED, PUS_ST05_INFORMATIVE, mode)
<1>1. CASE mode = s.mode
  <2>1. e.state = s /\ e.tm = <<>>
    BY <1>1 DEF obc_set_mode, NoEffect, Effect
  <2>2. QED
    BY <2>1, CalmEmpty, CalmBrings
<1>2. CASE mode # s.mode
  <2>1. /\ entered \in obc_state_t /\ entered.heater_on = s.heater_on /\ PUS_FALSE \in Flag
        /\ entered.mode = mode
    BY DEF obc_state_t, Flag
  <2>2. hal_heater = entered.heater_on
    BY <2>1 DEF Interlocked
  <2>3. e = [switched EXCEPT !.tm = switched.tm \o report]
    BY <1>2 DEF obc_set_mode
  <2> HIDE DEF entered
  <2>4. switched \in EffectSet /\ switched.state.mode = mode
    BY <2>1, <2>2, HeaterEffect, NoEffectType
  \* The heater event goes out before the mode event: for the ground the line is off
  \* while the mode is still NOMINAL.
  <2>5. Brings(Unit(s, o), switched.tm, [Unit(switched.state, o) EXCEPT !.mode = s.mode])
    <3>1. CASE mode = OBC_MODE_SAFE
      <4> DEFINE h == obc_apply_heater(entered, PUS_FALSE)
                 line == svc05_report(OBC_EVT_HEATER_SWITCHED, PUS_ST05_INFORMATIVE, PUS_FALSE)
                 b == [Unit(h.state, o) EXCEPT !.mode = s.mode]
      <4>1. h.state.heater_on = PUS_FALSE
        BY <2>1, <2>2, HeaterEffect
      <4>2. h.tm = IF PUS_FALSE = entered.heater_on THEN <<>> ELSE line
        BY DEF obc_apply_heater, NoEffect, Effect
      <4>3. switched = h
        BY <3>1
      <4> HIDE DEF h
      <4>4. b.mode = s.mode /\ b.heater = PUS_FALSE /\ b.overflow = o
        BY <4>1 DEF Unit
      <4>5. Unit(s, o).mode = s.mode /\ Unit(s, o).heater = s.heater_on /\ Unit(s, o).overflow = o
        BY DEF Unit
      <4>6. CASE PUS_FALSE = entered.heater_on
        <5>1. b = Unit(s, o)
          BY <2>1, <4>1, <4>6 DEF Unit
        <5>2. QED
          BY <4>2, <4>3, <4>6, <5>1, CalmEmpty, CalmBrings
      <4>7. CASE PUS_FALSE # entered.heater_on
        <5>1. U16(PUS_FALSE) = PUS_FALSE /\ PUS_FALSE \in Int /\ PUS_ST05_INFORMATIVE \in Nat
          BY DEF U16, PUS_FALSE, PUS_ST05_INFORMATIVE
        <5> HIDE DEF b
        <5>2. Brings(Unit(s, o), line, b)
          BY <4>4, <4>5, <5>1, EventBrings
        <5>3. QED
          BY <4>2, <4>3, <4>7, <5>2 DEF b
      <4>8. QED
        BY <4>6, <4>7
    <3>2. CASE mode # OBC_MODE_SAFE
      <4>1. switched.tm = <<>> /\ switched.state = entered
        BY <3>2 DEF NoEffect, Effect
      <4>2. [Unit(switched.state, o) EXCEPT !.mode = s.mode] = Unit(s, o)
        BY <2>1, <4>1 DEF Unit
      <4>3. QED
        BY <4>1, <4>2, CalmEmpty, CalmBrings
    <3>3. QED
      BY <3>1, <3>2
  <2> HIDE DEF switched, e
  <2>6. e.tm = switched.tm \o report /\ e.state = switched.state
    BY <2>3, <2>4 DEF EffectSet
  <2>7. Brings([Unit(switched.state, o) EXCEPT !.mode = s.mode], report, Unit(e.state, o))
    <3> DEFINE a == [Unit(switched.state, o) EXCEPT !.mode = s.mode]
               b == Unit(e.state, o)
    <3>1. a.heater = switched.state.heater_on /\ a.overflow = o
      BY DEF Unit
    <3>2. b.mode = mode /\ b.heater = switched.state.heater_on /\ b.overflow = o
      BY <2>4, <2>6 DEF Unit
    <3>3. U16(mode) = mode /\ mode \in Int /\ PUS_ST05_INFORMATIVE \in Nat
      BY DEF U16, OBC_MODE_SAFE, OBC_MODE_NOMINAL, PUS_ST05_INFORMATIVE
    <3> HIDE DEF a, b
    <3>4. Brings(a, report, b)
      BY <3>1, <3>2, <3>3, EventBrings
    <3>5. QED
      BY <3>4 DEF a, b
  <2> HIDE DEF report
  <2>8. Brings(Unit(s, o), e.tm, Unit(e.state, o))
    BY <2>5, <2>6, <2>7, BringsConcat
  <2>9. QED
    BY <2>8 DEF e
<1>3. QED
  BY <1>1, <1>2

LEMMA ThermalBrings ==
  ASSUME evt_enabled = AllEvents, NEW s \in obc_state_t, hal_heater \in Flag,
         Interlocked(s, hal_heater), NEW o
  PROVE  LET e == obc_thermal_control(s) IN Brings(Unit(s, o), e.tm, Unit(e.state, o))
<1>1. PUS_FALSE \in Flag /\ PUS_TRUE \in Flag
  BY DEF Flag
<1>2. CASE TooHot(s)
  <2> DEFINE e == obc_thermal_control(s)
             f == obc_set_mode(s, OBC_MODE_SAFE)
  <2>1. f \in EffectSet
    BY ModeEffect
  <2>2. Brings(Unit(s, o), f.tm, Unit(f.state, o))
    BY ModeBrings
  <2>3. Brings(Unit(s, o), AlarmReport(s), Unit(s, o))
    <3>1. s.temperature_dc \in Int
      BY Int16IsInt DEF obc_state_t
    <3>2. Calm(Unit(s, o), AlarmReport(s))
      BY <3>1, EventCalm, CalmEmpty DEF AlarmReport, PUS_ST05_HIGH_SEVERITY
    <3>3. QED
      BY <3>2, CalmBrings
  <2>4. e = [f EXCEPT !.tm = AlarmReport(s) \o f.tm]
    BY <1>2 DEF obc_thermal_control
  <2> HIDE DEF e, f
  <2>5. e.tm = AlarmReport(s) \o f.tm /\ e.state = f.state
    BY <2>1, <2>4 DEF EffectSet
  <2>6. Brings(Unit(s, o), e.tm, Unit(e.state, o))
    BY <2>2, <2>3, <2>5, BringsConcat
  <2>7. QED
    BY <2>6 DEF e
<1>3. CASE ~TooHot(s)
  <2>1. NoEffect(s).tm = <<>> /\ NoEffect(s).state = s
    BY DEF NoEffect, Effect
  <2>2. \/ obc_thermal_control(s) = obc_apply_heater(s, PUS_FALSE)
        \/ obc_thermal_control(s) = obc_apply_heater(s, PUS_TRUE)
        \/ obc_thermal_control(s) = NoEffect(s)
    BY <1>3 DEF obc_thermal_control
  <2>3. Brings(Unit(s, o), NoEffect(s).tm, Unit(NoEffect(s).state, o))
    BY <2>1, CalmEmpty, CalmBrings
  <2>4. \A on \in Flag : Brings(Unit(s, o), obc_apply_heater(s, on).tm,
                                Unit(obc_apply_heater(s, on).state, o))
    BY HeaterBrings
  <2>5. QED
    BY <1>1, <2>2, <2>3, <2>4
<1>4. QED
  BY <1>2, <1>3

\* A housekeeping report taken in state s.
LEMMA GenerateCalm ==
  ASSUME NEW sid \in Sids, NEW s, NEW k, NEW o
  PROVE  Quiet(svc03_generate(sid, s, k)) /\ Matches(svc03_generate(sid, s, k), Unit(s, o))
<1> DEFINE c == svc03_generate(sid, s, k)
<1>1. c.service = PUS_SERVICE_HOUSEKEEPING
  BY DEF svc03_generate
<1>2. Quiet(c)
  <2> HIDE DEF c
  <2> QED
    BY <1>1 DEF Quiet, IsEvent, PUS_SERVICE_EVENT, PUS_SERVICE_HOUSEKEEPING
<1>3. CASE sid = OBC_HK_SID_ESSENTIAL
  <2>1. c.data = <<sid, s.mode, s.uptime_ticks, U16(s.temperature_dc), s.heater_on>>
    BY <1>3 DEF svc03_generate
  <2>2. c.data[2] = s.mode /\ c.data[5] = s.heater_on
    BY <2>1
  <2>3. Unit(s, o).mode = s.mode /\ Unit(s, o).heater = s.heater_on
    BY DEF Unit
  <2> HIDE DEF c
  <2>4. Matches(c, Unit(s, o))
    BY <2>2, <2>3 DEF Matches
  <2>5. QED
    BY <1>2, <2>4 DEF c
<1>4. CASE sid # OBC_HK_SID_ESSENTIAL
  <2>1. c.data = <<sid, s.tc_accepted, s.tc_rejected, s.last_failure_code,
                   U8(CountAfter(k)), OverflowsAfter(k)>>
    BY <1>4 DEF svc03_generate
  <2>2. c.data[1] # OBC_HK_SID_ESSENTIAL
    BY <1>4, <2>1
  <2> HIDE DEF c
  <2>3. Matches(c, Unit(s, o))
    BY <2>2 DEF Matches, IsEssential
  <2>4. QED
    BY <1>2, <2>3 DEF c
<1>5. QED
  BY <1>3, <1>4

LEMMA PeriodicBrings ==
  ASSUME DlTypeOK, NEW s \in obc_state_t, NEW k \in Nat, NEW o
  PROVE  Brings(Unit(s, o), svc03_tick(s, k), Unit(s, o))
<1>1. ASSUME NEW sid \in Sids, NEW n \in Nat
      PROVE  /\ Brings(Unit(s, o), PeriodicReport(sid, s, n), Unit(s, o))
             /\ Len(PeriodicReport(sid, s, n)) \in Nat
  <2>1. Calm(Unit(s, o), PeriodicReport(sid, s, n))
    BY GenerateType, GenerateCalm, CalmOne, CalmEmpty DEF PeriodicReport
  <2>2. QED
    BY <2>1, CalmBrings, LenProperties DEF Calm
<1>2. OBC_HK_SID_ESSENTIAL \in Sids /\ OBC_HK_SID_DIAGNOSTIC \in Sids
  BY DEF Sids
<1> DEFINE first == PeriodicReport(OBC_HK_SID_ESSENTIAL, s, k)
           second == PeriodicReport(OBC_HK_SID_DIAGNOSTIC, s, k + Len(first))
<1>3. Brings(Unit(s, o), first, Unit(s, o)) /\ k + Len(first) \in Nat
  BY <1>1, <1>2
<1>4. Brings(Unit(s, o), second, Unit(s, o))
  BY <1>1, <1>2, <1>3
<1>5. svc03_tick(s, k) = <<>> \/ svc03_tick(s, k) = first \o second
  BY DEF svc03_tick
<1> HIDE DEF first, second
<1>6. QED
  BY <1>3, <1>4, <1>5, BringsConcat, CalmEmpty, CalmBrings

LEMMA OneShotBrings ==
  ASSUME DlTypeOK, NEW s \in obc_state_t, NEW k \in Nat, NEW o,
         NEW tc \in RawTc, svc03_status(tc) = PUS_OK
  PROVE  Brings(Unit(s, o), OneShotReports(tc, s, k), Unit(s, o))
<1> DEFINE n == Lesser(Len(SidList(tc)), OneShotRoom(k) + 1)
           r == OneShotReports(tc, s, k)
<1>1. r \in Seq(TmContent)
  BY OneShotType
<1>2. Len(SidList(tc)) \in Nat /\ \A i \in 1 .. Len(SidList(tc)) : SidList(tc)[i] \in Sids
  BY ListedAreSids
<1>3. r = [i \in 1 .. n |-> svc03_generate(SidList(tc)[i], s, k + i - 1)]
  BY DEF OneShotReports
<1>4. DOMAIN r = 1 .. Len(r) /\ DOMAIN r = 1 .. n
  BY <1>1, <1>3, LenProperties
<1>5. \A i \in 1 .. n : i \in 1 .. Len(SidList(tc))
  <2>1. CountAfter(k) \in 0 .. DEPTH
    BY AfterType
  <2>2. QED
    BY <1>2, <2>1, DepthAssumption DEF Lesser, OneShotRoom
<1> HIDE DEF n
<1>6. \A i \in 1 .. n : Quiet(r[i]) /\ Matches(r[i], Unit(s, o))
  BY <1>2, <1>3, <1>5, GenerateCalm
<1> HIDE DEF r
<1>7. Calm(Unit(s, o), r)
  BY <1>1, <1>4, <1>6 DEF Calm
<1>8. QED
  BY <1>7, CalmBrings DEF r

-----------------------------------------------------------------------------
(* What the operations tell *)

\* The step sends pkts, which tell of everything that it changed.
Tells(pkts) == Emit(pkts) /\ \A o : Brings(Unit(state, o), pkts, Unit(state', o))

LEMMA ConcludeTells ==
  ASSUME DlTypeOK, NEW tc \in RawTc, NEW st \in pus_status_t, NEW s \in obc_state_t,
         NEW response, \A o : Brings(Unit(state, o), response, Unit(s, o)),
         Conclude(tc, st, s, response)
  PROVE  \E pkts : Tells(pkts)
<1> DEFINE acceptance == svc01_acceptance_success(tc)
           completion == IF st = PUS_OK THEN svc01_completion_success(tc)
                         ELSE svc01_completion_failure(tc, st) \o RejectionEvent(st)
           pkts == acceptance \o response \o completion
<1>1. response \in Seq(TmContent)
  BY DEF Brings
<1>2. SameUnit(s, state')
  BY <1>1, ConcludeType
<1>3. \A o : Unit(state', o) = Unit(s, o)
  BY <1>2 DEF SameUnit, Unit
<1>4. ASSUME NEW o PROVE Brings(Unit(s, o), completion, Unit(s, o))
  <2>1. Calm(Unit(s, o), RejectionEvent(st))
    BY EventCalm, StatusIsNat DEF RejectionEvent, PUS_ST05_LOW_SEVERITY
  <2>2. /\ Brings(Unit(s, o), RejectionEvent(st), Unit(s, o))
        /\ Brings(Unit(s, o), svc01_completion_failure(tc, st), Unit(s, o))
        /\ Brings(Unit(s, o), svc01_completion_success(tc), Unit(s, o))
    BY <2>1, VerificationCalm, CalmBrings
  <2>3. Brings(Unit(s, o), svc01_completion_failure(tc, st) \o RejectionEvent(st), Unit(s, o))
    BY <2>2, BringsConcat
  <2>4. QED
    BY <2>2, <2>3
<1>5. \A o : Brings(Unit(state, o), acceptance, Unit(state, o))
  BY VerificationCalm, CalmBrings, StatusCodes
<1>6. Emit(pkts)
  BY DEF Conclude
<1> HIDE DEF acceptance, completion
<1>7. \A o : Brings(Unit(state, o), acceptance \o response, Unit(s, o))
  BY <1>5, BringsConcat
<1>8. \A o : Brings(Unit(state, o), pkts, Unit(s, o))
  BY <1>4, <1>7, BringsConcat
<1>9. QED
  BY <1>3, <1>6, <1>8 DEF Tells

LEMMA SilentTells ==
  ASSUME DlTypeOK, NEW tc \in RawTc, NEW st \in pus_status_t, NEW s \in obc_state_t,
         SameUnit(state, s), Conclude(tc, st, s, <<>>)
  PROVE  \E pkts : Tells(pkts)
<1>1. \A o : Unit(s, o) = Unit(state, o)
  BY DEF SameUnit, Unit
<1>2. \A o : Brings(Unit(state, o), <<>>, Unit(s, o))
  BY <1>1, CalmEmpty, CalmBrings
<1>3. QED
  BY <1>2, ConcludeTells

LEMMA TelecommandTells ==
  ASSUME IInv, evt_enabled = AllEvents, NEW tc \in RawTc, WellFramed(tc), obc_process_tc(tc)
  PROVE  \E pkts : Tells(pkts)
<1>1. /\ DlTypeOK /\ state \in obc_state_t /\ PUS_OK \in pus_status_t /\ SentBefore(tc) \in Nat
  BY StatusCodes, SentBeforeType DEF IInv, TypeOK
<1>2. /\ AcceptedState \in obc_state_t /\ SameUnit(state, AcceptedState)
      /\ hal_heater \in Flag /\ Interlocked(AcceptedState, hal_heater)
      /\ \A o : Unit(AcceptedState, o) = Unit(state, o)
  <2>1. AcceptedState \in obc_state_t /\ SameUnit(state, AcceptedState)
    BY <1>1, AcceptedStateType
  <2>2. QED
    BY <2>1, HeaterState DEF SameUnit, Unit
<1>3. CASE RejectTc(tc)
  <2> DEFINE st == pus_tc_parse(tc)
             report == svc01_reject_raw(tc, st)
             pkts == report \o RejectionEvent(st)
  <2>1. st \in pus_status_t
    BY ParseStatus
  <2>2. Emit(pkts) /\ state' = [state EXCEPT !.tc_rejected = Counted(@), !.last_failure_code = st]
    BY <1>3 DEF RejectTc
  <2>3. \A o : Unit(state', o) = Unit(state, o)
    BY <1>1, <2>2 DEF Unit, obc_state_t
  <2> HIDE DEF st
  <2>4. ASSUME NEW o PROVE Brings(Unit(state, o), pkts, Unit(state, o))
    <3>1. Calm(Unit(state, o), RejectionEvent(st)) /\ Calm(Unit(state, o), report)
      BY <2>1, EventCalm, VerificationCalm, StatusIsNat DEF RejectionEvent, PUS_ST05_LOW_SEVERITY
    <3>2. QED
      BY <3>1, CalmBrings, BringsConcat
  <2>5. QED
    BY <2>2, <2>3, <2>4 DEF Tells
<1>4. CASE RefuseTc(tc)
  BY <1>1, <1>2, <1>4, RouteStatus, SilentTells DEF RefuseTc
<1>5. CASE Svc03Configure(tc) \/ Svc05Configure(tc) \/ Svc08InjectTemp(tc) \/ Svc08SetTime(tc)
  <2>1. Conclude(tc, PUS_OK, AcceptedState, <<>>)
    BY <1>5 DEF Svc03Configure, Svc05Configure, Svc08InjectTemp, Svc08SetTime
  <2>2. QED
    BY <1>1, <1>2, <2>1, SilentTells
<1>6. CASE Svc08ResetCounters(tc)
  <2> DEFINE s == [state EXCEPT !.tc_accepted = 0, !.tc_rejected = 0, !.last_failure_code = PUS_OK]
  <2>1. s \in obc_state_t /\ SameUnit(state, s)
    <3>1. 0 \in 0 .. COUNTER_MAX
      BY CounterAssumption
    <3>2. QED
      BY <1>1, <3>1 DEF obc_state_t, SameUnit
  <2>2. Conclude(tc, PUS_OK, s, <<>>)
    BY <1>6 DEF Svc08ResetCounters
  <2>3. QED
    BY <1>1, <2>1, <2>2, SilentTells
<1>7. CASE Svc03OneShot(tc)
  <2> DEFINE st == OneShotStatus(tc, SentBefore(tc))
             r == OneShotReports(tc, AcceptedState, SentBefore(tc))
  <2>1. svc03_status(tc) = PUS_OK
    BY <1>7, RoutedTo DEF Svc03OneShot
  <2>2. st \in pus_status_t
    BY <1>1, <1>2, <2>1, OneShotType
  <2>3. \A o : Brings(Unit(state, o), r, Unit(AcceptedState, o))
    BY <1>1, <1>2, <2>1, OneShotBrings
  <2>4. Conclude(tc, st, AcceptedState, r)
    BY <1>7 DEF Svc03OneShot
  <2>5. QED
    BY <1>1, <1>2, <2>2, <2>3, <2>4, ConcludeTells
<1>8. CASE Svc08SetMode(tc)
  <2> DEFINE e == obc_set_mode(AcceptedState, tc.app_data[2])
  <2>1. tc.app_data[2] \in {OBC_MODE_SAFE, OBC_MODE_NOMINAL}
    <3>1. OBC_FID_SET_MODE \in OBC_FID_SET_MODE .. OBC_FID_SET_TIME
      BY DEF OBC_FID_SET_MODE, OBC_FID_SET_TIME
    <3>2. QED
      BY <1>8, <3>1, FunctionArguments DEF Svc08SetMode
  <2>2. e.state \in obc_state_t
    BY <1>2, <2>1, ModeEffect DEF EffectSet
  <2>3. \A o : Brings(Unit(state, o), e.tm, Unit(e.state, o))
    BY <1>2, <2>1, ModeBrings
  <2>4. Conclude(tc, PUS_OK, e.state, e.tm)
    BY <1>8 DEF Svc08SetMode
  <2> HIDE DEF e
  <2>5. QED
    BY <1>1, <2>2, <2>3, <2>4, ConcludeTells
<1>9. CASE Svc08SetHeater(tc)
  <2> DEFINE e == obc_apply_heater(AcceptedState, tc.app_data[2])
  <2>1. tc.app_data[2] \in Flag
    <3>1. OBC_FID_SET_HEATER \in OBC_FID_SET_MODE .. OBC_FID_SET_TIME
      BY DEF OBC_FID_SET_MODE, OBC_FID_SET_HEATER, OBC_FID_SET_TIME
    <3>2. QED
      BY <1>9, <3>1, FunctionArguments DEF Svc08SetHeater
  <2>2. e.state \in obc_state_t
    BY <1>2, <2>1, HeaterEffect DEF EffectSet, Interlocked
  <2>3. \A o : Brings(Unit(state, o), e.tm, Unit(e.state, o))
    BY <1>2, <2>1, HeaterBrings
  <2>4. Conclude(tc, PUS_OK, e.state, e.tm)
    BY <1>9 DEF Svc08SetHeater
  <2> HIDE DEF e
  <2>5. QED
    BY <1>1, <2>2, <2>3, <2>4, ConcludeTells
<1>10. CASE Svc17AreYouAlive(tc)
  <2> DEFINE st == SendStatus(SentBefore(tc))
             c == [service |-> PUS_SERVICE_TEST, subtype |-> PUS_ST17_I_AM_ALIVE, data |-> <<>>]
  <2>1. c \in TmContent
    BY EmptySeq DEF TmContent, TmServices, PUS_ST17_I_AM_ALIVE
  <2>2. c.service = PUS_SERVICE_TEST
    OBVIOUS
  <2>3. Conclude(tc, st, AcceptedState, <<c>>)
    BY <1>10 DEF Svc17AreYouAlive
  <2>4. st \in pus_status_t
    BY StatusCodes DEF SendStatus
  <2> HIDE DEF c, st
  <2>5. c.service \notin {PUS_SERVICE_EVENT, PUS_SERVICE_HOUSEKEEPING}
    BY <2>2 DEF PUS_SERVICE_TEST, PUS_SERVICE_EVENT, PUS_SERVICE_HOUSEKEEPING
  <2>6. \A o : Brings(Unit(state, o), <<c>>, Unit(AcceptedState, o))
    BY <1>2, <2>1, <2>5, CalmService, CalmOne, CalmBrings
  <2>7. QED
    BY <1>1, <1>2, <2>3, <2>4, <2>6, ConcludeTells
<1>11. QED
  BY <1>3, <1>4, <1>5, <1>6, <1>7, <1>8, <1>9, <1>10 DEF obc_process_tc

\* A minor cycle: n packets went out before the counter was sampled, and if the sample
\* differs from the last one its report is among the others.
TickTells(pkts, n) ==
  LET seen == OverflowsAfter(n) IN
  /\ Emit(pkts) /\ n \in Nat /\ Len(pkts) \in Nat /\ n <= Len(pkts)
  /\ last_overflow' = seen
  /\ seen # last_overflow => n < Len(pkts)
  /\ \A o : Brings(Unit(state, o), pkts,
                   Unit(state', IF seen = last_overflow THEN o ELSE U16(seen)))

LEMMA CycleTells ==
  ASSUME IInv, evt_enabled = AllEvents, obc_tick PROVE \E pkts : \E n : TickTells(pkts, n)
<1> DEFINE e == obc_thermal_control(Acquired)
           n == Len(e.tm)
           seen == OverflowsAfter(n)
           report == OverflowReport(seen)
           tm == e.tm \o report
           hk == svc03_tick(e.state, Len(tm))
           last(o) == IF seen = last_overflow THEN o ELSE U16(seen)
<1>1. DlTypeOK /\ hal_heater \in Flag /\ Acquired \in obc_state_t /\ Interlocked(Acquired, hal_heater)
  BY AcquiredType DEF IInv, TypeOK, HalTypeOK, Flag
<1>2. e.state \in obc_state_t /\ e.tm \in Seq(TmContent)
  BY <1>1, ThermalEffect DEF EffectSet
<1>3. Emit(tm \o hk) /\ state' = e.state /\ last_overflow' = seen
  BY DEF obc_tick, Acquired, Sampled
<1>4. \A o : Brings(Unit(state, o), e.tm, Unit(e.state, o))
  <2>1. \A o : Unit(Acquired, o) = Unit(state, o)
    <3>1. state \in obc_state_t
      BY DEF IInv, TypeOK
    <3>2. Acquired.mode = state.mode /\ Acquired.heater_on = state.heater_on
      BY <3>1 DEF Acquired, obc_state_t
    <3>3. QED
      BY <3>2 DEF Unit
  <2>2. QED
    BY <1>1, <2>1, ThermalBrings
<1> HIDE DEF e
<1>5. n \in Nat /\ seen \in Int
  <2>1. n \in Nat
    BY <1>2, LenProperties
  <2>2. QED
    BY <1>1, <2>1, AfterType, CounterAssumption
<1> HIDE DEF n, seen
<1>6. report \in Seq(TmContent) /\ (seen # last_overflow => Len(report) = 1)
  <2>1. CASE seen = last_overflow
    BY <2>1, EmptySeq DEF OverflowReport
  <2>2. CASE seen # last_overflow
    <3>1. report = svc05_report(OBC_EVT_TM_QUEUE_OVERFLOW, PUS_ST05_LOW_SEVERITY, seen)
      BY <2>2 DEF OverflowReport
    <3>2. /\ OBC_EVT_TM_QUEUE_OVERFLOW \in evt_enabled /\ OBC_EVT_TM_QUEUE_OVERFLOW \in Nat
          /\ PUS_ST05_LOW_SEVERITY \in Nat
      BY DEF AllEvents, EventIds, OBC_EVENT_MAX_IDS, OBC_EVT_TM_QUEUE_OVERFLOW,
             PUS_ST05_LOW_SEVERITY
    <3>3. PICK c \in TmContent : report = <<c>>
      BY <1>5, <3>1, <3>2, EventContent
    <3> HIDE DEF report
    <3>4. QED
      BY <3>3, Singleton
  <2>3. QED
    BY <2>1, <2>2
<1>7. \A o : Brings(Unit(e.state, o), report, Unit(e.state, last(o)))
  <2>1. CASE seen = last_overflow
    BY <2>1, CalmEmpty, CalmBrings DEF OverflowReport
  <2>2. CASE seen # last_overflow
    <3>1. report = svc05_report(OBC_EVT_TM_QUEUE_OVERFLOW, PUS_ST05_LOW_SEVERITY, seen)
      BY <2>2 DEF OverflowReport
    <3>2. ASSUME NEW o PROVE Brings(Unit(e.state, o), report, Unit(e.state, U16(seen)))
      <4> DEFINE a == Unit(e.state, o)
                 b == Unit(e.state, U16(seen))
      <4>1. b.mode = a.mode /\ b.heater = a.heater /\ b.overflow = U16(seen)
        BY DEF Unit
      <4> HIDE DEF a, b
      <4>2. Brings(a, report, b)
        BY <1>5, <3>1, <4>1, EventBrings DEF PUS_ST05_LOW_SEVERITY
      <4>3. QED
        BY <4>2 DEF a, b
    <3>3. QED
      BY <2>2, <3>2
  <2>3. QED
    BY <2>1, <2>2
<1> HIDE DEF report, last
<1>8. \A o : Brings(Unit(state, o), tm, Unit(e.state, last(o)))
  BY <1>4, <1>7, BringsConcat
<1>9. Len(tm) = n + Len(report) /\ Len(report) \in Nat /\ tm \in Seq(TmContent)
  BY <1>2, <1>6, ConcatProperties, LenProperties DEF n
<1>10. Len(tm) \in Nat
  <2> HIDE DEF tm
  <2> QED
    BY <1>5, <1>9
<1>11. \A o : Brings(Unit(e.state, o), hk, Unit(e.state, o))
  <2> HIDE DEF tm
  <2> QED
    BY <1>1, <1>2, <1>10, PeriodicBrings
<1> HIDE DEF tm, hk
<1>12. \A o : Brings(Unit(state, o), tm \o hk, Unit(e.state, last(o)))
  BY <1>8, <1>11, BringsConcat
<1>13. /\ Len(tm \o hk) \in Nat /\ n <= Len(tm \o hk)
       /\ seen # last_overflow => n < Len(tm \o hk)
  <2>1. hk \in Seq(TmContent)
    BY <1>11 DEF Brings
  <2> DEFINE total == Len(tm \o hk)
  <2>2. total = Len(tm) + Len(hk) /\ Len(hk) \in Nat
    BY <1>9, <2>1, ConcatProperties, LenProperties
  <2> HIDE DEF total
  <2>3. /\ Len(tm) = n + Len(report) /\ Len(report) \in Nat /\ n \in Nat
        /\ seen # last_overflow => Len(report) = 1
    BY <1>5, <1>6, <1>9
  <2>4. \A l, r, k, h \in Nat : l = k + r => /\ l + h \in Nat /\ k <= l + h
                                             /\ r = 1 => k < l + h
    OBVIOUS
  <2>5. total \in Nat /\ n <= total /\ (Len(report) = 1 => n < total)
    BY <1>10, <2>2, <2>3, <2>4, Zenon
  <2>6. QED
    BY <2>3, <2>5 DEF total
<1> DEFINE pkts == tm \o hk
<1> HIDE DEF pkts
<1>14. TickTells(pkts, n)
  BY <1>3, <1>5, <1>12, <1>13 DEF TickTells, pkts, seen, last
<1>15. QED
  BY <1>14

-----------------------------------------------------------------------------
(* The ground follows the unit *)

\* A burst that loses nothing is heard behind what was queued already.
LEMMA KeptBurst ==
  ASSUME DlTypeOK, NEW pkts \in Seq(TmContent), Emit(pkts), overflows' = overflows,
         overflows < COUNTER_MAX
  PROVE  Joins(queue', queue, pkts) /\ Len(queue) + Len(pkts) <= DEPTH
<1>1. /\ Len(queue) \in Nat /\ Len(pkts) \in Nat /\ overflows \in Nat /\ COUNTER_MAX \in Nat
      /\ DEPTH \in Nat /\ Len(queue) <= DEPTH
  BY LenProperties, CounterAssumption, DepthAssumption DEF DlTypeOK
<1>2. Len(queue) + Len(pkts) <= DEPTH
  BY <1>1 DEF Emit, OverflowsAfter, Lesser
<1>3. Kept(pkts) = Len(pkts)
  BY <1>1, <1>2 DEF Kept, Lesser
<1>4. /\ Len(queue') = Len(queue) + Len(pkts)
      /\ \A i \in 1 .. Len(queue) : queue'[i] = queue[i]
      /\ \A i \in 1 .. Len(pkts) : queue'[Len(queue) + i] = Stamped(pkts)[i]
  BY <1>3, EmitAddsPrefix DEF EmitAdds
<1>5. \A i \in 1 .. Len(pkts) : SameNews(queue'[Len(queue) + i], pkts[i])
  BY <1>4, StampedType DEF SameNews
<1>6. \A i \in 1 .. Len(queue) : SameNews(queue'[i], queue[i])
  BY <1>4 DEF SameNews
<1>7. QED
  BY <1>1, <1>2, <1>4, <1>5, <1>6 DEF Joins

LEMMA PopJoins ==
  ASSUME NEW S, NEW q \in Seq(S), q # <<>> PROVE Joins(q, <<Head(q)>>, Tail(q))
<1>1. /\ Len(q) \in Nat /\ Len(q) >= 1 /\ Head(q) = q[1]
      /\ Tail(q) \in Seq(S) /\ Len(Tail(q)) = Len(q) - 1
      /\ \A i \in 1 .. Len(Tail(q)) : Tail(q)[i] = q[i + 1]
  BY LenProperties, HeadTailProperties, EmptySeq
<1>2. Len(<<Head(q)>>) = 1 /\ <<Head(q)>>[1] = q[1] /\ \A i \in 1 .. 1 : i = 1
  BY <1>1
<1>3. \A i \in 1 .. Len(Tail(q)) : q[1 + i] = Tail(q)[i]
  BY <1>1
<1>4. QED
  BY <1>1, <1>2, <1>3 DEF Joins, SameNews

\* The inductive invariant, of a unit with no event disabled: the counter never falls
\* behind its last sample; without a loss the ground is in step with the unit; and a
\* sample that still stands has been reported.
Following ==
  LET view == After(gnd, queue) IN
  /\ evt_enabled = AllEvents /\ last_overflow <= overflows
  /\ COUNTER_MAX # 0 /\ overflows = 0 =>
       view.mode = state.mode /\ view.heater = state.heater_on /\ Agrees(gnd, queue)
  /\ COUNTER_MAX < 65536 /\ overflows = last_overflow /\ overflows < COUNTER_MAX =>
       view.overflow = overflows
TrackOK == IsKnowledge(gnd) /\ muted \in BOOLEAN /\ (~muted => Following)

LEMMA BurstHeard ==
  ASSUME DlTypeOK, IsKnowledge(gnd), NEW a, NEW b, NEW pkts, Emit(pkts), Brings(a, pkts, b),
         overflows' = overflows, overflows < COUNTER_MAX
  PROVE  /\ After(gnd, queue).overflow = a.overflow => After(gnd, queue').overflow = b.overflow
         /\ /\ After(gnd, queue).mode = a.mode /\ After(gnd, queue).heater = a.heater
            /\ Agrees(gnd, queue)
            => /\ After(gnd, queue').mode = b.mode /\ After(gnd, queue').heater = b.heater
               /\ Agrees(gnd, queue')
<1> DEFINE v == After(gnd, queue)
<1>1. pkts \in Seq(TmContent) /\ Len(queue) \in Nat
  BY LenProperties DEF Brings, DlTypeOK
<1>2. Joins(queue', queue, pkts)
  BY <1>1, KeptBurst
<1>3. /\ After(gnd, queue') = After(v, pkts)
      /\ Agrees(gnd, queue') <=> Agrees(gnd, queue) /\ Agrees(v, pkts)
  BY <1>2, AfterJoin, AgreesJoin
<1>4. IsKnowledge(v)
  BY <1>1, AfterKnows
<1> HIDE DEF v
<1>5. /\ v.overflow = a.overflow => After(v, pkts).overflow = b.overflow
      /\ v.mode = a.mode /\ v.heater = a.heater =>
           /\ After(v, pkts).mode = b.mode /\ After(v, pkts).heater = b.heater
           /\ Agrees(v, pkts)
  BY <1>4 DEF Brings
<1>6. QED
  BY <1>3, <1>5 DEF v

LEMMA TelecommandFollowed ==
  ASSUME IInv, IsKnowledge(gnd), Following, NEW tc \in RawTc, WellFramed(tc), obc_process_tc(tc),
         evt_enabled' = AllEvents, gnd' = gnd
  PROVE  Following'
<1> DEFINE o == After(gnd, queue).overflow
<1>1. /\ DlTypeOK /\ evt_enabled = AllEvents /\ last_overflow <= overflows
      /\ overflows \in 0 .. COUNTER_MAX /\ last_overflow \in 0 .. COUNTER_MAX
  BY DEF IInv, TypeOK, DlTypeOK, Following
<1>2. PICK pkts : Tells(pkts)
  BY <1>1, TelecommandTells
<1>3. Emit(pkts) /\ Brings(Unit(state, o), pkts, Unit(state', o)) /\ pkts \in Seq(TmContent)
  BY <1>2 DEF Tells, Brings
<1>4. last_overflow' = last_overflow
  BY DEF obc_process_tc, RejectTc, RefuseTc, Svc03Configure, Svc03OneShot, Svc05Configure,
         Svc08SetMode, Svc08SetHeater, Svc08InjectTemp, Svc08SetTime, Svc08ResetCounters,
         Svc17AreYouAlive, Conclude
<1>5. overflows' \in Nat /\ overflows <= overflows' /\ overflows' <= COUNTER_MAX
  <2>1. Len(pkts) \in Nat /\ Len(queue) \in Nat
    BY <1>1, <1>3, LenProperties DEF DlTypeOK
  <2>2. overflows' = OverflowsAfter(Len(pkts))
    BY <1>3 DEF Emit
  <2>3. QED
    BY <1>1, <2>1, <2>2, CounterAssumption, DepthAssumption DEF OverflowsAfter, Lesser
<1>6. ASSUME overflows' = overflows, overflows < COUNTER_MAX
      PROVE  /\ After(gnd, queue').overflow = o
             /\ /\ After(gnd, queue).mode = state.mode
                /\ After(gnd, queue).heater = state.heater_on /\ Agrees(gnd, queue)
                => /\ After(gnd, queue').mode = state'.mode
                   /\ After(gnd, queue').heater = state'.heater_on /\ Agrees(gnd, queue')
  <2>1. /\ Unit(state, o).overflow = o /\ Unit(state', o).overflow = o
        /\ Unit(state, o).mode = state.mode /\ Unit(state, o).heater = state.heater_on
        /\ Unit(state', o).mode = state'.mode /\ Unit(state', o).heater = state'.heater_on
    BY DEF Unit
  <2>2. QED
    BY <1>1, <1>3, <1>6, <2>1, BurstHeard
<1>7. ASSUME COUNTER_MAX # 0, overflows' = 0
      PROVE  /\ After(gnd, queue').mode = state'.mode
             /\ After(gnd, queue').heater = state'.heater_on /\ Agrees(gnd, queue')
  <2>1. overflows = 0 /\ overflows' = overflows /\ overflows < COUNTER_MAX
    BY <1>1, <1>5, <1>7, CounterAssumption
  <2>2. QED
    BY <1>6, <1>7, <2>1 DEF Following
<1>8. ASSUME COUNTER_MAX < 65536, overflows' = last_overflow', overflows' < COUNTER_MAX
      PROVE  After(gnd, queue').overflow = overflows'
  <2>1. overflows' = overflows /\ overflows = last_overflow /\ overflows < COUNTER_MAX
    BY <1>1, <1>4, <1>5, <1>8, CounterAssumption
  <2>2. o = overflows
    BY <1>8, <2>1 DEF Following
  <2>3. QED
    BY <1>6, <2>1, <2>2
<1>9. last_overflow' <= overflows'
  BY <1>1, <1>4, <1>5, CounterAssumption
<1>10. QED
  BY <1>7, <1>8, <1>9 DEF Following

LEMMA CycleFollowed ==
  ASSUME IInv, IsKnowledge(gnd), Following, obc_tick, gnd' = gnd
  PROVE  Following'
<1> DEFINE o == After(gnd, queue).overflow
<1>1. /\ DlTypeOK /\ evt_enabled = AllEvents /\ last_overflow <= overflows
      /\ overflows \in 0 .. COUNTER_MAX /\ last_overflow \in 0 .. COUNTER_MAX
      /\ evt_enabled' = evt_enabled
  BY DEF IInv, TypeOK, DlTypeOK, Following, obc_tick
<1>2. PICK pkts, n : TickTells(pkts, n)
  BY <1>1, CycleTells
<1> DEFINE seen == OverflowsAfter(n)
           last == IF seen = last_overflow THEN o ELSE U16(seen)
<1>3. /\ Emit(pkts) /\ Brings(Unit(state, o), pkts, Unit(state', last))
      /\ last_overflow' = seen
  BY <1>2 DEF TickTells
<1>4. /\ n \in Nat /\ Len(pkts) \in Nat /\ n <= Len(pkts) /\ Len(queue) \in Nat
      /\ seen # last_overflow => n < Len(pkts)
      /\ overflows' = OverflowsAfter(Len(pkts))
  BY <1>1, <1>2, LenProperties DEF TickTells, Emit, DlTypeOK
<1>5. /\ overflows' \in Nat /\ overflows' <= COUNTER_MAX /\ seen \in Nat
      /\ overflows <= seen /\ seen <= overflows'
  BY <1>1, <1>4, CounterAssumption, DepthAssumption DEF OverflowsAfter, Lesser
\* A loss before the sample means a full queue, so the report is lost too and the
\* counter has moved on.
<1>6. ASSUME overflows' = seen, overflows' < COUNTER_MAX PROVE seen = overflows
  <2>1. ASSUME seen # overflows PROVE FALSE
    <3>1. Len(queue) + n > DEPTH /\ seen = overflows + (Len(queue) + n - DEPTH)
      BY <1>1, <1>4, <1>5, <1>6, <2>1, CounterAssumption, DepthAssumption DEF OverflowsAfter, Lesser
    <3>2. overflows' = overflows + (Len(queue) + Len(pkts) - DEPTH)
      BY <1>1, <1>4, <1>5, <1>6, <3>1, CounterAssumption, DepthAssumption DEF OverflowsAfter, Lesser
    <3> HIDE DEF seen
    <3>3. n = Len(pkts)
      BY <1>1, <1>4, <1>6, <3>1, <3>2, DepthAssumption
    <3>4. seen = last_overflow
      BY <1>4, <3>3
    <3>5. QED
      BY <1>1, <1>5, <2>1, <3>4
  <2>2. QED
    BY <2>1
<1> HIDE DEF seen, last
<1>7. ASSUME overflows' = overflows, overflows < COUNTER_MAX
      PROVE  /\ After(gnd, queue').overflow = last
             /\ /\ After(gnd, queue).mode = state.mode
                /\ After(gnd, queue).heater = state.heater_on /\ Agrees(gnd, queue)
                => /\ After(gnd, queue').mode = state'.mode
                   /\ After(gnd, queue').heater = state'.heater_on /\ Agrees(gnd, queue')
  <2>1. /\ Unit(state, o).overflow = o /\ Unit(state', last).overflow = last
        /\ Unit(state, o).mode = state.mode /\ Unit(state, o).heater = state.heater_on
        /\ Unit(state', last).mode = state'.mode
        /\ Unit(state', last).heater = state'.heater_on
    BY DEF Unit
  <2>2. QED
    BY <1>1, <1>3, <1>7, <2>1, BurstHeard
<1>8. ASSUME COUNTER_MAX # 0, overflows' = 0
      PROVE  /\ After(gnd, queue').mode = state'.mode
             /\ After(gnd, queue').heater = state'.heater_on /\ Agrees(gnd, queue')
  <2>1. overflows = 0 /\ overflows' = overflows /\ overflows < COUNTER_MAX
    BY <1>1, <1>5, <1>8, CounterAssumption
  <2>2. QED
    BY <1>7, <1>8, <2>1 DEF Following
<1>9. ASSUME COUNTER_MAX < 65536, overflows' = last_overflow', overflows' < COUNTER_MAX
      PROVE  After(gnd, queue').overflow = overflows'
  <2>1. seen = overflows /\ overflows' = overflows /\ overflows < COUNTER_MAX
    BY <1>3, <1>6, <1>9
  <2>2. CASE seen = last_overflow
    <3>1. last = o
      BY <2>2 DEF last
    <3>2. o = overflows
      BY <1>9, <2>1, <2>2 DEF Following
    <3>3. QED
      BY <1>7, <2>1, <3>1, <3>2
  <2>3. CASE seen # last_overflow
    <3>1. last = U16(seen)
      BY <2>3 DEF last
    <3>2. seen \in Nat /\ seen < 65536
      BY <1>5, <1>9, <2>1, CounterAssumption
    <3>3. U16(seen) = seen
      BY <3>2 DEF U16
    <3>4. QED
      BY <1>7, <2>1, <3>1, <3>3
  <2>4. QED
    BY <2>2, <2>3
<1>10. last_overflow' <= overflows'
  BY <1>3, <1>5
<1>11. QED
  BY <1>1, <1>8, <1>9, <1>10 DEF Following

\* At power-on, and after a reconnection, the boot event is all there is to hear.
LEMMA BootHeard ==
  /\ IsKnowledge(AfterBoot) /\ After(AfterBoot, <<BootReport>>) = AfterBoot
  /\ Agrees(AfterBoot, <<BootReport>>)
  /\ AfterBoot.mode = PowerOnState.mode /\ AfterBoot.heater = PowerOnState.heater_on
  /\ AfterBoot.overflow = 0
<1>1. /\ IsKnowledge(AfterBoot) /\ AfterBoot.overflow = 0
      /\ AfterBoot.mode = PowerOnState.mode /\ AfterBoot.heater = PowerOnState.heater_on
  BY DEF IsKnowledge, AfterBoot, PowerOnState
<1>2. IsEvent(BootReport, OBC_EVT_BOOT_COMPLETED) /\ BootReport.service = PUS_SERVICE_EVENT
  BY DEF IsEvent, BootReport
<1>3. Learn(AfterBoot, BootReport) = AfterBoot
  BY <1>1, <1>2, LearnEvents
<1>4. Agrees(AfterBoot, <<BootReport>>)
  <2> DEFINE tm == <<BootReport>>
  <2>1. Len(tm) = 1 /\ tm[1] = BootReport
    OBVIOUS
  <2> HIDE DEF tm
  <2>2. ASSUME NEW j \in Nat, NEW i, i = j + 1, i <= Len(tm)
        PROVE  Matches(tm[i], Heard(AfterBoot, tm)[j])
    <3>1. i = 1
      BY <2>1, <2>2
    <3>2. QED
      BY <1>2, <2>1, <3>1 DEF Matches, IsEssential, PUS_SERVICE_EVENT, PUS_SERVICE_HOUSEKEEPING
  <2>3. Agrees(AfterBoot, tm)
    BY <2>2 DEF Agrees
  <2>4. QED
    BY <2>3 DEF tm
<1>5. QED
  BY <1>1, <1>3, <1>4, HearOne

LEMMA InitTrack == GInit => TrackOK
<1> SUFFICES ASSUME GInit PROVE TrackOK
  OBVIOUS
<1>1. /\ gnd = AfterBoot /\ queue = <<BootReport>> /\ evt_enabled = AllEvents
      /\ state = PowerOnState /\ overflows = 0 /\ last_overflow = 0 /\ muted = FALSE
  BY DEF GInit, Init
<1>2. Following
  BY <1>1, BootHeard DEF Following
<1>3. QED
  BY <1>1, <1>2, BootHeard DEF TrackOK

LEMMA ReconnectTrack == ASSUME GReconnect PROVE TrackOK'
<1>1. /\ gnd' = AfterBoot /\ queue' = <<BootReport>> /\ evt_enabled' = AllEvents
      /\ state' = PowerOnState /\ overflows' = 0 /\ last_overflow' = 0 /\ muted' = FALSE
  BY DEF GReconnect, obc_init
<1>2. Following'
  BY <1>1, BootHeard DEF Following
<1>3. QED
  BY <1>1, <1>2, BootHeard DEF TrackOK

\* Receiving a packet moves it from what is to come to what is known.
LEMMA ReceiveTrack == ASSUME IInv, TrackOK, GReceive PROVE TrackOK'
<1>1. /\ queue \in Seq(TmPacket) /\ queue # <<>> /\ queue' = Tail(queue)
      /\ gnd' = Learn(gnd, Head(queue)) /\ muted' = muted /\ IsKnowledge(gnd)
      /\ UNCHANGED <<overflows, evt_enabled, state, last_overflow>>
  BY DEF IInv, TypeOK, DlTypeOK, TrackOK, GReceive, DownlinkOne, tm_queue_pop, app_vars
<1>2. Joins(queue, <<Head(queue)>>, queue')
  BY <1>1, PopJoins
<1>3. gnd' = After(gnd, <<Head(queue)>>)
  BY <1>1, HearOne
<1>4. After(gnd', queue') = After(gnd, queue) /\ (Agrees(gnd, queue) => Agrees(gnd', queue'))
  BY <1>2, <1>3, AfterJoin, AgreesJoin
<1>5. IsKnowledge(gnd')
  BY <1>1, LearnEvents
<1>6. Following => Following'
  BY <1>1, <1>4 DEF Following
<1>7. QED
  BY <1>1, <1>5, <1>6 DEF TrackOK

LEMMA NextTrack == IInv /\ TrackOK /\ [GNext]_g_vars => TrackOK'
<1> SUFFICES ASSUME IInv, TrackOK, [GNext]_g_vars PROVE TrackOK'
  OBVIOUS
<1>1. ASSUME GProcessTc PROVE TrackOK'
  <2>1. PICK raw \in Telecommands : obc_process_tc(raw)
    BY <1>1 DEF GProcessTc
  <2>2. raw \in RawTc /\ WellFramed(raw)
    BY <2>1, TelecommandAssumption DEF ReceivableTc
  <2>3. gnd' = gnd /\ muted' = (muted \/ evt_enabled' # AllEvents)
    BY <1>1 DEF GProcessTc
  <2>4. muted' \in BOOLEAN /\ (~muted' => ~muted /\ evt_enabled' = AllEvents)
    BY <2>3, Zenon DEF TrackOK
  <2>5. ASSUME ~muted' PROVE Following'
    BY <2>1, <2>2, <2>3, <2>4, <2>5, TelecommandFollowed DEF TrackOK
  <2>6. QED
    BY <2>3, <2>4, <2>5 DEF TrackOK
<1>2. ASSUME GTick PROVE TrackOK'
  <2>1. obc_tick /\ gnd' = gnd /\ muted' = muted
    BY <1>2 DEF GTick
  <2>2. QED
    BY <2>1, CycleFollowed DEF TrackOK
<1>3. ASSUME UNCHANGED g_vars PROVE TrackOK'
  <2>1. UNCHANGED <<gnd, muted, queue, overflows, evt_enabled, state, last_overflow>>
    BY <1>3 DEF g_vars, ground_vars, vars, dl_vars, app_vars
  <2>2. QED
    BY <2>1 DEF TrackOK, Following
<1>4. QED
  BY <1>1, <1>2, <1>3, ReceiveTrack, ReconnectTrack DEF GNext

LEMMA TrackInvariant == GSpec => [](IInv /\ TrackOK)
  BY InitTrack, NextTrack, ObservedInvariant, PTL DEF GSpec

\* SWREQ-APP-030 and SWREQ-APP-130 for every queue depth, period and set of telecommands:
\* while nothing was dropped and no event disabled, the events of obc_set_mode and
\* obc_apply_heater, read in order, give the unit's mode and heater line, and every
\* essential report of svc03_generate agrees with the events before it.  A drop is
\* noticed only by a counter that can count one.
THEOREM EventsFollowUnit ==
  ASSUME COUNTER_MAX # 0 PROVE GSpec => []EventsTrackUnit
<1>1. IInv /\ TrackOK => EventsTrackUnit
  <2> SUFFICES ASSUME IInv, TrackOK, ~muted, overflows = 0
               PROVE  /\ View.mode = state.mode /\ View.heater = hal_heater
                      /\ \A i \in DOMAIN queue :
                           LET p == queue[i] IN
                           p.service = PUS_SERVICE_HOUSEKEEPING /\ p.data[1] = OBC_HK_SID_ESSENTIAL
                             => /\ p.data[2] = ViewAfter(i - 1).mode
                                /\ p.data[5] = ViewAfter(i - 1).heater
    BY DEF EventsTrackUnit
  <2>1. /\ After(gnd, queue).mode = state.mode /\ After(gnd, queue).heater = state.heater_on
        /\ Agrees(gnd, queue)
    BY DEF TrackOK, Following
  <2>2. View.mode = state.mode /\ View.heater = hal_heater
    BY <2>1 DEF View, ViewAfter, After, IInv, SafeHoldsHeaterOff
  <2>3. ASSUME NEW i \in DOMAIN queue PROVE Matches(queue[i], ViewAfter(i - 1))
    <3> DEFINE j == i - 1
    <3>1. DOMAIN queue = 1 .. Len(queue) /\ Len(queue) \in Nat
      BY LenProperties DEF IInv, TypeOK, DlTypeOK
    <3>2. j \in Nat /\ i = j + 1 /\ i <= Len(queue)
      BY <3>1
    <3> HIDE DEF j
    <3>3. Matches(queue[i], Heard(gnd, queue)[j])
      BY <2>1, <3>2 DEF Agrees
    <3>4. QED
      BY <3>3 DEF ViewAfter, j
  <2>4. QED
    BY <2>2, <2>3 DEF Matches, IsEssential
<1>2. QED
  BY <1>1, TrackInvariant, PTL

\* SWREQ-APP-120 for every queue depth, period and set of telecommands: a count that
\* obc_tick has sampled and that still stands has been reported, although the report
\* itself may be dropped.  The count travels in 16 bits.
THEOREM OverflowIsReported ==
  ASSUME COUNTER_MAX < 65536 PROVE GSpec => []OverflowNeverForgotten
<1>1. TrackOK => OverflowNeverForgotten
  BY DEF TrackOK, Following, OverflowNeverForgotten, View, ViewAfter, After
<1>2. QED
  BY <1>1, TrackInvariant, PTL
-----------------------------------------------------------------------------
(* One alarm per excursion *)

\* An alarm is counted only on the way into the latched state, and there it is, as
\* nothing was dropped.
CountOK == /\ alarms \in Nat /\ alarms <= 1
           /\ alarm_latched = PUS_FALSE => alarms = 0
           /\ COUNTER_MAX # 0 /\ ~muted /\ overflows = 0 /\ alarm_latched = PUS_TRUE
                => alarms = 1

\* A counter that still reads zero has missed nothing.
LEMMA NothingDropped ==
  ASSUME DlTypeOK, NEW pkts \in Seq(TmContent), Emit(pkts), COUNTER_MAX # 0, overflows' = 0
  PROVE  overflows = 0 /\ Len(queue) + Len(pkts) <= DEPTH
<1>1. /\ Len(queue) \in Nat /\ Len(pkts) \in Nat /\ overflows \in Nat /\ COUNTER_MAX \in Nat
      /\ DEPTH \in Nat /\ overflows' = OverflowsAfter(Len(pkts))
  BY LenProperties, CounterAssumption, DepthAssumption DEF DlTypeOK, Emit
<1>2. QED
  BY <1>1 DEF OverflowsAfter, Lesser

LEMMA TickCount == ASSUME IInv, TrackOK, CountOK, GTick PROVE CountOK'
<1> DEFINE new == Newly(OBC_EVT_TEMP_ALARM)
<1>1. /\ obc_tick
      /\ alarms' = IF hal_temperature < OBC_TEMP_HEATER_OFF_DC THEN 0
                   ELSE alarms + Cardinality(new)
  BY DEF GTick
<1>2. /\ alarm_latched' = NextLatch(Acquired) /\ Acquired.temperature_dc = hal_temperature
      /\ DlTypeOK /\ alarm_latched \in Flag /\ RaisesAlarm \in BOOLEAN
  <2>1. alarm_latched' = NextLatch(Acquired) /\ DlTypeOK /\ alarm_latched \in Flag
    BY <1>1 DEF obc_tick, Acquired, IInv, TypeOK
  <2>2. Acquired.temperature_dc = hal_temperature
    BY DEF IInv, TypeOK, obc_state_t, Acquired
  <2>3. RaisesAlarm \in BOOLEAN
    BY DEF RaisesAlarm, TooHot
  <2>4. QED
    BY <2>1, <2>2, <2>3
<1>3. PICK pkts : Emit(pkts) /\ AlarmFirst(pkts, RaisesAlarm)
  BY <1>1, TickAlarm
<1>4. /\ Len(queue) \in Nat /\ Len(queue') \in Nat
      /\ \A i \in Len(queue) + 1 .. Len(queue') :
           IsAlarm(queue'[i]) => RaisesAlarm /\ i = Len(queue) + 1
      /\ RaisesAlarm /\ Len(queue) < DEPTH =>
           Len(queue) + 1 \in 1 .. Len(queue') /\ IsAlarm(queue'[Len(queue) + 1])
  BY <1>2, <1>3, QueuedAlarm
<1>5. /\ new \subseteq {Len(queue) + 1} /\ (~RaisesAlarm => new = {})
      /\ RaisesAlarm /\ Len(queue) < DEPTH => new = {Len(queue) + 1}
  BY <1>4 DEF Newly, IsEvent, IsAlarm
<1> HIDE DEF new
<1>6. /\ Cardinality(new) \in Nat /\ Cardinality(new) <= 1
      /\ ~RaisesAlarm => Cardinality(new) = 0
      /\ RaisesAlarm /\ Len(queue) < DEPTH => Cardinality(new) = 1
  <2>1. Cardinality({}) = 0 /\ Cardinality({Len(queue) + 1}) = 1
    BY FS_EmptySet, FS_Singleton
  <2>2. new = {} \/ new = {Len(queue) + 1}
    BY <1>5
  <2>3. Cardinality(new) = 0 \/ Cardinality(new) = 1
    BY <2>1, <2>2, Zenon
  <2>4. /\ ~RaisesAlarm => Cardinality(new) = 0
        /\ RaisesAlarm /\ Len(queue) < DEPTH => Cardinality(new) = 1
    BY <1>5, <2>1, Zenon
  <2>5. QED
    BY <2>3, <2>4
<1>7. CASE hal_temperature < OBC_TEMP_HEATER_OFF_DC
  <2>1. alarms' = 0
    BY <1>1, <1>7
  <2>2. alarm_latched' = PUS_FALSE
    BY <1>2, <1>7 DEF NextLatch
  <2>3. QED
    BY <2>1, <2>2 DEF CountOK, PUS_FALSE, PUS_TRUE
<1>8. CASE ~(hal_temperature < OBC_TEMP_HEATER_OFF_DC)
  <2>1. alarms' = alarms + Cardinality(new)
    BY <1>1, <1>8
  \* A cycle that has lost nothing had room for its first packet, the alarm.
  <2>2. ASSUME COUNTER_MAX # 0, ~muted', overflows' = 0
        PROVE  ~muted /\ overflows = 0 /\ (RaisesAlarm => Len(queue) < DEPTH)
    <3>1. pkts \in Seq(TmContent) /\ Len(pkts) \in Nat /\ (RaisesAlarm => Len(pkts) >= 1)
      BY <1>3, LenProperties DEF AlarmFirst
    <3>2. overflows = 0 /\ Len(queue) + Len(pkts) <= DEPTH
      BY <1>2, <1>3, <2>2, <3>1, NothingDropped
    <3>3. muted' = muted
      BY DEF GTick
    <3>4. QED
      BY <1>4, <2>2, <3>1, <3>2, <3>3, DepthAssumption
  <2>3. CASE RaisesAlarm
    <3>1. TooHot(Acquired) /\ alarms = 0
      BY <2>3 DEF RaisesAlarm, CountOK
    <3>2. alarm_latched' = PUS_TRUE
      BY <1>2, <1>8, <3>1 DEF NextLatch
    <3>3. QED
      BY <1>6, <2>1, <2>2, <2>3, <3>1, <3>2 DEF CountOK, PUS_FALSE, PUS_TRUE
  <2>4. CASE ~RaisesAlarm
    <3>1. alarms' = alarms
      BY <1>6, <2>1, <2>4 DEF CountOK
    <3>2. alarm_latched' = PUS_FALSE => alarm_latched = PUS_FALSE
      BY <1>2, <1>8 DEF NextLatch, PUS_FALSE, PUS_TRUE
    <3>3. ASSUME COUNTER_MAX # 0, ~muted', overflows' = 0, alarm_latched' = PUS_TRUE
          PROVE  alarms = 1
      <4>1. ~muted /\ overflows = 0 /\ OBC_EVT_TEMP_ALARM \in evt_enabled
        BY <2>2, <3>3 DEF TrackOK, Following, AllEvents, EventIds, OBC_EVT_TEMP_ALARM,
                          OBC_EVENT_MAX_IDS
      <4>2. ~TooHot(Acquired) \/ alarm_latched # PUS_FALSE
        BY <2>4, <4>1 DEF RaisesAlarm
      <4>3. alarm_latched = PUS_TRUE
        BY <1>2, <1>8, <3>3, <4>2 DEF NextLatch, Flag, PUS_FALSE, PUS_TRUE
      <4>4. QED
        BY <3>3, <4>1, <4>3 DEF CountOK
    <3>4. QED
      BY <3>1, <3>2, <3>3 DEF CountOK
  <2>5. QED
    BY <2>3, <2>4
<1>9. QED
  BY <1>7, <1>8

\* A telecommand raises no alarm, and lifts neither a loss nor a muted event.
LEMMA TelecommandCount == ASSUME IInv, TrackOK, CountOK, GProcessTc PROVE CountOK'
<1>1. PICK raw \in Telecommands : obc_process_tc(raw)
  BY DEF GProcessTc
<1>2. raw \in RawTc /\ WellFramed(raw)
  BY TelecommandAssumption DEF ReceivableTc
<1>3. UNCHANGED <<alarms, alarm_latched>> /\ muted' = (muted \/ evt_enabled' # AllEvents)
  BY <1>1, TelecommandKeepsLatch DEF GProcessTc
<1>4. ASSUME COUNTER_MAX # 0, ~muted', overflows' = 0 PROVE ~muted /\ overflows = 0
  <2>1. ~muted /\ evt_enabled = AllEvents /\ DlTypeOK
    BY <1>3, <1>4 DEF TrackOK, Following, IInv, TypeOK
  <2>2. PICK pkts : Tells(pkts)
    BY <1>1, <1>2, <2>1, TelecommandTells
  <2>3. Emit(pkts) /\ pkts \in Seq(TmContent)
    BY <2>2 DEF Tells, Brings
  <2>4. QED
    BY <1>4, <2>1, <2>3, NothingDropped
<1>5. QED
  BY <1>3, <1>4 DEF CountOK

LEMMA NextCount == IInv /\ TrackOK /\ CountOK /\ [GNext]_g_vars => CountOK'
<1> SUFFICES ASSUME IInv, TrackOK, CountOK, [GNext]_g_vars PROVE CountOK'
  OBVIOUS
<1>1. ASSUME GReceive PROVE CountOK'
  BY <1>1 DEF GReceive, DownlinkOne, tm_queue_pop, app_vars, CountOK
<1>2. ASSUME GReconnect PROVE CountOK'
  BY <1>2 DEF GReconnect, obc_init, CountOK, PUS_FALSE, PUS_TRUE
<1>3. ASSUME UNCHANGED g_vars PROVE CountOK'
  BY <1>3 DEF g_vars, ground_vars, vars, dl_vars, app_vars, CountOK
<1>4. QED
  BY <1>1, <1>2, <1>3, TelecommandCount, TickCount DEF GNext

\* SWREQ-APP-070 for every queue depth and set of telecommands: obc_thermal_control
\* queues at most one temperature alarm per excursion, however often the ground commands
\* NOMINAL mode again before the unit has cooled; and as long as nothing was dropped and
\* no event disabled, s_alarm_latched stands for an alarm of this excursion, not of an
\* earlier one.  A drop is noticed only by a counter that can count one.
THEOREM OneAlarmPerExcursion ==
  ASSUME COUNTER_MAX # 0 PROVE GSpec => []AlarmOncePerExcursion
<1>1. GInit => CountOK
  BY DEF GInit, Init, CountOK, PUS_FALSE, PUS_TRUE
<1>2. CountOK => AlarmOncePerExcursion
  BY DEF CountOK, AlarmOncePerExcursion
<1>3. QED
  BY <1>1, <1>2, NextCount, TrackInvariant, PTL DEF GSpec
=============================================================================
