-------------------------------- MODULE Hal --------------------------------
(***************************************************************************)
(* src/hal_host.c : the hardware abstraction layer of the host build.      *)
(* On-board time is an epoch plus the minor cycle counter; the temperature *)
(* is what was last injected; the heater is a line that is on or off.      *)
(* All arithmetic is the C code's, with the widths of its types.           *)
(***************************************************************************)
EXTENDS PusTypes, Sequences

CONSTANTS U32,       \* 2^32, modulus of uint32_t
          FINE,      \* 65536, units of CUC fine time in a second, and modulus of uint16_t
          MS_PER_S,  \* 1000
          TICK_MS    \* OBC_TICK_PERIOD_MS

ASSUME TimeAssumption == /\ U32 \in Nat \ {0} /\ FINE \in Nat \ {0}
                         /\ MS_PER_S \in Nat \ {0} /\ TICK_MS \in Nat \ {0}
\* (elapsed_ms % 1000) * 65536 and its sum with a fine time fit 32 bits.
ASSUME FineFitsAssumption == MS_PER_S * FINE + FINE <= U32

VARIABLES ticks,            \* s_ticks
          epoch_coarse,     \* s_epoch_coarse
          epoch_fine,       \* s_epoch_fine
          hal_temperature,  \* s_temperature_dc, tenths of a degree
          hal_heater        \* s_heater_on

time_vars == <<ticks, epoch_coarse, epoch_fine>>
hal_vars == <<ticks, epoch_coarse, epoch_fine, hal_temperature, hal_heater>>

PowerOnTemperature == 200

HalInit == /\ ticks = 0 /\ epoch_coarse = 0 /\ epoch_fine = 0
           /\ hal_temperature = PowerOnTemperature
           /\ hal_heater = PUS_FALSE

hal_time_init == /\ ticks' = 0 /\ epoch_coarse' = 0 /\ epoch_fine' = 0
                 /\ hal_temperature' = PowerOnTemperature
                 /\ hal_heater' = PUS_FALSE

-----------------------------------------------------------------------------
\* Mutant: a counter with more than 32 bits.
hal_time_advance_wider == /\ ticks' = ticks + 1
                          /\ UNCHANGED <<epoch_coarse, epoch_fine>>

\* s_ticks += 1
hal_time_advance == /\ ticks' = (ticks + 1) % U32
                    /\ UNCHANGED <<epoch_coarse, epoch_fine>>

\* elapsed_ms, a 32-bit product
ElapsedMs(t) == (t * TICK_MS) % U32
ElapsedSeconds(t) == ElapsedMs(t) \div MS_PER_S
\* ((elapsed_ms % 1000) * 65536) / 1000
ElapsedFine(t) == ((ElapsedMs(t) % MS_PER_S) * FINE) \div MS_PER_S

\* Mutant: the carry out of the fine field is lost.
hal_get_cuc_time_no_carry(t, ec, ef) ==
  [coarse |-> (ec + ElapsedSeconds(t)) % U32,
   fine   |-> (ef + ElapsedFine(t)) % FINE]

\* The time a telemetry packet built now is stamped with.
hal_get_cuc_time(t, ec, ef) ==
  LET total_fine == ef + ElapsedFine(t) IN
  [coarse |-> (ec + ElapsedSeconds(t) + total_fine \div FINE) % U32,
   fine   |-> total_fine % FINE]

\* Mutant: the fraction of a second already elapsed is not subtracted.
hal_set_cuc_time_whole_seconds(coarse, fine) ==
  /\ epoch_coarse' = (coarse - ElapsedSeconds(ticks)) % U32
  /\ epoch_fine' = fine
  /\ UNCHANGED ticks

\* Mutant: setting the time restarts the minor cycle counter.
hal_set_cuc_time_restarts_ticks(coarse, fine) ==
  epoch_coarse' = coarse /\ epoch_fine' = fine /\ ticks' = 0

hal_set_cuc_time(coarse, fine) ==
  /\ epoch_coarse' = (coarse - ElapsedSeconds(ticks)) % U32
  /\ epoch_fine' = (fine - ElapsedFine(ticks)) % FINE
  /\ UNCHANGED ticks

hal_inject_temperature(value) == hal_temperature' = value

\* s_heater_on = (on != PUS_FALSE) ? PUS_TRUE : PUS_FALSE
hal_set_heater(on) == hal_heater' = IF on # PUS_FALSE THEN PUS_TRUE ELSE PUS_FALSE

-----------------------------------------------------------------------------
HalTypeOK == /\ ticks \in 0 .. U32 - 1
             /\ epoch_coarse \in 0 .. U32 - 1
             /\ epoch_fine \in 0 .. FINE - 1
             /\ hal_temperature \in Int16
             /\ hal_heater \in {PUS_FALSE, PUS_TRUE}

-----------------------------------------------------------------------------
CucTimes == [coarse : 0 .. U32 - 1, fine : 0 .. FINE - 1]
Now == hal_get_cuc_time(ticks, epoch_coarse, epoch_fine)
\* On-board time in fine units.
Instant(c) == c.coarse * FINE + c.fine
\* The elapsed milliseconds wrap at the next minor cycle.
ElapsedWraps == ElapsedMs(ticks) + TICK_MS >= U32

\* The commanded fine time precedes the fraction of a second the tick counter has
\* run into, and nothing borrows from the coarse field.
MissingBorrow(fine) == IF fine >= ElapsedFine(ticks) THEN 0 ELSE 1
ReadsBack(c) ==
  hal_set_cuc_time(c.coarse, c.fine) =>
    /\ Now'.fine = c.fine
    /\ Now'.coarse = (c.coarse + MissingBorrow(c.fine)) % U32

\* hal_set_cuc_time followed at once by hal_get_cuc_time: the fine time read is
\* always the one commanded, and the whole time is whenever the commanded fine
\* time is at least the fraction of a second the tick counter has run into
\* (otherwise a second is added).
SetTimeReadsBack == [][\A c \in CucTimes : ReadsBack(c)]_hal_vars

OneTickAhead ==
  hal_time_advance /\ ~ElapsedWraps =>
    LET step == (Instant(Now') - Instant(Now)) % (U32 * FINE) IN
    step * MS_PER_S \in (TICK_MS * FINE - MS_PER_S) .. (TICK_MS * FINE + MS_PER_S)

\* "shall continue to advance time from the value commanded" (SWREQ-HAL-020):
\* from any epoch, one minor cycle moves on-board time forward by TICK_MS, to
\* within the one fine unit the integer division rounds, across the carries of
\* fine into coarse and the wrap of coarse, until the 32-bit millisecond product wraps.
TimeAdvancesByOneTick == [][OneTickAhead]_hal_vars
=============================================================================
