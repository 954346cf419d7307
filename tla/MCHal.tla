------------------------------- MODULE MCHal -------------------------------
(***************************************************************************)
(* On-board time by itself, scaled down: 5 ms minor cycles, 6 ms seconds,  *)
(* 4 fine units per second, 32-valued 32-bit words.  As in the real        *)
(* configuration a minor cycle is not a whole number of fine units, and    *)
(* the product ticks * TICK_MS wraps before ticks does.                    *)
(***************************************************************************)
EXTENDS Hal

CONSTANTS CommandedCoarse  \* coarse times a ground command sets

\* The two operations below leave the temperature and the heater line alone.
Advance == hal_time_advance /\ UNCHANGED <<hal_temperature, hal_heater>>
SetTime(c) == /\ hal_set_cuc_time(c.coarse, c.fine)
              /\ UNCHANGED <<hal_temperature, hal_heater>>
MCNext == Advance \/ (\E c \in CucTimes : c.coarse \in CommandedCoarse /\ SetTime(c)) \/ hal_time_init
MCSpec == HalInit /\ [][MCNext]_hal_vars

-----------------------------------------------------------------------------
\* "the time reported right now equals the value just commanded"
\* (hal_host.c, comment of hal_set_cuc_time), as it stands.
ReportedEqualsCommanded ==
  [][\A c \in CucTimes : hal_set_cuc_time(c.coarse, c.fine) => Now' = c]_hal_vars

\* "shall continue to advance time from the value commanded" (SWREQ-HAL-020)
\* with no restriction: a minor cycle never sets time back, modulo its range.
TimeNeverStepsBack ==
  [][hal_time_advance =>
       (Instant(Now') - Instant(Now)) % (U32 * FINE) < (U32 * FINE) \div 2]_hal_vars
=============================================================================
