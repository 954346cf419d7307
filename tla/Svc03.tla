------------------------------- MODULE Svc03 -------------------------------
(***************************************************************************)
(* src/svc03_housekeeping.c : housekeeping reports, periodic and one-shot. *)
(* A report is a snapshot of the application state s and of the downlink   *)
(* queue after the k packets already sent in the same step.                *)
(***************************************************************************)
EXTENDS PusTc, Downlink

CONSTANT HK_PERIOD   \* OBC_HK_PERIOD_TICKS
ASSUME HkPeriodAssumption == HK_PERIOD \in Nat \ {0}

OBC_HK_SID_ESSENTIAL  == 1
OBC_HK_SID_DIAGNOSTIC == 2
Sids == {OBC_HK_SID_ESSENTIAL, OBC_HK_SID_DIAGNOSTIC}

VARIABLES hk_enabled,  \* the structures whose periodic generation is on
          hk_phase     \* s_phase, minor cycles into the current period
hk_vars == <<hk_enabled, hk_phase>>

\* svc03_init
HkEnabledAtPowerOn == {OBC_HK_SID_ESSENTIAL}

\* Mutant: the queue is measured after the report itself was sent.
svc03_generate_counts_itself(sid, s, k) ==
  [service |-> PUS_SERVICE_HOUSEKEEPING,
   subtype |-> PUS_ST03_REPORT,
   data |-> IF sid = OBC_HK_SID_ESSENTIAL
            THEN <<sid, s.mode, s.uptime_ticks, U16(s.temperature_dc), s.heater_on>>
            ELSE <<sid, s.tc_accepted, s.tc_rejected, s.last_failure_code,
                   U8(CountAfter(k + 1)), OverflowsAfter(k + 1)>>]

\* Source data of the report on sid.
svc03_generate(sid, s, k) ==
  [service |-> PUS_SERVICE_HOUSEKEEPING,
   subtype |-> PUS_ST03_REPORT,
   data |-> IF sid = OBC_HK_SID_ESSENTIAL
            THEN <<sid, s.mode, s.uptime_ticks, U16(s.temperature_dc), s.heater_on>>
            ELSE <<sid, s.tc_accepted, s.tc_rejected, s.last_failure_code,
                   U8(CountAfter(k)), OverflowsAfter(k)>>]

-----------------------------------------------------------------------------
\* The structure identifiers a service 3 telecommand lists after their number.
SidList(tc) == Tail(tc.app_data)

\* What svc03_handle refuses before it has any effect.
svc03_status(tc) ==
  IF tc.service_subtype \notin {PUS_ST03_ENABLE, PUS_ST03_DISABLE, PUS_ST03_ONE_SHOT}
    THEN PUS_ERR_UNKNOWN_SUBTYPE
  ELSE IF Len(tc.app_data) < 1 THEN PUS_ERR_BAD_LENGTH
  ELSE IF Len(tc.app_data) # 1 + tc.app_data[1] THEN PUS_ERR_BAD_LENGTH
  ELSE IF tc.app_data[1] = 0 THEN PUS_ERR_BAD_PARAMETER
  ELSE IF \E i \in 2 .. Len(tc.app_data) : tc.app_data[i] \notin Sids THEN PUS_ERR_UNKNOWN_SID
  ELSE PUS_OK

ListedSids(tc) == {tc.app_data[i] : i \in 2 .. Len(tc.app_data)}

\* s_enabled[sid - 1] = enable, for every listed structure
svc03_set_enabled(tc) ==
  hk_enabled' = IF tc.service_subtype = PUS_ST03_ENABLE
                THEN hk_enabled \cup ListedSids(tc)
                ELSE hk_enabled \ ListedSids(tc)

\* The one-shot loop sends report after report and stops at the first that does
\* not fit: k packets went before, so the queue takes OneShotRoom(k) more.
OneShotRoom(k) == DEPTH - CountAfter(k)

\* Mutant: nothing is sent unless the whole list fits.
OneShotReports_all_or_nothing(tc, s, k) ==
  IF Len(SidList(tc)) > OneShotRoom(k) THEN <<>>
  ELSE [i \in DOMAIN SidList(tc) |-> svc03_generate(SidList(tc)[i], s, k + i - 1)]

OneShotReports(tc, s, k) ==
  [i \in 1 .. Lesser(Len(SidList(tc)), OneShotRoom(k) + 1) |->
     svc03_generate(SidList(tc)[i], s, k + i - 1)]
OneShotStatus(tc, k) ==
  IF Len(SidList(tc)) <= OneShotRoom(k) THEN PUS_OK ELSE PUS_ERR_QUEUE_FULL

-----------------------------------------------------------------------------
\* Mutant: the phase is not reset, the report repeats on every later cycle.
NextPhase_no_reset == hk_phase + 1

NextPhase == IF hk_phase + 1 < HK_PERIOD THEN hk_phase + 1 ELSE 0

\* svc03_tick at the end of a period: one report for each enabled structure, in order.
PeriodicReport(sid, s, k) == IF sid \in hk_enabled THEN <<svc03_generate(sid, s, k)>> ELSE <<>>
svc03_tick(s, k) ==
  IF hk_phase + 1 < HK_PERIOD THEN <<>>
  ELSE LET first == PeriodicReport(OBC_HK_SID_ESSENTIAL, s, k)
       IN first \o PeriodicReport(OBC_HK_SID_DIAGNOSTIC, s, k + Len(first))
=============================================================================
