------------------------------- MODULE Obsw --------------------------------
(***************************************************************************)
(* src/obc_app.c with the services it drives: the flight application, as   *)
(* the operations its environment calls.  Each call runs to completion     *)
(* before the next one, so each is one step.  ObswEnv calls them in any    *)
(* order, ObcSim in the order of the host driver.                          *)
(*                                                                         *)
(* A function that changes the application state, drives the heater line   *)
(* and sends telemetry is an Effect: the state it leaves, the level of the *)
(* line, the packets it sent in order.                                     *)
(***************************************************************************)
EXTENDS Hal, Svc01, Svc03, Svc05

VARIABLES state,          \* s_state
          alarm_latched,  \* s_alarm_latched
          last_overflow   \* s_last_overflow
app_vars == <<state, alarm_latched, last_overflow>>
vars == <<hal_vars, dl_vars, hk_vars, evt_enabled, app_vars>>

OBC_TEMP_HEATER_ON_DC  == 50
OBC_TEMP_HEATER_OFF_DC == 250
OBC_TEMP_ALARM_DC      == 400

Flag == {PUS_FALSE, PUS_TRUE}
obc_state_t == [mode : {OBC_MODE_SAFE, OBC_MODE_NOMINAL},
                uptime_ticks : 0 .. U32 - 1,
                temperature_dc : Int16,
                heater_on : Flag,
                tc_accepted : 0 .. COUNTER_MAX,
                tc_rejected : 0 .. COUNTER_MAX,
                last_failure_code : pus_status_t]

-----------------------------------------------------------------------------
\* obc_init : the power-on state, and the boot event as the only telemetry.
PowerOnState == [mode |-> OBC_MODE_SAFE, uptime_ticks |-> 0,
                 temperature_dc |-> PowerOnTemperature, heater_on |-> PUS_FALSE,
                 tc_accepted |-> 0, tc_rejected |-> 0, last_failure_code |-> PUS_OK]
BootReport == [service |-> PUS_SERVICE_EVENT, subtype |-> PUS_ST05_INFORMATIVE,
               data |-> <<OBC_EVT_BOOT_COMPLETED, 0>>,
               seq_count |-> 0, msg_counter |-> 0]
CountersAfterBoot == [ZeroCounters EXCEPT ![PUS_SERVICE_EVENT] = 1 % MSG_MODULUS]

Init == /\ HalInit
        /\ queue = <<BootReport>> /\ overflows = 0
        /\ seq_count = 1 % SEQ_MODULUS /\ msg_counter = CountersAfterBoot
        /\ hk_enabled = HkEnabledAtPowerOn /\ hk_phase = 0
        /\ evt_enabled = AllEvents
        /\ state = PowerOnState
        /\ alarm_latched = PUS_FALSE /\ last_overflow = 0

\* obc_init ends with hal_set_heater(PUS_FALSE), the value hal_time_init already set.
obc_init == /\ hal_time_init
            /\ queue' = <<BootReport>> /\ overflows' = 0
            /\ seq_count' = 1 % SEQ_MODULUS /\ msg_counter' = CountersAfterBoot
            /\ hk_enabled' = HkEnabledAtPowerOn /\ hk_phase' = 0
            /\ evt_enabled' = AllEvents
            /\ state' = PowerOnState
            /\ alarm_latched' = PUS_FALSE /\ last_overflow' = 0

-----------------------------------------------------------------------------
(* Mode and heater control *)

Effect(s, level, tm) == [state |-> s, line |-> level, tm |-> tm]
NoEffect(s) == Effect(s, hal_heater, <<>>)

\* Mutant: the event carries the level before the change.
obc_apply_heater_reports_old(s, on) ==
  IF on = s.heater_on THEN NoEffect(s)
  ELSE Effect([s EXCEPT !.heater_on = on], on,
              svc05_report(OBC_EVT_HEATER_SWITCHED, PUS_ST05_INFORMATIVE, s.heater_on))

obc_apply_heater(s, on) ==
  IF on = s.heater_on THEN NoEffect(s)
  ELSE Effect([s EXCEPT !.heater_on = on], on,
              svc05_report(OBC_EVT_HEATER_SWITCHED, PUS_ST05_INFORMATIVE, on))

\* Mutant: entering SAFE mode leaves the heater to the control law.
obc_set_mode_keeps_heater(s, mode) ==
  IF mode = s.mode THEN NoEffect(s)
  ELSE Effect([s EXCEPT !.mode = mode], hal_heater,
              svc05_report(OBC_EVT_MODE_CHANGED, PUS_ST05_INFORMATIVE, mode))

obc_set_mode(s, mode) ==
  IF mode = s.mode THEN NoEffect(s)
  ELSE LET entered == [s EXCEPT !.mode = mode]
           e == IF mode = OBC_MODE_SAFE THEN obc_apply_heater(entered, PUS_FALSE)
                ELSE NoEffect(entered)
       IN [e EXCEPT !.tm =
             @ \o svc05_report(OBC_EVT_MODE_CHANGED, PUS_ST05_INFORMATIVE, mode)]

\* Mutant: SAFE mode is entered only together with a fresh alarm.
TooHot_when_not_latched(s) == /\ s.mode = OBC_MODE_NOMINAL
                              /\ s.temperature_dc >= OBC_TEMP_ALARM_DC
                              /\ alarm_latched = PUS_FALSE

TooHot(s) == s.mode = OBC_MODE_NOMINAL /\ s.temperature_dc >= OBC_TEMP_ALARM_DC

AlarmReport(s) ==
  IF alarm_latched = PUS_FALSE
  THEN svc05_report(OBC_EVT_TEMP_ALARM, PUS_ST05_HIGH_SEVERITY, s.temperature_dc)
  ELSE <<>>

obc_thermal_control(s) ==
  LET t == s.temperature_dc IN
  IF TooHot(s) THEN
    LET e == obc_set_mode(s, OBC_MODE_SAFE) IN [e EXCEPT !.tm = AlarmReport(s) \o @]
  ELSE IF s.mode # OBC_MODE_NOMINAL \/ t >= OBC_TEMP_HEATER_OFF_DC
    THEN obc_apply_heater(s, PUS_FALSE)
  ELSE IF t <= OBC_TEMP_HEATER_ON_DC THEN obc_apply_heater(s, PUS_TRUE)
  ELSE NoEffect(s)   \* inside the hysteresis band

\* Mutant: leaving the alarm zone re-arms the alarm, with no hysteresis.
NextLatch_no_hysteresis(s) ==
  IF s.temperature_dc < OBC_TEMP_ALARM_DC THEN PUS_FALSE
  ELSE IF TooHot(s) THEN PUS_TRUE ELSE alarm_latched

NextLatch(s) == IF s.temperature_dc < OBC_TEMP_HEATER_OFF_DC THEN PUS_FALSE
                ELSE IF TooHot(s) THEN PUS_TRUE ELSE alarm_latched

\* Mutant: the counter is read again after the report was sent.
Sampled_after_report(before, report) == OverflowsAfter(Len(before) + Len(report))

\* The value s_last_overflow takes: what the counter was before the report.
Sampled(before, report) == OverflowsAfter(Len(before))

OverflowReport(seen) ==
  IF seen = last_overflow THEN <<>>
  ELSE svc05_report(OBC_EVT_TM_QUEUE_OVERFLOW, PUS_ST05_LOW_SEVERITY, seen)

\* One minor cycle: acquire, control, report.
obc_tick ==
  LET acquired == [state EXCEPT !.uptime_ticks = (@ + 1) % U32,
                                !.temperature_dc = hal_temperature]
      e == obc_thermal_control(acquired)
      report == OverflowReport(OverflowsAfter(Len(e.tm)))
      tm == e.tm \o report
  IN /\ hal_time_advance
     /\ state' = e.state
     /\ hal_set_heater(e.line)
     /\ alarm_latched' = NextLatch(acquired)
     /\ last_overflow' = Sampled(e.tm, report)
     /\ hk_phase' = NextPhase
     /\ Emit(tm \o svc03_tick(e.state, Len(tm)))
     /\ UNCHANGED <<hal_temperature, hk_enabled, evt_enabled>>

-----------------------------------------------------------------------------
(* Telecommands *)

\* A 16-bit counter that stops at 0xFFFF.
Counted(n) == IF n < COUNTER_MAX THEN n + 1 ELSE n

RejectionEvent(code) == svc05_report(OBC_EVT_TC_REJECTED, PUS_ST05_LOW_SEVERITY, code)

\* A packet that fails the acceptance checks.
RejectTc(raw) ==
  LET st == pus_tc_parse(raw) IN
  /\ st # PUS_OK
  /\ state' = [state EXCEPT !.tc_rejected = Counted(@), !.last_failure_code = st]
  /\ Emit(svc01_reject_raw(raw, st) \o RejectionEvent(st))
  /\ UNCHANGED <<hal_vars, hk_vars, evt_enabled, alarm_latched, last_overflow>>

\* The state a service handler finds: the telecommand is already counted.
AcceptedState == [state EXCEPT !.tc_accepted = Counted(@)]
\* The packets sent before a service handler runs.
SentBefore(tc) == Len(svc01_acceptance_success(tc))

\* The end of obc_process_tc for a handler that returned st, left state s and
\* sent the response: acceptance, response, completion leave in this order.
Conclude(tc, st, s, response) ==
  /\ state' = IF st = PUS_OK THEN s ELSE [s EXCEPT !.last_failure_code = st]
  /\ Emit(svc01_acceptance_success(tc) \o response \o
          (IF st = PUS_OK THEN svc01_completion_success(tc)
           ELSE svc01_completion_failure(tc, st) \o RejectionEvent(st)))
  /\ UNCHANGED <<alarm_latched, last_overflow>>

\* Length of the arguments of each function of service 8.
ArgumentLength == [fid \in OBC_FID_SET_MODE .. OBC_FID_SET_TIME |->
                     CASE fid \in {OBC_FID_SET_MODE, OBC_FID_SET_HEATER} -> 1
                       [] fid = OBC_FID_INJECT_TEMP -> 2
                       [] fid = OBC_FID_RESET_COUNTERS -> 0
                       [] fid = OBC_FID_SET_TIME -> 6]

\* What svc08_handle refuses by itself.
svc08_arguments_status(tc) ==
  LET d == tc.app_data IN
  IF tc.service_subtype # PUS_ST08_PERFORM THEN PUS_ERR_UNKNOWN_SUBTYPE
  ELSE IF Len(d) < 1 THEN PUS_ERR_BAD_LENGTH
  ELSE IF d[1] \notin DOMAIN ArgumentLength THEN PUS_ERR_UNKNOWN_FUNCTION
  ELSE IF Len(d) - 1 # ArgumentLength[d[1]] THEN PUS_ERR_BAD_LENGTH
  ELSE IF d[1] = OBC_FID_SET_MODE /\ d[2] \notin {OBC_MODE_SAFE, OBC_MODE_NOMINAL}
    THEN PUS_ERR_BAD_PARAMETER
  ELSE IF d[1] = OBC_FID_SET_HEATER /\ d[2] > 1 THEN PUS_ERR_BAD_PARAMETER
  ELSE PUS_OK

\* Mutant: the interlock only guards the off command.
HeaterInterlock_off_only(tc) == /\ tc.app_data[1] = OBC_FID_SET_HEATER
                                /\ tc.app_data[2] = PUS_FALSE
                                /\ state.mode = OBC_MODE_SAFE

\* obc_set_heater : in SAFE mode the survival law owns the line.
HeaterInterlock(tc) == tc.app_data[1] = OBC_FID_SET_HEATER /\ state.mode = OBC_MODE_SAFE

svc08_status(tc) ==
  IF svc08_arguments_status(tc) # PUS_OK THEN svc08_arguments_status(tc)
  ELSE IF HeaterInterlock(tc) THEN PUS_ERR_NOT_PERMITTED
  ELSE PUS_OK

svc17_status(tc) ==
  IF tc.service_subtype # PUS_ST17_ARE_YOU_ALIVE THEN PUS_ERR_UNKNOWN_SUBTYPE
  ELSE IF Len(tc.app_data) # 0 THEN PUS_ERR_BAD_LENGTH
  ELSE PUS_OK

\* Status a handler returns without having had any effect, PUS_OK if it goes on.
obc_route(tc) ==
  CASE tc.service_type = PUS_SERVICE_HOUSEKEEPING -> svc03_status(tc)
    [] tc.service_type = PUS_SERVICE_EVENT -> svc05_status(tc)
    [] tc.service_type = PUS_SERVICE_FUNCTION -> svc08_status(tc)
    [] tc.service_type = PUS_SERVICE_TEST -> svc17_status(tc)
    [] OTHER -> PUS_ERR_UNKNOWN_SERVICE

Accepted(tc, service) == /\ pus_tc_parse(tc) = PUS_OK
                         /\ tc.service_type = service
                         /\ obc_route(tc) = PUS_OK

\* An accepted telecommand that its service, or the router, refuses.
RefuseTc(tc) ==
  /\ pus_tc_parse(tc) = PUS_OK
  /\ obc_route(tc) # PUS_OK
  /\ Conclude(tc, obc_route(tc), AcceptedState, <<>>)
  /\ UNCHANGED <<hal_vars, hk_vars, evt_enabled>>

\* (3,5) and (3,6)
Svc03Configure(tc) ==
  /\ Accepted(tc, PUS_SERVICE_HOUSEKEEPING)
  /\ tc.service_subtype \in {PUS_ST03_ENABLE, PUS_ST03_DISABLE}
  /\ svc03_set_enabled(tc)
  /\ Conclude(tc, PUS_OK, AcceptedState, <<>>)
  /\ UNCHANGED <<hal_vars, hk_phase, evt_enabled>>

\* (3,27)
Svc03OneShot(tc) ==
  /\ Accepted(tc, PUS_SERVICE_HOUSEKEEPING)
  /\ tc.service_subtype = PUS_ST03_ONE_SHOT
  /\ Conclude(tc, OneShotStatus(tc, SentBefore(tc)), AcceptedState,
              OneShotReports(tc, AcceptedState, SentBefore(tc)))
  /\ UNCHANGED <<hal_vars, hk_vars, evt_enabled>>

\* (5,5) and (5,6)
Svc05Configure(tc) ==
  /\ Accepted(tc, PUS_SERVICE_EVENT)
  /\ svc05_set_enabled(tc)
  /\ Conclude(tc, PUS_OK, AcceptedState, <<>>)
  /\ UNCHANGED <<hal_vars, hk_vars>>

Function(tc, fid) == Accepted(tc, PUS_SERVICE_FUNCTION) /\ tc.app_data[1] = fid

\* (8,1) functions 1 and 2
Svc08SetMode(tc) ==
  /\ Function(tc, OBC_FID_SET_MODE)
  /\ LET e == obc_set_mode(AcceptedState, tc.app_data[2]) IN
     /\ hal_set_heater(e.line)
     /\ Conclude(tc, PUS_OK, e.state, e.tm)
  /\ UNCHANGED <<time_vars, hal_temperature, hk_vars, evt_enabled>>

Svc08SetHeater(tc) ==
  /\ Function(tc, OBC_FID_SET_HEATER)
  /\ LET e == obc_apply_heater(AcceptedState, tc.app_data[2]) IN
     /\ hal_set_heater(e.line)
     /\ Conclude(tc, PUS_OK, e.state, e.tm)
  /\ UNCHANGED <<time_vars, hal_temperature, hk_vars, evt_enabled>>

\* (8,1) functions 3, 5 and 4
Svc08InjectTemp(tc) ==
  /\ Function(tc, OBC_FID_INJECT_TEMP)
  /\ hal_inject_temperature(pus_get_i16(tc.app_data, 2))
  /\ Conclude(tc, PUS_OK, AcceptedState, <<>>)
  /\ UNCHANGED <<time_vars, hal_heater, hk_vars, evt_enabled>>

Svc08SetTime(tc) ==
  /\ Function(tc, OBC_FID_SET_TIME)
  /\ hal_set_cuc_time(pus_get_u32(tc.app_data, 2) % U32, pus_get_u16(tc.app_data, 6) % FINE)
  /\ Conclude(tc, PUS_OK, AcceptedState, <<>>)
  /\ UNCHANGED <<hal_temperature, hal_heater, hk_vars, evt_enabled>>

\* obc_reset_counters clears the count of the telecommand that called it too.
Svc08ResetCounters(tc) ==
  /\ Function(tc, OBC_FID_RESET_COUNTERS)
  /\ Conclude(tc, PUS_OK, [state EXCEPT !.tc_accepted = 0, !.tc_rejected = 0,
                                        !.last_failure_code = PUS_OK], <<>>)
  /\ UNCHANGED <<hal_vars, hk_vars, evt_enabled>>

\* (17,1) : the answer itself may find the queue full.
Svc17AreYouAlive(tc) ==
  /\ Accepted(tc, PUS_SERVICE_TEST)
  /\ Conclude(tc, SendStatus(SentBefore(tc)), AcceptedState,
              <<[service |-> PUS_SERVICE_TEST, subtype |-> PUS_ST17_I_AM_ALIVE, data |-> <<>>]>>)
  /\ UNCHANGED <<hal_vars, hk_vars, evt_enabled>>

obc_process_tc(raw) ==
  \/ RejectTc(raw) \/ RefuseTc(raw)
  \/ Svc03Configure(raw) \/ Svc03OneShot(raw) \/ Svc05Configure(raw)
  \/ Svc08SetMode(raw) \/ Svc08SetHeater(raw) \/ Svc08InjectTemp(raw)
  \/ Svc08SetTime(raw) \/ Svc08ResetCounters(raw)
  \/ Svc17AreYouAlive(raw)

DownlinkOne == tm_queue_pop /\ UNCHANGED <<hal_vars, hk_vars, evt_enabled, app_vars>>

\* One call of the environment, a telecommand being one of tcs.
Call(tcs) == \/ \E raw \in tcs : obc_process_tc(raw)
             \/ obc_tick
             \/ DownlinkOne
             \/ obc_init

\* The application at the hands of any environment: calls in any order, and whatever
\* telecommand may arrive.
OpenSpec == Init /\ [][Call(ReceivableTc)]_vars

-----------------------------------------------------------------------------
\* Types of every static of the application, its services and the HAL.
TypeOK == /\ HalTypeOK /\ DlTypeOK
          /\ hk_enabled \subseteq Sids /\ hk_phase \in 0 .. HK_PERIOD - 1
          /\ evt_enabled \subseteq EventIds
          /\ state \in obc_state_t
          /\ alarm_latched \in Flag
          /\ last_overflow \in 0 .. COUNTER_MAX

\* "In SAFE mode the OBSW shall hold the survival heater off regardless of
\* temperature and regardless of ground commanding" (SWREQ-APP-080) and "the
\* state mirror published in housekeeping, the hardware line and the event
\* report can never disagree" (obc_apply_heater): whatever sequence of
\* commands, cycles and reconnections, the line follows the mirror, and both
\* are off in SAFE mode.
SafeHoldsHeaterOff ==
  /\ hal_heater = state.heater_on
  /\ state.mode = OBC_MODE_SAFE => hal_heater = PUS_FALSE

\* What a packet says has failed: the code of a failure report or rejection event.
FailureCode(p) ==
  IF p.service = PUS_SERVICE_VERIFICATION
     /\ p.subtype \in {PUS_ST01_ACCEPTANCE_FAILURE, PUS_ST01_COMPLETION_FAILURE}
  THEN p.data[3]
  ELSE IF p.service = PUS_SERVICE_EVENT /\ p.data[1] = OBC_EVT_TC_REJECTED
  THEN p.data[2] ELSE PUS_OK

\* A telecommand that failed because the downlink queue was full is never
\* reported as such: obc_process_tc returns PUS_ERR_QUEUE_FULL only with the queue
\* still full, so its (1,8) report and its rejection event are dropped too and the
\* ground sees code 16 at most in the last_failure_code of housekeeping.
QueueFullIsNeverReported ==
  \A i \in DOMAIN queue : FailureCode(queue[i]) # PUS_ERR_QUEUE_FULL

\* Essential housekeeping is a coherent snapshot: no report, however long it
\* waits in the queue, shows the heater on in SAFE mode.
HousekeepingCoherent ==
  \A i \in DOMAIN queue :
    LET p == queue[i] IN
    p.service = PUS_SERVICE_HOUSEKEEPING /\ p.data[1] = OBC_HK_SID_ESSENTIAL
      => p.data[2] = OBC_MODE_NOMINAL \/ p.data[5] = PUS_FALSE

\* Diagnostic housekeeping is a snapshot taken before its own packet is queued:
\* while it waits, a report never claims fewer packets ahead of it than there
\* are, never a full queue, and never more losses than have been counted.
DiagnosticReportHonest ==
  \A i \in DOMAIN queue :
    LET p == queue[i] IN
    p.service = PUS_SERVICE_HOUSEKEEPING /\ p.data[1] = OBC_HK_SID_DIAGNOSTIC
      => p.data[5] \in i - 1 .. DEPTH - 1 /\ p.data[6] \in 0 .. overflows

\* The minor cycle counters of the HAL, of the application and of housekeeping are
\* three statics of three files (SWREQ-HAL-010, SWREQ-APP-110, SWREQ-SVC3-030), each with
\* its own increment in obc_tick and its own reset in obc_init.  Only those two calls move
\* one of them, and then all three: setting the time, one-shot reports, reconfiguration
\* and drained or dropped packets never shift one against the others.
CountersAdvance == /\ ticks' = (ticks + 1) % U32
                   /\ state'.uptime_ticks = (state.uptime_ticks + 1) % U32
                   /\ hk_phase' = (hk_phase + 1) % HK_PERIOD
CountersRestart == ticks' = 0 /\ state'.uptime_ticks = 0 /\ hk_phase' = 0
ClocksInLockstep ==
  [][CountersAdvance \/ CountersRestart]_<<ticks, state.uptime_ticks, hk_phase>>
=============================================================================
