----------------------------- MODULE ObswLemmas -----------------------------
(***************************************************************************)
(* The application in any environment, for every queue depth, counter      *)
(* width, housekeeping period and telecommand: what each operation of Obsw *)
(* preserves (types, the SAFE mode heater interlock, the cycle counters)   *)
(* and what the packets it sends say.  ObswProofs and ObcSimProofs draw    *)
(* the theorems about the callers of the application from these lemmas.    *)
(***************************************************************************)
EXTENDS Obsw, DownlinkProofs

-----------------------------------------------------------------------------
(* The packets the services send are telemetry contents *)

\* 16-bit readings are integers, status codes are natural numbers.
LEMMA Int16IsInt == ASSUME NEW x \in Int16 PROVE x \in Int
<1>1. INT16_MAX \in Int
  BY DEF INT16_MAX
<1>2. QED
  BY <1>1 DEF Int16
LEMMA Int16Bounds ==
  ASSUME NEW x \in Int, -INT16_MAX - 1 =< x, x =< INT16_MAX
  PROVE  x \in Int16
<1>1. INT16_MAX \in Int
  BY DEF INT16_MAX
<1>2. QED
  BY <1>1 DEF Int16
LEMMA OctetBounds == ASSUME NEW x \in Octet PROVE x \in Int /\ 0 =< x /\ x =< 255
  BY DEF Octet
LEMMA StatusIsNat == ASSUME NEW x \in pus_status_t PROVE x \in Nat
  BY DEF pus_status_t

\* A sequence of one element.
LEMMA Singleton ==
  ASSUME NEW S, NEW e \in S
  PROVE  <<e>> \in Seq(S) /\ Len(<<e>>) = 1
  OBVIOUS

LEMMA ReportType ==
  ASSUME NEW id \in Nat, NEW severity \in Nat, NEW aux \in Int
  PROVE  svc05_report(id, severity, aux) \in Seq(TmContent)
<1>1. U16(aux) \in Nat
  BY DEF U16
<1>2. <<id, U16(aux)>> \in Seq(Nat)
  BY <1>1
<1>3. [service |-> PUS_SERVICE_EVENT, subtype |-> severity, data |-> <<id, U16(aux)>>] \in TmContent
  BY <1>2 DEF TmContent, TmServices
<1>4. QED
  BY <1>3, Singleton, EmptySeq DEF svc05_report

LEMMA VerificationTypes ==
  ASSUME NEW tc \in RawTc, NEW code \in pus_status_t
  PROVE  /\ svc01_acceptance_success(tc) \in Seq(TmContent)
         /\ Len(svc01_acceptance_success(tc)) \in {0, 1}
         /\ svc01_completion_success(tc) \in Seq(TmContent)
         /\ svc01_completion_failure(tc, code) \in Seq(TmContent)
         /\ svc01_reject_raw(tc, code) \in Seq(TmContent)
<1>1. /\ tc.request_id \in Word16 \X Word16 /\ <<0, 0>> \in Word16 \X Word16
      /\ U16(code) \in Nat
  <2>1. tc.request_id \in Word16 \X Word16
    BY DEF RawTc
  <2>2. 0 \in Word16
    BY DEF Word16, UINT16_MAX
  <2>3. U16(code) \in Nat
    BY DEF pus_status_t, U16
  <2>4. QED
    BY <2>1, <2>2, <2>3
<1>2. ASSUME NEW subtype \in Nat, NEW id \in Word16 \X Word16
      PROVE  /\ svc01_send_success(subtype, id) \in Seq(TmContent)
             /\ Len(svc01_send_success(subtype, id)) = 1
             /\ svc01_send_failure(subtype, id, code) \in Seq(TmContent)
  <2>1. id[1] \in Nat /\ id[2] \in Nat
    <3>1. id[1] \in Word16 /\ id[2] \in Word16
      OBVIOUS
    <3>2. ASSUME NEW w \in Word16 PROVE w \in Nat
      <4>1. UINT16_MAX \in Int
        BY DEF UINT16_MAX
      <4>2. QED
        BY <4>1 DEF Word16
    <3>3. QED
      BY <3>1, <3>2
  <2>2. <<id[1], id[2]>> \in Seq(Nat) /\ <<id[1], id[2], U16(code)>> \in Seq(Nat)
    BY <1>1, <2>1
  <2>3. /\ [service |-> PUS_SERVICE_VERIFICATION, subtype |-> subtype,
            data |-> <<id[1], id[2]>>] \in TmContent
        /\ [service |-> PUS_SERVICE_VERIFICATION, subtype |-> subtype,
            data |-> <<id[1], id[2], U16(code)>>] \in TmContent
    BY <2>2 DEF TmContent, TmServices
  <2>4. QED
    BY <2>3, Singleton DEF svc01_send_success, svc01_send_failure
<1>3. <<>> \in Seq(TmContent) /\ Len(<<>>) = 0
  BY EmptySeq
<1> USE DEF PUS_ST01_ACCEPTANCE_SUCCESS, PUS_ST01_ACCEPTANCE_FAILURE,
            PUS_ST01_COMPLETION_SUCCESS, PUS_ST01_COMPLETION_FAILURE
<1>4. /\ svc01_acceptance_success(tc) \in Seq(TmContent)
      /\ Len(svc01_acceptance_success(tc)) \in {0, 1}
  BY <1>1, <1>2, <1>3 DEF svc01_acceptance_success
<1>5. svc01_completion_success(tc) \in Seq(TmContent)
  BY <1>1, <1>2, <1>3 DEF svc01_completion_success
<1>6. svc01_completion_failure(tc, code) \in Seq(TmContent)
  BY <1>1, <1>2, <1>3 DEF svc01_completion_failure
<1>7. svc01_reject_raw(tc, code) \in Seq(TmContent)
  BY <1>1, <1>2 DEF svc01_reject_raw
<1>8. QED
  BY <1>4, <1>5, <1>6, <1>7

LEMMA GenerateType ==
  ASSUME DlTypeOK, NEW sid \in Sids, NEW s \in obc_state_t, NEW k \in Nat
  PROVE  svc03_generate(sid, s, k) \in TmContent
<1>1. /\ sid \in Nat /\ s.mode \in Nat /\ s.uptime_ticks \in Nat /\ s.heater_on \in Nat
      /\ s.tc_accepted \in Nat /\ s.tc_rejected \in Nat /\ s.last_failure_code \in Nat
      /\ s.temperature_dc \in Int
  <2>1. /\ s.mode \in {0, 1} /\ s.heater_on \in {0, 1} /\ sid \in {1, 2}
    BY DEF obc_state_t, Flag, Sids, OBC_HK_SID_ESSENTIAL, OBC_HK_SID_DIAGNOSTIC, PUS_FALSE,
           PUS_TRUE, OBC_MODE_SAFE, OBC_MODE_NOMINAL
  <2>2. s.temperature_dc \in Int
    BY Int16IsInt DEF obc_state_t
  <2>3. s.last_failure_code \in Nat
    BY StatusIsNat DEF obc_state_t
  <2>4. s.uptime_ticks \in Nat /\ s.tc_accepted \in Nat /\ s.tc_rejected \in Nat
    BY TimeAssumption, CounterAssumption DEF obc_state_t
  <2>5. QED
    BY <2>1, <2>2, <2>3, <2>4
<1>2. U16(s.temperature_dc) \in Nat
  BY <1>1 DEF U16
<1>3. CountAfter(k) \in Nat /\ OverflowsAfter(k) \in Nat
  BY AfterType, DepthAssumption, CounterAssumption
<1>4. U8(CountAfter(k)) \in Nat
  BY <1>3 DEF U8
<1>5. <<sid, s.mode, s.uptime_ticks, U16(s.temperature_dc), s.heater_on>> \in Seq(Nat)
  BY <1>1, <1>2
<1>6. <<sid, s.tc_accepted, s.tc_rejected, s.last_failure_code,
        U8(CountAfter(k)), OverflowsAfter(k)>> \in Seq(Nat)
  BY <1>1, <1>3, <1>4
<1>7. QED
  BY <1>5, <1>6 DEF svc03_generate, TmContent, TmServices, PUS_ST03_REPORT

LEMMA PeriodicType ==
  ASSUME DlTypeOK, NEW s \in obc_state_t, NEW k \in Nat
  PROVE  svc03_tick(s, k) \in Seq(TmContent)
<1>1. ASSUME NEW sid \in Sids, NEW n \in Nat
      PROVE  /\ PeriodicReport(sid, s, n) \in Seq(TmContent)
             /\ Len(PeriodicReport(sid, s, n)) \in Nat
  <2>1. PeriodicReport(sid, s, n) \in Seq(TmContent)
    BY GenerateType, Singleton, EmptySeq DEF PeriodicReport
  <2>2. QED
    BY <2>1, LenProperties
<1>2. OBC_HK_SID_ESSENTIAL \in Sids /\ OBC_HK_SID_DIAGNOSTIC \in Sids
  BY DEF Sids
<1> DEFINE first == PeriodicReport(OBC_HK_SID_ESSENTIAL, s, k)
           second == PeriodicReport(OBC_HK_SID_DIAGNOSTIC, s, k + Len(first))
<1>3. first \in Seq(TmContent) /\ k + Len(first) \in Nat
  BY <1>1, <1>2
<1>4. second \in Seq(TmContent)
  BY <1>1, <1>2, <1>3
<1>5. first \o second \in Seq(TmContent)
  BY <1>3, <1>4, ConcatProperties
<1>6. QED
  BY <1>5, EmptySeq DEF svc03_tick

LEMMA OneShotType ==
  ASSUME DlTypeOK, NEW s \in obc_state_t, NEW k \in Nat,
         NEW tc \in RawTc, svc03_status(tc) = PUS_OK
  PROVE  /\ OneShotReports(tc, s, k) \in Seq(TmContent)
         /\ OneShotStatus(tc, k) \in pus_status_t
<1> USE DEF PUS_OK, PUS_ERR_UNKNOWN_SUBTYPE, PUS_ERR_BAD_LENGTH, PUS_ERR_BAD_PARAMETER,
            PUS_ERR_UNKNOWN_SID
<1> DEFINE d == tc.app_data
           n == Lesser(Len(SidList(tc)), OneShotRoom(k) + 1)
<1>1. d \in Seq(Octet) /\ Len(d) \in Nat /\ d # <<>>
  <2>1. d \in Seq(Octet) /\ Len(d) \in Nat
    BY LenProperties DEF RawTc
  <2>2. Len(d) >= 1
    BY <2>1 DEF svc03_status
  <2>3. QED
    BY <2>1, <2>2, EmptySeq
<1>2. \A i \in 2 .. Len(d) : d[i] \in Sids
  BY DEF svc03_status
<1>3. /\ Len(SidList(tc)) = Len(d) - 1
      /\ \A i \in 1 .. Len(SidList(tc)) : SidList(tc)[i] = d[i + 1]
  <2>1. SidList(tc) = Tail(d)
    BY DEF SidList
  <2>2. /\ Len(Tail(d)) = Len(d) - 1
        /\ \A i \in 1 .. Len(Tail(d)) : Tail(d)[i] = d[i + 1]
    BY <1>1, HeadTailProperties
  <2>3. QED
    BY <2>1, <2>2, Zenon
<1>4. \A i \in 1 .. Len(SidList(tc)) : SidList(tc)[i] \in Sids
  BY <1>1, <1>2, <1>3
<1>5. OneShotRoom(k) \in Nat
  <2>1. CountAfter(k) \in 0 .. DEPTH
    BY AfterType
  <2>2. QED
    BY <2>1, DepthAssumption DEF OneShotRoom
<1>6. n \in Nat /\ \A i \in 1 .. n : i \in 1 .. Len(SidList(tc)) /\ k + i - 1 \in Nat
  BY <1>1, <1>3, <1>5 DEF Lesser
<1>7. \A i \in 1 .. n : svc03_generate(SidList(tc)[i], s, k + i - 1) \in TmContent
  BY <1>4, <1>6, GenerateType
<1>8. OneShotReports(tc, s, k) \in [1 .. n -> TmContent]
  BY <1>7 DEF OneShotReports
<1>9. OneShotReports(tc, s, k) \in Seq(TmContent)
  BY <1>6, <1>8, SeqDef
<1>10. OneShotStatus(tc, k) \in pus_status_t
  BY DEF OneShotStatus, pus_status_t, PUS_ERR_QUEUE_FULL
<1>11. QED
  BY <1>9, <1>10

-----------------------------------------------------------------------------
(* Effects of the mode and heater functions *)

EffectSet == [state : obc_state_t, line : Flag, tm : Seq(TmContent)]

\* The heater interlock: the line follows the mirror, and is off in SAFE mode.
Interlocked(s, level) ==
  level = s.heater_on /\ (s.mode = OBC_MODE_SAFE => level = PUS_FALSE)

LEMMA EffectFields ==
  ASSUME NEW s \in obc_state_t, NEW level \in Flag, NEW tm \in Seq(TmContent)
  PROVE  /\ Effect(s, level, tm) \in EffectSet
         /\ Effect(s, level, tm).state = s /\ Effect(s, level, tm).line = level
  BY DEF Effect, EffectSet

LEMMA NoEffectType ==
  ASSUME NEW s \in obc_state_t, hal_heater \in Flag
  PROVE  /\ NoEffect(s) \in EffectSet
         /\ NoEffect(s).state = s /\ NoEffect(s).line = hal_heater
  BY EmptySeq DEF NoEffect, Effect, EffectSet

LEMMA HeaterEffect ==
  ASSUME NEW s \in obc_state_t, NEW on \in Flag, hal_heater \in Flag, hal_heater = s.heater_on
  PROVE  LET e == obc_apply_heater(s, on) IN
         /\ e \in EffectSet
         /\ e.state.mode = s.mode /\ e.state.uptime_ticks = s.uptime_ticks
         /\ e.line = on /\ e.state.heater_on = on
<1> DEFINE e == obc_apply_heater(s, on)
           report == svc05_report(OBC_EVT_HEATER_SWITCHED, PUS_ST05_INFORMATIVE, on)
<1>1. CASE on = s.heater_on
  BY <1>1, NoEffectType DEF obc_apply_heater
<1>2. CASE on # s.heater_on
  <2>1. e = Effect([s EXCEPT !.heater_on = on], on, report)
    BY <1>2 DEF obc_apply_heater
  <2>2. report \in Seq(TmContent)
    BY ReportType DEF Flag, PUS_FALSE, PUS_TRUE, OBC_EVT_HEATER_SWITCHED, PUS_ST05_INFORMATIVE
  <2>3. [s EXCEPT !.heater_on = on] \in obc_state_t
    BY DEF obc_state_t
  <2>4. /\ [s EXCEPT !.heater_on = on].mode = s.mode
        /\ [s EXCEPT !.heater_on = on].uptime_ticks = s.uptime_ticks
        /\ [s EXCEPT !.heater_on = on].heater_on = on
    BY DEF obc_state_t
  <2> HIDE DEF report
  <2>5. e \in EffectSet /\ e.state = [s EXCEPT !.heater_on = on] /\ e.line = on
    BY <2>1, <2>2, <2>3, EffectFields
  <2>6. QED
    BY <2>4, <2>5
<1>3. QED
  BY <1>1, <1>2

\* Prefixing or suffixing telemetry changes nothing else of an effect.
LEMMA MoreTelemetry ==
  ASSUME NEW e \in EffectSet, NEW tm \in Seq(TmContent)
  PROVE  LET f == [e EXCEPT !.tm = tm] IN
         f \in EffectSet /\ f.state = e.state /\ f.line = e.line
  BY DEF EffectSet

LEMMA ModeEffect ==
  ASSUME NEW s \in obc_state_t, NEW mode \in {OBC_MODE_SAFE, OBC_MODE_NOMINAL},
         hal_heater \in Flag, Interlocked(s, hal_heater)
  PROVE  LET e == obc_set_mode(s, mode) IN
         /\ e \in EffectSet
         /\ e.state.uptime_ticks = s.uptime_ticks
         /\ Interlocked(e.state, e.line)
<1> DEFINE e == obc_set_mode(s, mode)
           entered == [s EXCEPT !.mode = mode]
           switched == IF mode = OBC_MODE_SAFE THEN obc_apply_heater(entered, PUS_FALSE)
                       ELSE NoEffect(entered)
           report == svc05_report(OBC_EVT_MODE_CHANGED, PUS_ST05_INFORMATIVE, mode)
<1>1. CASE mode = s.mode
  BY <1>1, NoEffectType DEF obc_set_mode
<1>2. CASE mode # s.mode
  <2>1. entered \in obc_state_t
    BY DEF obc_state_t
  <2>2. /\ entered.mode = mode /\ entered.heater_on = s.heater_on
        /\ entered.uptime_ticks = s.uptime_ticks
    BY DEF obc_state_t
  <2>3. hal_heater = s.heater_on /\ PUS_FALSE \in Flag
    BY DEF Interlocked, Flag
  <2> HIDE DEF entered
  <2>4. /\ switched \in EffectSet
        /\ switched.state.uptime_ticks = s.uptime_ticks
        /\ Interlocked(switched.state, switched.line)
    <3>1. CASE mode = OBC_MODE_SAFE
      BY <2>1, <2>2, <2>3, <3>1, HeaterEffect DEF Interlocked
    <3>2. CASE mode # OBC_MODE_SAFE
      BY <2>1, <2>2, <2>3, <3>2, NoEffectType DEF Interlocked
    <3>3. QED
      BY <3>1, <3>2
  <2>5. report \in Seq(TmContent)
    BY ReportType DEF OBC_MODE_SAFE, OBC_MODE_NOMINAL, OBC_EVT_MODE_CHANGED, PUS_ST05_INFORMATIVE
  <2>6. switched.tm \in Seq(TmContent)
    BY <2>4 DEF EffectSet
  <2>7. switched.tm \o report \in Seq(TmContent)
    BY <2>5, <2>6, ConcatProperties
  <2>8. e = [switched EXCEPT !.tm = switched.tm \o report]
    BY <1>2 DEF obc_set_mode, entered
  <2> HIDE DEF switched, report
  <2>9. e \in EffectSet /\ e.state = switched.state /\ e.line = switched.line
    BY <2>4, <2>7, <2>8, MoreTelemetry
  <2>10. QED
    BY <2>4, <2>9
<1>3. QED
  BY <1>1, <1>2

LEMMA ThermalEffect ==
  ASSUME NEW s \in obc_state_t, hal_heater \in Flag, Interlocked(s, hal_heater)
  PROVE  LET e == obc_thermal_control(s) IN
         /\ e \in EffectSet
         /\ e.state.uptime_ticks = s.uptime_ticks
         /\ Interlocked(e.state, e.line)
<1> DEFINE e == obc_thermal_control(s)
<1>1. s.mode \in {OBC_MODE_SAFE, OBC_MODE_NOMINAL} /\ OBC_MODE_SAFE # OBC_MODE_NOMINAL
  BY DEF obc_state_t, OBC_MODE_SAFE, OBC_MODE_NOMINAL
<1>2. /\ hal_heater = s.heater_on /\ PUS_FALSE \in Flag /\ PUS_TRUE \in Flag
  BY DEF Interlocked, Flag
<1>3. CASE TooHot(s)
  <2> DEFINE f == obc_set_mode(s, OBC_MODE_SAFE)
  <2>1. /\ f \in EffectSet
        /\ f.state.uptime_ticks = s.uptime_ticks
        /\ Interlocked(f.state, f.line)
    BY ModeEffect
  <2>2. AlarmReport(s) \in Seq(TmContent)
    <3>1. s.temperature_dc \in Int
      BY Int16IsInt DEF obc_state_t
    <3>2. svc05_report(OBC_EVT_TEMP_ALARM, PUS_ST05_HIGH_SEVERITY, s.temperature_dc)
            \in Seq(TmContent)
      BY <3>1, ReportType DEF OBC_EVT_TEMP_ALARM, PUS_ST05_HIGH_SEVERITY
    <3>3. QED
      BY <3>2, EmptySeq DEF AlarmReport
  <2>3. f.tm \in Seq(TmContent)
    BY <2>1 DEF EffectSet
  <2>4. AlarmReport(s) \o f.tm \in Seq(TmContent)
    BY <2>2, <2>3, ConcatProperties
  <2>5. e = [f EXCEPT !.tm = AlarmReport(s) \o f.tm]
    BY <1>3 DEF obc_thermal_control
  <2> HIDE DEF f
  <2>6. e \in EffectSet /\ e.state = f.state /\ e.line = f.line
    BY <2>1, <2>4, <2>5, MoreTelemetry
  <2>7. QED
    BY <2>1, <2>6
<1>4. CASE /\ ~TooHot(s)
           /\ s.mode # OBC_MODE_NOMINAL \/ s.temperature_dc >= OBC_TEMP_HEATER_OFF_DC
  <2>1. e = obc_apply_heater(s, PUS_FALSE)
    BY <1>4 DEF obc_thermal_control
  <2>2. QED
    BY <1>2, <2>1, HeaterEffect DEF Interlocked
<1>5. CASE /\ ~TooHot(s)
           /\ ~(s.mode # OBC_MODE_NOMINAL \/ s.temperature_dc >= OBC_TEMP_HEATER_OFF_DC)
  <2>1. CASE s.temperature_dc <= OBC_TEMP_HEATER_ON_DC
    <3>1. e = obc_apply_heater(s, PUS_TRUE)
      BY <1>5, <2>1 DEF obc_thermal_control
    <3>2. QED
      BY <1>1, <1>2, <1>5, <3>1, HeaterEffect DEF Interlocked
  <2>2. CASE ~(s.temperature_dc <= OBC_TEMP_HEATER_ON_DC)
    <3>1. e = NoEffect(s)
      BY <1>5, <2>2 DEF obc_thermal_control
    <3>2. QED
      BY <3>1, NoEffectType
  <2>3. QED
    BY <2>1, <2>2
<1>6. QED
  BY <1>3, <1>4, <1>5

-----------------------------------------------------------------------------
(* Telecommands *)

LEMMA StatusCodes ==
  /\ PUS_OK \in pus_status_t /\ PUS_ERR_TRUNCATED \in pus_status_t
  /\ PUS_ERR_BAD_VERSION \in pus_status_t /\ PUS_ERR_BAD_PACKET_TYPE \in pus_status_t
  /\ PUS_ERR_NO_SEC_HEADER \in pus_status_t /\ PUS_ERR_BAD_APID \in pus_status_t
  /\ PUS_ERR_BAD_CRC \in pus_status_t /\ PUS_ERR_UNKNOWN_SERVICE \in pus_status_t
  /\ PUS_ERR_UNKNOWN_SUBTYPE \in pus_status_t /\ PUS_ERR_BAD_LENGTH \in pus_status_t
  /\ PUS_ERR_BAD_PARAMETER \in pus_status_t /\ PUS_ERR_UNKNOWN_SID \in pus_status_t
  /\ PUS_ERR_UNKNOWN_EVENT \in pus_status_t /\ PUS_ERR_UNKNOWN_FUNCTION \in pus_status_t
  /\ PUS_ERR_QUEUE_FULL \in pus_status_t /\ PUS_ERR_NOT_PERMITTED \in pus_status_t
  BY DEF pus_status_t, PUS_OK, PUS_ERR_TRUNCATED, PUS_ERR_BAD_VERSION, PUS_ERR_BAD_PACKET_TYPE,
         PUS_ERR_NO_SEC_HEADER, PUS_ERR_BAD_APID, PUS_ERR_BAD_CRC, PUS_ERR_UNKNOWN_SERVICE,
         PUS_ERR_UNKNOWN_SUBTYPE, PUS_ERR_BAD_LENGTH, PUS_ERR_BAD_PARAMETER,
         PUS_ERR_UNKNOWN_SID, PUS_ERR_UNKNOWN_EVENT, PUS_ERR_UNKNOWN_FUNCTION,
         PUS_ERR_QUEUE_FULL, PUS_ERR_NOT_PERMITTED

LEMMA ParseStatus ==
  ASSUME NEW raw PROVE pus_tc_parse(raw) \in pus_status_t
  BY StatusCodes, Zenon DEF pus_tc_parse

LEMMA RouteStatus ==
  ASSUME NEW tc PROVE obc_route(tc) \in pus_status_t
<1>1. svc03_status(tc) \in pus_status_t
  BY StatusCodes, Zenon DEF svc03_status
<1>2. svc05_status(tc) \in pus_status_t
  BY StatusCodes, Zenon DEF svc05_status
<1>3. svc08_arguments_status(tc) \in pus_status_t
  BY StatusCodes, Zenon DEF svc08_arguments_status
<1>4. svc08_status(tc) \in pus_status_t
  BY <1>3, StatusCodes, Zenon DEF svc08_status
<1>5. svc17_status(tc) \in pus_status_t
  BY StatusCodes, Zenon DEF svc17_status
<1>6. QED
  BY <1>1, <1>2, <1>4, <1>5, StatusCodes DEF obc_route

\* What the handler of an accepted telecommand finds in it.
LEMMA RoutedTo ==
  ASSUME NEW tc
  PROVE  /\ Accepted(tc, PUS_SERVICE_HOUSEKEEPING) => svc03_status(tc) = PUS_OK
         /\ Accepted(tc, PUS_SERVICE_EVENT) => svc05_status(tc) = PUS_OK
         /\ Accepted(tc, PUS_SERVICE_FUNCTION) => svc08_status(tc) = PUS_OK
<1> USE DEF PUS_SERVICE_HOUSEKEEPING, PUS_SERVICE_EVENT, PUS_SERVICE_FUNCTION, PUS_SERVICE_TEST
<1>1. tc.service_type = PUS_SERVICE_HOUSEKEEPING => obc_route(tc) = svc03_status(tc)
  BY DEF obc_route
<1>2. tc.service_type = PUS_SERVICE_EVENT => obc_route(tc) = svc05_status(tc)
  BY DEF obc_route
<1>3. tc.service_type = PUS_SERVICE_FUNCTION => obc_route(tc) = svc08_status(tc)
  BY DEF obc_route
<1>4. QED
  BY <1>1, <1>2, <1>3, Zenon DEF Accepted

\* The fields of a state that telecommand counters and failure codes leave alone.
SameUnit(s, t) == /\ t.mode = s.mode /\ t.heater_on = s.heater_on
                  /\ t.uptime_ticks = s.uptime_ticks

LEMMA CountedType ==
  ASSUME NEW n \in 0 .. COUNTER_MAX PROVE Counted(n) \in 0 .. COUNTER_MAX
  BY CounterAssumption DEF Counted

LEMMA AcceptedStateType ==
  ASSUME state \in obc_state_t
  PROVE  AcceptedState \in obc_state_t /\ SameUnit(state, AcceptedState)
<1>1. Counted(state.tc_accepted) \in 0 .. COUNTER_MAX
  BY CountedType DEF obc_state_t
<1>2. QED
  BY <1>1 DEF AcceptedState, SameUnit, obc_state_t

LEMMA RejectionEventType ==
  ASSUME NEW code \in pus_status_t PROVE RejectionEvent(code) \in Seq(TmContent)
<1>1. code \in Int
  BY StatusIsNat
<1>2. QED
  BY <1>1, ReportType DEF RejectionEvent, OBC_EVT_TC_REJECTED, PUS_ST05_LOW_SEVERITY

\* The packets of a whole telecommand, and the state it leaves.
LEMMA ConcludeType ==
  ASSUME DlTypeOK, NEW tc \in RawTc, NEW st \in pus_status_t, NEW s \in obc_state_t,
         NEW response \in Seq(TmContent), Conclude(tc, st, s, response)
  PROVE  /\ DlTypeOK'
         /\ state' \in obc_state_t /\ SameUnit(s, state')
         /\ UNCHANGED <<alarm_latched, last_overflow>>
<1> DEFINE acceptance == svc01_acceptance_success(tc)
           completion == IF st = PUS_OK THEN svc01_completion_success(tc)
                         ELSE svc01_completion_failure(tc, st) \o RejectionEvent(st)
<1>1. acceptance \in Seq(TmContent)
  BY VerificationTypes
<1>2. completion \in Seq(TmContent)
  <2>1. /\ svc01_completion_success(tc) \in Seq(TmContent)
        /\ svc01_completion_failure(tc, st) \in Seq(TmContent)
        /\ RejectionEvent(st) \in Seq(TmContent)
    BY VerificationTypes, RejectionEventType
  <2>2. svc01_completion_failure(tc, st) \o RejectionEvent(st) \in Seq(TmContent)
    BY <2>1, ConcatProperties
  <2>3. QED
    BY <2>1, <2>2
<1>3. acceptance \o response \in Seq(TmContent)
  BY <1>1, ConcatProperties
<1>4. acceptance \o response \o completion \in Seq(TmContent)
  BY <1>2, <1>3, ConcatProperties
<1>5. Emit(acceptance \o response \o completion)
  BY DEF Conclude
<1>6. DlTypeOK'
  BY <1>4, <1>5, EmitType
<1>7. state' \in obc_state_t /\ SameUnit(s, state')
  BY DEF Conclude, obc_state_t, SameUnit
<1>8. QED
  BY <1>6, <1>7 DEF Conclude

-----------------------------------------------------------------------------
(* The inductive invariant *)

\* The interlock is inductive only together with the types: the heater line is a
\* flag, and the argument of an accepted "set heater" command is one too.
IInv == TypeOK /\ SafeHoldsHeaterOff

LEMMA InterlockMeaning == SafeHoldsHeaterOff <=> Interlocked(state, hal_heater)
  BY DEF SafeHoldsHeaterOff, Interlocked

LEMMA HeaterLine ==
  ASSUME NEW level \in Flag, hal_set_heater(level)
  PROVE  hal_heater' = level
  BY DEF hal_set_heater, Flag, PUS_FALSE, PUS_TRUE

\* Power-on values, set by Init and again by obc_init.
LEMMA PowerOn ==
  /\ <<BootReport>> \in Seq(TmPacket) /\ Len(<<BootReport>>) = 1
  /\ CountersAfterBoot \in [TmServices -> 0 .. MSG_MODULUS - 1]
  /\ 1 % SEQ_MODULUS \in 0 .. SEQ_MODULUS - 1
  /\ PowerOnState \in obc_state_t /\ Interlocked(PowerOnState, PUS_FALSE)
  /\ PowerOnState.uptime_ticks = 0
  /\ PowerOnTemperature \in Int16
  /\ HkEnabledAtPowerOn \subseteq Sids
<1>1. <<OBC_EVT_BOOT_COMPLETED, 0>> \in Seq(Nat)
  BY DEF OBC_EVT_BOOT_COMPLETED
<1>2. BootReport \in TmPacket
  BY <1>1, SeqAssumption, MsgAssumption
  DEF BootReport, TmPacket, TmServices, PUS_ST05_INFORMATIVE
<1>3. 1 % MSG_MODULUS \in 0 .. MSG_MODULUS - 1 /\ 1 % SEQ_MODULUS \in 0 .. SEQ_MODULUS - 1
  BY ModuloBound, MsgAssumption, SeqAssumption
<1>4. ZeroCounters \in [TmServices -> 0 .. MSG_MODULUS - 1]
  BY MsgAssumption DEF ZeroCounters
<1>5. CountersAfterBoot \in [TmServices -> 0 .. MSG_MODULUS - 1]
  BY <1>3, <1>4 DEF CountersAfterBoot
<1>6. PowerOnTemperature \in Int16
  <2>1. /\ PowerOnTemperature \in Int
        /\ -INT16_MAX - 1 =< PowerOnTemperature /\ PowerOnTemperature =< INT16_MAX
    BY DEF PowerOnTemperature, INT16_MAX
  <2>2. QED
    BY <2>1, Int16Bounds
<1>7. PowerOnState \in obc_state_t /\ Interlocked(PowerOnState, PUS_FALSE)
  BY <1>6, StatusCodes, TimeAssumption, CounterAssumption
  DEF PowerOnState, obc_state_t, Interlocked, Flag
<1>8. HkEnabledAtPowerOn \subseteq Sids
  BY DEF HkEnabledAtPowerOn, Sids
<1>9. QED
  BY <1>2, <1>3, <1>5, <1>6, <1>7, <1>8, Singleton DEF PowerOnState

LEMMA InitIInv == Init => IInv
<1> SUFFICES ASSUME Init PROVE IInv
  OBVIOUS
<1>1. HalTypeOK
  BY PowerOn, TimeAssumption DEF Init, HalInit, HalTypeOK
<1>2. DlTypeOK
  BY PowerOn, DepthAssumption, CounterAssumption DEF Init, DlTypeOK
<1>3. SafeHoldsHeaterOff
  BY PowerOn, InterlockMeaning DEF Init, HalInit
<1>4. QED
  BY <1>1, <1>2, <1>3, PowerOn, HkPeriodAssumption, CounterAssumption
  DEF Init, IInv, TypeOK, AllEvents, Flag

LEMMA RestartIInv == ASSUME obc_init PROVE IInv'
<1>1. HalTypeOK'
  BY PowerOn, TimeAssumption DEF obc_init, hal_time_init, HalTypeOK
<1>2. DlTypeOK'
  BY PowerOn, DepthAssumption, CounterAssumption DEF obc_init, DlTypeOK
<1>3. SafeHoldsHeaterOff'
  BY PowerOn DEF obc_init, hal_time_init, SafeHoldsHeaterOff, Interlocked
<1>4. QED
  BY <1>1, <1>2, <1>3, PowerOn, HkPeriodAssumption, CounterAssumption
  DEF obc_init, IInv, TypeOK, AllEvents, Flag

LEMMA PopIInv == ASSUME IInv, DownlinkOne PROVE IInv'
<1>1. /\ Tail(queue) \in Seq(TmPacket) /\ Len(Tail(queue)) = Len(queue) - 1
      /\ Len(queue) \in Nat
  BY HeadTailProperties, LenProperties DEF IInv, TypeOK, DlTypeOK, DownlinkOne, tm_queue_pop
<1>2. DlTypeOK'
  BY <1>1, DepthAssumption DEF IInv, TypeOK, DlTypeOK, DownlinkOne, tm_queue_pop
<1>3. QED
  BY <1>2 DEF IInv, TypeOK, HalTypeOK, SafeHoldsHeaterOff, DownlinkOne, hal_vars, hk_vars, app_vars

\* The state the minor cycle hands to the control law.
Acquired == [state EXCEPT !.uptime_ticks = (@ + 1) % U32, !.temperature_dc = hal_temperature]

LEMMA AcquiredType ==
  ASSUME IInv
  PROVE  /\ Acquired \in obc_state_t /\ Interlocked(Acquired, hal_heater)
         /\ Acquired.uptime_ticks = (state.uptime_ticks + 1) % U32
<1>1. state.uptime_ticks \in Nat
  BY TimeAssumption DEF IInv, TypeOK, obc_state_t
<1>2. (state.uptime_ticks + 1) % U32 \in 0 .. U32 - 1
  <2>1. state.uptime_ticks + 1 \in Int /\ U32 \in Nat \ {0}
    BY <1>1, TimeAssumption
  <2>2. QED
    BY <2>1, ModuloBound
<1>3. hal_temperature \in Int16
  BY DEF IInv, TypeOK, HalTypeOK
<1>4. QED
  BY <1>2, <1>3 DEF Acquired, IInv, TypeOK, SafeHoldsHeaterOff, Interlocked, obc_state_t

LEMMA TickIInv == ASSUME IInv, obc_tick PROVE IInv' /\ state'.uptime_ticks = (state.uptime_ticks + 1) % U32
<1> DEFINE e == obc_thermal_control(Acquired)
           report == OverflowReport(OverflowsAfter(Len(e.tm)))
           tm == e.tm \o report
           hk == svc03_tick(e.state, Len(tm))
<1>1. /\ e \in EffectSet
      /\ e.state.uptime_ticks = (state.uptime_ticks + 1) % U32
      /\ Interlocked(e.state, e.line)
  <2>1. hal_heater \in Flag
    BY DEF IInv, TypeOK, HalTypeOK, Flag
  <2>2. QED
    BY <2>1, AcquiredType, ThermalEffect
<1>2. /\ state' = e.state /\ hal_set_heater(e.line)
      /\ last_overflow' = OverflowsAfter(Len(e.tm))
      /\ Emit(tm \o hk)
      /\ hk_phase' = NextPhase /\ alarm_latched' = NextLatch(Acquired)
      /\ UNCHANGED <<hal_temperature, hk_enabled, evt_enabled>>
      /\ hal_time_advance
  BY DEF obc_tick, Acquired, Sampled
<1> HIDE DEF e
<1>3. e.tm \in Seq(TmContent) /\ e.state \in obc_state_t /\ e.line \in Flag
  BY <1>1 DEF EffectSet
<1>4. DlTypeOK
  BY DEF IInv, TypeOK
<1>5. Len(e.tm) \in Nat
  BY <1>3, LenProperties
<1>6. OverflowsAfter(Len(e.tm)) \in 0 .. COUNTER_MAX
  BY <1>4, <1>5, AfterType
<1>7. report \in Seq(TmContent)
  <2>1. OverflowsAfter(Len(e.tm)) \in Int
    BY <1>6, CounterAssumption
  <2>2. svc05_report(OBC_EVT_TM_QUEUE_OVERFLOW, PUS_ST05_LOW_SEVERITY, OverflowsAfter(Len(e.tm)))
          \in Seq(TmContent)
    BY <2>1, ReportType DEF OBC_EVT_TM_QUEUE_OVERFLOW, PUS_ST05_LOW_SEVERITY
  <2>3. QED
    BY <2>2, EmptySeq DEF OverflowReport
<1>8. tm \in Seq(TmContent) /\ Len(tm) \in Nat
  <2>1. tm \in Seq(TmContent)
    BY <1>3, <1>7, ConcatProperties
  <2>2. QED
    BY <2>1, LenProperties
<1> HIDE DEF tm
<1>9. hk \in Seq(TmContent)
  BY <1>3, <1>4, <1>8, PeriodicType
<1>10. tm \o hk \in Seq(TmContent)
  BY <1>8, <1>9, ConcatProperties
<1> HIDE DEF hk
<1>11. DlTypeOK'
  BY <1>2, <1>4, <1>10, EmitType
<1>12. hal_heater' = e.line
  BY <1>2, <1>3, HeaterLine
<1>13. HalTypeOK'
  <2>1. ticks + 1 \in Int
    BY TimeAssumption DEF IInv, TypeOK, HalTypeOK
  <2>2. (ticks + 1) % U32 \in 0 .. U32 - 1
    BY <2>1, ModuloBound, TimeAssumption
  <2>3. QED
    BY <1>2, <1>3, <1>12, <2>2 DEF IInv, TypeOK, HalTypeOK, hal_time_advance, Flag
<1>14. hk_phase' \in 0 .. HK_PERIOD - 1
  BY <1>2, HkPeriodAssumption DEF NextPhase, IInv, TypeOK
<1>15. alarm_latched' \in Flag
  BY <1>2 DEF NextLatch, IInv, TypeOK, Flag
<1>16. SafeHoldsHeaterOff'
  BY <1>1, <1>2, <1>12 DEF SafeHoldsHeaterOff, Interlocked
<1>17. TypeOK'
  BY <1>2, <1>3, <1>6, <1>11, <1>13, <1>14, <1>15 DEF TypeOK, IInv
<1>18. QED
  BY <1>1, <1>2, <1>16, <1>17 DEF IInv

-----------------------------------------------------------------------------
(* Telecommands preserve the invariant and never disturb a cycle counter *)

SameClocks == UNCHANGED <<ticks, hk_phase, state.uptime_ticks>>

LEMMA RejectIInv ==
  ASSUME IInv, NEW raw \in RawTc, WellFramed(raw), RejectTc(raw)
  PROVE  IInv' /\ SameClocks
<1> DEFINE st == pus_tc_parse(raw)
           pkts == svc01_reject_raw(raw, st) \o RejectionEvent(st)
<1>1. st \in pus_status_t /\ raw \in RawTc
  BY ParseStatus
<1>2. pkts \in Seq(TmContent)
  <2>1. svc01_reject_raw(raw, st) \in Seq(TmContent) /\ RejectionEvent(st) \in Seq(TmContent)
    BY <1>1, VerificationTypes, RejectionEventType
  <2>2. QED
    BY <2>1, ConcatProperties
<1>3. DlTypeOK'
  BY <1>2, EmitType DEF RejectTc, IInv, TypeOK
<1>4. state' \in obc_state_t /\ SameUnit(state, state')
  <2>1. Counted(state.tc_rejected) \in 0 .. COUNTER_MAX
    BY CountedType DEF IInv, TypeOK, obc_state_t
  <2>2. QED
    BY <1>1, <2>1 DEF RejectTc, IInv, TypeOK, obc_state_t, SameUnit
<1>5. UNCHANGED <<hal_vars, hk_vars, evt_enabled, alarm_latched, last_overflow>>
  BY DEF RejectTc
<1>6. QED
  BY <1>3, <1>4, <1>5
  DEF IInv, TypeOK, HalTypeOK, SafeHoldsHeaterOff, SameUnit, SameClocks, hal_vars, hk_vars

\* A handler that changes neither the mode nor the heater, and whose other effects
\* are well typed, preserves the invariant.
LEMMA HandledIInv ==
  ASSUME IInv, NEW tc \in RawTc, NEW st \in pus_status_t, NEW s \in obc_state_t,
         SameUnit(state, s), NEW response \in Seq(TmContent), Conclude(tc, st, s, response),
         HalTypeOK', UNCHANGED <<ticks, hal_heater, hk_phase>>,
         hk_enabled' \subseteq Sids, evt_enabled' \subseteq EventIds
  PROVE  IInv' /\ SameClocks
<1>1. /\ DlTypeOK' /\ state' \in obc_state_t /\ SameUnit(s, state')
      /\ UNCHANGED <<alarm_latched, last_overflow>>
  BY ConcludeType DEF IInv, TypeOK
<1>2. QED
  BY <1>1 DEF IInv, TypeOK, SafeHoldsHeaterOff, SameUnit, SameClocks

\* The same when the handler itself answers nothing.
LEMMA SilentlyHandledIInv ==
  ASSUME IInv, NEW tc \in RawTc, WellFramed(tc), NEW st \in pus_status_t,
         Conclude(tc, st, AcceptedState, <<>>),
         HalTypeOK', UNCHANGED <<ticks, hal_heater, hk_phase>>,
         hk_enabled' \subseteq Sids, evt_enabled' \subseteq EventIds
  PROVE  IInv' /\ SameClocks
<1>1. AcceptedState \in obc_state_t /\ SameUnit(state, AcceptedState)
  BY AcceptedStateType DEF IInv, TypeOK
<1>2. <<>> \in Seq(TmContent) /\ tc \in RawTc
  BY EmptySeq
<1>3. QED
  BY <1>1, <1>2, HandledIInv

LEMMA RefuseIInv ==
  ASSUME IInv, NEW tc \in RawTc, WellFramed(tc), RefuseTc(tc)
  PROVE  IInv' /\ SameClocks
<1>1. obc_route(tc) \in pus_status_t
  BY RouteStatus
<1>2. /\ HalTypeOK' /\ UNCHANGED <<ticks, hal_heater, hk_phase>>
      /\ hk_enabled' \subseteq Sids /\ evt_enabled' \subseteq EventIds
  BY DEF RefuseTc, IInv, TypeOK, HalTypeOK, hal_vars, hk_vars
<1>3. QED
  BY <1>1, <1>2, SilentlyHandledIInv DEF RefuseTc

LEMMA Svc03ConfigureIInv ==
  ASSUME IInv, NEW tc \in RawTc, WellFramed(tc), Svc03Configure(tc)
  PROVE  IInv' /\ SameClocks
<1>1. ListedSids(tc) \subseteq Sids
  <2>1. svc03_status(tc) = PUS_OK
    BY RoutedTo DEF Svc03Configure
  <2>2. QED
    BY <2>1 DEF svc03_status, ListedSids, PUS_OK, PUS_ERR_UNKNOWN_SUBTYPE, PUS_ERR_BAD_LENGTH,
                PUS_ERR_BAD_PARAMETER, PUS_ERR_UNKNOWN_SID
<1>2. /\ HalTypeOK' /\ UNCHANGED <<ticks, hal_heater, hk_phase>>
      /\ evt_enabled' \subseteq EventIds
  BY DEF Svc03Configure, IInv, TypeOK, HalTypeOK, hal_vars
<1>3. hk_enabled' \subseteq Sids
  BY <1>1 DEF Svc03Configure, svc03_set_enabled, IInv, TypeOK
<1>4. QED
  BY <1>2, <1>3, StatusCodes, SilentlyHandledIInv DEF Svc03Configure

LEMMA Svc03OneShotIInv ==
  ASSUME IInv, NEW tc \in RawTc, WellFramed(tc), Svc03OneShot(tc)
  PROVE  IInv' /\ SameClocks
<1> DEFINE k == SentBefore(tc)
<1>1. tc \in RawTc /\ DlTypeOK
  BY DEF IInv, TypeOK
<1>2. k \in Nat
  BY <1>1, VerificationTypes, StatusCodes DEF SentBefore
<1>3. AcceptedState \in obc_state_t /\ SameUnit(state, AcceptedState)
  BY AcceptedStateType DEF IInv, TypeOK
<1>4. svc03_status(tc) = PUS_OK
  BY RoutedTo DEF Svc03OneShot
<1>5. /\ OneShotReports(tc, AcceptedState, k) \in Seq(TmContent)
      /\ OneShotStatus(tc, k) \in pus_status_t
  BY <1>1, <1>2, <1>3, <1>4, OneShotType
<1>6. /\ HalTypeOK' /\ UNCHANGED <<ticks, hal_heater, hk_phase>>
      /\ hk_enabled' \subseteq Sids /\ evt_enabled' \subseteq EventIds
  BY DEF Svc03OneShot, IInv, TypeOK, HalTypeOK, hal_vars, hk_vars
<1>7. QED
  BY <1>1, <1>3, <1>5, <1>6, HandledIInv DEF Svc03OneShot

LEMMA Svc05ConfigureIInv ==
  ASSUME IInv, NEW tc \in RawTc, WellFramed(tc), Svc05Configure(tc)
  PROVE  IInv' /\ SameClocks
<1>1. EventList(tc) \subseteq EventIds
  <2>1. svc05_status(tc) = PUS_OK
    BY RoutedTo DEF Svc05Configure
  <2>2. QED
    BY <2>1 DEF svc05_status, PUS_OK, PUS_ERR_UNKNOWN_SUBTYPE, PUS_ERR_BAD_LENGTH,
                PUS_ERR_BAD_PARAMETER, PUS_ERR_UNKNOWN_EVENT
<1>2. /\ HalTypeOK' /\ UNCHANGED <<ticks, hal_heater, hk_phase>>
      /\ hk_enabled' \subseteq Sids
  BY DEF Svc05Configure, IInv, TypeOK, HalTypeOK, hal_vars, hk_vars
<1>3. evt_enabled' \subseteq EventIds
  BY <1>1 DEF Svc05Configure, svc05_set_enabled, IInv, TypeOK
<1>4. QED
  BY <1>2, <1>3, StatusCodes, SilentlyHandledIInv DEF Svc05Configure

LEMMA Svc17IInv ==
  ASSUME IInv, NEW tc \in RawTc, WellFramed(tc), Svc17AreYouAlive(tc)
  PROVE  IInv' /\ SameClocks
<1> DEFINE alive == [service |-> PUS_SERVICE_TEST, subtype |-> PUS_ST17_I_AM_ALIVE, data |-> <<>>]
           st == SendStatus(SentBefore(tc))
<1>1. <<alive>> \in Seq(TmContent)
  <2>1. <<>> \in Seq(Nat)
    BY EmptySeq
  <2>2. alive \in TmContent
    BY <2>1 DEF TmContent, TmServices, PUS_ST17_I_AM_ALIVE
  <2>3. QED
    BY <2>2, Singleton
<1>2. st \in pus_status_t
  BY StatusCodes DEF SendStatus
<1>3. /\ AcceptedState \in obc_state_t /\ SameUnit(state, AcceptedState)
      /\ tc \in RawTc
  BY AcceptedStateType DEF IInv, TypeOK
<1>4. /\ HalTypeOK' /\ UNCHANGED <<ticks, hal_heater, hk_phase>>
      /\ hk_enabled' \subseteq Sids /\ evt_enabled' \subseteq EventIds
  BY DEF Svc17AreYouAlive, IInv, TypeOK, HalTypeOK, hal_vars, hk_vars
<1>5. Conclude(tc, st, AcceptedState, <<alive>>)
  BY DEF Svc17AreYouAlive
<1> HIDE DEF alive, st
<1>6. QED
  BY <1>1, <1>2, <1>3, <1>4, <1>5, HandledIInv

-----------------------------------------------------------------------------
(* Service 8 *)

\* What an accepted function request carries: its argument octets, checked where
\* svc08_handle checks them.
LEMMA FunctionArguments ==
  ASSUME NEW tc \in RawTc, NEW fid \in OBC_FID_SET_MODE .. OBC_FID_SET_TIME, Function(tc, fid)
  PROVE  /\ \A i \in 2 .. ArgumentLength[fid] + 1 : tc.app_data[i] \in Octet
         /\ fid = OBC_FID_SET_MODE => tc.app_data[2] \in {OBC_MODE_SAFE, OBC_MODE_NOMINAL}
         /\ fid = OBC_FID_SET_HEATER => tc.app_data[2] \in Flag /\ state.mode # OBC_MODE_SAFE
<1> DEFINE d == tc.app_data
<1>1. /\ svc08_status(tc) = PUS_OK /\ d[1] = fid
  BY RoutedTo DEF Function
<1>2. /\ svc08_arguments_status(tc) = PUS_OK
      /\ ~HeaterInterlock(tc)
  BY <1>1 DEF svc08_status, PUS_OK, PUS_ERR_NOT_PERMITTED
<1>3. d \in Seq(Octet) /\ Len(d) \in Nat
  BY LenProperties DEF RawTc
<1>4. /\ ~(Len(d) < 1) /\ d[1] \in DOMAIN ArgumentLength
      /\ Len(d) - 1 = ArgumentLength[d[1]]
      /\ ~(d[1] = OBC_FID_SET_MODE /\ d[2] \notin {OBC_MODE_SAFE, OBC_MODE_NOMINAL})
      /\ ~(d[1] = OBC_FID_SET_HEATER /\ d[2] > 1)
  BY <1>2 DEF svc08_arguments_status, PUS_OK, PUS_ERR_UNKNOWN_SUBTYPE, PUS_ERR_BAD_LENGTH,
              PUS_ERR_UNKNOWN_FUNCTION, PUS_ERR_BAD_PARAMETER
<1>5. Len(d) = ArgumentLength[fid] + 1
  BY <1>1, <1>3, <1>4
<1>6. \A i \in 2 .. ArgumentLength[fid] + 1 : d[i] \in Octet
  <2>1. \A i \in 2 .. Len(d) : i \in 1 .. Len(d)
    BY <1>3
  <2>2. QED
    BY <1>3, <1>5, <2>1, ElementOfSeq
<1>7. ASSUME fid = OBC_FID_SET_HEATER
      PROVE  d[2] \in Flag /\ state.mode # OBC_MODE_SAFE
  <2>1. ArgumentLength[fid] = 1
    BY <1>7 DEF ArgumentLength, OBC_FID_SET_MODE, OBC_FID_SET_HEATER, OBC_FID_INJECT_TEMP,
                OBC_FID_RESET_COUNTERS, OBC_FID_SET_TIME
  <2>2. d[2] \in Octet
    BY <1>6, <2>1
  <2>3. d[2] \in Flag
    <3>1. ~(d[2] > 1)
      BY <1>1, <1>4, <1>7
    <3>2. d[2] \in Int /\ 0 =< d[2]
      BY <2>2, OctetBounds
    <3>3. d[2] = 0 \/ d[2] = 1
      BY <3>1, <3>2
    <3>4. QED
      BY <3>3 DEF Flag, PUS_FALSE, PUS_TRUE
  <2>4. QED
    BY <1>1, <1>2, <1>7, <2>3 DEF HeaterInterlock
<1>8. QED
  BY <1>1, <1>4, <1>6, <1>7

\* A function that switches the mode or the heater: the effect decides.
LEMMA SwitchedIInv ==
  ASSUME IInv, NEW tc \in RawTc, NEW e \in EffectSet,
         Interlocked(e.state, e.line), e.state.uptime_ticks = state.uptime_ticks,
         hal_set_heater(e.line), Conclude(tc, PUS_OK, e.state, e.tm),
         UNCHANGED <<time_vars, hal_temperature, hk_vars, evt_enabled>>
  PROVE  IInv' /\ SameClocks
<1>1. e.state \in obc_state_t /\ e.line \in Flag /\ e.tm \in Seq(TmContent)
  BY DEF EffectSet
<1>2. hal_heater' = e.line
  BY <1>1, HeaterLine
<1>3. /\ DlTypeOK' /\ state' \in obc_state_t /\ SameUnit(e.state, state')
      /\ UNCHANGED <<alarm_latched, last_overflow>>
  BY <1>1, StatusCodes, ConcludeType DEF IInv, TypeOK
<1>4. HalTypeOK'
  BY <1>1, <1>2 DEF IInv, TypeOK, HalTypeOK, time_vars, Flag
<1>5. QED
  BY <1>2, <1>3, <1>4
  DEF IInv, TypeOK, SafeHoldsHeaterOff, Interlocked, SameUnit, SameClocks, time_vars, hk_vars

LEMMA HeaterState ==
  ASSUME IInv
  PROVE  /\ hal_heater \in Flag /\ AcceptedState \in obc_state_t
         /\ Interlocked(AcceptedState, hal_heater) /\ hal_heater = AcceptedState.heater_on
         /\ AcceptedState.uptime_ticks = state.uptime_ticks
         /\ AcceptedState.mode = state.mode
<1>1. AcceptedState \in obc_state_t /\ SameUnit(state, AcceptedState)
  BY AcceptedStateType DEF IInv, TypeOK
<1>2. QED
  BY <1>1 DEF IInv, TypeOK, HalTypeOK, Flag, SafeHoldsHeaterOff, Interlocked, SameUnit

LEMMA SetModeIInv ==
  ASSUME IInv, NEW tc \in RawTc, WellFramed(tc), Svc08SetMode(tc)
  PROVE  IInv' /\ SameClocks
<1> DEFINE e == obc_set_mode(AcceptedState, tc.app_data[2])
<1>1. tc \in RawTc /\ OBC_FID_SET_MODE \in OBC_FID_SET_MODE .. OBC_FID_SET_TIME
  BY DEF OBC_FID_SET_MODE, OBC_FID_SET_TIME
<1>2. tc.app_data[2] \in {OBC_MODE_SAFE, OBC_MODE_NOMINAL}
  BY <1>1, FunctionArguments DEF Svc08SetMode
<1>3. /\ e \in EffectSet /\ Interlocked(e.state, e.line)
      /\ e.state.uptime_ticks = state.uptime_ticks
  BY <1>2, HeaterState, ModeEffect
<1>4. /\ hal_set_heater(e.line) /\ Conclude(tc, PUS_OK, e.state, e.tm)
      /\ UNCHANGED <<time_vars, hal_temperature, hk_vars, evt_enabled>>
  BY DEF Svc08SetMode
<1> HIDE DEF e
<1>5. QED
  BY <1>1, <1>3, <1>4, SwitchedIInv

LEMMA SetHeaterIInv ==
  ASSUME IInv, NEW tc \in RawTc, WellFramed(tc), Svc08SetHeater(tc)
  PROVE  IInv' /\ SameClocks
<1> DEFINE e == obc_apply_heater(AcceptedState, tc.app_data[2])
<1>1. tc \in RawTc /\ OBC_FID_SET_HEATER \in OBC_FID_SET_MODE .. OBC_FID_SET_TIME
  BY DEF OBC_FID_SET_MODE, OBC_FID_SET_HEATER, OBC_FID_SET_TIME
<1>2. tc.app_data[2] \in Flag /\ state.mode # OBC_MODE_SAFE
  BY <1>1, FunctionArguments DEF Svc08SetHeater
<1>3. /\ e \in EffectSet /\ Interlocked(e.state, e.line)
      /\ e.state.uptime_ticks = state.uptime_ticks
  BY <1>2, HeaterState, HeaterEffect DEF Interlocked
<1>4. /\ hal_set_heater(e.line) /\ Conclude(tc, PUS_OK, e.state, e.tm)
      /\ UNCHANGED <<time_vars, hal_temperature, hk_vars, evt_enabled>>
  BY DEF Svc08SetHeater
<1> HIDE DEF e
<1>5. QED
  BY <1>1, <1>3, <1>4, SwitchedIInv

\* Reading 16 unsigned bits as a signed number.
LEMMA Signed16 ==
  ASSUME NEW u \in Int, 0 =< u, u =< 65535
  PROVE  (IF u < 32768 THEN u ELSE u - 65536) \in Int16
<1>1. ASSUME u < 32768 PROVE u \in Int16
  <2>1. -INT16_MAX - 1 =< u /\ u =< INT16_MAX
    BY <1>1 DEF INT16_MAX
  <2>2. QED
    BY <2>1, Int16Bounds
<1>2. ASSUME ~(u < 32768) PROVE u - 65536 \in Int16
  <2>1. u - 65536 \in Int /\ -INT16_MAX - 1 =< u - 65536 /\ u - 65536 =< INT16_MAX
    BY <1>2 DEF INT16_MAX
  <2>2. QED
    BY <2>1, Int16Bounds
<1>3. QED
  BY <1>1, <1>2

LEMMA InjectIInv ==
  ASSUME IInv, NEW tc \in RawTc, WellFramed(tc), Svc08InjectTemp(tc)
  PROVE  IInv' /\ SameClocks
<1>1. tc \in RawTc /\ OBC_FID_INJECT_TEMP \in OBC_FID_SET_MODE .. OBC_FID_SET_TIME
  BY DEF OBC_FID_SET_MODE, OBC_FID_INJECT_TEMP, OBC_FID_SET_TIME
<1>2. ArgumentLength[OBC_FID_INJECT_TEMP] = 2
  BY DEF ArgumentLength, OBC_FID_SET_MODE, OBC_FID_SET_HEATER, OBC_FID_INJECT_TEMP,
         OBC_FID_RESET_COUNTERS, OBC_FID_SET_TIME
<1>3. tc.app_data[2] \in Octet /\ tc.app_data[3] \in Octet
  BY <1>1, <1>2, FunctionArguments DEF Svc08InjectTemp
<1>4. pus_get_i16(tc.app_data, 2) \in Int16
  <2> DEFINE u == pus_get_u16(tc.app_data, 2)
             a == tc.app_data[2]
             b == tc.app_data[3]
  <2>1. u = a * 256 + b
    BY DEF pus_get_u16
  <2>2. a \in Int /\ 0 =< a /\ a =< 255 /\ b \in Int /\ 0 =< b /\ b =< 255
    BY <1>3, OctetBounds
  <2> HIDE DEF u, a, b
  <2>3. u \in Int /\ 0 =< u /\ u =< 65535
    BY <2>1, <2>2
  <2>4. (IF u < 32768 THEN u ELSE u - 65536) \in Int16
    BY <2>3, Signed16
  <2>5. QED
    BY <2>4 DEF pus_get_i16, u
<1>5. /\ HalTypeOK' /\ UNCHANGED <<ticks, hal_heater, hk_phase>>
      /\ hk_enabled' \subseteq Sids /\ evt_enabled' \subseteq EventIds
  BY <1>4 DEF Svc08InjectTemp, hal_inject_temperature, IInv, TypeOK, HalTypeOK, time_vars, hk_vars
<1>6. QED
  BY <1>5, StatusCodes, SilentlyHandledIInv DEF Svc08InjectTemp

\* The elapsed time of the HAL is a pair of integers.
LEMMA ElapsedType ==
  ASSUME NEW t \in Nat
  PROVE  ElapsedSeconds(t) \in Int /\ ElapsedFine(t) \in Int
<1>1. t * TICK_MS \in Int
  BY TimeAssumption
<1>2. ElapsedMs(t) \in Int
  BY <1>1, ModuloBound, TimeAssumption DEF ElapsedMs
<1>3. ElapsedMs(t) % MS_PER_S \in Int
  BY <1>2, ModuloBound, TimeAssumption
<1>4. (ElapsedMs(t) % MS_PER_S) * FINE \in Int
  BY <1>3, TimeAssumption
<1>5. QED
  BY <1>2, <1>4, TimeAssumption DEF ElapsedSeconds, ElapsedFine

LEMMA SetTimeIInv ==
  ASSUME IInv, NEW tc \in RawTc, WellFramed(tc), Svc08SetTime(tc)
  PROVE  IInv' /\ SameClocks
<1> DEFINE d == tc.app_data
           coarse == pus_get_u32(d, 2) % U32
           fine == pus_get_u16(d, 6) % FINE
<1>1. tc \in RawTc /\ OBC_FID_SET_TIME \in OBC_FID_SET_MODE .. OBC_FID_SET_TIME
  BY DEF OBC_FID_SET_MODE, OBC_FID_SET_TIME
<1>2. ArgumentLength[OBC_FID_SET_TIME] = 6
  BY DEF ArgumentLength, OBC_FID_SET_MODE, OBC_FID_SET_HEATER, OBC_FID_INJECT_TEMP,
         OBC_FID_RESET_COUNTERS, OBC_FID_SET_TIME
<1>3. \A i \in 2 .. 7 : d[i] \in Octet
  BY <1>1, <1>2, FunctionArguments DEF Svc08SetTime
<1>4. /\ d[2] \in Int /\ d[3] \in Int /\ d[4] \in Int /\ d[5] \in Int
      /\ d[6] \in Int /\ d[7] \in Int
  <2>1. \A x \in Octet : x \in Int
    BY DEF Octet
  <2>2. QED
    BY <1>3, <2>1
<1>5. pus_get_u32(d, 2) \in Int /\ pus_get_u16(d, 6) \in Int
  BY <1>4 DEF pus_get_u32, pus_get_u16
<1>6. coarse \in Int /\ fine \in Int
  <2>1. U32 \in Nat \ {0} /\ FINE \in Nat \ {0}
    BY TimeAssumption
  <2>2. coarse \in 0 .. U32 - 1 /\ fine \in 0 .. FINE - 1
    <3> HIDE DEF d
    <3> QED
      BY <1>5, <2>1, ModuloBound
  <2>3. QED
    BY <2>1, <2>2
<1>7. hal_set_cuc_time(coarse, fine)
  BY DEF Svc08SetTime
<1> HIDE DEF coarse, fine
<1>8. ElapsedSeconds(ticks) \in Int /\ ElapsedFine(ticks) \in Int
  BY ElapsedType, TimeAssumption DEF IInv, TypeOK, HalTypeOK
<1>9. coarse - ElapsedSeconds(ticks) \in Int /\ fine - ElapsedFine(ticks) \in Int
  BY <1>6, <1>8
<1>10. epoch_coarse' \in 0 .. U32 - 1 /\ epoch_fine' \in 0 .. FINE - 1
  BY <1>7, <1>9, ModuloBound, TimeAssumption DEF hal_set_cuc_time
<1>11. /\ UNCHANGED <<ticks, hal_temperature, hal_heater, hk_phase>>
       /\ hk_enabled' \subseteq Sids /\ evt_enabled' \subseteq EventIds
  BY <1>7 DEF Svc08SetTime, hal_set_cuc_time, IInv, TypeOK, hk_vars
<1>12. HalTypeOK'
  BY <1>10, <1>11 DEF IInv, TypeOK, HalTypeOK
<1>13. QED
  BY <1>11, <1>12, StatusCodes, SilentlyHandledIInv DEF Svc08SetTime

LEMMA ResetCountersIInv ==
  ASSUME IInv, NEW tc \in RawTc, WellFramed(tc), Svc08ResetCounters(tc)
  PROVE  IInv' /\ SameClocks
<1> DEFINE s == [state EXCEPT !.tc_accepted = 0, !.tc_rejected = 0, !.last_failure_code = PUS_OK]
<1>1. s \in obc_state_t /\ SameUnit(state, s)
  <2>1. PUS_OK \in pus_status_t /\ 0 \in 0 .. COUNTER_MAX
    BY StatusCodes, CounterAssumption
  <2>2. state \in obc_state_t
    BY DEF IInv, TypeOK
  <2>3. QED
    BY <2>1, <2>2 DEF obc_state_t, SameUnit
<1>2. <<>> \in Seq(TmContent) /\ tc \in RawTc
  BY EmptySeq
<1>3. /\ HalTypeOK' /\ UNCHANGED <<ticks, hal_heater, hk_phase>>
      /\ hk_enabled' \subseteq Sids /\ evt_enabled' \subseteq EventIds
  BY DEF Svc08ResetCounters, IInv, TypeOK, HalTypeOK, hal_vars, hk_vars
<1>4. Conclude(tc, PUS_OK, s, <<>>)
  BY DEF Svc08ResetCounters
<1> HIDE DEF s
<1>5. QED
  BY <1>1, <1>2, <1>3, <1>4, StatusCodes, HandledIInv

LEMMA TelecommandIInv ==
  ASSUME IInv, NEW raw \in RawTc, WellFramed(raw), obc_process_tc(raw)
  PROVE  IInv' /\ SameClocks
  BY RejectIInv, RefuseIInv, Svc03ConfigureIInv, Svc03OneShotIInv, Svc05ConfigureIInv,
     SetModeIInv, SetHeaterIInv, InjectIInv, SetTimeIInv, ResetCountersIInv, Svc17IInv
  DEF obc_process_tc

LEMMA StutterIInv ==
  ASSUME IInv, UNCHANGED vars
  PROVE  IInv' /\ SameClocks
  BY DEF vars, hal_vars, dl_vars, hk_vars, app_vars, IInv, TypeOK, HalTypeOK, DlTypeOK,
         SafeHoldsHeaterOff, SameClocks

-----------------------------------------------------------------------------
(* The cycle counters *)

\* A minor cycle moves all three on, a restart zeroes all three.
LEMMA TickClocks == ASSUME IInv, obc_tick PROVE CountersAdvance
<1>1. ticks' = (ticks + 1) % U32 /\ hk_phase' = NextPhase
  BY DEF obc_tick, hal_time_advance
<1>2. state'.uptime_ticks = (state.uptime_ticks + 1) % U32
  BY TickIInv
<1>3. hk_phase \in Nat /\ hk_phase < HK_PERIOD /\ HK_PERIOD \in Nat \ {0}
  BY HkPeriodAssumption DEF IInv, TypeOK
<1>4. hk_phase % HK_PERIOD = hk_phase
  BY <1>3
<1>5. NextPhase = (hk_phase + 1) % HK_PERIOD
  BY <1>3, <1>4, SuccessorModulo DEF NextPhase
<1>6. QED
  BY <1>1, <1>2, <1>5 DEF CountersAdvance

LEMMA RestartClocks == ASSUME obc_init PROVE CountersRestart
  BY PowerOn DEF obc_init, hal_time_init, CountersRestart

-----------------------------------------------------------------------------
(* Whatever the environment calls *)

LEMMA CallIInv == IInv /\ [Call(ReceivableTc)]_vars => IInv'
<1> SUFFICES ASSUME IInv, [Call(ReceivableTc)]_vars PROVE IInv'
  OBVIOUS
<1>1. ASSUME NEW raw \in ReceivableTc, obc_process_tc(raw) PROVE IInv'
  BY <1>1, TelecommandIInv DEF ReceivableTc
<1>2. QED
  BY <1>1, TickIInv, PopIInv, RestartIInv, StutterIInv DEF Call

\* Every other call leaves all three alone.
LEMMA CallClocks ==
  IInv /\ [Call(ReceivableTc)]_vars =>
    [CountersAdvance \/ CountersRestart]_<<ticks, state.uptime_ticks, hk_phase>>
<1> SUFFICES ASSUME IInv, [Call(ReceivableTc)]_vars
             PROVE  CountersAdvance \/ CountersRestart \/ SameClocks
  BY DEF SameClocks
<1>1. ASSUME NEW raw \in ReceivableTc, obc_process_tc(raw) PROVE SameClocks
  BY <1>1, TelecommandIInv DEF ReceivableTc
<1>2. CASE DownlinkOne
  BY <1>2 DEF DownlinkOne, hal_vars, time_vars, hk_vars, app_vars, SameClocks
<1>3. CASE UNCHANGED vars
  BY <1>3 DEF vars, hal_vars, time_vars, hk_vars, app_vars, SameClocks
<1>4. QED
  BY <1>1, <1>2, <1>3, TickClocks, RestartClocks DEF Call

-----------------------------------------------------------------------------
(* What the packets in the downlink queue say: each packet of a step is    *)
(* judged by the number k of packets the step sent before it.              *)

Truthful(k, c) ==
  /\ c.service = PUS_SERVICE_HOUSEKEEPING /\ c.data[1] = OBC_HK_SID_ESSENTIAL
       => c.data[2] = OBC_MODE_NOMINAL \/ c.data[5] = PUS_FALSE
  /\ c.service = PUS_SERVICE_HOUSEKEEPING /\ c.data[1] = OBC_HK_SID_DIAGNOSTIC
       => c.data[5] = U8(CountAfter(k)) /\ c.data[6] = OverflowsAfter(k)
  /\ FailureCode(c) = PUS_ERR_QUEUE_FULL => DEPTH <= Len(queue) + k

TruthfulFrom(k, pkts) ==
  pkts \in Seq(TmContent) /\ \A j \in 1 .. Len(pkts) : Truthful(k + j - 1, pkts[j])

LEMMA TruthfulEmpty == \A k : TruthfulFrom(k, <<>>)
  BY EmptySeq DEF TruthfulFrom

LEMMA TruthfulOne ==
  ASSUME NEW k \in Nat, NEW c \in TmContent, Truthful(k, c)
  PROVE  TruthfulFrom(k, <<c>>)
<1>1. <<c>> \in Seq(TmContent) /\ Len(<<c>>) = 1 /\ <<c>>[1] = c
  BY Singleton
<1>2. \A j \in 1 .. Len(<<c>>) : j = 1
  BY <1>1
<1>3. k + 1 - 1 = k
  OBVIOUS
<1>4. QED
  BY <1>1, <1>2, <1>3 DEF TruthfulFrom

LEMMA TruthfulConcat ==
  ASSUME NEW k \in Nat, NEW a, NEW b, TruthfulFrom(k, a), TruthfulFrom(k + Len(a), b)
  PROVE  TruthfulFrom(k, a \o b) /\ Len(a \o b) = Len(a) + Len(b)
<1>1. /\ a \in Seq(TmContent) /\ b \in Seq(TmContent)
      /\ \A j \in 1 .. Len(a) : Truthful(k + j - 1, a[j])
      /\ \A j \in 1 .. Len(b) : Truthful(k + Len(a) + j - 1, b[j])
  BY DEF TruthfulFrom
<1>2. Len(a) \in Nat /\ Len(b) \in Nat
  BY <1>1, LenProperties
<1>3. /\ a \o b \in Seq(TmContent) /\ Len(a \o b) = Len(a) + Len(b)
      /\ \A i \in 1 .. Len(a) + Len(b) :
           (a \o b)[i] = IF i <= Len(a) THEN a[i] ELSE b[i - Len(a)]
  BY <1>1, ConcatProperties
<1>4. ASSUME NEW j \in 1 .. Len(a \o b) PROVE Truthful(k + j - 1, (a \o b)[j])
  <2>1. CASE j <= Len(a)
    <3>1. j \in 1 .. Len(a) /\ (a \o b)[j] = a[j]
      BY <1>2, <1>3, <2>1
    <3>2. QED
      BY <1>1, <3>1
  <2>2. CASE ~(j <= Len(a))
    <3>1. /\ j - Len(a) \in 1 .. Len(b) /\ (a \o b)[j] = b[j - Len(a)]
          /\ k + Len(a) + (j - Len(a)) - 1 = k + j - 1
      BY <1>2, <1>3, <2>2
    <3>2. QED
      BY <1>1, <3>1
  <2>3. QED
    BY <2>1, <2>2
<1>5. QED
  BY <1>3, <1>4 DEF TruthfulFrom

\* The queue count travels in one octet: it is exact for a queue of at most 256 slots.
TelemetryOK == /\ HousekeepingCoherent /\ QueueFullIsNeverReported
               /\ DEPTH <= 256 => DiagnosticReportHonest

\* A failure code depends on the service, the subtype and the data of a packet only.
LEMMA FailureCodeOfContent ==
  ASSUME NEW p, NEW c, p.service = c.service, p.subtype = c.subtype, p.data = c.data
  PROVE  FailureCode(p) = FailureCode(c)
  BY DEF FailureCode

LEMMA EmitTruthful ==
  ASSUME DlTypeOK, TelemetryOK, NEW pkts, TruthfulFrom(0, pkts), Emit(pkts)
  PROVE  TelemetryOK'
<1>1. pkts \in Seq(TmContent) /\ Len(pkts) \in Nat /\ Len(queue) \in Nat
  BY LenProperties DEF TruthfulFrom, DlTypeOK
<1>2. EmitAdds(pkts)
  BY <1>1, EmitAddsPrefix
<1>3. overflows \in Nat /\ overflows' \in Nat /\ overflows <= overflows'
  BY <1>1, CounterAssumption, DepthAssumption DEF Emit, OverflowsAfter, Lesser, DlTypeOK
<1>4. /\ DOMAIN queue = 1 .. Len(queue) /\ DOMAIN queue' = 1 .. Len(queue')
      /\ Len(queue') = Len(queue) + Kept(pkts) /\ Kept(pkts) \in Nat
  BY <1>1, <1>2, LenProperties DEF EmitAdds, DlTypeOK
<1>5. \A i \in DOMAIN queue : queue'[i] = queue[i]
  BY <1>2, <1>4 DEF EmitAdds
<1>6. ASSUME NEW i \in DOMAIN queue', i \notin DOMAIN queue
      PROVE  \E k \in Nat : \E c \in TmContent :
               /\ Truthful(k, c) /\ i = Len(queue) + k + 1 /\ Len(queue) + k < DEPTH
               /\ queue'[i].service = c.service /\ queue'[i].subtype = c.subtype
               /\ queue'[i].data = c.data
  <2> DEFINE j == i - Len(queue)
             k == j - 1
  <2>1. /\ j \in 1 .. Kept(pkts) /\ i = Len(queue) + j
        /\ k \in Nat /\ i = Len(queue) + k + 1 /\ 0 + j - 1 = k
    BY <1>1, <1>4, <1>6
  <2>2. j \in 1 .. Len(pkts) /\ Len(queue) + k < DEPTH
    <3>1. Kept(pkts) \in 0 .. Len(pkts) /\ Kept(pkts) <= DEPTH - Len(queue)
      BY <1>2 DEF EmitAdds
    <3> HIDE DEF j
    <3>2. QED
      BY <1>1, <2>1, <3>1, DepthAssumption
  <2>3. queue'[i] = Stamped(pkts)[j]
    BY <1>2, <2>1 DEF EmitAdds
  <2>4. /\ Stamped(pkts)[j].service = pkts[j].service
        /\ Stamped(pkts)[j].subtype = pkts[j].subtype
        /\ Stamped(pkts)[j].data = pkts[j].data
    BY <1>1, <2>2, StampedType
  <2>5. pkts[j] \in TmContent /\ Truthful(k, pkts[j])
    <3>1. pkts[j] \in TmContent
      BY <1>1, <2>2, ElementOfSeq
    <3>2. Truthful(0 + j - 1, pkts[j])
      BY <2>2 DEF TruthfulFrom
    <3>3. QED
      BY <2>1, <3>1, <3>2
  <2> HIDE DEF j, k
  <2>6. QED
    BY <2>1, <2>2, <2>3, <2>4, <2>5
<1>7. HousekeepingCoherent'
  BY <1>5, <1>6 DEF HousekeepingCoherent, TelemetryOK, Truthful
<1>8. QueueFullIsNeverReported'
  <2> SUFFICES ASSUME NEW i \in DOMAIN queue'
               PROVE  FailureCode(queue'[i]) # PUS_ERR_QUEUE_FULL
    BY DEF QueueFullIsNeverReported, FailureCode
  <2>1. CASE i \in DOMAIN queue
    BY <1>5, <2>1 DEF QueueFullIsNeverReported, TelemetryOK
  <2>2. CASE i \notin DOMAIN queue
    <3>1. PICK k \in Nat, c \in TmContent :
            /\ Truthful(k, c) /\ Len(queue) + k < DEPTH
            /\ queue'[i].service = c.service /\ queue'[i].subtype = c.subtype
            /\ queue'[i].data = c.data
      BY <1>6, <2>2
    <3>2. FailureCode(c) # PUS_ERR_QUEUE_FULL
      BY <1>1, <3>1, DepthAssumption DEF Truthful
    <3>3. QED
      BY <3>1, <3>2, FailureCodeOfContent
  <2>3. QED
    BY <2>1, <2>2
<1>9. ASSUME DEPTH <= 256 PROVE DiagnosticReportHonest'
  <2> SUFFICES ASSUME NEW i \in DOMAIN queue',
                      queue'[i].service = PUS_SERVICE_HOUSEKEEPING,
                      queue'[i].data[1] = OBC_HK_SID_DIAGNOSTIC
               PROVE  /\ queue'[i].data[5] \in i - 1 .. DEPTH - 1
                      /\ queue'[i].data[6] \in 0 .. overflows'
    BY DEF DiagnosticReportHonest
  <2>1. CASE i \in DOMAIN queue
    <3>1. queue[i].data[5] \in i - 1 .. DEPTH - 1 /\ queue[i].data[6] \in 0 .. overflows
      BY <1>5, <1>9, <2>1 DEF DiagnosticReportHonest, TelemetryOK
    <3>2. QED
      BY <1>3, <1>5, <2>1, <3>1
  <2>2. CASE i \notin DOMAIN queue
    <3>1. PICK k \in Nat, c \in TmContent :
            /\ Truthful(k, c) /\ i = Len(queue) + k + 1 /\ Len(queue) + k < DEPTH
            /\ queue'[i].service = c.service /\ queue'[i].data = c.data
      BY <1>6, <2>2
    <3>2. CountAfter(k) = i - 1 /\ OverflowsAfter(k) = overflows
      BY <1>1, <3>1, DepthAssumption DEF CountAfter, OverflowsAfter, Lesser
    <3>3. i - 1 \in Nat /\ i - 1 < 256 /\ i - 1 \in i - 1 .. DEPTH - 1
      BY <1>1, <1>9, <3>1, DepthAssumption
    <3>4. U8(i - 1) = i - 1
      BY <3>3 DEF U8
    <3>5. c.data[5] = i - 1 /\ c.data[6] = overflows
      BY <3>1, <3>2, <3>4 DEF Truthful
    <3>6. QED
      BY <1>3, <3>1, <3>3, <3>5
  <2>3. QED
    BY <2>1, <2>2
<1>10. QED
  BY <1>7, <1>8, <1>9 DEF TelemetryOK

LEMMA EventTruthful ==
  ASSUME NEW k \in Nat, NEW id \in Nat, NEW severity \in Nat, NEW aux \in Int,
         id # OBC_EVT_TC_REJECTED
  PROVE  TruthfulFrom(k, svc05_report(id, severity, aux))
<1> DEFINE c == [service |-> PUS_SERVICE_EVENT, subtype |-> severity, data |-> <<id, U16(aux)>>]
<1>1. CASE id \in evt_enabled
  <2>1. svc05_report(id, severity, aux) = <<c>>
    BY <1>1 DEF svc05_report
  <2>2. U16(aux) \in Nat
    BY DEF U16
  <2>3. c \in TmContent
    BY <2>2 DEF TmContent, TmServices
  <2>4. c.service = PUS_SERVICE_EVENT /\ c.data[1] = id
    OBVIOUS
  <2> HIDE DEF c
  <2>5. Truthful(k, c)
    BY <2>4 DEF Truthful, FailureCode, PUS_SERVICE_EVENT, PUS_SERVICE_HOUSEKEEPING,
                PUS_SERVICE_VERIFICATION, PUS_OK, PUS_ERR_QUEUE_FULL
  <2>6. QED
    BY <2>1, <2>3, <2>5, TruthfulOne
<1>2. CASE id \notin evt_enabled
  BY <1>2, TruthfulEmpty DEF svc05_report
<1>3. QED
  BY <1>1, <1>2

\* A status code fits the 16 bits it is reported in.
LEMMA CodeFits == ASSUME NEW code \in pus_status_t PROVE U16(code) = code /\ U16(code) \in Nat
<1>1. code \in Int /\ 0 <= code /\ code <= 17
  BY DEF pus_status_t
<1>2. QED
  BY <1>1 DEF U16

LEMMA RejectionTruthful ==
  ASSUME NEW k \in Nat, NEW code \in pus_status_t,
         code = PUS_ERR_QUEUE_FULL => DEPTH <= Len(queue) + k
  PROVE  TruthfulFrom(k, RejectionEvent(code))
<1> DEFINE c == [service |-> PUS_SERVICE_EVENT, subtype |-> PUS_ST05_LOW_SEVERITY,
                 data |-> <<OBC_EVT_TC_REJECTED, U16(code)>>]
<1>1. CASE OBC_EVT_TC_REJECTED \in evt_enabled
  <2>1. RejectionEvent(code) = <<c>>
    BY <1>1 DEF RejectionEvent, svc05_report
  <2>2. U16(code) = code /\ U16(code) \in Nat
    BY CodeFits
  <2>3. c \in TmContent
    BY <2>2 DEF TmContent, TmServices, OBC_EVT_TC_REJECTED, PUS_ST05_LOW_SEVERITY
  <2>4. /\ c.service = PUS_SERVICE_EVENT
        /\ c.data[1] = OBC_EVT_TC_REJECTED /\ c.data[2] = code
    BY <2>2
  <2> HIDE DEF c
  <2>5. Truthful(k, c)
    BY <2>4 DEF Truthful, FailureCode, PUS_SERVICE_EVENT, PUS_SERVICE_HOUSEKEEPING,
                PUS_SERVICE_VERIFICATION
  <2>6. QED
    BY <2>1, <2>3, <2>5, TruthfulOne
<1>2. CASE OBC_EVT_TC_REJECTED \notin evt_enabled
  BY <1>2, TruthfulEmpty DEF RejectionEvent, svc05_report
<1>3. QED
  BY <1>1, <1>2

\* Verification reports: successes name no failure, failures the code given.
LEMMA VerificationTruthful ==
  ASSUME NEW k \in Nat, NEW tc \in RawTc, NEW code \in pus_status_t,
         code = PUS_ERR_QUEUE_FULL => DEPTH <= Len(queue) + k
  PROVE  /\ TruthfulFrom(k, svc01_acceptance_success(tc))
         /\ TruthfulFrom(k, svc01_completion_success(tc))
         /\ TruthfulFrom(k, svc01_completion_failure(tc, code))
         /\ TruthfulFrom(k, svc01_reject_raw(tc, code))
<1>1. ASSUME NEW subtype \in {PUS_ST01_ACCEPTANCE_SUCCESS, PUS_ST01_COMPLETION_SUCCESS}, NEW id,
             svc01_send_success(subtype, id) \in Seq(TmContent)
      PROVE  TruthfulFrom(k, svc01_send_success(subtype, id))
  <2> DEFINE c == [service |-> PUS_SERVICE_VERIFICATION, subtype |-> subtype,
                   data |-> <<id[1], id[2]>>]
  <2>1. svc01_send_success(subtype, id) = <<c>>
    BY DEF svc01_send_success
  <2>2. c.service = PUS_SERVICE_VERIFICATION /\ c.subtype = subtype
    OBVIOUS
  <2> HIDE DEF c
  <2>3. c \in TmContent
    BY <1>1, <2>1
  <2>4. Truthful(k, c)
    BY <2>2 DEF Truthful, FailureCode, PUS_SERVICE_EVENT, PUS_SERVICE_HOUSEKEEPING,
                PUS_SERVICE_VERIFICATION, PUS_OK, PUS_ERR_QUEUE_FULL, PUS_ST01_ACCEPTANCE_SUCCESS,
                PUS_ST01_COMPLETION_SUCCESS, PUS_ST01_ACCEPTANCE_FAILURE, PUS_ST01_COMPLETION_FAILURE
  <2>5. QED
    BY <2>1, <2>3, <2>4, TruthfulOne
<1>2. ASSUME NEW subtype \in {PUS_ST01_ACCEPTANCE_FAILURE, PUS_ST01_COMPLETION_FAILURE}, NEW id,
             svc01_send_failure(subtype, id, code) \in Seq(TmContent)
      PROVE  TruthfulFrom(k, svc01_send_failure(subtype, id, code))
  <2> DEFINE c == [service |-> PUS_SERVICE_VERIFICATION, subtype |-> subtype,
                   data |-> <<id[1], id[2], U16(code)>>]
  <2>1. svc01_send_failure(subtype, id, code) = <<c>>
    BY DEF svc01_send_failure
  <2>2. c.service = PUS_SERVICE_VERIFICATION /\ c.subtype = subtype /\ c.data[3] = code
    BY CodeFits
  <2> HIDE DEF c
  <2>3. c \in TmContent
    BY <1>2, <2>1
  <2>4. Truthful(k, c)
    BY <2>2 DEF Truthful, FailureCode, PUS_SERVICE_HOUSEKEEPING, PUS_SERVICE_VERIFICATION
  <2>5. QED
    BY <2>1, <2>3, <2>4, TruthfulOne
<1>3. /\ svc01_acceptance_success(tc) \in Seq(TmContent)
      /\ svc01_completion_success(tc) \in Seq(TmContent)
      /\ svc01_completion_failure(tc, code) \in Seq(TmContent)
      /\ svc01_reject_raw(tc, code) \in Seq(TmContent)
  BY VerificationTypes
<1>4. TruthfulFrom(k, svc01_acceptance_success(tc))
  BY <1>1, <1>3, TruthfulEmpty DEF svc01_acceptance_success
<1>5. TruthfulFrom(k, svc01_completion_success(tc))
  BY <1>1, <1>3, TruthfulEmpty DEF svc01_completion_success
<1>6. TruthfulFrom(k, svc01_completion_failure(tc, code))
  BY <1>2, <1>3, TruthfulEmpty DEF svc01_completion_failure
<1>7. TruthfulFrom(k, svc01_reject_raw(tc, code))
  BY <1>2, <1>3 DEF svc01_reject_raw
<1>8. QED
  BY <1>4, <1>5, <1>6, <1>7

\* A housekeeping report on an interlocked state, sent after k packets.
LEMMA GenerateTruthful ==
  ASSUME DlTypeOK, NEW sid \in Sids, NEW s \in obc_state_t, NEW level, Interlocked(s, level),
         NEW k \in Nat
  PROVE  Truthful(k, svc03_generate(sid, s, k))
<1> DEFINE c == svc03_generate(sid, s, k)
<1>1. c.service = PUS_SERVICE_HOUSEKEEPING
  BY DEF svc03_generate
<1>2. FailureCode(c) = PUS_OK
  BY <1>1 DEF FailureCode, PUS_SERVICE_EVENT, PUS_SERVICE_HOUSEKEEPING, PUS_SERVICE_VERIFICATION
<1>3. CASE sid = OBC_HK_SID_ESSENTIAL
  <2>1. c.data = <<sid, s.mode, s.uptime_ticks, U16(s.temperature_dc), s.heater_on>>
    BY <1>3 DEF svc03_generate
  <2>2. c.data[1] = OBC_HK_SID_ESSENTIAL /\ c.data[2] = s.mode /\ c.data[5] = s.heater_on
    BY <1>3, <2>1
  <2>3. s.mode = OBC_MODE_NOMINAL \/ s.heater_on = PUS_FALSE
    BY DEF Interlocked, obc_state_t
  <2> HIDE DEF c
  <2>4. QED
    BY <1>2, <2>2, <2>3 DEF Truthful, PUS_OK, PUS_ERR_QUEUE_FULL, OBC_HK_SID_ESSENTIAL,
                            OBC_HK_SID_DIAGNOSTIC, c
<1>4. CASE sid # OBC_HK_SID_ESSENTIAL
  <2>1. c.data = <<sid, s.tc_accepted, s.tc_rejected, s.last_failure_code,
                   U8(CountAfter(k)), OverflowsAfter(k)>>
    BY <1>4 DEF svc03_generate
  <2>2. /\ c.data[1] = OBC_HK_SID_DIAGNOSTIC /\ c.data[5] = U8(CountAfter(k))
        /\ c.data[6] = OverflowsAfter(k)
    BY <1>4, <2>1 DEF Sids
  <2> HIDE DEF c
  <2>3. QED
    BY <1>2, <2>2 DEF Truthful, PUS_OK, PUS_ERR_QUEUE_FULL, OBC_HK_SID_ESSENTIAL,
                      OBC_HK_SID_DIAGNOSTIC, c
<1>5. QED
  BY <1>3, <1>4

\* The mode and heater functions send events only.
LEMMA HeaterTruthful ==
  ASSUME NEW k \in Nat, NEW s \in obc_state_t, NEW on \in Flag
  PROVE  TruthfulFrom(k, obc_apply_heater(s, on).tm)
<1> DEFINE report == svc05_report(OBC_EVT_HEATER_SWITCHED, PUS_ST05_INFORMATIVE, on)
<1>1. TruthfulFrom(k, report)
  BY EventTruthful DEF Flag, PUS_FALSE, PUS_TRUE, OBC_EVT_HEATER_SWITCHED, OBC_EVT_TC_REJECTED,
                       PUS_ST05_INFORMATIVE
<1>2. obc_apply_heater(s, on).tm = IF on = s.heater_on THEN <<>> ELSE report
  BY DEF obc_apply_heater, NoEffect, Effect
<1>3. QED
  BY <1>1, <1>2, TruthfulEmpty

LEMMA ModeTruthful ==
  ASSUME NEW k \in Nat, NEW s \in obc_state_t, NEW mode \in {OBC_MODE_SAFE, OBC_MODE_NOMINAL},
         hal_heater \in Flag, Interlocked(s, hal_heater)
  PROVE  TruthfulFrom(k, obc_set_mode(s, mode).tm)
<1> DEFINE entered == [s EXCEPT !.mode = mode]
           switched == IF mode = OBC_MODE_SAFE THEN obc_apply_heater(entered, PUS_FALSE)
                       ELSE NoEffect(entered)
           report == svc05_report(OBC_EVT_MODE_CHANGED, PUS_ST05_INFORMATIVE, mode)
<1>1. CASE mode = s.mode
  <2>1. obc_set_mode(s, mode).tm = <<>>
    BY <1>1 DEF obc_set_mode, NoEffect, Effect
  <2>2. QED
    BY <2>1, TruthfulEmpty
<1>2. CASE mode # s.mode
  <2>1. entered \in obc_state_t /\ entered.heater_on = s.heater_on /\ PUS_FALSE \in Flag
    BY DEF obc_state_t, Flag
  <2>2. hal_heater = entered.heater_on
    BY <2>1 DEF Interlocked
  <2> HIDE DEF entered
  <2>3. switched \in EffectSet
    BY <2>1, <2>2, HeaterEffect, NoEffectType
  <2>4. TruthfulFrom(k, switched.tm)
    <3>1. NoEffect(entered).tm = <<>>
      BY DEF NoEffect, Effect
    <3>2. QED
      BY <2>1, <3>1, HeaterTruthful, TruthfulEmpty
  <2>5. Len(switched.tm) \in Nat
    BY <2>3, LenProperties DEF EffectSet
  <2>6. TruthfulFrom(k + Len(switched.tm), report)
    <3>1. k + Len(switched.tm) \in Nat
      BY <2>5
    <3>2. QED
      BY <3>1, EventTruthful DEF OBC_MODE_SAFE, OBC_MODE_NOMINAL, OBC_EVT_MODE_CHANGED,
                                 OBC_EVT_TC_REJECTED, PUS_ST05_INFORMATIVE
  <2>7. obc_set_mode(s, mode) = [switched EXCEPT !.tm = switched.tm \o report]
    BY <1>2 DEF obc_set_mode, entered
  <2> HIDE DEF switched, report
  <2>8. obc_set_mode(s, mode).tm = switched.tm \o report
    BY <2>3, <2>7 DEF EffectSet
  <2>9. QED
    BY <2>4, <2>6, <2>8, TruthfulConcat
<1>3. QED
  BY <1>1, <1>2

LEMMA ThermalTruthful ==
  ASSUME NEW k \in Nat, NEW s \in obc_state_t, hal_heater \in Flag, Interlocked(s, hal_heater)
  PROVE  TruthfulFrom(k, obc_thermal_control(s).tm)
<1>1. PUS_FALSE \in Flag /\ PUS_TRUE \in Flag
  BY DEF Flag
<1>2. CASE TooHot(s)
  <2> DEFINE f == obc_set_mode(s, OBC_MODE_SAFE)
             alarm == AlarmReport(s)
  <2>1. f \in EffectSet
    BY ModeEffect
  <2>2. TruthfulFrom(k, alarm)
    <3>1. s.temperature_dc \in Int
      BY Int16IsInt DEF obc_state_t
    <3>2. QED
      BY <3>1, EventTruthful, TruthfulEmpty
      DEF AlarmReport, OBC_EVT_TEMP_ALARM, OBC_EVT_TC_REJECTED, PUS_ST05_HIGH_SEVERITY
  <2>3. k + Len(alarm) \in Nat
    BY <2>2, LenProperties DEF TruthfulFrom
  <2>4. TruthfulFrom(k + Len(alarm), f.tm)
    BY <2>3, ModeTruthful
  <2>5. obc_thermal_control(s) = [f EXCEPT !.tm = alarm \o f.tm]
    BY <1>2 DEF obc_thermal_control
  <2> HIDE DEF f, alarm
  <2>6. obc_thermal_control(s).tm = alarm \o f.tm
    BY <2>1, <2>5 DEF EffectSet
  <2>7. QED
    BY <2>2, <2>4, <2>6, TruthfulConcat
<1>3. CASE ~TooHot(s)
  <2>1. NoEffect(s).tm = <<>>
    BY DEF NoEffect, Effect
  <2>2. \/ obc_thermal_control(s) = obc_apply_heater(s, PUS_FALSE)
        \/ obc_thermal_control(s) = obc_apply_heater(s, PUS_TRUE)
        \/ obc_thermal_control(s) = NoEffect(s)
    BY <1>3 DEF obc_thermal_control
  <2>3. QED
    BY <1>1, <2>1, <2>2, HeaterTruthful, TruthfulEmpty
<1>4. QED
  BY <1>2, <1>3

LEMMA PeriodicTruthful ==
  ASSUME DlTypeOK, NEW s \in obc_state_t, NEW level, Interlocked(s, level), NEW k \in Nat
  PROVE  TruthfulFrom(k, svc03_tick(s, k))
<1>1. ASSUME NEW sid \in Sids, NEW n \in Nat
      PROVE  TruthfulFrom(n, PeriodicReport(sid, s, n))
  BY GenerateType, GenerateTruthful, TruthfulOne, TruthfulEmpty DEF PeriodicReport
<1>2. OBC_HK_SID_ESSENTIAL \in Sids /\ OBC_HK_SID_DIAGNOSTIC \in Sids
  BY DEF Sids
<1> DEFINE first == PeriodicReport(OBC_HK_SID_ESSENTIAL, s, k)
           second == PeriodicReport(OBC_HK_SID_DIAGNOSTIC, s, k + Len(first))
<1>3. TruthfulFrom(k, first)
  BY <1>1, <1>2
<1>4. k + Len(first) \in Nat
  BY <1>3, LenProperties DEF TruthfulFrom
<1>5. TruthfulFrom(k + Len(first), second)
  BY <1>1, <1>2, <1>4
<1>6. svc03_tick(s, k) = IF hk_phase + 1 < HK_PERIOD THEN <<>> ELSE first \o second
  BY DEF svc03_tick
<1> HIDE DEF first, second
<1>7. QED
  BY <1>3, <1>5, <1>6, TruthfulConcat, TruthfulEmpty

\* A list of structures that svc03_handle does not refuse.
LEMMA ListedAreSids ==
  ASSUME NEW tc \in RawTc, svc03_status(tc) = PUS_OK
  PROVE  Len(SidList(tc)) \in Nat /\ \A i \in 1 .. Len(SidList(tc)) : SidList(tc)[i] \in Sids
<1>1. tc.app_data \in Seq(Octet) /\ Len(tc.app_data) \in Nat
  BY LenProperties DEF RawTc
<1>2. Len(tc.app_data) >= 1 /\ \A i \in 2 .. Len(tc.app_data) : tc.app_data[i] \in Sids
  BY <1>1 DEF svc03_status, PUS_OK, PUS_ERR_UNKNOWN_SUBTYPE, PUS_ERR_BAD_LENGTH,
              PUS_ERR_BAD_PARAMETER, PUS_ERR_UNKNOWN_SID
<1>3. tc.app_data # <<>>
  BY <1>2, EmptySeq
<1>4. /\ Tail(tc.app_data) \in Seq(Octet) /\ Len(Tail(tc.app_data)) = Len(tc.app_data) - 1
      /\ \A i \in 1 .. Len(Tail(tc.app_data)) : Tail(tc.app_data)[i] = tc.app_data[i + 1]
  BY <1>1, <1>3, HeadTailProperties
<1>5. \A i \in 1 .. Len(Tail(tc.app_data)) : Tail(tc.app_data)[i] \in Sids
  BY <1>1, <1>2, <1>4
<1>6. QED
  BY <1>4, <1>5, LenProperties DEF SidList

\* One-shot reports, and the room they find: when the list does not fit, the last
\* report sent was already one too many.
LEMMA OneShotTruthful ==
  ASSUME DlTypeOK, NEW s \in obc_state_t, NEW level, Interlocked(s, level), NEW k \in Nat,
         NEW tc \in RawTc, svc03_status(tc) = PUS_OK
  PROVE  /\ TruthfulFrom(k, OneShotReports(tc, s, k))
         /\ OneShotStatus(tc, k) = PUS_ERR_QUEUE_FULL
              => DEPTH <= Len(queue) + (k + Len(OneShotReports(tc, s, k)))
<1> DEFINE n == Lesser(Len(SidList(tc)), OneShotRoom(k) + 1)
           r == OneShotReports(tc, s, k)
<1>1. r \in Seq(TmContent)
  BY OneShotType
<1>2. Len(SidList(tc)) \in Nat /\ \A i \in 1 .. Len(SidList(tc)) : SidList(tc)[i] \in Sids
  BY ListedAreSids
<1>3. CountAfter(k) \in 0 .. DEPTH /\ Len(queue) \in Nat /\ OneShotRoom(k) = DEPTH - CountAfter(k)
  BY AfterType DEF OneShotRoom
<1>4. n \in Nat /\ \A i \in 1 .. n : i \in 1 .. Len(SidList(tc)) /\ k + i - 1 \in Nat
  BY <1>2, <1>3, DepthAssumption DEF Lesser
<1>5. r = [i \in 1 .. n |-> svc03_generate(SidList(tc)[i], s, k + i - 1)]
  BY DEF OneShotReports
<1>6. Len(r) = n
  <2>1. DOMAIN r = 1 .. n
    BY <1>5
  <2>2. Len(r) \in Nat /\ 1 .. Len(r) = 1 .. n
    BY <1>1, <2>1, LenProperties
  <2> HIDE DEF r, n
  <2>3. QED
    BY <1>4, <2>2
<1>7. \A i \in 1 .. n : Truthful(k + i - 1, r[i])
  BY <1>2, <1>4, <1>5, GenerateTruthful
<1>8. TruthfulFrom(k, r)
  BY <1>1, <1>6, <1>7 DEF TruthfulFrom
<1>9. ASSUME OneShotStatus(tc, k) = PUS_ERR_QUEUE_FULL
       PROVE  DEPTH <= Len(queue) + (k + Len(r))
  <2>1. ~(Len(SidList(tc)) <= OneShotRoom(k))
    BY <1>9 DEF OneShotStatus, PUS_OK, PUS_ERR_QUEUE_FULL
  <2>2. n = DEPTH - CountAfter(k) + 1
    BY <1>2, <1>3, <2>1, DepthAssumption DEF Lesser
  <2>3. CountAfter(k) <= Len(queue) + k
    BY <1>3, DepthAssumption DEF CountAfter, Lesser
  <2> HIDE DEF n, r
  <2>4. QED
    BY <1>3, <1>6, <2>2, <2>3, DepthAssumption
<1>10. QED
  BY <1>8, <1>9

-----------------------------------------------------------------------------
(* Every operation keeps the queue truthful *)

LEMMA SentBeforeType == ASSUME NEW tc \in RawTc PROVE SentBefore(tc) \in Nat
  BY VerificationTypes, StatusCodes DEF SentBefore

LEMMA ConcludeTruthful ==
  ASSUME DlTypeOK, TelemetryOK, NEW tc \in RawTc, NEW st \in pus_status_t, NEW s, NEW response,
         TruthfulFrom(SentBefore(tc), response),
         st = PUS_ERR_QUEUE_FULL => DEPTH <= Len(queue) + (SentBefore(tc) + Len(response)),
         Conclude(tc, st, s, response)
  PROVE  TelemetryOK'
<1> DEFINE acceptance == svc01_acceptance_success(tc)
           completion == IF st = PUS_OK THEN svc01_completion_success(tc)
                         ELSE svc01_completion_failure(tc, st) \o RejectionEvent(st)
           k == SentBefore(tc)
           n == k + Len(response)
<1>1. TruthfulFrom(0, acceptance)
  BY VerificationTruthful, StatusCodes DEF PUS_OK, PUS_ERR_QUEUE_FULL
<1>2. k \in Nat /\ 0 + Len(acceptance) = k /\ Len(response) \in Nat /\ n \in Nat
  <2>1. k \in Nat /\ Len(acceptance) = k
    BY SentBeforeType DEF SentBefore
  <2>2. Len(response) \in Nat
    BY LenProperties DEF TruthfulFrom
  <2> HIDE DEF k
  <2>3. QED
    BY <2>1, <2>2
<1>3. TruthfulFrom(0, acceptance \o response) /\ Len(acceptance \o response) = n
  BY <1>1, <1>2, TruthfulConcat
<1>4. TruthfulFrom(n, completion)
  <2>1. CASE st = PUS_OK
    BY <1>2, <2>1, VerificationTruthful DEF PUS_OK, PUS_ERR_QUEUE_FULL
  <2>2. CASE st # PUS_OK
    <3> DEFINE failure == svc01_completion_failure(tc, st)
    <3> HIDE DEF n
    <3>1. st = PUS_ERR_QUEUE_FULL => DEPTH <= Len(queue) + n
      BY DEF n
    <3>2. TruthfulFrom(n, failure)
      BY <1>2, <3>1, VerificationTruthful
    <3>3. /\ n + Len(failure) \in Nat
          /\ st = PUS_ERR_QUEUE_FULL => DEPTH <= Len(queue) + (n + Len(failure))
      <4>1. Len(failure) \in Nat /\ Len(queue) \in Nat
        BY <3>2, LenProperties DEF TruthfulFrom, DlTypeOK
      <4>2. QED
        BY <1>2, <3>1, <4>1, DepthAssumption
    <3>4. TruthfulFrom(n + Len(failure), RejectionEvent(st))
      BY <3>3, RejectionTruthful
    <3>5. QED
      BY <1>2, <2>2, <3>2, <3>4, TruthfulConcat
  <2>3. QED
    BY <2>1, <2>2
<1>5. TruthfulFrom(0, acceptance \o response \o completion)
  <2> HIDE DEF acceptance, completion, n
  <2>1. 0 + n = n
    BY <1>2
  <2>2. QED
    BY <1>3, <1>4, <2>1, TruthfulConcat
<1>6. Emit(acceptance \o response \o completion)
  BY DEF Conclude
<1>7. QED
  BY <1>5, <1>6, EmitTruthful

\* Neither the acceptance checks nor a refusing handler find the queue full.
LEMMA RefusalsAreNotQueueFull ==
  ASSUME NEW tc
  PROVE  pus_tc_parse(tc) # PUS_ERR_QUEUE_FULL /\ obc_route(tc) # PUS_ERR_QUEUE_FULL
<1> USE DEF PUS_OK, PUS_ERR_TRUNCATED, PUS_ERR_BAD_VERSION, PUS_ERR_BAD_PACKET_TYPE,
            PUS_ERR_NO_SEC_HEADER, PUS_ERR_BAD_APID, PUS_ERR_BAD_CRC, PUS_ERR_UNKNOWN_SERVICE,
            PUS_ERR_UNKNOWN_SUBTYPE, PUS_ERR_BAD_LENGTH, PUS_ERR_BAD_PARAMETER,
            PUS_ERR_UNKNOWN_SID, PUS_ERR_UNKNOWN_EVENT, PUS_ERR_UNKNOWN_FUNCTION,
            PUS_ERR_QUEUE_FULL, PUS_ERR_NOT_PERMITTED
<1>1. pus_tc_parse(tc) # PUS_ERR_QUEUE_FULL
  BY DEF pus_tc_parse
<1>2. svc03_status(tc) # PUS_ERR_QUEUE_FULL /\ svc05_status(tc) # PUS_ERR_QUEUE_FULL
  BY DEF svc03_status, svc05_status
<1>3. svc08_status(tc) # PUS_ERR_QUEUE_FULL /\ svc17_status(tc) # PUS_ERR_QUEUE_FULL
  BY DEF svc08_status, svc08_arguments_status, svc17_status
<1>4. QED
  BY <1>1, <1>2, <1>3 DEF obc_route

\* A telecommand whose handler answers nothing and does not find the queue full.
LEMMA SilentTruthful ==
  ASSUME IInv, TelemetryOK, NEW tc \in RawTc, NEW st \in pus_status_t, st # PUS_ERR_QUEUE_FULL,
         NEW s, Conclude(tc, st, s, <<>>)
  PROVE  TelemetryOK'
  BY TruthfulEmpty, ConcludeTruthful DEF IInv, TypeOK

LEMMA TelecommandTruthful ==
  ASSUME IInv, TelemetryOK, NEW tc \in RawTc, WellFramed(tc), obc_process_tc(tc)
  PROVE  TelemetryOK'
<1>1. /\ DlTypeOK /\ PUS_OK \in pus_status_t /\ PUS_OK # PUS_ERR_QUEUE_FULL
      /\ SentBefore(tc) \in Nat
  BY StatusCodes, SentBeforeType DEF IInv, TypeOK, PUS_OK, PUS_ERR_QUEUE_FULL
<1>2. /\ AcceptedState \in obc_state_t /\ Interlocked(AcceptedState, hal_heater)
      /\ hal_heater \in Flag
  BY HeaterState
<1>3. CASE RejectTc(tc)
  <2> DEFINE st == pus_tc_parse(tc)
             report == svc01_reject_raw(tc, st)
  <2>1. st \in pus_status_t /\ st # PUS_ERR_QUEUE_FULL
    BY ParseStatus, RefusalsAreNotQueueFull
  <2>2. TruthfulFrom(0, report)
    BY <2>1, VerificationTruthful
  <2>3. TruthfulFrom(0 + Len(report), RejectionEvent(st))
    <3>1. 0 + Len(report) \in Nat
      BY <2>2, LenProperties DEF TruthfulFrom
    <3>2. QED
      BY <2>1, <3>1, RejectionTruthful
  <2>4. TruthfulFrom(0, report \o RejectionEvent(st))
    BY <2>2, <2>3, TruthfulConcat
  <2>5. QED
    BY <1>1, <1>3, <2>4, EmitTruthful DEF RejectTc
<1>4. CASE RefuseTc(tc)
  BY <1>4, RouteStatus, RefusalsAreNotQueueFull, SilentTruthful DEF RefuseTc
<1>5. CASE Svc03Configure(tc)
  BY <1>1, <1>5, SilentTruthful DEF Svc03Configure
<1>6. CASE Svc03OneShot(tc)
  <2>1. svc03_status(tc) = PUS_OK
    BY <1>6, RoutedTo DEF Svc03OneShot
  <2>2. OneShotStatus(tc, SentBefore(tc)) \in pus_status_t
    BY <1>1, <1>2, <2>1, OneShotType
  <2>3. QED
    BY <1>1, <1>2, <1>6, <2>1, <2>2, OneShotTruthful, ConcludeTruthful DEF Svc03OneShot
<1>7. CASE Svc05Configure(tc)
  BY <1>1, <1>7, SilentTruthful DEF Svc05Configure
<1>8. CASE Svc08SetMode(tc)
  <2>1. tc.app_data[2] \in {OBC_MODE_SAFE, OBC_MODE_NOMINAL}
    <3>1. OBC_FID_SET_MODE \in OBC_FID_SET_MODE .. OBC_FID_SET_TIME
      BY DEF OBC_FID_SET_MODE, OBC_FID_SET_TIME
    <3>2. QED
      BY <1>8, <3>1, FunctionArguments DEF Svc08SetMode
  <2>2. TruthfulFrom(SentBefore(tc), obc_set_mode(AcceptedState, tc.app_data[2]).tm)
    BY <1>1, <1>2, <2>1, ModeTruthful
  <2>3. QED
    BY <1>1, <1>8, <2>2, ConcludeTruthful DEF Svc08SetMode
<1>9. CASE Svc08SetHeater(tc)
  <2>1. tc.app_data[2] \in Flag
    <3>1. OBC_FID_SET_HEATER \in OBC_FID_SET_MODE .. OBC_FID_SET_TIME
      BY DEF OBC_FID_SET_MODE, OBC_FID_SET_HEATER, OBC_FID_SET_TIME
    <3>2. QED
      BY <1>9, <3>1, FunctionArguments DEF Svc08SetHeater
  <2>2. TruthfulFrom(SentBefore(tc), obc_apply_heater(AcceptedState, tc.app_data[2]).tm)
    BY <1>1, <1>2, <2>1, HeaterTruthful
  <2>3. QED
    BY <1>1, <1>9, <2>2, ConcludeTruthful DEF Svc08SetHeater
<1>10. CASE Svc08InjectTemp(tc) \/ Svc08SetTime(tc) \/ Svc08ResetCounters(tc)
  BY <1>1, <1>10, SilentTruthful DEF Svc08InjectTemp, Svc08SetTime, Svc08ResetCounters
<1>11. CASE Svc17AreYouAlive(tc)
  <2> DEFINE k == SentBefore(tc)
             c == [service |-> PUS_SERVICE_TEST, subtype |-> PUS_ST17_I_AM_ALIVE, data |-> <<>>]
  <2>1. c \in TmContent
    BY EmptySeq DEF TmContent, TmServices, PUS_ST17_I_AM_ALIVE
  <2>2. c.service = PUS_SERVICE_TEST
    OBVIOUS
  <2>3. Conclude(tc, SendStatus(k), AcceptedState, <<c>>)
    BY <1>11 DEF Svc17AreYouAlive
  <2> HIDE DEF c
  <2>4. TruthfulFrom(k, <<c>>) /\ Len(<<c>>) = 1
    <3>1. Truthful(k, c)
      BY <2>2 DEF Truthful, FailureCode, PUS_SERVICE_EVENT, PUS_SERVICE_HOUSEKEEPING,
                  PUS_SERVICE_VERIFICATION, PUS_SERVICE_TEST, PUS_OK, PUS_ERR_QUEUE_FULL
    <3>2. QED
      BY <1>1, <2>1, <3>1, TruthfulOne, Singleton
  <2>5. /\ SendStatus(k) \in pus_status_t
        /\ SendStatus(k) = PUS_ERR_QUEUE_FULL => DEPTH <= Len(queue) + (k + Len(<<c>>))
    <3>1. SendStatus(k) \in pus_status_t
      BY StatusCodes DEF SendStatus
    <3>2. Len(queue) \in Nat
      BY <1>1, LenProperties DEF DlTypeOK
    <3> HIDE DEF k
    <3>3. ASSUME SendStatus(k) = PUS_ERR_QUEUE_FULL PROVE ~(Len(queue) + k < DEPTH)
      BY <3>3 DEF SendStatus, PUS_OK, PUS_ERR_QUEUE_FULL
    <3>4. QED
      BY <1>1, <2>4, <3>1, <3>2, <3>3, DepthAssumption DEF k
  <2>6. QED
    BY <1>1, <2>3, <2>4, <2>5, ConcludeTruthful
<1>12. QED
  BY <1>3, <1>4, <1>5, <1>6, <1>7, <1>8, <1>9, <1>10, <1>11 DEF obc_process_tc

LEMMA TickTruthful == ASSUME IInv, TelemetryOK, obc_tick PROVE TelemetryOK'
<1> DEFINE e == obc_thermal_control(Acquired)
           report == OverflowReport(OverflowsAfter(Len(e.tm)))
           tm == e.tm \o report
           hk == svc03_tick(e.state, Len(tm))
<1>1. DlTypeOK /\ hal_heater \in Flag /\ Acquired \in obc_state_t /\ Interlocked(Acquired, hal_heater)
  BY AcquiredType DEF IInv, TypeOK, HalTypeOK, Flag
<1>2. e.state \in obc_state_t /\ Interlocked(e.state, e.line) /\ TruthfulFrom(0, e.tm)
  BY <1>1, ThermalEffect, ThermalTruthful DEF EffectSet
<1>3. Emit(tm \o hk)
  BY DEF obc_tick, Acquired
<1> HIDE DEF e
<1>4. Len(e.tm) \in Nat /\ 0 + Len(e.tm) = Len(e.tm)
  BY <1>2, LenProperties DEF TruthfulFrom
<1>5. TruthfulFrom(0 + Len(e.tm), report)
  <2>1. OverflowsAfter(Len(e.tm)) \in Int
    BY <1>1, <1>4, AfterType, CounterAssumption
  <2>2. QED
    BY <1>4, <2>1, EventTruthful, TruthfulEmpty
    DEF OverflowReport, OBC_EVT_TM_QUEUE_OVERFLOW, OBC_EVT_TC_REJECTED, PUS_ST05_LOW_SEVERITY
<1>6. TruthfulFrom(0, tm)
  BY <1>2, <1>5, TruthfulConcat
<1>7. Len(tm) \in Nat /\ 0 + Len(tm) = Len(tm)
  <2> HIDE DEF tm
  <2> QED
    BY <1>6, LenProperties DEF TruthfulFrom
<1>8. TruthfulFrom(0 + Len(tm), hk)
  BY <1>1, <1>2, <1>7, PeriodicTruthful
<1> HIDE DEF tm, hk
<1>9. TruthfulFrom(0, tm \o hk)
  BY <1>6, <1>8, TruthfulConcat
<1>10. QED
  BY <1>1, <1>3, <1>9, EmitTruthful

\* A queue that holds nothing but the boot event.
LEMMA BootTruthful ==
  /\ DOMAIN <<BootReport>> = {1} /\ <<BootReport>>[1] = BootReport
  /\ BootReport.service = PUS_SERVICE_EVENT /\ FailureCode(BootReport) = PUS_OK
<1>1. BootReport.service = PUS_SERVICE_EVENT /\ BootReport.data[1] = OBC_EVT_BOOT_COMPLETED
  BY DEF BootReport
<1>2. FailureCode(BootReport) = PUS_OK
  BY <1>1 DEF FailureCode, PUS_SERVICE_EVENT, PUS_SERVICE_VERIFICATION, OBC_EVT_BOOT_COMPLETED,
              OBC_EVT_TC_REJECTED
<1>3. QED
  BY <1>1, <1>2

LEMMA InitTruthful == Init => TelemetryOK
  BY BootTruthful
  DEF Init, TelemetryOK, HousekeepingCoherent, QueueFullIsNeverReported, DiagnosticReportHonest,
      PUS_SERVICE_EVENT, PUS_SERVICE_HOUSEKEEPING, PUS_OK, PUS_ERR_QUEUE_FULL

LEMMA RestartTruthful == ASSUME obc_init PROVE TelemetryOK'
<1>1. queue' = <<BootReport>>
  BY DEF obc_init
<1>2. HousekeepingCoherent' /\ DiagnosticReportHonest'
  BY <1>1, BootTruthful DEF HousekeepingCoherent, DiagnosticReportHonest,
                            PUS_SERVICE_EVENT, PUS_SERVICE_HOUSEKEEPING
<1>3. \A i \in DOMAIN queue' : FailureCode(queue'[i]) # PUS_ERR_QUEUE_FULL
  BY <1>1, BootTruthful DEF PUS_OK, PUS_ERR_QUEUE_FULL
<1>4. QueueFullIsNeverReported'
  BY <1>3 DEF QueueFullIsNeverReported, FailureCode
<1>5. QED
  BY <1>2, <1>4 DEF TelemetryOK

\* The packets behind the one handed over move up by one place.
LEMMA PopTruthful == ASSUME IInv, TelemetryOK, DownlinkOne PROVE TelemetryOK'
<1>1. /\ queue \in Seq(TmPacket) /\ queue # <<>> /\ queue' = Tail(queue)
      /\ overflows' = overflows
  BY DEF IInv, TypeOK, DlTypeOK, DownlinkOne, tm_queue_pop
<1>2. /\ Len(queue) \in Nat /\ DOMAIN queue = 1 .. Len(queue)
      /\ queue' \in Seq(TmPacket) /\ Len(queue') = Len(queue) - 1
      /\ DOMAIN queue' = 1 .. Len(queue')
      /\ \A i \in 1 .. Len(queue') : queue'[i] = queue[i + 1]
  BY <1>1, LenProperties, HeadTailProperties
<1>3. \A i \in DOMAIN queue' : /\ i \in Int /\ i + 1 \in DOMAIN queue
                               /\ queue'[i] = queue[i + 1]
  BY <1>2
<1>4. HousekeepingCoherent'
  BY <1>3 DEF HousekeepingCoherent, TelemetryOK
<1>5. QueueFullIsNeverReported'
  <2>1. \A i \in DOMAIN queue' : FailureCode(queue'[i]) # PUS_ERR_QUEUE_FULL
    BY <1>3 DEF QueueFullIsNeverReported, TelemetryOK
  <2>2. QED
    BY <2>1 DEF QueueFullIsNeverReported, FailureCode
<1>6. ASSUME DEPTH <= 256 PROVE DiagnosticReportHonest'
  <2> SUFFICES ASSUME NEW i \in DOMAIN queue',
                      queue'[i].service = PUS_SERVICE_HOUSEKEEPING,
                      queue'[i].data[1] = OBC_HK_SID_DIAGNOSTIC
               PROVE  /\ queue'[i].data[5] \in i - 1 .. DEPTH - 1
                      /\ queue'[i].data[6] \in 0 .. overflows'
    BY DEF DiagnosticReportHonest
  <2>1. /\ queue'[i].data[5] \in (i + 1) - 1 .. DEPTH - 1
        /\ queue'[i].data[6] \in 0 .. overflows
    BY <1>3, <1>6 DEF DiagnosticReportHonest, TelemetryOK
  <2>2. QED
    BY <1>1, <1>3, <2>1, DepthAssumption
<1>7. QED
  BY <1>4, <1>5, <1>6 DEF TelemetryOK

\* Whatever the environment calls, the queue stays truthful.
LEMMA CallTruthful == IInv /\ TelemetryOK /\ [Call(ReceivableTc)]_vars => TelemetryOK'
<1> SUFFICES ASSUME IInv, TelemetryOK, [Call(ReceivableTc)]_vars PROVE TelemetryOK'
  OBVIOUS
<1>1. ASSUME NEW raw \in ReceivableTc, obc_process_tc(raw) PROVE TelemetryOK'
  BY <1>1, TelecommandTruthful DEF ReceivableTc
<1>2. CASE UNCHANGED vars
  BY <1>2 DEF vars, dl_vars, TelemetryOK, HousekeepingCoherent, QueueFullIsNeverReported,
              DiagnosticReportHonest, FailureCode
<1>3. QED
  BY <1>1, <1>2, TickTruthful, PopTruthful, RestartTruthful DEF Call

-----------------------------------------------------------------------------
\* The two inductive invariants hold of the application in any environment.
LEMMA OpenInvariant == OpenSpec => [](IInv /\ TelemetryOK)
  BY InitIInv, InitTruthful, CallIInv, CallTruthful, PTL DEF OpenSpec

-----------------------------------------------------------------------------
(* The temperature alarm *)

IsAlarm(p) == p.service = PUS_SERVICE_EVENT /\ p.data[1] = OBC_EVT_TEMP_ALARM
NoAlarm(tm) == tm \in Seq(TmContent) /\ \A i \in 1 .. Len(tm) : ~IsAlarm(tm[i])

\* Telecommands neither set nor clear s_alarm_latched.
LEMMA TelecommandKeepsLatch ==
  ASSUME NEW raw, obc_process_tc(raw) PROVE UNCHANGED alarm_latched
  BY DEF obc_process_tc, RejectTc, RefuseTc, Svc03Configure, Svc03OneShot, Svc05Configure,
         Svc08SetMode, Svc08SetHeater, Svc08InjectTemp, Svc08SetTime, Svc08ResetCounters,
         Svc17AreYouAlive, Conclude

LEMMA NoAlarmEmpty == NoAlarm(<<>>)
  BY EmptySeq DEF NoAlarm

LEMMA NoAlarmOne == ASSUME NEW c \in TmContent, ~IsAlarm(c) PROVE NoAlarm(<<c>>)
<1>1. <<c>> \in Seq(TmContent) /\ Len(<<c>>) = 1 /\ <<c>>[1] = c
  BY Singleton
<1>2. \A i \in 1 .. 1 : i = 1
  OBVIOUS
<1>3. QED
  BY <1>1, <1>2 DEF NoAlarm

LEMMA NoAlarmConcat ==
  ASSUME NEW a, NEW b, NoAlarm(a), NoAlarm(b) PROVE NoAlarm(a \o b)
<1>1. a \in Seq(TmContent) /\ b \in Seq(TmContent)
  BY DEF NoAlarm
<1>2. /\ a \o b \in Seq(TmContent) /\ Len(a \o b) = Len(a) + Len(b)
      /\ \A i \in 1 .. Len(a) + Len(b) : (a \o b)[i] = IF i <= Len(a) THEN a[i] ELSE b[i - Len(a)]
  BY <1>1, ConcatProperties
<1>3. Len(a) \in Nat /\ Len(b) \in Nat
  BY <1>1, LenProperties
<1>4. ASSUME NEW i \in 1 .. Len(a) + Len(b) PROVE ~IsAlarm((a \o b)[i])
  <2>1. CASE i <= Len(a)
    <3>1. i \in 1 .. Len(a) /\ (a \o b)[i] = a[i]
      BY <1>2, <1>3, <2>1
    <3>2. QED
      BY <3>1 DEF NoAlarm
  <2>2. CASE ~(i <= Len(a))
    <3>1. i - Len(a) \in 1 .. Len(b) /\ (a \o b)[i] = b[i - Len(a)]
      BY <1>2, <1>3, <2>2
    <3>2. QED
      BY <3>1 DEF NoAlarm
  <2>3. QED
    BY <2>1, <2>2
<1>5. QED
  BY <1>2, <1>4 DEF NoAlarm

LEMMA OtherEvents ==
  ASSUME NEW id \in Nat, NEW severity \in Nat, NEW aux \in Int, id # OBC_EVT_TEMP_ALARM
  PROVE  NoAlarm(svc05_report(id, severity, aux))
<1> DEFINE c == [service |-> PUS_SERVICE_EVENT, subtype |-> severity, data |-> <<id, U16(aux)>>]
<1>1. CASE id \notin evt_enabled
  BY <1>1, NoAlarmEmpty DEF svc05_report
<1>2. CASE id \in evt_enabled
  <2>1. svc05_report(id, severity, aux) = <<c>>
    BY <1>2 DEF svc05_report
  <2>2. c \in TmContent
    <3>1. U16(aux) \in Nat
      BY DEF U16
    <3> HIDE DEF U16
    <3>2. <<id, U16(aux)>> \in Seq(Nat)
      BY <3>1
    <3>3. QED
      BY <3>2 DEF TmContent, TmServices
  <2>3. ~IsAlarm(c)
    <3>1. c.data[1] = id
      OBVIOUS
    <3>2. QED
      BY <3>1 DEF IsAlarm
  <2> HIDE DEF c
  <2>4. QED
    BY <2>1, <2>2, <2>3, NoAlarmOne
<1>3. QED
  BY <1>1, <1>2

LEMMA ControlRaisesNoAlarm ==
  ASSUME NEW s \in obc_state_t, hal_heater \in Flag, Interlocked(s, hal_heater)
  PROVE  /\ \A on \in Flag : NoAlarm(obc_apply_heater(s, on).tm)
         /\ NoAlarm(obc_set_mode(s, OBC_MODE_SAFE).tm)
<1>1. ASSUME NEW t \in obc_state_t, NEW on \in Flag PROVE NoAlarm(obc_apply_heater(t, on).tm)
  <2>1. NoAlarm(svc05_report(OBC_EVT_HEATER_SWITCHED, PUS_ST05_INFORMATIVE, on))
    BY OtherEvents DEF Flag, PUS_FALSE, PUS_TRUE, OBC_EVT_HEATER_SWITCHED, PUS_ST05_INFORMATIVE,
                       OBC_EVT_TEMP_ALARM
  <2>2. QED
    BY <2>1, NoAlarmEmpty DEF obc_apply_heater, NoEffect, Effect
<1>2. NoAlarm(obc_set_mode(s, OBC_MODE_SAFE).tm)
  <2> DEFINE entered == [s EXCEPT !.mode = OBC_MODE_SAFE]
             switched == obc_apply_heater(entered, PUS_FALSE)
             report == svc05_report(OBC_EVT_MODE_CHANGED, PUS_ST05_INFORMATIVE, OBC_MODE_SAFE)
  <2>1. entered \in obc_state_t /\ entered.heater_on = s.heater_on
    BY DEF obc_state_t
  <2>2. NoAlarm(switched.tm)
    BY <1>1, <2>1 DEF Flag
  <2>3. NoAlarm(report)
    BY OtherEvents DEF OBC_EVT_MODE_CHANGED, PUS_ST05_INFORMATIVE, OBC_MODE_SAFE, OBC_EVT_TEMP_ALARM
  <2>4. CASE OBC_MODE_SAFE = s.mode
    BY <2>4, NoAlarmEmpty DEF obc_set_mode, NoEffect, Effect
  <2>5. CASE OBC_MODE_SAFE # s.mode
    <3>1. switched \in EffectSet
      <4>1. hal_heater = entered.heater_on /\ PUS_FALSE \in Flag
        BY <2>1 DEF Interlocked, Flag
      <4>2. QED
        BY <2>1, <4>1, HeaterEffect
    <3>2. obc_set_mode(s, OBC_MODE_SAFE) = [switched EXCEPT !.tm = @ \o report]
      BY <2>5 DEF obc_set_mode
    <3> HIDE DEF switched, report
    <3>3. obc_set_mode(s, OBC_MODE_SAFE).tm = switched.tm \o report
      BY <3>1, <3>2 DEF EffectSet
    <3>4. QED
      BY <2>2, <2>3, <3>3, NoAlarmConcat
  <2>6. QED
    BY <2>4, <2>5
<1>3. QED
  BY <1>1, <1>2

\* The telemetry of a minor cycle starts with the alarm, if it has one at all.
RaisesAlarm == /\ TooHot(Acquired) /\ alarm_latched = PUS_FALSE
               /\ OBC_EVT_TEMP_ALARM \in evt_enabled
AlarmFirst(tm, raised) ==
  /\ tm \in Seq(TmContent) /\ (raised => Len(tm) >= 1)
  /\ \A i \in 1 .. Len(tm) : IsAlarm(tm[i]) <=> raised /\ i = 1

LEMMA AlarmThenOthers ==
  ASSUME NEW raised \in BOOLEAN, NEW a, NEW b, AlarmFirst(a, raised), NoAlarm(b)
  PROVE  AlarmFirst(a \o b, raised)
<1>1. a \in Seq(TmContent) /\ b \in Seq(TmContent)
  BY DEF NoAlarm, AlarmFirst
<1>2. /\ a \o b \in Seq(TmContent) /\ Len(a \o b) = Len(a) + Len(b)
      /\ \A i \in 1 .. Len(a) + Len(b) : (a \o b)[i] = IF i <= Len(a) THEN a[i] ELSE b[i - Len(a)]
  BY <1>1, ConcatProperties
<1>3. Len(a) \in Nat /\ Len(b) \in Nat /\ (raised => Len(a) >= 1)
  BY <1>1, LenProperties DEF AlarmFirst
<1>4. ASSUME NEW i \in 1 .. Len(a) + Len(b) PROVE IsAlarm((a \o b)[i]) <=> raised /\ i = 1
  <2>1. CASE i <= Len(a)
    <3>1. i \in 1 .. Len(a) /\ (a \o b)[i] = a[i]
      BY <1>2, <1>3, <2>1
    <3>2. IsAlarm(a[i]) <=> raised /\ i = 1
      BY <3>1 DEF AlarmFirst
    <3>3. QED
      BY <3>1, <3>2
  <2>2. CASE ~(i <= Len(a))
    <3>1. i - Len(a) \in 1 .. Len(b) /\ (a \o b)[i] = b[i - Len(a)]
      BY <1>2, <1>3, <2>2
    <3>2. ~IsAlarm(b[i - Len(a)])
      BY <3>1 DEF NoAlarm
    <3>3. ~(raised /\ i = 1)
      BY <1>3, <2>2
    <3>4. QED
      BY <3>1, <3>2, <3>3
  <2>3. QED
    BY <2>1, <2>2
<1>5. QED
  BY <1>2, <1>3, <1>4 DEF AlarmFirst

LEMMA NoAlarmAtAll == ASSUME NEW tm, NoAlarm(tm) PROVE AlarmFirst(tm, FALSE)
  BY DEF NoAlarm, AlarmFirst

LEMMA AlarmReportFirst ==
  ASSUME NEW s \in obc_state_t
  PROVE  AlarmFirst(AlarmReport(s), alarm_latched = PUS_FALSE /\ OBC_EVT_TEMP_ALARM \in evt_enabled)
<1> DEFINE raised == alarm_latched = PUS_FALSE /\ OBC_EVT_TEMP_ALARM \in evt_enabled
           c == [service |-> PUS_SERVICE_EVENT, subtype |-> PUS_ST05_HIGH_SEVERITY,
                 data |-> <<OBC_EVT_TEMP_ALARM, U16(s.temperature_dc)>>]
<1>1. CASE ~raised
  <2>1. AlarmReport(s) = <<>>
    BY <1>1 DEF AlarmReport, svc05_report
  <2>2. QED
    BY <1>1, <2>1, NoAlarmEmpty, NoAlarmAtAll
<1>2. CASE raised
  <2>1. AlarmReport(s) = <<c>>
    BY <1>2 DEF AlarmReport, svc05_report
  <2>2. c \in TmContent
    <3>1. s.temperature_dc \in Int
      BY Int16IsInt DEF obc_state_t
    <3>2. U16(s.temperature_dc) \in Nat
      BY <3>1 DEF U16
    <3> HIDE DEF U16
    <3>3. <<OBC_EVT_TEMP_ALARM, U16(s.temperature_dc)>> \in Seq(Nat)
      BY <3>2 DEF OBC_EVT_TEMP_ALARM
    <3>4. QED
      BY <3>3 DEF TmContent, TmServices, PUS_ST05_HIGH_SEVERITY
  <2>3. IsAlarm(c)
    <3>1. c.data[1] = OBC_EVT_TEMP_ALARM /\ c.service = PUS_SERVICE_EVENT
      OBVIOUS
    <3>2. QED
      BY <3>1 DEF IsAlarm
  <2> HIDE DEF c
  <2>4. <<c>> \in Seq(TmContent) /\ Len(<<c>>) = 1 /\ <<c>>[1] = c
    BY <2>2, Singleton
  <2>5. \A i \in 1 .. 1 : i = 1
    OBVIOUS
  <2>6. QED
    BY <1>2, <2>1, <2>3, <2>4, <2>5 DEF AlarmFirst
<1>3. QED
  BY <1>1, <1>2

LEMMA ThermalAlarm ==
  ASSUME IInv PROVE AlarmFirst(obc_thermal_control(Acquired).tm, RaisesAlarm)
<1> DEFINE s == Acquired
           raised == alarm_latched = PUS_FALSE /\ OBC_EVT_TEMP_ALARM \in evt_enabled
<1>1. s \in obc_state_t /\ hal_heater \in Flag /\ Interlocked(s, hal_heater)
  BY AcquiredType DEF IInv, TypeOK, HalTypeOK, Flag
<1> HIDE DEF s
<1>2. /\ \A on \in Flag : NoAlarm(obc_apply_heater(s, on).tm)
      /\ NoAlarm(obc_set_mode(s, OBC_MODE_SAFE).tm)
  BY <1>1, ControlRaisesNoAlarm
<1>3. CASE TooHot(s)
  <2> DEFINE e == obc_set_mode(s, OBC_MODE_SAFE)
  <2>1. e \in EffectSet
    BY <1>1, ModeEffect
  <2>2. obc_thermal_control(s) = [e EXCEPT !.tm = AlarmReport(s) \o @]
    BY <1>3 DEF obc_thermal_control
  <2>3. AlarmFirst(AlarmReport(s), raised) /\ NoAlarm(e.tm)
    BY <1>1, <1>2, AlarmReportFirst
  <2> HIDE DEF e
  <2>4. obc_thermal_control(s).tm = AlarmReport(s) \o e.tm
    BY <2>1, <2>2 DEF EffectSet
  <2>5. AlarmFirst(obc_thermal_control(s).tm, raised)
    BY <2>3, <2>4, AlarmThenOthers
  <2>6. RaisesAlarm = raised
    BY <1>3 DEF RaisesAlarm, s
  <2>7. QED
    BY <2>5, <2>6 DEF s
<1>4. CASE ~TooHot(s)
  <2>1. NoAlarm(obc_thermal_control(s).tm)
    <3>1. \/ obc_thermal_control(s) = obc_apply_heater(s, PUS_FALSE)
          \/ obc_thermal_control(s) = obc_apply_heater(s, PUS_TRUE)
          \/ obc_thermal_control(s) = NoEffect(s)
      BY <1>4 DEF obc_thermal_control
    <3>2. NoAlarm(NoEffect(s).tm)
      BY NoAlarmEmpty DEF NoEffect, Effect
    <3>3. PUS_FALSE \in Flag /\ PUS_TRUE \in Flag
      BY DEF Flag
    <3>4. QED
      BY <1>2, <3>1, <3>2, <3>3
  <2>2. AlarmFirst(obc_thermal_control(s).tm, FALSE)
    BY <2>1, NoAlarmAtAll
  <2>3. RaisesAlarm = FALSE
    BY <1>4 DEF RaisesAlarm, s
  <2>4. QED
    BY <2>2, <2>3 DEF s
<1>5. QED
  BY <1>3, <1>4

LEMMA TickAlarm ==
  ASSUME IInv, obc_tick PROVE \E pkts : Emit(pkts) /\ AlarmFirst(pkts, RaisesAlarm)
<1> DEFINE e == obc_thermal_control(Acquired)
           report == OverflowReport(OverflowsAfter(Len(e.tm)))
           tm == e.tm \o report
           hk == svc03_tick(e.state, Len(tm))
<1>1. DlTypeOK /\ hal_heater \in Flag /\ Acquired \in obc_state_t /\ Interlocked(Acquired, hal_heater)
  BY AcquiredType DEF IInv, TypeOK, HalTypeOK, Flag
<1>2. e.state \in obc_state_t /\ e.tm \in Seq(TmContent) /\ AlarmFirst(e.tm, RaisesAlarm)
  BY <1>1, ThermalEffect, ThermalAlarm DEF EffectSet
<1>3. Emit(tm \o hk)
  BY DEF obc_tick, Acquired
<1>4. RaisesAlarm \in BOOLEAN
  BY DEF RaisesAlarm, TooHot
<1> HIDE DEF e
<1>5. NoAlarm(report)
  <2>1. Len(e.tm) \in Nat
    BY <1>2, LenProperties
  <2>2. OverflowsAfter(Len(e.tm)) \in Int
    BY <1>1, <2>1, AfterType, CounterAssumption
  <2>3. QED
    BY <2>2, OtherEvents, NoAlarmEmpty
    DEF OverflowReport, OBC_EVT_TM_QUEUE_OVERFLOW, OBC_EVT_TEMP_ALARM, PUS_ST05_LOW_SEVERITY
<1>6. AlarmFirst(tm, RaisesAlarm)
  BY <1>2, <1>4, <1>5, AlarmThenOthers
<1>7. Len(tm) \in Nat
  <2> HIDE DEF tm
  <2> QED
    BY <1>6, LenProperties DEF AlarmFirst
<1>8. NoAlarm(hk)
  <2> HIDE DEF tm
  <2>1. ASSUME NEW sid \in Sids, NEW k \in Nat
        PROVE  NoAlarm(PeriodicReport(sid, e.state, k)) /\ Len(PeriodicReport(sid, e.state, k)) \in Nat
    <3>1. svc03_generate(sid, e.state, k) \in TmContent
      BY <1>1, <1>2, GenerateType
    <3>2. ~IsAlarm(svc03_generate(sid, e.state, k))
      BY DEF svc03_generate, IsAlarm, PUS_SERVICE_HOUSEKEEPING, PUS_SERVICE_EVENT
    <3>3. NoAlarm(PeriodicReport(sid, e.state, k))
      BY <3>1, <3>2, NoAlarmOne, NoAlarmEmpty DEF PeriodicReport
    <3>4. QED
      BY <3>3, LenProperties DEF NoAlarm
  <2> DEFINE first == PeriodicReport(OBC_HK_SID_ESSENTIAL, e.state, Len(tm))
             second == PeriodicReport(OBC_HK_SID_DIAGNOSTIC, e.state, Len(tm) + Len(first))
  <2>2. OBC_HK_SID_ESSENTIAL \in Sids /\ OBC_HK_SID_DIAGNOSTIC \in Sids
    BY DEF Sids
  <2>3. NoAlarm(first) /\ Len(first) \in Nat
    BY <1>7, <2>1, <2>2
  <2>4. Len(tm) + Len(first) \in Nat
    BY <1>7, <2>3
  <2>5. NoAlarm(second)
    BY <2>1, <2>2, <2>4
  <2>6. hk = <<>> \/ hk = first \o second
    BY DEF svc03_tick
  <2> HIDE DEF first, second, hk
  <2>7. QED
    BY <2>3, <2>5, <2>6, NoAlarmEmpty, NoAlarmConcat
<1> HIDE DEF tm, hk
<1>9. AlarmFirst(tm \o hk, RaisesAlarm)
  BY <1>4, <1>6, <1>8, AlarmThenOthers
<1>10. QED
  BY <1>3, <1>9

\* What reaches the queue: the alarm stands right behind the packets that were there.
LEMMA QueuedAlarm ==
  ASSUME DlTypeOK, NEW pkts, NEW raised \in BOOLEAN, Emit(pkts), AlarmFirst(pkts, raised)
  PROVE  /\ Len(queue) \in Nat /\ Len(queue') \in Nat
         /\ \A i \in Len(queue) + 1 .. Len(queue') :
              IsAlarm(queue'[i]) => raised /\ i = Len(queue) + 1
         /\ raised /\ Len(queue) < DEPTH =>
              Len(queue) + 1 \in 1 .. Len(queue') /\ IsAlarm(queue'[Len(queue) + 1])
<1>1. pkts \in Seq(TmContent) /\ Len(pkts) \in Nat /\ Len(queue) \in Nat /\ DEPTH \in Nat
  BY LenProperties, DepthAssumption DEF AlarmFirst, DlTypeOK
<1>2. /\ Kept(pkts) \in 0 .. Len(pkts)
      /\ Len(queue') = Len(queue) + Kept(pkts)
      /\ \A i \in 1 .. Kept(pkts) : queue'[Len(queue) + i] = Stamped(pkts)[i]
  BY <1>1, EmitAddsPrefix DEF EmitAdds
<1>3. Kept(pkts) \in Nat /\ Kept(pkts) = IF Len(pkts) <= DEPTH - Len(queue) THEN Len(pkts) ELSE DEPTH - Len(queue)
  BY <1>1, <1>2 DEF Kept, Lesser
<1>4. ASSUME NEW k \in 1 .. Len(pkts) PROVE IsAlarm(Stamped(pkts)[k]) <=> raised /\ k = 1
  <2>1. Stamped(pkts)[k].service = pkts[k].service /\ Stamped(pkts)[k].data = pkts[k].data
    BY <1>1, StampedType
  <2>2. IsAlarm(pkts[k]) <=> raised /\ k = 1
    BY DEF AlarmFirst
  <2>3. QED
    BY <2>1, <2>2 DEF IsAlarm
<1>5. ASSUME NEW i \in Len(queue) + 1 .. Len(queue'), IsAlarm(queue'[i])
      PROVE  raised /\ i = Len(queue) + 1
  <2> DEFINE k == i - Len(queue)
  <2>1. k \in 1 .. Kept(pkts) /\ k \in 1 .. Len(pkts) /\ Len(queue) + k = i
    BY <1>1, <1>2, <1>3
  <2> HIDE DEF k
  <2>2. queue'[i] = Stamped(pkts)[k]
    BY <1>2, <2>1
  <2>3. raised /\ k = 1
    BY <1>4, <1>5, <2>1, <2>2
  <2>4. QED
    BY <2>1, <2>3
<1>6. ASSUME raised, Len(queue) < DEPTH
      PROVE  Len(queue) + 1 \in 1 .. Len(queue') /\ IsAlarm(queue'[Len(queue) + 1])
  <2>1. Len(pkts) >= 1
    BY <1>6 DEF AlarmFirst
  <2>2. 1 \in 1 .. Kept(pkts) /\ 1 \in 1 .. Len(pkts)
    BY <1>1, <1>3, <1>6, <2>1
  <2>3. queue'[Len(queue) + 1] = Stamped(pkts)[1]
    BY <1>2, <2>2
  <2>4. QED
    BY <1>1, <1>2, <1>4, <1>6, <2>2, <2>3
<1>7. QED
  BY <1>1, <1>2, <1>3, <1>5, <1>6
=============================================================================
