------------------------------ MODULE PusTypes ------------------------------
(***************************************************************************)
(* The enumerations the flight software shares: status codes, services,    *)
(* message subtypes, event and function identifiers, operating modes.      *)
(* The numbers are the ones that travel in telemetry (a status code is the *)
(* failure code of a (1,2) or (1,8) report), so they are kept.             *)
(***************************************************************************)
EXTENDS Integers

(* include/pus/pus_types.h : pus_status_t *)
PUS_OK                   == 0
PUS_ERR_NULL             == 1
PUS_ERR_BUFFER_TOO_SMALL == 2
PUS_ERR_TRUNCATED        == 3
PUS_ERR_BAD_VERSION      == 4
PUS_ERR_BAD_PACKET_TYPE  == 5
PUS_ERR_NO_SEC_HEADER    == 6
PUS_ERR_BAD_APID         == 7
PUS_ERR_BAD_CRC          == 8
PUS_ERR_UNKNOWN_SERVICE  == 9
PUS_ERR_UNKNOWN_SUBTYPE  == 10
PUS_ERR_BAD_LENGTH       == 11
PUS_ERR_BAD_PARAMETER    == 12
PUS_ERR_UNKNOWN_SID      == 13
PUS_ERR_UNKNOWN_EVENT    == 14
PUS_ERR_UNKNOWN_FUNCTION == 15
PUS_ERR_QUEUE_FULL       == 16
PUS_ERR_NOT_PERMITTED    == 17

pus_status_t == 0 .. 17

(* pus_bool_t is an octet that holds 0 or 1 *)
PUS_FALSE == 0
PUS_TRUE  == 1

(* include/pus/pus_tc.h : service types *)
PUS_SERVICE_VERIFICATION == 1
PUS_SERVICE_HOUSEKEEPING == 3
PUS_SERVICE_EVENT        == 5
PUS_SERVICE_FUNCTION     == 8
PUS_SERVICE_TEST         == 17

(* the services that emit telemetry: service 8 never does *)
TmServices == {PUS_SERVICE_VERIFICATION, PUS_SERVICE_HOUSEKEEPING,
               PUS_SERVICE_EVENT, PUS_SERVICE_TEST}

(* include/pus/svc01_verification.h, svc03_housekeeping.h, svc05_event.h,
   svc08_function.h, svc17_test.h : message subtypes *)
PUS_ST01_ACCEPTANCE_SUCCESS == 1
PUS_ST01_ACCEPTANCE_FAILURE == 2
PUS_ST01_COMPLETION_SUCCESS == 7
PUS_ST01_COMPLETION_FAILURE == 8
PUS_ST03_ENABLE   == 5
PUS_ST03_DISABLE  == 6
PUS_ST03_REPORT   == 25
PUS_ST03_ONE_SHOT == 27
PUS_ST05_INFORMATIVE   == 1
PUS_ST05_LOW_SEVERITY  == 2
PUS_ST05_HIGH_SEVERITY == 4
PUS_ST05_DISABLE == 5
PUS_ST05_ENABLE  == 6
PUS_ST08_PERFORM == 1
PUS_ST17_ARE_YOU_ALIVE == 1
PUS_ST17_I_AM_ALIVE    == 2

(* acknowledgement flags of a telecommand, as bit weights *)
PUS_ACK_ACCEPTANCE == 1
PUS_ACK_COMPLETION == 8

(* include/pus/svc05_event.h : obc_event_id_t *)
OBC_EVT_BOOT_COMPLETED    == 1
OBC_EVT_MODE_CHANGED      == 2
OBC_EVT_TC_REJECTED       == 3
OBC_EVT_TM_QUEUE_OVERFLOW == 4
OBC_EVT_HEATER_SWITCHED   == 5
OBC_EVT_TEMP_ALARM        == 6

(* include/pus/svc08_function.h : function identifiers *)
OBC_FID_SET_MODE       == 1
OBC_FID_SET_HEATER     == 2
OBC_FID_INJECT_TEMP    == 3
OBC_FID_RESET_COUNTERS == 4
OBC_FID_SET_TIME       == 5

(* include/pus/obc_app.h : obc_mode_t *)
OBC_MODE_SAFE    == 0
OBC_MODE_NOMINAL == 1

(* int16_t *)
INT16_MAX == 32767
Int16 == -INT16_MAX - 1 .. INT16_MAX

(* (uint16_t)x : what a 16-bit field keeps of a number *)
U16(x) == x % 65536
(* (uint8_t)x *)
U8(x) == x % 256

(* the smaller of two numbers *)
Lesser(a, b) == IF a <= b THEN a ELSE b
=============================================================================
