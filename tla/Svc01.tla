------------------------------- MODULE Svc01 -------------------------------
(***************************************************************************)
(* src/svc01_verification.c : request verification reports.  Each operator *)
(* is the sequence of packets (none or one) the function sends.            *)
(***************************************************************************)
EXTENDS PusTc

svc01_send_success(subtype, request_id) ==
  <<[service |-> PUS_SERVICE_VERIFICATION, subtype |-> subtype,
     data |-> <<request_id[1], request_id[2]>>]>>

svc01_send_failure(subtype, request_id, code) ==
  <<[service |-> PUS_SERVICE_VERIFICATION, subtype |-> subtype,
     data |-> <<request_id[1], request_id[2], U16(code)>>]>>

svc01_acceptance_success(tc) ==
  IF pus_tc_ack_requested(tc, PUS_ACK_ACCEPTANCE)
  THEN svc01_send_success(PUS_ST01_ACCEPTANCE_SUCCESS, tc.request_id) ELSE <<>>

svc01_completion_success(tc) ==
  IF pus_tc_ack_requested(tc, PUS_ACK_COMPLETION)
  THEN svc01_send_success(PUS_ST01_COMPLETION_SUCCESS, tc.request_id) ELSE <<>>

svc01_completion_failure(tc, code) ==
  IF pus_tc_ack_requested(tc, PUS_ACK_COMPLETION)
  THEN svc01_send_failure(PUS_ST01_COMPLETION_FAILURE, tc.request_id, code) ELSE <<>>

\* Unconditional; zero stands for a request identifier that was not received.
svc01_reject_raw(raw, code) ==
  svc01_send_failure(PUS_ST01_ACCEPTANCE_FAILURE,
                     IF raw.len >= 4 THEN raw.request_id ELSE <<0, 0>>, code)
=============================================================================
