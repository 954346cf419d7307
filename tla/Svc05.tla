------------------------------- MODULE Svc05 -------------------------------
(***************************************************************************)
(* src/svc05_event.c : event reports, which ground enables and disables    *)
(* per event identifier.                                                   *)
(***************************************************************************)
EXTENDS PusTc

OBC_EVENT_MAX_IDS == 8
EventIds == 1 .. OBC_EVENT_MAX_IDS

VARIABLE evt_enabled   \* the identifiers whose s_enabled flag is set

\* svc05_init
AllEvents == EventIds

\* The packets svc05_report sends: none for an event that is switched off.
svc05_report(id, severity, aux) ==
  IF id \in evt_enabled
  THEN <<[service |-> PUS_SERVICE_EVENT, subtype |-> severity, data |-> <<id, U16(aux)>>]>>
  ELSE <<>>

\* The identifiers a (5,5) or (5,6) telecommand lists after their number.
EventList(tc) == {pus_get_u16(tc.app_data, 2 * i) : i \in 1 .. tc.app_data[1]}

\* Status of svc05_handle.
svc05_status(tc) ==
  IF tc.service_subtype \notin {PUS_ST05_DISABLE, PUS_ST05_ENABLE} THEN PUS_ERR_UNKNOWN_SUBTYPE
  ELSE IF Len(tc.app_data) < 1 THEN PUS_ERR_BAD_LENGTH
  ELSE IF Len(tc.app_data) # 1 + 2 * tc.app_data[1] THEN PUS_ERR_BAD_LENGTH
  ELSE IF tc.app_data[1] = 0 THEN PUS_ERR_BAD_PARAMETER
  ELSE IF ~(EventList(tc) \subseteq EventIds) THEN PUS_ERR_UNKNOWN_EVENT
  ELSE PUS_OK

svc05_set_enabled(tc) ==
  evt_enabled' = IF tc.service_subtype = PUS_ST05_ENABLE
                 THEN evt_enabled \cup EventList(tc)
                 ELSE evt_enabled \ EventList(tc)
=============================================================================
