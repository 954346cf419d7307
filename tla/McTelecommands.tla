--------------------------- MODULE McTelecommands ---------------------------
(***************************************************************************)
(* Telecommands for the runs of Obsw and ObswGround.  Each run takes the   *)
(* commands its question needs; queue depth, counters and the time words   *)
(* are scaled down in the configurations.                                  *)
(***************************************************************************)
EXTENDS PusTc

\* A well-formed telecommand; ack 9 asks for acceptance and completion reports.
Tc(service, subtype, ack, seq_count, app_data) ==
  [len |-> PUS_TC_MIN_LEN + Len(app_data), total |-> PUS_TC_MIN_LEN + Len(app_data),
   crc_ok |-> TRUE, version |-> 0, packet_type |-> 1, sec_hdr_flag |-> 1,
   apid |-> PUS_TC_APID, pus_version |-> PUS_VERSION_C, ack_flags |-> ack,
   service_type |-> service, service_subtype |-> subtype,
   request_id |-> <<6156, 49152 + seq_count>>, app_data |-> app_data]

Perform(fid, arguments) == Tc(PUS_SERVICE_FUNCTION, PUS_ST08_PERFORM, 0, 8, <<fid>> \o arguments)

SetMode(m) == Perform(OBC_FID_SET_MODE, <<m>>)
SetHeater(v) == Perform(OBC_FID_SET_HEATER, <<v>>)
\* -10.0, 20.0, 30.0 and 45.0 degrees
Cold == Perform(OBC_FID_INJECT_TEMP, <<255, 156>>)
Mild == Perform(OBC_FID_INJECT_TEMP, <<0, 200>>)
Warm == Perform(OBC_FID_INJECT_TEMP, <<1, 44>>)
Hot  == Perform(OBC_FID_INJECT_TEMP, <<1, 194>>)

Ping(ack) == Tc(PUS_SERVICE_TEST, PUS_ST17_ARE_YOU_ALIVE, ack, 17, <<>>)
OneShot(ack, sids) == Tc(PUS_SERVICE_HOUSEKEEPING, PUS_ST03_ONE_SHOT, ack, 3,
                         <<Len(sids)>> \o sids)
EnableHk(sids) == Tc(PUS_SERVICE_HOUSEKEEPING, PUS_ST03_ENABLE, 0, 3, <<Len(sids)>> \o sids)
DisableHk(sids) == Tc(PUS_SERVICE_HOUSEKEEPING, PUS_ST03_DISABLE, 0, 3, <<Len(sids)>> \o sids)
\* one event identifier
EnableEvent(id) == Tc(PUS_SERVICE_EVENT, PUS_ST05_ENABLE, 0, 5, <<1, 0, id>>)
DisableEvent(id) == Tc(PUS_SERVICE_EVENT, PUS_ST05_DISABLE, 0, 5, <<1, 0, id>>)

\* Packets that fail acceptance, or that their service refuses.
Truncated == [Ping(9) EXCEPT !.len = 3]
Misaddressed == [Ping(9) EXCEPT !.apid = 99]
UnknownSid == Tc(PUS_SERVICE_HOUSEKEEPING, PUS_ST03_ENABLE, 8, 3, <<2, 2, 7>>)

-----------------------------------------------------------------------------
\* Thermal control: mode, heater and readings on every side of the thresholds.
ThermalTcs == {SetMode(OBC_MODE_NOMINAL), SetHeater(1), Cold, Warm, Hot}

\* All services and the rejections, on a unit that is neither hot nor cold: the
\* temperature and the event stay as they are.
ServiceTcs == {Ping(9), OneShot(8, <<1, 2>>), EnableHk(<<2>>), DisableHk(<<2>>),
               EnableEvent(OBC_EVT_TC_REJECTED), Perform(OBC_FID_RESET_COUNTERS, <<>>),
               Perform(OBC_FID_SET_TIME, <<0, 0, 0, 1, 0, 0>>),
               Truncated, UnknownSid, Mild,
               SetMode(OBC_MODE_NOMINAL), SetHeater(1)}

\* Enough to fill the queue, with and without the event that reports it.
FloodTcs == {Ping(9), DisableEvent(OBC_EVT_TM_QUEUE_OVERFLOW),
             EnableEvent(OBC_EVT_TM_QUEUE_OVERFLOW)}

\* One command whose reports outnumber the slots of the queue.
LongListTcs == {OneShot(8, <<1, 2, 1>>)}
=============================================================================
