---------------------------- MODULE MCNoisyLink -----------------------------
(* Two sound telecommands and a misaddressed one, since each comes under   *)
(* every noise (theorem TcDecodes covers the other defects), and telemetry *)
(* of every service with values at the edges of its fields.                *)
EXTENDS NoisyLink, McTelecommands

\* The octets of these are hit by noise ...
Up(tc, seq) == [dir |-> "up", tc |-> tc, seq_count |-> seq]
\* ... and of these they are only decoded.
Down(service, subtype, data, seq, count, coarse, fine) ==
  [dir |-> "down",
   tm |-> [service |-> service, subtype |-> subtype, data |-> data,
           seq_count |-> seq, msg_counter |-> count],
   time |-> [coarse |-> coarse, fine |-> fine]]

Edge16 == {0, 255, 256, 65535}

LinkMessages ==
  {Up(Ping(9), 0), Up(SetMode(1), 16383), Up(Misaddressed, 256)}
  \cup {Down(PUS_SERVICE_VERIFICATION, PUS_ST01_COMPLETION_SUCCESS, <<6156, id>>, 16383, n, 0, 0) :
          id, n \in Edge16}
  \cup {Down(PUS_SERVICE_VERIFICATION, PUS_ST01_ACCEPTANCE_FAILURE, <<6156, 49152, code>>, 1, 2, 3, f) :
          code \in {PUS_ERR_TRUNCATED, PUS_ERR_NOT_PERMITTED}, f \in Edge16}
  \cup {Down(PUS_SERVICE_HOUSEKEEPING, PUS_ST03_REPORT, <<1, m, up, U16(t), 1>>, 256, 255, up, 1) :
          m \in {0, 1}, up \in {0, 65536, 2147483647}, t \in {-32768, -1, 200, 32767}}
  \cup {Down(PUS_SERVICE_HOUSEKEEPING, PUS_ST03_REPORT, <<2, a, r, 17, 15, o>>, 255, 256, 1, 2) :
          a, r, o \in Edge16}
  \cup {Down(PUS_SERVICE_EVENT, PUS_ST05_HIGH_SEVERITY, <<OBC_EVT_TEMP_ALARM, t>>, 0, 1, 2, 3) :
          t \in Edge16}
  \cup {Down(PUS_SERVICE_TEST, PUS_ST17_I_AM_ALIVE, <<>>, 0, 0, 16777216, 65535)}
=============================================================================
