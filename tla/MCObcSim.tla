------------------------------ MODULE MCObcSim ------------------------------
(* The driver with a ground that sends whole packets, a packet too short to *)
(* be a telecommand, and one that declares more octets than the buffer has. *)
EXTENDS ObcSim, McTelecommands, GswPackets

\* test_robustness.py : test_ITC_ROB_070_runt_packet
Runt == <<24, 12, 192, 0, 0, 1, 32, 17>>

\* A ping that announces 40 octets (test_ITC_ROB_100_oversized_packet_is_dropped).
Oversized == build_tc([Ping(0) EXCEPT !.total = 40], 0)

SimPackets == {build_tc(SetMode(OBC_MODE_NOMINAL), 0), build_tc(Hot, 0), Runt, Oversized}
=============================================================================
