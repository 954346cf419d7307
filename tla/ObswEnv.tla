------------------------------ MODULE ObswEnv -------------------------------
(***************************************************************************)
(* The flight application in an environment that calls obc_process_tc for  *)
(* a received telecommand, obc_tick, tm_queue_pop to move telemetry to the *)
(* link, and obc_init when a ground connection is accepted, in any order.  *)
(***************************************************************************)
EXTENDS Obsw

CONSTANT Telecommands   \* the raw packets that may arrive
ASSUME TelecommandAssumption == Telecommands \subseteq ReceivableTc

Next == Call(Telecommands)
Spec == Init /\ [][Next]_vars

-----------------------------------------------------------------------------
(* What the documents say and the code does not do *)

\* SWREQ-SVC1-030: "shall emit a (1,7) or (1,8) completion report for every
\* accepted telecommand whose acknowledgement flags request it"; asked here only
\* of a telecommand that finds the downlink queue empty.
CompletionIsReported ==
  [][\A tc \in Telecommands :
       /\ obc_process_tc(tc) /\ queue = <<>>
       /\ pus_tc_parse(tc) = PUS_OK /\ pus_tc_ack_requested(tc, PUS_ACK_COMPLETION)
       => \E i \in DOMAIN queue' :
            /\ queue'[i].service = PUS_SERVICE_VERIFICATION
            /\ queue'[i].subtype \in {PUS_ST01_COMPLETION_SUCCESS, PUS_ST01_COMPLETION_FAILURE}
            /\ SubSeq(queue'[i].data, 1, 2) = tc.request_id]_vars
=============================================================================
