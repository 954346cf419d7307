----------------------------- MODULE MCDownlink -----------------------------
(* Two services whose packets mix. *)
EXTENDS DownlinkGround, TLC

McContents == [service : {PUS_SERVICE_VERIFICATION, PUS_SERVICE_EVENT},
               subtype : {1}, data : {<<>>}]
=============================================================================
