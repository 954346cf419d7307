----------------------------- MODULE MCTmQueue -----------------------------
(* A ring of three slots of two octets: it wraps, fills, overflows past the
   saturation of its counter, and leaves stale octets behind short packets. *)
EXTENDS TmQueue
=============================================================================
