---------------------------- MODULE MCKeepalive ----------------------------
(* Keepalive with the timings of the code, in units of five seconds.        *)
EXTENDS Keepalive
=============================================================================
