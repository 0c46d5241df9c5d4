---------------------------- MODULE MCRingBuffer ----------------------------
(* Three slots, four chunks: the ring fills up, wraps, and recycles slots  *)
(* out of order; two timed-out waits make a stall, so that a clock that did *)
(* not survive the call would never get there.                              *)
EXTENDS RingBuffer
=============================================================================
