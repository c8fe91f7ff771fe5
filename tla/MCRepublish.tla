---------------------------- MODULE MCRepublish ----------------------------
(* A small instance of Republish.                                          *)
EXTENDS Republish

\* Shorter than the puts of a round, longer than the fallback interval, and one
\* to be rejected.
MCIntervals == {0, 1, 5}
=============================================================================
