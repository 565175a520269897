------------------------------- MODULE MCLocks -------------------------------
(* Three workers and two resource ids: two can compete for one key while a   *)
(* third one takes another key or waits behind an UNLOCK.                    *)
EXTENDS Locks

CONSTANTS c1, c2, c3, k1, k2

MCClient == {c1, c2, c3}
MCKey == {k1, k2}
=============================================================================
