------------------------------- MODULE MCSeed -------------------------------
(* Seed for TLC: three threads, an int of two bits.                        *)
EXTENDS Seed

CONSTANTS t1, t2, t3

MCThread == {t1, t2, t3}
=============================================================================
