----------------------------- MODULE MCStartup -----------------------------
(* The choice of the readers for TLC: the names of four readers. *)
EXTENDS Startup, TLC

FourReaders == <<"cpu", "load", "df", "thermal">>
=============================================================================
