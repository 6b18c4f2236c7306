----------------------------- MODULE MCWatchdog -----------------------------
(***************************************************************************)
(* Both builds, with a timeout one tick longer than the longest time that  *)
(* passes without a service when everybody is in order.                    *)
(***************************************************************************)
EXTENDS Watchdog

MCDrivers == {"intel16", "amd16"}
=============================================================================
