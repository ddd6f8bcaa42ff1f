----------------------------- MODULE MCWatchdog -----------------------------
(* Small instances of Watchdog: thresholds low enough to be crossed often, *)
(* in the order of the real ones.                                          *)
EXTENDS Watchdog
=============================================================================
