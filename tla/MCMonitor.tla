----------------------------- MODULE MCMonitor -----------------------------
(***************************************************************************)
(* Model values and no more: the sets are written in the configurations,   *)
(* since each question needs another mixture of tokens, prices, commands   *)
(* and faults.  Threshold 100 and hysteresis 2 put the price 90 on the     *)
(* watched side and 110 past the margin.                                   *)
(***************************************************************************)
EXTENDS Monitor

CONSTANTS alice, diamond, t1, t2

=============================================================================
