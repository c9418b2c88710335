---------------------------- MODULE MCAlertRule ----------------------------
(***************************************************************************)
(* A threshold of 100 and a 2% margin, and the seven prices that lie on,   *)
(* just beside and just past the threshold and both margins.               *)
(***************************************************************************)
EXTENDS AlertRule

MCPrices == 97..103

=============================================================================
