------------------------- MODULE MCSettlementLedger -------------------------
(* SettlementLedger for TLC; the configuration gives the constants.        *)
EXTENDS SettlementLedger
=============================================================================
