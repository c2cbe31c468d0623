----------------------------- MODULE MCExchange -----------------------------
(***************************************************************************)
(* Instances of Exchange for TLC: three bytes may be held, two of an error *)
(* body, and the registry sends up to five, three at a time.               *)
(***************************************************************************)
EXTENDS Exchange

AllSdks == DOMAIN ProfileOf
=============================================================================
