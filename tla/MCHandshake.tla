---------------------------- MODULE MCHandshake ----------------------------
(* One connection with two channels that asks for up to two ptys.          *)
EXTENDS Handshake, TLC
=============================================================================
