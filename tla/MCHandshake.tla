---------------------------- MODULE MCHandshake ----------------------------
(***************************************************************************)
(* Instances of Handshake for model checking.                              *)
(***************************************************************************)
EXTENDS HandshakeProperties

CONSTANTS first, second, third, fourth

MCConnection == {first, second, third, fourth}
============================================================================
