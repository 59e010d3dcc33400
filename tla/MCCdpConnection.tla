-------------------------- MODULE MCCdpConnection --------------------------
(* CdpConnection with a few commands of each kind.                         *)
EXTENDS CdpConnection
=============================================================================
