---------------------------- MODULE MCAddrSpace ----------------------------
(* Instances of AddrSpace.                                                 *)
EXTENDS AddrSpace
=============================================================================
