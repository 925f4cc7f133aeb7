---------------------------- MODULE MCUnitOfWork ----------------------------
(* An instance of UnitOfWork for TLC: more units than connections. *)
EXTENDS UnitOfWork

CONSTANTS u1, u2, u3, b1
=============================================================================
