---------------------------- MODULE MCCdrIngest ----------------------------
(* A small instance of CdrIngest: one call that names its tenant and one that *)
(* does not.                                                                 *)
EXTENDS CdrIngest, TLC

CONSTANTS c1, c2
=============================================================================
