-------------------------- MODULE MCKamailioSync --------------------------
(* A small instance of KamailioSync: one extension, one trunk, and requests *)
(* that overlap.                                                            *)
EXTENDS KamailioSync

CONSTANTS n1, p1, empty, t1, t2, h1, h2, w1, w2, none
===========================================================================
