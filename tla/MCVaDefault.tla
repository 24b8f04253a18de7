---------------------------- MODULE MCVaDefault ----------------------------
(* TLC instance: a reservation of a few units, every request size around its *)
(* bounds, and frees of every address in and just outside of it.             *)
EXTENDS VaDefault

MCRequests == 0 .. (Total + 1)
MCFreeArgs == 0 .. (Base + Total)
=============================================================================
