---------------------------- MODULE MCRequestWindow ----------------------------
(* A small instance of RequestWindow for TLC: half seconds, a window of    *)
(* two seconds, two requests in a batch.                                 *)
EXTENDS RequestWindow
===============================================================================
