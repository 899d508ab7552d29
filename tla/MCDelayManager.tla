---------------------------- MODULE MCDelayManager ----------------------------
(* Small instances of DelayManager for TLC.                                *)
EXTENDS DelayManager

Lengths == <<6, 9>>
OneLength == <<6>>
===============================================================================
