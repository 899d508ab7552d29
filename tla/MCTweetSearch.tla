---------------------------- MODULE MCTweetSearch -----------------------------
(* Small instances of TweetSearch for TLC.                                 *)
EXTENDS TweetSearch, TLC
===============================================================================
