----------------------------- MODULE MCTweetRepo ------------------------------
(* Small instances of TweetRepo for TLC.                                   *)
EXTENDS TweetRepo, TLC

Interchangeable == Permutations(Client) \cup Permutations(Tweet)
===============================================================================
