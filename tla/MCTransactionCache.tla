-------------------------- MODULE MCTransactionCache --------------------------
(* Two threads, two keys and two values; entries live for 0 or 1 ticks of a    *)
(* clock that reaches 3, so that entries expire, are refreshed and expire      *)
(* again while another thread is between the two locks of a get.              *)
EXTENDS TransactionCache
MCTtls == {0, 1}
=============================================================================
