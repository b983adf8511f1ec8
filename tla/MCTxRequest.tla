------------------------------ MODULE MCTxRequest ------------------------------
(* Successful and failed transactions of one to four operations, on pages of   *)
(* three; fees on both sides of five times the base fee, in eight bits.        *)
EXTENDS TxRequest
Codes(ops) == [transaction |-> "tx_failed", operations |-> ops]
Tx(successful, fee, memo_type, memo, extras, codes) ==
  [ successful |-> successful, fee_charged |-> fee, memo_type |-> memo_type,
    memo |-> memo, extras |-> extras, result_codes |-> codes ]
Text(bytes) == [bytes |-> bytes, number |-> FALSE]
MCLedger ==
  { [tx |-> Tx(TRUE, 4, "none", None, None, None), types |-> <<"payment">>],
    [tx |-> Tx(TRUE, 21, "text", Text(28), None, None),
     types |-> <<"inflation", "payment", "create_passive_sell_offer">>],
    [tx |-> Tx(TRUE, 20, "text", Text(29), None, None),
     types |-> <<"payment", "bump_sequence", "account_merge", "payment">>],
    [tx |-> Tx(FALSE, 5, "id", Text(3), None, Codes(<<"op_success", "op_no_trust">>)),
     types |-> <<"payment", "payment">>],
    [tx |-> Tx(FALSE, 100, "id", [bytes |-> 3, number |-> TRUE],
               Codes(<<"op_line_full", "op_success", "op_line_full">>),
               Codes(<<>>)),
     types |-> <<"payment", "set_options", "clawback">>],
    [tx |-> Tx(FALSE, 6, "hash", Text(64), None, None), types |-> <<"change_trust">>] }
=============================================================================
