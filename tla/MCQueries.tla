------------------------------- MODULE MCQueries -------------------------------
(* Every kind of operation with every combination of its fields' few values    *)
(* (two changes at a time in set_options), alone in a transaction; short mixed *)
(* transactions with every fee, memo, failure and ledger; instants around the  *)
(* ends of months and years, the last of them beyond 2^31 seconds; a history   *)
(* of four transactions.                                                       *)
EXTENDS Queries, TLC
MCLabels == [a \in {"GA"} |-> "Binance"]
Keys == { <<"GABC", "middle", "WXYZ">>, <<"GDEF">> }
Native == [asset_type |-> "native"]
Usd == [asset_type |-> "credit_alphanum4", asset_code |-> "USD", asset_issuer |-> "GI"]
Sell(a) == [f \in {"selling_" \o g : g \in DOMAIN a} |-> a[CHOOSE g \in DOMAIN a : f = "selling_" \o g]]
Buy(a) == [f \in {"buying_" \o g : g \in DOMAIN a} |-> a[CHOOSE g \in DOMAIN a : f = "buying_" \o g]]
From(a) == [f \in {"source_" \o g : g \in DOMAIN a} |-> a[CHOOSE g \in DOMAIN a : f = "source_" \o g]]
Accounts2 == {"GA", "GB"}
Amounts == {"0", "5.0000000"}
Typed(type, records) == {[type |-> type] @@ r : r \in records}
Both(S, T) == {s @@ t : s \in S, t \in T}
Sources == {[source_account |-> a] : a \in Accounts2}
Payments == Typed("payment",
  Both([from : Accounts2, to : Accounts2, amount : Amounts], {Native, Usd}))
Paths == UNION {Typed(t,
  Both(Both([from : Accounts2, to : {"GA"}, amount : Amounts, source_amount : Amounts], {Native, Usd}),
       {From(Native), From(Usd)})) : t \in {"path_payment_strict_send", "path_payment_strict_receive"}}
Offers == UNION {Typed(t,
  Both(Both(Both(Sources, [amount : Amounts, price : {"1.5"}, offer_id : {0, 7}]),
       {Sell(Native), Sell(Usd)}), {Buy(Native), Buy(Usd)}))
  : t \in {"manage_sell_offer", "create_passive_sell_offer", "manage_buy_offer"}}
Options ==
  UNION { [inflation_dest : {"GA"}], [master_key_weight : {0, 1}], [low_threshold : {0, 1}],
    [med_threshold : {0, 1}], [high_threshold : {0, 1}], [home_domain : {"", "a.org"}],
    [set_flags : {<<{0}>>, <<{0}, {1}>>, <<{3}, {2}>>}], [clear_flags : {<<{0}>>, <<{1}>>}],
    [signer_key : Keys, signer_weight : {0, 1, 2}] }
SetOptions == Typed("set_options", Both(Sources, Both(Options, Options)))
Others ==
  Typed("create_account", [funder : Accounts2, account : Accounts2, starting_balance : Amounts])
  \cup Typed("change_trust",
         Both(Sources, [asset_code : {"USD", "EUR"}, asset_issuer : {"GI"}, limit : Amounts]))
  \cup Typed("clawback", Both(Sources, [from : Accounts2, amount : Amounts, asset_code : {"USD"}, asset_issuer : {"GI"}]))
  \cup Typed("clawback_claimable_balance", Both(Sources, [balance_id : Keys]))
  \cup Typed("account_merge", UNION {[source_account : {a}, account : {a}, into : Accounts2] : a \in Accounts2})
  \cup {[type |-> "inflation"], [type |-> "manage_data"]}
MCHorizonOps == Payments \cup Paths \cup Offers \cup SetOptions \cup Others
Instant(day, second) == [day |-> day, second |-> second]
Paid == [successful |-> TRUE, fee_charged |-> 100, memo_type |-> "none", memo |-> None,
         extras |-> None, result_codes |-> None, created_at |-> None, ledger |-> None, hash |-> "h"]
Closed == FormatUnixAsIso(Instant(19737, 52320))
Memos == { <<"none", None>>, <<"text", [bytes |-> 28, number |-> FALSE, text |-> <<"rent">>]>>,
  <<"hash", [bytes |-> 44, number |-> FALSE, text |-> <<"abcdefgh", "middle", "stuvwxyz">>]>> }
Codes == [transaction |-> "tx_failed", operations |-> <<"op_success", "op_underfunded", "op_inner">>]
Envelopes ==
  { [Paid EXCEPT !.fee_charged = fee, !.memo_type = memo[1], !.memo = memo[2],
                 !.successful = ok, !.result_codes = IF ok THEN None ELSE Codes,
                 !.created_at = at, !.ledger = ledger]
    : fee \in {100, 500, 501}, memo \in Memos, ok \in BOOLEAN,
      at \in {None, Closed}, ledger \in {None, 7} }
Sample ==
  LET one(S) == CHOOSE r \in S : TRUE IN
    { one(Payments), one(Paths), one(Offers), [type |-> "inflation"],
      CHOOSE r \in Payments : r.to = "GB" /\ r.amount = "0" }
Mixed == {<<>>} \cup {<<a, b, c>> : a, b, c \in Sample}
MCTxQuestions ==
  [tx : {Paid}, records : {<<op>> : op \in MCHorizonOps}, base_fee : {100}]
  \cup [tx : {t \in Envelopes : t.ledger = None /\ t.created_at = None /\ t.memo = None},
        records : Mixed, base_fee : {None, 100, 0}]
  \cup [tx : Envelopes, records : {<<CHOOSE r \in Payments : TRUE>>}, base_fee : {None, 100}]
Balances == { <<>>, <<[asset_type |-> "native", balance |-> "5.0000000"]>>,
  <<[asset_type |-> "credit_alphanum4", balance |-> "3.0000000"],
    [asset_type |-> "native", balance |-> "7.0000000"]>>,
  <<[asset_type |-> "liquidity_pool_shares", balance |-> "3.0000000"],
    [asset_type |-> "credit_alphanum4", balance |-> "9.0000000"],
    [asset_type |-> "native", balance |-> "5.0000000"]>> }
MCHorizonAccounts ==
  [balances : Balances, signers : {<<1>>, <<0, 1>>, <<1, 2>>, <<0, 0>>},
   flags : {{}, {"auth_required"}, {"auth_revocable", "auth_clawback_enabled"}},
   home_domain : {"", "a.org", "b.org"}]
MCClock ==
  {Instant(d, s) : d \in {0, 1, 58, 59, 364, 365, 788, 789, 790, 1095, 1096, 11015, 11016, 11017,
                          11322, 11323, 19781, 19782, 19783, 24855, 24856, 47540, 47541, 47846, 47847},
                   s \in {0, 43199, 86399}}
MCHistory ==
  [i \in 1 .. 4 |-> [hash |-> i, successful |-> i # 2, operation_count |-> i,
                     memo_type |-> IF i = 3 THEN "text" ELSE "none", memo |-> IF i = 3 THEN "rent" ELSE None]]
=============================================================================
