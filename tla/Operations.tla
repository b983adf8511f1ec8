------------------------------- MODULE Operations -------------------------------
(***************************************************************************)
(* What the backend says about each operation of a transaction:            *)
(* From<HorizonOperation> (packages/core/src/models/operation.rs), the     *)
(* explainers under explain/operation/, and how explain/transaction.rs     *)
(* puts them together.  Module Explanation knows only the types of the     *)
(* operations; this one has their fields.                                  *)
(*                                                                         *)
(* An operation as Horizon sends it is a record of its type and of those   *)
(* fields that are present.  Amounts and prices are strings, as there.  A  *)
(* set of account flags is the set of its bits.  A long key is three       *)
(* parts: the four characters at each end and what lies between.           *)
(* A summary is the sequence of what its sentence says.                    *)
(***************************************************************************)
EXTENDS Explanation

CONSTANTS
  Labels       \* the names of well-known accounts, a function of the address

Field(op, name, default) == IF name \in DOMAIN op THEN op[name] ELSE default

-----------------------------------------------------------------------------
(* Assets *)

FormatAsset(type, code, issuer) ==
  IF type \in {None, "native"} THEN <<"XLM", "native">>
  ELSE IF code = None THEN <<"Unknown">>
  ELSE IF issuer = None THEN <<code>>
  ELSE <<code, issuer>>

Asset(op) ==
  FormatAsset(Field(op, "asset_type", None), Field(op, "asset_code", None),
              Field(op, "asset_issuer", None))

Selling(op) ==
  FormatAsset(Field(op, "selling_asset_type", None), Field(op, "selling_asset_code", None),
              Field(op, "selling_asset_issuer", None))

Buying(op) ==
  FormatAsset(Field(op, "buying_asset_type", None), Field(op, "buying_asset_code", None),
              Field(op, "buying_asset_issuer", None))

SourceAsset(op) ==
  FormatAsset(Field(op, "source_asset_type", None), Field(op, "source_asset_code", None),
              Field(op, "source_asset_issuer", None))

-----------------------------------------------------------------------------
(* From<HorizonOperation> for Operation *)

Source(op) == Field(op, "source_account", None)
SourceOrUnknown(op) == Field(op, "source_account", "Unknown")
Amount(op) == Field(op, "amount", "0")

FromPayment(op) ==
  [ kind |-> "Payment",
    source |-> Field(op, "from", Source(op)), destination |-> Field(op, "to", ""),
    asset_type |-> Field(op, "asset_type", "native"),
    asset_code |-> Field(op, "asset_code", None),
    asset_issuer |-> Field(op, "asset_issuer", None), amount |-> Amount(op) ]

\* Flags are folded into one mask; there is none for an empty list.
FoldFlags(flags) ==
  IF flags \in {None, <<>>} THEN None ELSE UNION {flags[i] : i \in 1 .. Len(flags)}

FromSetOptions(op) ==
  [ kind |-> "SetOptions", source |-> Source(op),
    inflation_dest |-> Field(op, "inflation_dest", None),
    clear_flags |-> FoldFlags(Field(op, "clear_flags", None)),
    set_flags |-> FoldFlags(Field(op, "set_flags", None)),
    master_weight |-> Field(op, "master_key_weight", None),
    low_threshold |-> Field(op, "low_threshold", None),
    med_threshold |-> Field(op, "med_threshold", None),
    high_threshold |-> Field(op, "high_threshold", None),
    home_domain |-> Field(op, "home_domain", None),
    signer_key |-> Field(op, "signer_key", None),
    signer_weight |-> Field(op, "signer_weight", None) ]

FromCreateAccount(op) ==
  [ kind |-> "CreateAccount", funder |-> Field(op, "funder", "Unknown"),
    new_account |-> Field(op, "account", ""),
    starting_balance |-> Field(op, "starting_balance", "0") ]

FromChangeTrust(op) ==
  [ kind |-> "ChangeTrust", trustor |-> SourceOrUnknown(op),
    asset_code |-> Field(op, "asset_code", ""), asset_issuer |-> Field(op, "asset_issuer", ""),
    limit |-> Field(op, "limit", "0") ]

\* An offer_id that is missing or no number is read as 0.
Offer(op, offer_type) ==
  [ kind |-> "ManageOffer", seller |-> SourceOrUnknown(op),
    selling_asset |-> Selling(op), buying_asset |-> Buying(op),
    amount |-> Amount(op), price |-> Field(op, "price", ""),
    offer_id |-> Field(op, "offer_id", 0), offer_type |-> offer_type ]

FromSellOffer(op) == Offer(op, "Sell")

\* Mutant: the arm is a copy of the one above.
FromBuyOfferCopied(op) == Offer(op, "Sell")

FromBuyOffer(op) == Offer(op, "Buy")

\* Horizon's path is not read: the path is always empty.
PathPayment(op, payment_type) ==
  [ kind |-> "PathPayment", source |-> Field(op, "from", Source(op)),
    destination |-> Field(op, "to", ""),
    send_asset |-> SourceAsset(op), send_amount |-> Field(op, "source_amount", "0"),
    dest_asset |-> Asset(op), dest_amount |-> Amount(op),
    path |-> <<>>, payment_type |-> payment_type ]

FromStrictSend(op) == PathPayment(op, "StrictSend")
FromStrictReceive(op) == PathPayment(op, "StrictReceive")

FromClawback(op) ==
  [ kind |-> "Clawback", source |-> Source(op), from |-> Field(op, "from", ""),
    asset_code |-> Field(op, "asset_code", ""), asset_issuer |-> Field(op, "asset_issuer", ""),
    amount |-> Amount(op) ]

FromClawbackBalance(op) ==
  [ kind |-> "ClawbackClaimableBalance", source |-> Source(op),
    balance_id |-> Field(op, "balance_id", <<>>) ]

FromAccountMerge(op) ==
  [ kind |-> "AccountMerge",
    source |-> Field(op, "source_account", Field(op, "account", "Unknown")),
    destination |-> Field(op, "into", "") ]

FromHorizon(op) ==
  IF op.type = "payment" THEN FromPayment(op)
  ELSE IF op.type = "set_options" THEN FromSetOptions(op)
  ELSE IF op.type = "create_account" THEN FromCreateAccount(op)
  ELSE IF op.type = "change_trust" THEN FromChangeTrust(op)
  ELSE IF op.type \in SellOffers THEN FromSellOffer(op)
  ELSE IF op.type = "manage_buy_offer" THEN FromBuyOffer(op)
  ELSE IF op.type = "path_payment_strict_send" THEN FromStrictSend(op)
  ELSE IF op.type = "path_payment_strict_receive" THEN FromStrictReceive(op)
  ELSE IF op.type = "clawback" THEN FromClawback(op)
  ELSE IF op.type = "clawback_claimable_balance" THEN FromClawbackBalance(op)
  ELSE IF op.type = "account_merge" THEN FromAccountMerge(op)
  ELSE [kind |-> "Other", operation_type |-> op.type]

-----------------------------------------------------------------------------
(* The explainers, one per kind: [type, summary, details] *)

OrUnknown(account, unknown) == IF account = None THEN unknown ELSE account

ResolveLabel(address) == IF address \in DOMAIN Labels THEN Labels[address] ELSE None

\* format_account_for_summary
Display(account) ==
  IF ResolveLabel(account) = None THEN <<account>> ELSE <<ResolveLabel(account), account>>

\* Mutant: the note has a threshold of its own.
FeeNoteOwn(fee, base_fee) ==
  IF base_fee = None THEN None
  ELSE IF fee > base_fee
    THEN [claim |-> "high", times |-> fee \div (IF base_fee = 0 THEN 1 ELSE base_fee)]
    ELSE [claim |-> "standard", times |-> 0]

\* The part of explain_payment_with_fee that explain_payment does not have.
FeeNote(fee, base_fee) ==
  IF base_fee = None THEN None
  ELSE IF IsHighFee(base_fee, fee)
    THEN [claim |-> "high", times |-> fee \div (IF base_fee = 0 THEN 1 ELSE base_fee)]
    ELSE [claim |-> "standard", times |-> 0]

ExplainPayment(op, fee, base_fee) ==
  LET from == OrUnknown(op.source, "Unknown")
      asset == FormatAsset(op.asset_type, op.asset_code, op.asset_issuer) IN
    [ summary |-> <<Display(from), <<op.amount>>, asset, Display(op.destination)>>,
      from |-> from, to |-> op.destination, asset |-> asset, amount |-> op.amount,
      fee_note |-> FeeNote(fee, base_fee) ]

\* describe_flags: known flags by name, a mask without any as a number.
DescribeFlags(mask) ==
  LET known == mask \cap 0 .. 3 IN
    IF known = {} THEN [number |-> mask, names |-> {}] ELSE [number |-> {}, names |-> known]

\* shorten_key, shorten_id
Shorten(key) == IF Len(key) = 3 THEN <<key[1], key[3]>> ELSE key

When(condition, change) == IF condition THEN <<change>> ELSE <<>>

WhenSet(value, what) == When(value # None, <<what, value>>)

ChangedFlags(mask, what) ==
  IF mask \in {None, {}} THEN <<>> ELSE <<<<what, DescribeFlags(mask)>>>>

ChangedSigner(key, weight) ==
  IF key = None THEN <<>>
  ELSE IF weight = None THEN <<<<"modified signer", Shorten(key)>>>>
  ELSE IF weight = 0 THEN <<<<"removed signer", Shorten(key)>>>>
  ELSE <<<<"added signer", Shorten(key), weight>>>>

Changes(op) ==
  WhenSet(op.inflation_dest, "inflation destination")
  \o (IF op.master_weight = 0 THEN <<<<"disabled the master key">>>>
      ELSE WhenSet(op.master_weight, "master key weight"))
  \o WhenSet(op.low_threshold, "low threshold")
  \o WhenSet(op.med_threshold, "medium threshold")
  \o WhenSet(op.high_threshold, "high threshold")
  \o (IF op.home_domain = "" THEN <<<<"cleared the home domain">>>>
      ELSE WhenSet(op.home_domain, "home domain"))
  \o ChangedFlags(op.set_flags, "enabled")
  \o ChangedFlags(op.clear_flags, "disabled")
  \o ChangedSigner(op.signer_key, op.signer_weight)

\* build_summary and join_changes list all changes in their order.
ExplainSetOptions(op) ==
  LET account == OrUnknown(op.source, "Unknown") IN
    [ type |-> "set_options", summary |-> <<account, Changes(op)>>,
      details |-> [account |-> account, changes |-> Changes(op)] ]

ExplainCreateAccount(op) ==
  [ type |-> "create_account",
    summary |-> <<op.funder, op.new_account, op.starting_balance>>,
    details |-> [ funder |-> op.funder, account |-> op.new_account,
                  starting_balance |-> op.starting_balance ] ]

ExplainChangeTrust(op) ==
  LET is_removal == op.limit = "0" IN
    [ type |-> "change_trust",
      summary |-> IF is_removal
        THEN <<op.trustor, "removed trust", op.asset_code>>
        ELSE <<op.trustor, "opted in", op.limit, op.asset_code, op.asset_issuer>>,
      details |-> [ account |-> op.trustor, asset |-> op.asset_code,
                    issuer |-> op.asset_issuer, limit |-> op.limit,
                    is_removal |-> is_removal ] ]

IsCancel(op) == op.amount = "0" /\ op.offer_id > 0

OfferAction(op) ==
  IF IsCancel(op) THEN "cancel" ELSE IF op.offer_id = 0 THEN "new" ELSE "update"

\* The amount is of the asset that is sold or bought; the other one is the quote.
OfferSummary(op) ==
  LET base == IF op.offer_type = "Sell" THEN op.selling_asset ELSE op.buying_asset
      quote == IF op.offer_type = "Sell" THEN op.buying_asset ELSE op.selling_asset IN
    IF IsCancel(op) THEN <<op.seller, op.offer_id>>
    ELSE <<op.seller, op.offer_type, op.amount, base, quote, op.price>>

ExplainManageOffer(op) ==
  [ type |-> IF op.offer_type = "Sell" THEN "manage_sell_offer" ELSE "manage_buy_offer",
    summary |-> OfferSummary(op),
    details |-> [ account |-> op.seller, selling_asset |-> op.selling_asset,
                  buying_asset |-> op.buying_asset, amount |-> op.amount,
                  price |-> op.price, offer_id |-> op.offer_id, action |-> OfferAction(op) ] ]

\* A conversion is told only when the two assets differ.
ExplainPathPayment(op) ==
  LET sender == OrUnknown(op.source, "Unknown")
      via == IF op.path = <<>> THEN None ELSE Len(op.path)
      sent == <<sender, op.send_amount, op.send_asset, op.destination>> IN
    [ type |-> IF op.payment_type = "StrictSend" THEN "path_payment_strict_send"
               ELSE "path_payment_strict_receive",
      summary |-> <<IF op.send_asset = op.dest_asset THEN sent
                    ELSE sent \o <<op.dest_amount, op.dest_asset>>, via>>,
      details |-> [ from |-> sender, to |-> op.destination,
                    send_asset |-> op.send_asset, send_amount |-> op.send_amount,
                    dest_asset |-> op.dest_asset, dest_amount |-> op.dest_amount,
                    path_description |-> via ] ]

ExplainClawback(op) ==
  LET issuer == OrUnknown(op.source, "Unknown issuer") IN
    [ type |-> "clawback", summary |-> <<op.amount, op.asset_code, op.from>>,
      details |-> [ issuer |-> issuer, from |-> op.from, asset |-> op.asset_code,
                    asset_issuer |-> op.asset_issuer, amount |-> op.amount ] ]

ExplainClawbackBalance(op) ==
  LET issuer == OrUnknown(op.source, "Unknown issuer") IN
    [ type |-> "clawback_claimable_balance", summary |-> <<Shorten(op.balance_id)>>,
      details |-> [issuer |-> issuer, balance_id |-> op.balance_id] ]

ExplainAccountMerge(op) ==
  [ type |-> "account_merge", summary |-> <<op.source, op.destination>>,
    details |-> [source |-> op.source, destination |-> op.destination] ]

PaymentDetails(payment) ==
  [ type |-> "payment", summary |-> payment.summary,
    details |-> [ from |-> payment.from, to |-> payment.to,
                  amount |-> payment.amount, asset |-> payment.asset ] ]

\* An operation that is not supported is named, and nothing else is said of it.
ExplainOperation(op, fee, base_fee) ==
  IF op.kind = "Payment" THEN PaymentDetails(ExplainPayment(op, fee, base_fee))
  ELSE IF op.kind = "SetOptions" THEN ExplainSetOptions(op)
  ELSE IF op.kind = "CreateAccount" THEN ExplainCreateAccount(op)
  ELSE IF op.kind = "ChangeTrust" THEN ExplainChangeTrust(op)
  ELSE IF op.kind = "ManageOffer" THEN ExplainManageOffer(op)
  ELSE IF op.kind = "PathPayment" THEN ExplainPathPayment(op)
  ELSE IF op.kind = "Clawback" THEN ExplainClawback(op)
  ELSE IF op.kind = "ClawbackClaimableBalance" THEN ExplainClawbackBalance(op)
  ELSE IF op.kind = "AccountMerge" THEN ExplainAccountMerge(op)
  ELSE [type |-> op.operation_type, summary |-> <<op.operation_type>>, details |-> <<>>]
=============================================================================
