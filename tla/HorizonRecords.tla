----------------------------- MODULE HorizonRecords -----------------------------
(***************************************************************************)
(* What Horizon's interface says of the operations and accounts it sends:  *)
(* which of the fields that the backend reads (packages/core/src) there    *)
(* are.  The backend takes every field for optional and has a default for  *)
(* it; that explanations differ where the records do is owed to these      *)
(* rules.  Of fields that are read only in the place of a missing one, and *)
(* of trust in the shares of a liquidity pool, of which nothing is read,   *)
(* there is no record here.                                                *)
(*                                                                         *)
(* Operations are records as in module Operations, accounts as in module   *)
(* Accounts.                                                               *)
(***************************************************************************)
EXTENDS Explanation

ASSUME FlagsAssumption == \A flags \in SUBSET (0 .. 3) : flags # None

-----------------------------------------------------------------------------
(* Operations *)

\* The names of the fields that tell an asset.
PlainAsset == [type |-> "asset_type", code |-> "asset_code", issuer |-> "asset_issuer"]
SourceOf ==
  [type |-> "source_asset_type", code |-> "source_asset_code", issuer |-> "source_asset_issuer"]
SellingOf ==
  [type |-> "selling_asset_type", code |-> "selling_asset_code", issuer |-> "selling_asset_issuer"]
BuyingOf ==
  [type |-> "buying_asset_type", code |-> "buying_asset_code", issuer |-> "buying_asset_issuer"]

\* The native asset has neither code nor issuer.
AssetFields(op, n) ==
  IF op[n.type] = "native" THEN {n.type} ELSE {n.type, n.code, n.issuer}

PaymentFields(op) == {"type", "from", "to", "amount"} \cup AssetFields(op, PlainAsset)

PathFields(op) == PaymentFields(op) \cup {"source_amount"} \cup AssetFields(op, SourceOf)

OfferFields(op) ==
  {"type", "source_account", "amount", "price", "offer_id"}
  \cup AssetFields(op, SellingOf) \cup AssetFields(op, BuyingOf)

\* What set_options may set; all of it may be left out, but a signer has a weight.
OptionFields ==
  { "inflation_dest", "master_key_weight", "low_threshold", "med_threshold",
    "high_threshold", "home_domain", "set_flags", "clear_flags", "signer_key",
    "signer_weight" }

\* An account has four flags; a field that is there names at least one.
IsFlags(flags) == flags \in Seq((SUBSET (0 .. 3)) \ {{}}) /\ flags # <<>>

IsSetOptions(op) ==
  /\ {"type", "source_account"} \subseteq DOMAIN op
  /\ DOMAIN op \subseteq {"type", "source_account"} \cup OptionFields
  /\ "signer_key" \in DOMAIN op <=> "signer_weight" \in DOMAIN op
  /\ \A f \in {"set_flags", "clear_flags"} \cap DOMAIN op : IsFlags(op[f])

\* Of the operations that are not supported only the type is looked at.
HasItsFields(op) ==
  IF op.type = "payment" THEN DOMAIN op = PaymentFields(op)
  ELSE IF op.type \in {"path_payment_strict_send", "path_payment_strict_receive"}
    THEN DOMAIN op = PathFields(op)
  ELSE IF op.type \in SellOffers \cup {"manage_buy_offer"} THEN DOMAIN op = OfferFields(op)
  ELSE IF op.type = "set_options" THEN IsSetOptions(op)
  ELSE IF op.type = "create_account"
    THEN DOMAIN op = {"type", "funder", "account", "starting_balance"}
  ELSE IF op.type = "change_trust"
    THEN DOMAIN op = {"type", "source_account", "asset_code", "asset_issuer", "limit"}
  ELSE IF op.type = "clawback"
    THEN DOMAIN op = {"type", "source_account", "from", "amount", "asset_code", "asset_issuer"}
  ELSE IF op.type = "clawback_claimable_balance"
    THEN DOMAIN op = {"type", "source_account", "balance_id"}
  ELSE IF op.type = "account_merge"
    THEN DOMAIN op = {"type", "source_account", "account", "into"} /\ op.account = op.source_account
  ELSE DOMAIN op = {"type"}

IsOperation(op) ==
  /\ \A f \in DOMAIN op : op[f] # None
  /\ \A n \in {PlainAsset, SourceOf, SellingOf, BuyingOf} :
       n.issuer \in DOMAIN op => op[n.issuer] # "native"
  /\ HasItsFields(op)

-----------------------------------------------------------------------------
(* Accounts *)

\* There is one line for XLM, whose balance has seven decimals.
IsAccount(raw) ==
  LET native == {i \in 1 .. Len(raw.balances) : raw.balances[i].asset_type = "native"} IN
    /\ \A i, j \in native : i = j
    /\ \A i \in native : raw.balances[i].balance # "0"
    /\ \A i \in 1 .. Len(raw.signers) : raw.signers[i] \in Nat
    /\ raw.home_domain # None
=============================================================================
