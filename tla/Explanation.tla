------------------------------ MODULE Explanation ------------------------------
(***************************************************************************)
(* How the backend explains a transaction it got from Horizon              *)
(* (packages/core/src/services/explain.rs, explain/transaction.rs,         *)
(* explain/failure.rs, models/fee.rs, models/operation.rs).                *)
(*                                                                         *)
(* The functions are pure.  Wording is left out: an explanation is the     *)
(* record of what its sentences claim.                                     *)
(***************************************************************************)
EXTENDS Integers, Sequences, FiniteSets, Option

CONSTANTS
  Width        \* bits of the fee arithmetic: 64 in the code

ASSUME ExplanationAssumption ==
  /\ Width \in Nat
  /\ None \notin STRING /\ None \notin Int

(* What Horizon sends.  A transaction is                                     *)
(*   [successful, fee_charged, memo_type, memo, extras, result_codes]        *)
(* where the last two are None or [transaction, operations]; a memo value is *)
(* None or [bytes, number].  The operations are the sequence of their types. *)

-----------------------------------------------------------------------------
(* Operations *)

SellOffers == {"manage_offer", "manage_sell_offer", "create_passive_sell_offer"}

Supported ==
  SellOffers \cup
  { "payment", "set_options", "create_account", "change_trust",
    "manage_buy_offer", "path_payment_strict_send",
    "path_payment_strict_receive", "clawback", "clawback_claimable_balance",
    "account_merge" }

\* The type an operation is reported with: every sell offer is a
\* "manage_sell_offer", an unsupported type keeps its name.
ReportedType(type) == IF type \in SellOffers THEN "manage_sell_offer" ELSE type

Positions(s, Test(_)) == {i \in 1 .. Len(s) : Test(s[i])}

IsPayment(type) == type = "payment"
IsOther(type) == type \notin Supported

\* Mutant: unsupported operations are dropped before positions are given out.
ExplainOperationsSupported(types) ==
  LET known == SelectSeq(types, LAMBDA t : t \in Supported) IN
    [i \in 1 .. Len(known) |-> [index |-> i - 1, type |-> ReportedType(known[i])]]

\* One entry per operation, numbered from 0.
ExplainOperations(types) ==
  [i \in 1 .. Len(types) |-> [index |-> i - 1, type |-> ReportedType(types[i])]]

-----------------------------------------------------------------------------
(* Memo *)

\* Memo; its variant None is None here.
MemoKinds == {"text", "id", "hash", "return"}

\* Memo::text counts bytes, not characters.
FitsText(value) == value.bytes <= 28

\* map_memo and explain_memo: the kind of memo that is explained, or None.
ExplainMemo(type, value) ==
  IF \/ value = None
     \/ type \notin MemoKinds
     \/ type = "text" /\ ~FitsText(value)
     \/ type = "id" /\ ~value.number
    THEN None
    ELSE type

-----------------------------------------------------------------------------
(* Fee *)

\* Mutant: any fee above the base fee is called high.
IsHighFeeAny(base_fee, fee) == fee > base_fee

\* FeeStats::is_high_fee; the product wraps in a release build.
IsHighFee(base_fee, fee) == fee > (base_fee * 5) % (2 ^ Width)

\* explain_fee: what is claimed about the fee, besides its amount.
ExplainFee(fee, base_fee) ==
  IF base_fee = None THEN [claim |-> "none", times |-> 0]
  ELSE IF IsHighFee(base_fee, fee)
    THEN [claim |-> "high", times |-> fee \div (IF base_fee = 0 THEN 1 ELSE base_fee)]
    ELSE [claim |-> "standard", times |-> 0]

-----------------------------------------------------------------------------
(* Failure *)

\* The result codes of a submission error come before those of the transaction.
ResultCodes(tx) == IF tx.extras # None THEN tx.extras ELSE tx.result_codes

\* Mutant: the codes are numbered after "op_success" was filtered out.
OperationFailuresRenumbered(codes) ==
  LET failed == SelectSeq(codes, LAMBDA c : c # "op_success") IN
    {[index |-> i - 1, code |-> failed[i]] : i \in 1 .. Len(failed)}

\* explain_failure: "op_success" is left out, the others keep their position.
OperationFailures(codes) ==
  {[index |-> i - 1, code |-> codes[i]] : i \in Positions(codes, LAMBDA c : c # "op_success")}

FailureOf(tx) ==
  IF tx.successful \/ ResultCodes(tx) = None
    THEN [reason |-> None, operations |-> {}]
    ELSE [reason |-> ResultCodes(tx).transaction,
          operations |-> OperationFailures(ResultCodes(tx).operations)]

-----------------------------------------------------------------------------

\* explain_transaction_with_ledger, for a transaction with operations.
Explain(tx, types, base_fee) ==
  [ successful |-> tx.successful,
    operations |-> ExplainOperations(types),
    payments |-> Cardinality(Positions(types, IsPayment)),
    skipped |-> Cardinality(Positions(types, IsOther)),
    memo |-> ExplainMemo(tx.memo_type, tx.memo),
    fee |-> ExplainFee(tx.fee_charged, base_fee),
    failure |-> FailureOf(tx) ]
=============================================================================
