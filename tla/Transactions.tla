------------------------------ MODULE Transactions ------------------------------
(***************************************************************************)
(* The whole explanation of a transaction: services/explain.rs and         *)
(* explain/transaction.rs of packages/core/src, with the explanations of   *)
(* its operations (module Operations) and of the time its ledger closed    *)
(* (module Calendar).  What Explanation!Explain says of the types of the   *)
(* operations is the abstract version of ExplainTransaction.               *)
(*                                                                         *)
(* A transaction of Horizon is a record as in module Explanation, with     *)
(* [created_at, ledger, hash] besides, each of the first two perhaps None; *)
(* a memo value also has its text: three parts when it is longer than 20   *)
(* characters, the eight characters at each end and what lies between.     *)
(***************************************************************************)
EXTENDS Operations, Calendar, Selections

-----------------------------------------------------------------------------
(* Memo *)

\* format_hash
FormatHash(text) == Shorten(text)

\* map_memo and explain_memo
MemoText(type, value) ==
  LET kind == ExplainMemo(type, value) IN
    IF kind = None THEN <<>>
    ELSE IF kind \in {"hash", "return"} THEN FormatHash(value.text)
    ELSE value.text

-----------------------------------------------------------------------------
(* Failure *)

KnownTxCodes ==
  { "tx_bad_seq", "tx_bad_auth", "tx_insufficient_balance", "tx_no_account",
    "tx_insufficient_fee", "tx_too_early", "tx_too_late", "tx_missing_operation",
    "tx_bad_auth_extra" }

KnownOpCodes ==
  { "op_no_trust", "op_underfunded", "op_no_destination", "op_not_authorized",
    "op_line_full", "op_no_issuer", "op_low_reserve" }

\* Every known code has a sentence of its own, all others share one.
TranslateTxCode(code) ==
  IF code = None THEN None ELSE IF code \in KnownTxCodes THEN code ELSE "unexpected"

TranslateOpCode(code) == IF code \in KnownOpCodes THEN code ELSE "unexpected"

ExplainFailure(tx) ==
  LET failure == FailureOf(tx) IN
    [ reason |-> TranslateTxCode(failure.reason),
      operations |-> { [index |-> f.index, code |-> f.code,
                        explanation |-> TranslateOpCode(f.code)] : f \in failure.operations } ]

-----------------------------------------------------------------------------
(* The summary *)

\* Without payments the sentence is about unsupported operations, even of none.
BuildTransactionSummary(successful, payments, skipped) ==
  IF payments = 0
    THEN [successful |-> successful, unsupported |-> skipped]
    ELSE [successful |-> successful, payments |-> payments, skipped |-> skipped]

\* What the summary adds about the ledger.
Confirmed(created_at, ledger) ==
  (IF created_at = None THEN <<>> ELSE <<FormatLedgerTime(created_at)>>)
  \o (IF ledger = None THEN <<>> ELSE <<ledger>>)

-----------------------------------------------------------------------------

MapTransactionToDomain(records) == [i \in 1 .. Len(records) |-> FromHorizon(records[i])]

IsKind(ops, kind) == {i \in 1 .. Len(ops) : ops[i].kind = kind}

PaymentOperations(ops) == Selection(ops, IsKind(ops, "Payment"))

OperationExplanation(position, told) == [index |-> position - 1, told |-> told]

\* explain_transaction_with_ledger, for a transaction with operations
ExplainTransaction(tx, records, base_fee) ==
  LET ops == MapTransactionToDomain(records)
      payments == PaymentOperations(ops)
      skipped == Cardinality(IsKind(ops, "Other")) IN
    [ hash |-> tx.hash,
      successful |-> tx.successful,
      summary |-> BuildTransactionSummary(tx.successful, Cardinality(IsKind(ops, "Payment")), skipped),
      confirmed |-> Confirmed(tx.created_at, tx.ledger),
      operations |-> [i \in 1 .. Len(ops) |->
                        OperationExplanation(i, ExplainOperation(ops[i], tx.fee_charged, base_fee))],
      payment_explanations |-> [i \in 1 .. Len(payments) |->
                                  ExplainPayment(payments[i], tx.fee_charged, base_fee)],
      skipped_operations |-> skipped,
      memo_explanation |-> [kind |-> ExplainMemo(tx.memo_type, tx.memo),
                            text |-> MemoText(tx.memo_type, tx.memo)],
      fee_explanation |-> ExplainFee(tx.fee_charged, base_fee),
      failure |-> ExplainFailure(tx) ]
=============================================================================
