------------------------------- MODULE TxRequest -------------------------------
(***************************************************************************)
(* GET /tx/:hash (get_tx_explanation in packages/core/src/routes/tx.rs):   *)
(* three calls to Horizon at the same time, joined, and the explanation of *)
(* what they bring.  The calls answer in any order.  The fee statistics    *)
(* are optional, the transaction and its operations are not.               *)
(*                                                                         *)
(* Horizon is another system.  It answers a request for a transaction's    *)
(* operations with one page, and no call of the client has a time limit.   *)
(***************************************************************************)
EXTENDS Explanation

CONSTANTS
  Ledger,      \* pairs [tx, types]: a transaction and the types of its operations
  BaseFees,    \* values of last_ledger_base_fee: positive, and 32 bits on the network
  PageLimit    \* operations on one page when the request names no limit

Calls == {"tx", "ops", "fee"}

\* How a call fails: no connection, 404, another status or an unreadable body.
Failures == {"unreachable", "missing", "garbled"}

ASSUME RequestAssumption ==
  /\ PageLimit \in Nat \ {0}
  /\ \A fee \in BaseFees : fee \in Nat \ {0} /\ fee * 5 < 2 ^ Width
  /\ \A entry \in Ledger :
       /\ entry.types \in Seq(STRING) \ {<<>>}
       /\ entry.tx.successful \in BOOLEAN /\ entry.tx.fee_charged \in Nat
       /\ ResultCodes(entry.tx) # None => ResultCodes(entry.tx).operations \in Seq(STRING)

VARIABLES
  asked,       \* the transaction the hash in the path belongs to
  phase,       \* "received", "joining" or "done"
  result,      \* result[c]: "unsent", "pending", "ok" or a failure
  page,        \* the operations that came, when result["ops"] is "ok"
  base_fee,    \* the base fee that came, when result["fee"] is "ok", or None
  status,      \* of the response, or 0
  body         \* the explanation, or None

vars == <<asked, phase, result, page, base_fee, status, body>>

-----------------------------------------------------------------------------

Init ==
  /\ asked \in Ledger
  /\ phase = "received"
  /\ result = [c \in Calls |-> "unsent"]
  /\ page = <<>>
  /\ base_fee = None
  /\ status = 0
  /\ body = None

Respond(code, explanation) ==
  /\ phase' = "done"
  /\ status' = code
  /\ body' = explanation

\* is_valid_transaction_hash: anything but 64 hexadecimal digits is refused ...
BadHash ==
  /\ phase = "received"
  /\ Respond(400, None)
  /\ UNCHANGED <<asked, result, page, base_fee>>

\* ... and tokio::join! starts all three calls.
Send ==
  /\ phase = "received"
  /\ phase' = "joining"
  /\ result' = [c \in Calls |-> "pending"]
  /\ UNCHANGED <<asked, page, base_fee, status, body>>

\* From<HorizonError> for AppError, and its status_code.
StatusOf(failure) == IF failure = "missing" THEN 404 ELSE 502

\* Mutant: tokio::try_join!, which returns with the first error.
FailAtOnce(c, failure) ==
  /\ phase = "joining"
  /\ result[c] = "pending"
  /\ result' = [result EXCEPT ![c] = failure]
  /\ IF c = "fee" THEN UNCHANGED <<phase, status, body>> ELSE Respond(StatusOf(failure), None)
  /\ UNCHANGED <<asked, page, base_fee>>

Fail(c, failure) ==
  /\ phase = "joining"
  /\ result[c] = "pending"
  /\ result' = [result EXCEPT ![c] = failure]
  /\ UNCHANGED <<asked, phase, page, base_fee, status, body>>

AnswerTx ==
  /\ phase = "joining"
  /\ result["tx"] = "pending"
  /\ result' = [result EXCEPT !["tx"] = "ok"]
  /\ UNCHANGED <<asked, phase, page, base_fee, status, body>>

FirstPage(types) == SubSeq(types, 1, IF Len(types) < PageLimit THEN Len(types) ELSE PageLimit)

\* The first page of the operations; the code is also ready for an empty one.
AnswerOps ==
  /\ phase = "joining"
  /\ result["ops"] = "pending"
  /\ result' = [result EXCEPT !["ops"] = "ok"]
  /\ page' \in {FirstPage(asked.types), <<>>}
  /\ UNCHANGED <<asked, phase, base_fee, status, body>>

AnswerFee ==
  /\ phase = "joining"
  /\ result["fee"] = "pending"
  /\ result' = [result EXCEPT !["fee"] = "ok"]
  /\ base_fee' \in BaseFees
  /\ UNCHANGED <<asked, phase, page, status, body>>

Joined == phase = "joining" /\ \A c \in Calls : result[c] # "pending"

\* A transaction that did not come decides the answer, then the operations.
RespondFailure ==
  /\ Joined
  /\ \/ /\ result["tx"] # "ok"
        /\ Respond(StatusOf(result["tx"]), None)
     \/ /\ result["tx"] = "ok"
        /\ result["ops"] # "ok"
        /\ Respond(StatusOf(result["ops"]), None)
  /\ UNCHANGED <<asked, result, page, base_fee>>

\* Mutant: without fee statistics there is no explanation.
RespondExplanationNeedsFee ==
  /\ Joined
  /\ result["tx"] = "ok"
  /\ result["ops"] = "ok"
  /\ IF page = <<>> THEN Respond(400, None)
     ELSE IF base_fee = None THEN Respond(502, None)
     ELSE Respond(200, Explain(asked.tx, page, base_fee))
  /\ UNCHANGED <<asked, result, page, base_fee>>

\* Mutant: the explanation is attached to the error, too.
RespondExplanationAnyway ==
  /\ Joined
  /\ result["tx"] = "ok"
  /\ result["ops"] = "ok"
  /\ Respond(IF page = <<>> THEN 400 ELSE 200, Explain(asked.tx, page, base_fee))
  /\ UNCHANGED <<asked, result, page, base_fee>>

\* Mutant: the call for the fee statistics is repeated until it succeeds.
RespondExplanationRetries ==
  /\ Joined
  /\ result["tx"] = "ok"
  /\ result["ops"] = "ok"
  /\ IF base_fee = None
       THEN /\ result' = [result EXCEPT !["fee"] = "pending"]
            /\ UNCHANGED <<phase, status, body>>
       ELSE /\ Respond(200, Explain(asked.tx, page, base_fee))
            /\ UNCHANGED result
  /\ UNCHANGED <<asked, page, base_fee>>

\* ExplainError::EmptyTransaction is a 400; missing fee statistics are no error.
RespondExplanation ==
  /\ Joined
  /\ result["tx"] = "ok"
  /\ result["ops"] = "ok"
  /\ IF page = <<>> THEN Respond(400, None)
     ELSE Respond(200, Explain(asked.tx, page, base_fee))
  /\ UNCHANGED <<asked, result, page, base_fee>>

Done == phase = "done" /\ UNCHANGED vars

HorizonAnswers(c) ==
  \/ \E failure \in Failures : Fail(c, failure)
  \/ c = "tx" /\ AnswerTx
  \/ c = "ops" /\ AnswerOps
  \/ c = "fee" /\ AnswerFee

Handler == BadHash \/ Send \/ RespondFailure \/ RespondExplanation

Next ==
  \/ Handler
  \/ \E c \in Calls : HorizonAnswers(c)
  \/ Done

Spec == Init /\ [][Next]_vars

\* The runtime polls the handler, and Horizon answers each call or drops it.
FairSpec ==
  Spec /\ WF_vars(Handler) /\ \A c \in Calls : WF_vars(HorizonAnswers(c))

\* ... or Horizon serves the two calls that matter and leaves /fee_stats open.
StalledFeeSpec ==
  Spec /\ WF_vars(Handler) /\ \A c \in {"tx", "ops"} : WF_vars(HorizonAnswers(c))

-----------------------------------------------------------------------------
(* Properties *)

\* Type invariant.
TypeOK ==
  /\ asked \in Ledger
  /\ phase \in {"received", "joining", "done"}
  /\ result \in [Calls -> {"unsent", "pending", "ok"} \cup Failures]
  /\ page \in {<<>>, FirstPage(asked.types)}
  /\ base_fee \in BaseFees \cup {None}
  /\ status \in {0, 200, 400, 404, 502}
  /\ phase = "done" <=> status # 0
  /\ status # 200 => body = None

Came(c) == result[c] = "ok"

\* The response depends on what the calls brought and not on their order: it
\* waits for all three, reports the failure of the transaction before that of
\* its operations, and is never worse for want of fee statistics.
StatusIgnoresOrder ==
  phase = "done" /\ result["tx"] # "unsent" =>
    /\ \A c \in Calls : result[c] # "pending"
    /\ status = 200 <=> Came("tx") /\ Came("ops") /\ page # <<>>
    /\ status = 404 <=> \/ result["tx"] = "missing"
                        \/ Came("tx") /\ result["ops"] = "missing"
    /\ status = 400 <=> Came("tx") /\ Came("ops") /\ page = <<>>

\* Every position in an explanation is a position in what Horizon sent: entry i
\* of the list explains operation i, a failure's index names the operation that
\* has this very code, and no failing code is left out.
PositionsLineUp ==
  status = 200 =>
    /\ Len(body.operations) = Len(page)
    /\ \A i \in 1 .. Len(page) :
         /\ body.operations[i].index = i - 1
         /\ page[i] \notin SellOffers => body.operations[i].type = page[i]
    /\ LET codes == ResultCodes(asked.tx) IN
         ~asked.tx.successful /\ codes # None =>
           \A i \in 1 .. Len(codes.operations), code \in {codes.operations[j] : j \in 1 .. Len(codes.operations)} :
             [index |-> i - 1, code |-> code] \in body.failure.operations
               <=> codes.operations[i] = code /\ code # "op_success"

\* A fee is called high exactly when it is more than five times the base fee,
\* and the multiple that is named is then at least five.
FeeClaimsAreTrue ==
  status = 200 =>
    /\ body.fee.claim = "none" <=> ~Came("fee")
    /\ body.fee.claim = "high" => body.fee.times >= 5
    /\ Came("fee") => (body.fee.claim = "high" <=> asked.tx.fee_charged > 5 * base_fee)

\* A request is answered when Horizon answers or drops each of its calls.
RequestIsAnswered == <>(phase = "done")

\* The callers of fetch_fee_stats degrade gracefully: once the transaction and
\* its operations are there, the request is answered, whatever becomes of the
\* call for the fee statistics.
FeeStatsAreOptional == Came("tx") /\ Came("ops") ~> phase = "done"

\* "One explanation per operation, in the original order of the transaction."
EveryOperationIsExplained ==
  status = 200 => Len(body.operations) = Len(asked.types)
=============================================================================
