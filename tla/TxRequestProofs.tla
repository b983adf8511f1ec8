---------------------------- MODULE TxRequestProofs ----------------------------
(***************************************************************************)
(* What the response to GET /tx/:hash depends on, and what it claims, for  *)
(* transactions of any length, pages of any size and any base fee.         *)
(***************************************************************************)
EXTENDS TxRequest, TLAPS

\* The calls are sent together, and the response waits for them together.
JoinedOrNothing ==
  /\ phase = "received" => \A c \in Calls : result[c] = "unsent"
  /\ phase = "joining" => \A c \in Calls : result[c] # "unsent"
  /\ phase = "done" => \/ \A c \in Calls : result[c] = "unsent"
                       \/ \A c \in Calls : result[c] \notin {"unsent", "pending"}

\* The base fee is there exactly when its call succeeded.
FeeIsTheAnswer == IF Came("fee") THEN base_fee \in BaseFees ELSE base_fee = None

\* The response is what the calls, once joined, call for.
ResponseIsDue ==
  phase = "done" =>
    \/ /\ \A c \in Calls : result[c] = "unsent"
       /\ status = 400 /\ body = None
    \/ /\ result["tx"] # "ok"
       /\ status = StatusOf(result["tx"]) /\ body = None
    \/ /\ result["tx"] = "ok" /\ result["ops"] # "ok"
       /\ status = StatusOf(result["ops"]) /\ body = None
    \/ /\ result["tx"] = "ok" /\ result["ops"] = "ok" /\ page = <<>>
       /\ status = 400 /\ body = None
    \/ /\ result["tx"] = "ok" /\ result["ops"] = "ok" /\ page # <<>>
       /\ status = 200 /\ body = Explain(asked.tx, page, base_fee)

IInv == TypeOK /\ JoinedOrNothing /\ FeeIsTheAnswer /\ ResponseIsDue

LEMMA FeesAreNotNone == None \notin BaseFees
BY RequestAssumption, ExplanationAssumption

LEMMA InitInv == Init => IInv
BY RequestAssumption
DEF Init, IInv, TypeOK, JoinedOrNothing, FeeIsTheAnswer, ResponseIsDue, Came, Calls

\* Answers of Horizon.
LEMMA AnswerKeeps ==
  ASSUME IInv, NEW c \in Calls, HorizonAnswers(c)
  PROVE  IInv'
<1>1. /\ phase = "joining" /\ result[c] = "pending"
      /\ UNCHANGED <<asked, phase, status, body>>
      /\ \E r \in Failures \cup {"ok"} : result' = [result EXCEPT ![c] = r]
      /\ page' \in {page, FirstPage(asked.types), <<>>}
  BY DEF HorizonAnswers, Fail, AnswerTx, AnswerOps, AnswerFee
<1>2. /\ result' \in [Calls -> {"unsent", "pending", "ok"} \cup Failures]
      /\ \A d \in Calls : result'[d] # "unsent"
  BY <1>1 DEF IInv, TypeOK, JoinedOrNothing, Failures
<1>3. FeeIsTheAnswer'
  BY DEF IInv, TypeOK, FeeIsTheAnswer, Came, HorizonAnswers, Fail, AnswerTx, AnswerOps, AnswerFee,
         Calls, Failures
<1>4. TypeOK'
  BY <1>1, <1>2, <1>3 DEF IInv, TypeOK, FeeIsTheAnswer
<1>5. JoinedOrNothing' /\ ResponseIsDue'
  BY <1>1, <1>2 DEF JoinedOrNothing, ResponseIsDue
<1> QED
  BY <1>3, <1>4, <1>5 DEF IInv

\* Steps of the handler.
LEMMA HandlerKeeps ==
  ASSUME IInv, Handler
  PROVE  IInv'
<1>1. CASE Send
  <2>1. TypeOK' /\ FeeIsTheAnswer'
    BY <1>1 DEF Send, IInv, TypeOK, FeeIsTheAnswer, Came, JoinedOrNothing, Calls
  <2>2. JoinedOrNothing' /\ ResponseIsDue'
    BY <1>1 DEF Send, JoinedOrNothing, ResponseIsDue
  <2> QED
    BY <2>1, <2>2 DEF IInv
<1>2. ASSUME UNCHANGED <<asked, result, page, base_fee>>, phase' = "done",
             JoinedOrNothing', ResponseIsDue'
      PROVE  IInv'
  <2>1. FeeIsTheAnswer'
    BY <1>2 DEF IInv, FeeIsTheAnswer, Came
  <2>2. status' \in {200, 400, 404, 502} /\ (status' # 200 => body' = None)
    BY <1>2 DEF ResponseIsDue, StatusOf
  <2>3. TypeOK'
    BY <1>2, <2>2 DEF IInv, TypeOK
  <2> QED
    BY <1>2, <2>1, <2>3 DEF IInv
<1>3. CASE BadHash
  <2>1. JoinedOrNothing' /\ ResponseIsDue'
    BY <1>3 DEF BadHash, Respond, IInv, JoinedOrNothing, ResponseIsDue
  <2> QED
    BY <1>2, <1>3, <2>1 DEF BadHash, Respond
<1>4. ASSUME Joined, UNCHANGED result, phase' = "done" PROVE JoinedOrNothing'
  BY <1>4 DEF Joined, IInv, JoinedOrNothing
<1>5. CASE RespondFailure
  <2>1. ResponseIsDue'
    BY <1>5 DEF RespondFailure, Respond, ResponseIsDue
  <2> QED
    BY <1>2, <1>4, <1>5, <2>1 DEF RespondFailure, Respond
<1>6. CASE RespondExplanation
  <2>1. ResponseIsDue'
    BY <1>6 DEF RespondExplanation, Respond, ResponseIsDue
  <2> QED
    BY <1>2, <1>4, <1>6, <2>1 DEF RespondExplanation, Respond
<1> QED
  BY <1>1, <1>3, <1>5, <1>6 DEF Handler

\* The strengthened invariant, whatever the order of the answers.
THEOREM InvHolds == Spec => []IInv
<1>1. Init => IInv
  BY InitInv
<1>2. IInv /\ [Next]_vars => IInv'
  <2> SUFFICES ASSUME IInv, [Next]_vars PROVE IInv'
    OBVIOUS
  <2>1. CASE UNCHANGED vars
    BY <2>1 DEF vars, IInv, TypeOK, JoinedOrNothing, FeeIsTheAnswer, ResponseIsDue, Came
  <2>2. CASE Next
    BY <2>1, <2>2, AnswerKeeps, HandlerKeeps DEF Next, Done
  <2> QED
    BY <2>1, <2>2
<1> QED
  BY <1>1, <1>2, PTL DEF Spec

\* The request's state is well formed, and only a 200 carries an explanation
\* (get_tx_explanation).
THEOREM RequestTypeCorrect == Spec => []TypeOK
<1>1. IInv => TypeOK
  BY DEF IInv
<1> QED
  BY <1>1, InvHolds, PTL

\* In whatever order the calls answer or fail, the status is the same function
\* of what they brought (get_tx_explanation).
THEOREM OrderDoesNotMatter == Spec => []StatusIgnoresOrder
<1>1. IInv => StatusIgnoresOrder
  <2> SUFFICES ASSUME IInv, phase = "done", result["tx"] # "unsent"
               PROVE  StatusIgnoresOrder
    BY DEF StatusIgnoresOrder
  <2>1. \A c \in Calls : result[c] \notin {"unsent", "pending"}
    BY DEF IInv, JoinedOrNothing, Calls
  <2> QED
    BY <2>1 DEF IInv, ResponseIsDue, StatusIgnoresOrder, Came, StatusOf, Calls
<1> QED
  BY <1>1, InvHolds, PTL

-----------------------------------------------------------------------------
(* What an explanation claims *)

LEMMA ResponseIsExplanation ==
  ASSUME IInv, status = 200
  PROVE  body = Explain(asked.tx, page, base_fee) /\ Came("tx") /\ Came("ops")
BY DEF IInv, TypeOK, ResponseIsDue, StatusOf, Came

LEMMA PagesAreSequences ==
  ASSUME IInv
  PROVE  page \in Seq(STRING)
<1>1. asked.types \in Seq(STRING)
  BY RequestAssumption DEF IInv, TypeOK
<1>2. FirstPage(asked.types) \in Seq(STRING)
  BY <1>1, RequestAssumption DEF FirstPage
<1>3. <<>> \in Seq(STRING)
  OBVIOUS
<1>4. page \in {<<>>, FirstPage(asked.types)}
  BY DEF IInv, TypeOK
<1> QED
  BY <1>2, <1>3, <1>4

\* Leaving out the codes of successes does not move the others: no matter how
\* many there are, the index names the operation that has this code.
LEMMA FailuresKeepPositions ==
  ASSUME NEW S, NEW codes \in Seq(S), NEW i \in 1 .. Len(codes), NEW code
  PROVE  [index |-> i - 1, code |-> code] \in OperationFailures(codes)
           <=> codes[i] = code /\ code # "op_success"
<1>1. ASSUME codes[i] = code, code # "op_success"
      PROVE  [index |-> i - 1, code |-> code] \in OperationFailures(codes)
  BY <1>1 DEF OperationFailures, Positions
<1>2. ASSUME [index |-> i - 1, code |-> code] \in OperationFailures(codes)
      PROVE  codes[i] = code /\ code # "op_success"
  <2>1. PICK j \in 1 .. Len(codes) : /\ codes[j] # "op_success"
                                     /\ [index |-> i - 1, code |-> code] = [index |-> j - 1, code |-> codes[j]]
    BY <1>2 DEF OperationFailures, Positions
  <2>2. i - 1 = j - 1 /\ code = codes[j]
    BY <2>1
  <2>3. i = j
    BY <2>2
  <2> QED
    BY <2>1, <2>2, <2>3
<1> QED
  BY <1>1, <1>2

\* Every position in an explanation is a position in what Horizon sent
\* (explain_transaction_with_ledger, explain_failure).
THEOREM PositionsAreHorizons == Spec => []PositionsLineUp
<1>1. IInv => PositionsLineUp
  <2> SUFFICES ASSUME IInv, status = 200 PROVE PositionsLineUp
    BY DEF PositionsLineUp
  <2>1. body = Explain(asked.tx, page, base_fee) /\ Len(page) \in Nat /\ asked \in Ledger
    BY ResponseIsExplanation, PagesAreSequences DEF IInv, TypeOK
  <2>2. body.operations = [i \in 1 .. Len(page) |-> [index |-> i - 1, type |-> ReportedType(page[i])]]
    BY <2>1 DEF Explain, ExplainOperations
  <2>3. Len(body.operations) = Len(page)
    BY <2>1, <2>2
  <2>4. \A i \in 1 .. Len(page) :
          /\ body.operations[i].index = i - 1
          /\ page[i] \notin SellOffers => body.operations[i].type = page[i]
    BY <2>2 DEF ReportedType
  <2> DEFINE codes == ResultCodes(asked.tx)
  <2>5. ASSUME ~asked.tx.successful, codes # None
        PROVE  \A i \in 1 .. Len(codes.operations), code \in {codes.operations[j] : j \in 1 .. Len(codes.operations)} :
                 [index |-> i - 1, code |-> code] \in body.failure.operations
                   <=> codes.operations[i] = code /\ code # "op_success"
    <3>1. codes.operations \in Seq(STRING)
      BY <2>1, <2>5, RequestAssumption
    <3>2. body.failure.operations = OperationFailures(codes.operations)
      BY <2>1, <2>5 DEF Explain, FailureOf
    <3>3. \A i \in 1 .. Len(codes.operations) : \A code :
            [index |-> i - 1, code |-> code] \in OperationFailures(codes.operations)
              <=> codes.operations[i] = code /\ code # "op_success"
      BY <3>1, FailuresKeepPositions
    <3> QED
      BY <3>2, <3>3
  <2> QED
    BY <2>3, <2>4, <2>5 DEF PositionsLineUp
<1> QED
  BY <1>1, InvHolds, PTL

\* A fee above five times the base fee contains the base fee five times.
LEMMA HighFeesAreMultiples ==
  ASSUME NEW b \in Nat \ {0}, NEW fee \in Nat, fee > 5 * b
  PROVE  fee \div b >= 5
<1> DEFINE q == fee \div b
<1>1. q \in Int /\ b * q <= fee /\ fee < b * (q + 1)
  OBVIOUS
<1>2. ASSUME q <= 4 PROVE b * (q + 1) <= b * 5
  BY <1>1, <1>2
<1> QED
  BY <1>1, <1>2

\* The claim about the fee is the true one: the product does not wrap for the
\* base fees that Horizon can send (FeeStats::is_high_fee, explain_fee).
THEOREM FeeClaimsHold == Spec => []FeeClaimsAreTrue
<1>1. IInv => FeeClaimsAreTrue
  <2> SUFFICES ASSUME IInv, status = 200 PROVE FeeClaimsAreTrue
    BY DEF FeeClaimsAreTrue
  <2>1. body.fee = ExplainFee(asked.tx.fee_charged, base_fee) /\ asked.tx.fee_charged \in Nat
    BY ResponseIsExplanation, RequestAssumption DEF Explain, IInv, TypeOK
  <2>2. CASE ~Came("fee")
    BY <2>1, <2>2 DEF IInv, FeeIsTheAnswer, ExplainFee, FeeClaimsAreTrue
  <2>3. CASE Came("fee")
    <3>1. base_fee \in Nat \ {0} /\ base_fee # None /\ base_fee * 5 < 2 ^ Width
      BY <2>3, FeesAreNotNone, RequestAssumption DEF IInv, FeeIsTheAnswer
    <3>2. (base_fee * 5) % (2 ^ Width) = base_fee * 5
      BY <3>1, ExplanationAssumption
    <3>3. IsHighFee(base_fee, asked.tx.fee_charged) <=> asked.tx.fee_charged > 5 * base_fee
      BY <2>1, <3>1, <3>2 DEF IsHighFee
    <3>4. IsHighFee(base_fee, asked.tx.fee_charged) => asked.tx.fee_charged \div base_fee >= 5
      BY <2>1, <3>1, <3>3, HighFeesAreMultiples
    <3> QED
      BY <2>1, <2>3, <3>1, <3>3, <3>4 DEF ExplainFee, FeeClaimsAreTrue
  <2> QED
    BY <2>2, <2>3
<1> QED
  BY <1>1, InvHolds, PTL
=============================================================================
