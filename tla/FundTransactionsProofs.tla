------------------------ MODULE FundTransactionsProofs ------------------------
(***************************************************************************)
(* What FundTransactions guarantees for every value of its constants: any  *)
(* number of processes, requests, users and funds, and every fault.        *)
(***************************************************************************)
EXTENDS LedgerScan, LedgerProofs

(* The inductive invariant.                                                    *)

\* Past the accept: the request is known.
Accepted(r) ==
    pc[r] # "idle" => request[r] \in [process : Processes, sub : Subs, body : Bodies]

\* Past FindUser: the user has a document, and still has it.
UserFound(r) ==
    pc[r] \in DatabaseSteps \cup {"send_message"} =>
        /\ users[Sub(r)] \in UserOut
        /\ local[r].user \in UserOut
        /\ local[r].user.balance >= 0

\* Past FindFund: the fund exists.
FundFound(r) ==
    pc[r] \in (DatabaseSteps \ {"get_fund"}) \cup {"send_message"} =>
        /\ Body(r).fund_id \in DOMAIN FundOf
        /\ FundOf[Body(r).fund_id] # None

\* Past FindTransactions: what was validated, of the values then read.
Validated(r) ==
    pc[r] \in {"update_balance", "insert", "find_inserted", "send_message"} =>
        IF Body(r).transaction_type = "subscribe"
        THEN /\ local[r].active_subscription = 0
             /\ Body(r).amount \in MinAmount[FundOf[Body(r).fund_id]] .. local[r].user.balance
        ELSE LET active == local[r].active_subscription IN
             /\ active \in History(transactions, Sub(r), Body(r).fund_id)
             /\ transactions[active].transaction_type = "subscribe"

\* The transaction at id is the one the request asks for.
RecordedAt(r, id) ==
    /\ id \in DOMAIN transactions
    /\ transactions[id].user_id = Sub(r)
    /\ transactions[id].fund_id = Body(r).fund_id
    /\ transactions[id].transaction_type = Body(r).transaction_type
    /\ Body(r).transaction_type = "subscribe" => transactions[id].amount = Body(r).amount

\* The _id a request inserted, as long as it or its answer holds it.
HeldId(r) ==
    IF pc[r] \in {"find_inserted", "send_message"}
    THEN local[r].new_transaction
    ELSE response[r].transaction

\* Past UpdateBalance: the transaction to insert is the one validated.
Drafted(r) ==
    pc[r] = "insert" =>
        LET data == local[r].transaction_data IN
        /\ data \in Transaction
        /\ data.user_id = Sub(r)
        /\ data.fund_id = Body(r).fund_id
        /\ data.amount = Amount(r)
        /\ data.transaction_type = Body(r).transaction_type

\* Past Insert: the transaction the request holds is the one it asks for.
Inserted(r) ==
    /\ pc[r] \in {"find_inserted", "send_message"} => HeldId(r) # 0
    /\ pc[r] # "done" => response[r] = NoResponse
    /\ response[r].status = "200" <=> response[r].transaction # 0
    /\ HeldId(r) # 0 => RecordedAt(r, HeldId(r))

RequestOK(r) ==
    /\ Accepted(r)
    /\ UserFound(r)
    /\ FundFound(r)
    /\ Validated(r)
    /\ Drafted(r)
    /\ Inserted(r)

\* An _id is held by one request.
HeldOnce ==
    \A r, q \in Requests : r # q /\ HeldId(r) # 0 => HeldId(r) # HeldId(q)

AmountsPaid == \A i \in DOMAIN transactions : transactions[i].amount > 0

IInv ==
    /\ TypeOK
    /\ BalanceNonNegative
    /\ AmountsPaid
    /\ RefundsWerePaid
    /\ \A r \in Requests : RequestOK(r)
    /\ HeldOnce

-----------------------------------------------------------------------------
THEOREM InitInvariant == Init => IInv
  <1> SUFFICES ASSUME Init PROVE IInv
    OBVIOUS
  <1>1. TypeOK
    <2>1. [balance : {DEFAULT_INITIAL_BALANCE}, phone : BOOLEAN,
           notif_options : NotifOptions] \subseteq UserOut
      BY ConstantsAssumption DEF ConstantsAssumption, UserOut
    <2> QED
      BY <2>1 DEF Init, TypeOK, NoLocals, NoRequest, NoResponse, Step, Request, Locals,
             Response
  <1>2. BalanceNonNegative
    BY ConstantsAssumption DEF ConstantsAssumption, Init, BalanceNonNegative
  <1>3. AmountsPaid /\ RefundsWerePaid
    BY DEF Init, AmountsPaid, RefundsWerePaid
  <1>4. ASSUME NEW r \in Requests PROVE RequestOK(r)
    BY DEF Init, RequestOK, Accepted, UserFound, FundFound, Validated, Drafted, Inserted,
           HeldId, NoResponse, DatabaseSteps
  <1>5. HeldOnce
    BY DEF Init, HeldOnce, HeldId, NoResponse
  <1> QED
    BY <1>1, <1>2, <1>3, <1>4, <1>5 DEF IInv

\* Every history has a latest transaction, so that the scan has an answer.
LEMMA LatestFound ==
    ASSUME TypeOK, NEW s, NEW f
    PROVE  /\ HasLatest(transactions, s, f)
           /\ IsFiniteSet(History(transactions, s, f))
           /\ Stamped(transactions, History(transactions, s, f))
  <1>1. transactions \in Seq(Transaction) /\ \A x \in Transaction : x.timestamp \in Int
    BY DEF TypeOK, Transaction
  <1> QED
    BY <1>1, LogHasLatest, HistoryIsFinite

-----------------------------------------------------------------------------
(* What a step of one request leaves alone.                                    *)

OthersUnchanged(r) ==
    \A q \in Requests \ {r} :
        /\ pc'[q] = pc[q]
        /\ request'[q] = request[q]
        /\ local'[q] = local[q]
        /\ response'[q] = response[q]

\* No document disappears, and no transaction changes.
DatabaseGrows ==
    /\ \A s \in Subs : users[s] \in UserOut => users'[s] \in UserOut
    /\ \A i \in DOMAIN transactions :
          i \in DOMAIN transactions' /\ transactions'[i] = transactions[i]

\* What is known of a request stays true while others move.
LEMMA RequestFrame ==
    ASSUME IInv, NEW q \in Requests, DatabaseGrows,
           pc'[q] = pc[q], request'[q] = request[q],
           local'[q] = local[q], response'[q] = response[q]
    PROVE  RequestOK(q)' /\ HeldId(q)' = HeldId(q)
  <1>1. RequestOK(q)
    BY DEF IInv
  <1>2. Accepted(q)'
    BY <1>1 DEF RequestOK, Accepted
  <1>3. UserFound(q)'
    <2> SUFFICES ASSUME pc[q] \in DatabaseSteps \cup {"send_message"}
                 PROVE  UserFound(q)'
      BY DEF UserFound
    <2>1. Sub(q) \in Subs
      BY <1>1 DEF RequestOK, Accepted, Sub, DatabaseSteps
    <2> QED
      BY <1>1, <2>1 DEF RequestOK, UserFound, DatabaseGrows, Sub
  <1>4. FundFound(q)'
    BY <1>1 DEF RequestOK, FundFound, Body
  <1>5. Validated(q)'
    BY <1>1 DEF RequestOK, Validated, Body, Sub, History, DatabaseGrows
  <1>6. Drafted(q)'
    <2>1. pc[q] = "insert" => Amount(q)' = Amount(q)
      BY <1>1 DEF RequestOK, Validated, Amount, Body, Sub, History, DatabaseGrows
    <2> QED
      BY <1>1, <2>1 DEF RequestOK, Drafted, Body, Sub
  <1>7. HeldId(q)' = HeldId(q)
    BY DEF HeldId
  <1>8. Inserted(q)'
    BY <1>1, <1>7 DEF RequestOK, Inserted, RecordedAt, Body, Sub, DatabaseGrows
  <1> QED
    BY <1>2, <1>3, <1>4, <1>5, <1>6, <1>7, <1>8 DEF RequestOK

\* A step of r preserves the invariant of all requests if it preserves that of r and
\* r holds, if anything, the _id it had or one that nobody had.
LEMMA OthersFrame ==
    ASSUME IInv, NEW r \in Requests, DatabaseGrows, OthersUnchanged(r), RequestOK(r)',
           HeldId(r)' \in {0, HeldId(r)} \/ HeldId(r)' \notin DOMAIN transactions
    PROVE  (\A q \in Requests : RequestOK(q)') /\ HeldOnce'
  <1>1. ASSUME NEW q \in Requests \ {r} PROVE RequestOK(q)' /\ HeldId(q)' = HeldId(q)
    BY <1>1, RequestFrame DEF OthersUnchanged
  <1>2. ASSUME NEW q \in Requests PROVE HeldId(q) # 0 => HeldId(q) \in DOMAIN transactions
    BY <1>2 DEF IInv, RequestOK, Inserted, RecordedAt
  <1>3. HeldOnce'
    BY <1>1, <1>2 DEF HeldOnce, IInv
  <1> QED
    BY <1>1, <1>3

\* Nothing that is said of the database changes with anything else.
LEMMA DatabaseFrame ==
    ASSUME IInv, UNCHANGED database
    PROVE  /\ DatabaseGrows
           /\ BalanceNonNegative' /\ AmountsPaid' /\ RefundsWerePaid'
  BY DEF IInv, database, DatabaseGrows, BalanceNonNegative, AmountsPaid, RefundsWerePaid,
         SameKey

\* A handler that stops without an answer that names a transaction.
LEMMA FinishEmpty ==
    ASSUME IInv, NEW r \in Requests, pc[r] # "idle", DatabaseGrows,
           NEW status \in {"400", "404", "500"}, Finish(r, status, 0),
           UNCHANGED request
    PROVE  /\ pc' \in [Requests -> Step]
           /\ loop' \in [Processes -> Requests \cup {None}]
           /\ local' \in [Requests -> Locals]
           /\ response' \in [Requests -> Response]
           /\ \A q \in Requests : RequestOK(q)'
           /\ HeldOnce'
  <1> TypeOK /\ RequestOK(r)
    BY DEF IInv
  <1> USE DEF TypeOK
  <1>1. /\ pc'[r] = "done"
        /\ response'[r].transaction = 0
        /\ response'[r].status \in {"500", "400", "404"}
        /\ request'[r] = request[r]
    BY DEF Finish
  <1>2. HeldId(r)' = 0
    BY <1>1 DEF HeldId
  <1>3. RequestOK(r)'
    BY <1>1, <1>2 DEF RequestOK, Accepted, UserFound, FundFound, Validated, Drafted,
           Inserted, DatabaseSteps
  <1>4. OthersUnchanged(r)
    BY DEF Finish, OthersUnchanged
  <1>5. (\A q \in Requests : RequestOK(q)') /\ HeldOnce'
    BY <1>2, <1>3, <1>4, OthersFrame
  <1>6. NoLocals \in Locals /\ [status |-> status, transaction |-> 0] \in Response
    BY DEF NoLocals, Locals, Response
  <1>7. "done" \in Step
    BY DEF Step
  <1> QED
    BY <1>5, <1>6, <1>7 DEF Finish

-----------------------------------------------------------------------------
(* One lemma per action.                                                       *)

LEMMA ReceiveStep == ASSUME IInv, NEW r \in Requests, Receive(r) PROVE IInv'
  <1> TypeOK /\ RequestOK(r)
    BY DEF IInv
  <1>1. PICK p \in Processes, s \in Subs, b \in Bodies :
            request' = [request EXCEPT ![r] = [process |-> p, sub |-> s, body |-> b]]
    BY DEF Receive
  <1>2. UNCHANGED database
    BY DEF Receive, database
  <1>3. TypeOK'
    BY <1>1 DEF Receive, TypeOK, Step, Request
  <1>4. /\ pc[r] = "idle"
        /\ pc'[r] = "queued"
        /\ request'[r] = [process |-> p, sub |-> s, body |-> b]
        /\ response'[r] = response[r]
        /\ OthersUnchanged(r)
    BY <1>1 DEF Receive, TypeOK, OthersUnchanged
  <1>5. HeldId(r)' = 0
    BY <1>4 DEF RequestOK, Inserted, HeldId, NoResponse
  <1>6. RequestOK(r)'
    BY <1>4, <1>5 DEF RequestOK, Accepted, UserFound, FundFound, Validated, Drafted,
           Inserted, DatabaseSteps
  <1> QED
    BY <1>2, <1>3, <1>4, <1>5, <1>6, DatabaseFrame, OthersFrame DEF IInv

LEMMA FindUserStep == ASSUME IInv, NEW r \in Requests, FindUser(r) PROVE IInv'
  <1> TypeOK /\ RequestOK(r) /\ BalanceNonNegative
    BY DEF IInv
  <1>1. UNCHANGED database /\ pc[r] = "queued"
    BY DEF FindUser, CanStart, database
  <1>2. CASE Finish(r, "404", 0) \/ Finish(r, "500", 0)
    <2>1. UNCHANGED <<request, database, sent, clock>>
      BY DEF FindUser
    <2>2. TypeOK'
      BY <1>1, <1>2, <2>1, FinishEmpty, DatabaseFrame DEF TypeOK, database
    <2> QED
      BY <1>1, <1>2, <2>1, <2>2, FinishEmpty, DatabaseFrame DEF IInv
  <1>3. CASE /\ users[Sub(r)] # None
             /\ loop' = [loop EXCEPT ![Process(r)] = r]
             /\ local' = [local EXCEPT ![r].user = users[Sub(r)]]
             /\ Goto(r, "get_fund")
    <2>1. Sub(r) \in Subs /\ users[Sub(r)] \in UserOut /\ users[Sub(r)].balance >= 0
      BY <1>1, <1>3 DEF RequestOK, Accepted, Sub, TypeOK, BalanceNonNegative
    <2>2. TypeOK'
      <3>1. [local[r] EXCEPT !.user = users[Sub(r)]] \in Locals
        BY <2>1 DEF TypeOK, Locals
      <3>2. local' \in [Requests -> Locals]
        BY <1>3, <3>1 DEF TypeOK
      <3>3. loop' \in [Processes -> Requests \cup {None}]
        BY <1>3 DEF TypeOK
      <3>4. pc' \in [Requests -> Step]
        BY <1>3 DEF Goto, TypeOK, Step
      <3> QED
        BY <1>3, <3>2, <3>3, <3>4 DEF FindUser, Goto, TypeOK, database
    <2>3. /\ pc'[r] = "get_fund"
          /\ request'[r] = request[r]
          /\ response'[r] = response[r]
          /\ local'[r].user = users[Sub(r)]
          /\ OthersUnchanged(r)
      BY <1>3, <2>1 DEF FindUser, Goto, TypeOK, Locals, OthersUnchanged
    <2>4. HeldId(r)' = HeldId(r)
      BY <1>1, <2>3 DEF HeldId
    <2>5. RequestOK(r)'
      BY <1>1, <2>1, <2>3, <2>4 DEF RequestOK, Accepted, UserFound, FundFound, Validated,
             Drafted, Inserted, RecordedAt, DatabaseSteps, Sub, Body, database
    <2> QED
      BY <1>1, <2>2, <2>3, <2>4, <2>5, DatabaseFrame, OthersFrame DEF IInv
  <1> QED
    BY <1>2, <1>3 DEF FindUser

LEMMA FindFundStep == ASSUME IInv, NEW r \in Requests, FindFund(r) PROVE IInv'
  <1> TypeOK /\ RequestOK(r)
    BY DEF IInv
  <1>1. UNCHANGED <<request, database, sent, clock>> /\ pc[r] = "get_fund"
    BY DEF FindFund
  <1>2. CASE Finish(r, "404", 0) \/ Finish(r, "500", 0)
    <2>1. TypeOK'
      BY <1>1, <1>2, FinishEmpty, DatabaseFrame DEF TypeOK, database
    <2> QED
      BY <1>1, <1>2, <2>1, FinishEmpty, DatabaseFrame DEF IInv
  <1>3. CASE /\ Body(r).fund_id \in DOMAIN FundOf
             /\ FundOf[Body(r).fund_id] # None
             /\ Goto(r, "get_transactions")
             /\ UNCHANGED <<loop, local>>
    <2>1. TypeOK'
      BY <1>1, <1>3 DEF Goto, TypeOK, Step, database
    <2>2. pc'[r] = "get_transactions" /\ UNCHANGED <<request, local, response>>
      BY <1>1, <1>3 DEF Goto, TypeOK
    <2>3. OthersUnchanged(r)
      BY <1>3, <2>2 DEF Goto, TypeOK, OthersUnchanged
    <2>4. HeldId(r)' = HeldId(r)
      BY <1>1, <2>2 DEF HeldId
    <2>5. RequestOK(r)'
      BY <1>1, <1>3, <2>2, <2>4 DEF RequestOK, Accepted, UserFound, FundFound, Validated,
             Drafted, Inserted, RecordedAt, DatabaseSteps, Sub, Body, database
    <2> QED
      BY <1>1, <2>1, <2>3, <2>4, <2>5, DatabaseFrame, OthersFrame DEF IInv
  <1> QED
    BY <1>2, <1>3 DEF FindFund

LEMMA FindTransactionsStep ==
    ASSUME IInv, NEW r \in Requests, FindTransactions(r) PROVE IInv'
  <1> DEFINE active == ActiveSubscription(transactions, Sub(r), Body(r).fund_id)
  <1> TypeOK /\ RequestOK(r)
    BY DEF IInv
  <1>1. UNCHANGED <<request, database, sent, clock>> /\ pc[r] = "get_transactions"
    BY DEF FindTransactions
  <1>2. CASE Finish(r, "400", 0)
    <2>1. TypeOK'
      BY <1>1, <1>2, FinishEmpty, DatabaseFrame DEF TypeOK, database
    <2> QED
      BY <1>1, <1>2, <2>1, FinishEmpty, DatabaseFrame DEF IInv
  <1>3. CASE /\ ~ Refused(r, active)
             /\ local' = [local EXCEPT ![r].active_subscription = active]
             /\ Goto(r, "update_balance")
             /\ UNCHANGED loop
    <2>1. /\ Sub(r) \in Subs
          /\ Body(r) \in TransactionIn
          /\ Body(r).fund_id \in DOMAIN FundOf
          /\ FundOf[Body(r).fund_id] # None
          /\ local[r].user \in UserOut
          /\ local[r].user.balance >= 0
      BY <1>1, ConstantsAssumption DEF ConstantsAssumption, RequestOK, Accepted, FundFound,
             UserFound, Sub, Body, DatabaseSteps
    <2>2. Body(r).fund_id \in FundIds /\ MinAmount[FundOf[Body(r).fund_id]] \in Nat
      BY <2>1, ConstantsAssumption DEF ConstantsAssumption, TransactionIn
    <2>3. 0 \notin DOMAIN transactions
      BY DEF TypeOK
    <2>4. active # 0 =>
            /\ active \in History(transactions, Sub(r), Body(r).fund_id)
            /\ transactions[active].transaction_type = "subscribe"
      BY <2>1, <2>2, <2>3, ActiveSubscriptionIsLatest, LatestFound
    <2> HIDE DEF active
    <2>5. active \in Nat
      BY <2>4 DEF History, TypeOK
    <2>6. TypeOK'
      BY <1>1, <1>3, <2>5 DEF Goto, TypeOK, Step, Locals, database
    <2>7. /\ pc'[r] = "update_balance"
          /\ UNCHANGED <<request, response>>
          /\ local'[r] = [local[r] EXCEPT !.active_subscription = active]
          /\ OthersUnchanged(r)
      BY <1>1, <1>3 DEF Goto, TypeOK, OthersUnchanged
    <2>8. HeldId(r)' = HeldId(r)
      BY <1>1, <2>7 DEF HeldId
    <2>9. Validated(r)'
      <3>1. CASE Body(r).transaction_type = "subscribe"
        <4>1. /\ active = 0
              /\ Body(r).amount \in Int
              /\ MinAmount[FundOf[Body(r).fund_id]] <= Body(r).amount
              /\ Body(r).amount <= local[r].user.balance
          BY <1>3, <2>1, <2>2, <3>1 DEF Refused, TransactionIn, UserOut
        <4>2. /\ local'[r].active_subscription = 0
              /\ local'[r].user = local[r].user
              /\ Body(r)' = Body(r)
          BY <2>7, <4>1 DEF Body, Locals, TypeOK
        <4>3. local[r].user.balance \in Int
          BY <2>1 DEF UserOut
        <4> QED
          BY <2>2, <3>1, <4>1, <4>2, <4>3 DEF Validated
      <3>2. CASE Body(r).transaction_type # "subscribe"
        <4>1. active # 0
          BY <1>3, <3>2 DEF Refused
        <4> QED
          BY <1>1, <2>4, <2>7, <3>2, <4>1 DEF Validated, Body, Sub, Locals, TypeOK,
                 History, database
      <3> QED
        BY <3>1, <3>2
    <2>10. RequestOK(r)'
      BY <1>1, <2>1, <2>7, <2>8, <2>9 DEF RequestOK, Accepted, UserFound, FundFound,
             Drafted, Inserted, RecordedAt, DatabaseSteps, Sub, Body, Locals, TypeOK, database
    <2> QED
      BY <1>1, <2>6, <2>7, <2>8, <2>10, DatabaseFrame, OthersFrame DEF IInv
  <1> QED
    BY <1>2, <1>3 DEF FindTransactions

\* The amount that changes hands is one that was validated, or one that was paid.
LEMMA AmountIsPaid ==
    ASSUME IInv, NEW r \in Requests, pc[r] \in {"update_balance", "insert"}
    PROVE  /\ Amount(r) \in Nat \ {0}
           /\ Body(r).transaction_type = "subscribe" => Amount(r) <= local[r].user.balance
           /\ Body(r).transaction_type \in TransactionType
           /\ Body(r).fund_id \in FundIds
           /\ Sub(r) \in Subs
           /\ Process(r) \in Processes
  <1> TypeOK /\ RequestOK(r) /\ AmountsPaid
    BY DEF IInv
  <1>1. Body(r) \in TransactionIn /\ Sub(r) \in Subs /\ Process(r) \in Processes
    BY ConstantsAssumption DEF ConstantsAssumption, RequestOK, Accepted, Body, Sub, Process
  <1>2. CASE Body(r).transaction_type = "subscribe"
    <2>1. MinAmount[FundOf[Body(r).fund_id]] \in Nat \ {0} /\ local[r].user.balance \in Int
      BY ConstantsAssumption DEF ConstantsAssumption, RequestOK, FundFound, UserFound, UserOut,
             DatabaseSteps
    <2> QED
      BY <1>1, <1>2, <2>1 DEF RequestOK, Validated, Amount, TransactionIn
  <1>3. CASE Body(r).transaction_type # "subscribe"
    <2> DEFINE active == local[r].active_subscription
    <2>1. active \in DOMAIN transactions /\ transactions[active] \in Transaction
      BY <1>3 DEF RequestOK, Validated, History, TypeOK
    <2>2. transactions[active].amount \in Nat \ {0}
      BY <2>1 DEF AmountsPaid, Transaction
    <2> QED
      BY <1>1, <1>3, <2>2 DEF Amount, TransactionIn
  <1> QED
    BY <1>2, <1>3

LEMMA SetBalanceKeeps ==
    ASSUME IInv, NEW r \in Requests, pc[r] = "update_balance", SetBalance(r),
           UNCHANGED transactions
    PROVE  /\ users' \in [Subs -> UserOut \cup {None}]
           /\ DatabaseGrows
           /\ BalanceNonNegative' /\ AmountsPaid' /\ RefundsWerePaid'
  <1> TypeOK /\ RequestOK(r)
    BY DEF IInv
  <1>1. /\ users[Sub(r)] \in UserOut
        /\ local[r].user \in UserOut
        /\ local[r].user.balance >= 0
    BY DEF RequestOK, UserFound, DatabaseSteps
  <1>2. local[r].user.balance \in Int
    BY <1>1 DEF UserOut
  <1>3. NewBalance(r) \in Nat
    BY <1>1, <1>2, AmountIsPaid DEF NewBalance
  <1>4. /\ users' = [users EXCEPT ![Sub(r)] = [users[Sub(r)] EXCEPT !.balance = NewBalance(r)]]
        /\ Sub(r) \in Subs
    BY AmountIsPaid DEF SetBalance
  <1> DEFINE user == [users[Sub(r)] EXCEPT !.balance = NewBalance(r)]
  <1>5. user \in UserOut /\ user.balance = NewBalance(r)
    BY <1>1, <1>3 DEF UserOut
  <1> HIDE DEF user
  <1>6. users' \in [Subs -> UserOut \cup {None}]
    BY <1>4, <1>5 DEF user, TypeOK
  <1>7. \A s \in Subs : users'[s] = IF s = Sub(r) THEN user ELSE users[s]
    BY <1>4 DEF user, TypeOK
  <1>8. BalanceNonNegative'
    BY <1>3, <1>5, <1>7 DEF IInv, BalanceNonNegative
  <1>9. DatabaseGrows
    BY <1>5, <1>7 DEF DatabaseGrows
  <1>10. AmountsPaid' /\ RefundsWerePaid'
    BY DEF IInv, AmountsPaid, RefundsWerePaid, SameKey
  <1> QED
    BY <1>6, <1>8, <1>9, <1>10

LEMMA UpdateBalanceStep == ASSUME IInv, NEW r \in Requests, UpdateBalance(r) PROVE IInv'
  <1> TypeOK /\ RequestOK(r)
    BY DEF IInv
  <1>1. /\ pc[r] = "update_balance"
        /\ SetBalance(r)
        /\ UNCHANGED <<transactions, request, response, sent, clock, loop>>
    BY DEF UpdateBalance, Goto
  <1>2. TransactionData(r) \in Transaction
    BY <1>1, AmountIsPaid DEF TransactionData, Transaction, TypeOK
  <1>3. TypeOK'
    <2>1. [local[r] EXCEPT !.transaction_data = TransactionData(r)] \in Locals
      <3>1. local[r] \in Locals
        BY DEF TypeOK
      <3> QED
        BY <1>2, <3>1 DEF Locals
    <2>2. local' \in [Requests -> Locals]
      BY <2>1 DEF UpdateBalance, TypeOK
    <2> QED
      BY <1>1, <2>2, SetBalanceKeeps DEF UpdateBalance, Goto, TypeOK, Step
  <1>4. /\ pc'[r] = "insert"
        /\ local'[r] = [local[r] EXCEPT !.transaction_data = TransactionData(r)]
        /\ OthersUnchanged(r)
    BY <1>1 DEF UpdateBalance, Goto, TypeOK, OthersUnchanged
  <1>5. /\ local'[r].transaction_data = TransactionData(r)
        /\ local'[r].user = local[r].user
        /\ local'[r].active_subscription = local[r].active_subscription
    BY <1>4 DEF TypeOK, Locals
  <1>6. HeldId(r)' = HeldId(r)
    BY <1>1, <1>4 DEF HeldId
  <1>7. Amount(r)' = Amount(r) /\ Body(r)' = Body(r) /\ Sub(r)' = Sub(r)
    BY <1>1, <1>5 DEF Amount, Body, Sub
  <1>8. Drafted(r)'
    BY <1>2, <1>5, <1>7 DEF Drafted, TransactionData
  <1>9. UserFound(r)'
    BY <1>1, <1>5, <1>7, AmountIsPaid, SetBalanceKeeps DEF UserFound, RequestOK, DatabaseGrows,
           DatabaseSteps
  <1>10. RequestOK(r)'
    BY <1>1, <1>4, <1>5, <1>6, <1>7, <1>8, <1>9 DEF RequestOK, Accepted, FundFound, Validated,
           Inserted, RecordedAt, DatabaseSteps, History
  <1> QED
    BY <1>1, <1>3, <1>4, <1>6, <1>10, SetBalanceKeeps, OthersFrame DEF IInv

LEMMA InsertOneKeeps ==
    ASSUME IInv, NEW r \in Requests, pc[r] = "insert", InsertOne(r), UNCHANGED users
    PROVE  /\ transactions' \in Seq(Transaction)
           /\ Len(transactions') = Len(transactions) + 1
           /\ transactions'[Len(transactions) + 1] = local[r].transaction_data
           /\ DatabaseGrows
           /\ BalanceNonNegative' /\ AmountsPaid' /\ RefundsWerePaid'
  <1> DEFINE data == local[r].transaction_data
             n == Len(transactions) + 1
  <1> TypeOK /\ RequestOK(r)
    BY DEF IInv
  <1>1. /\ data \in Transaction
        /\ data.user_id = Sub(r)
        /\ data.fund_id = Body(r).fund_id
        /\ data.amount = Amount(r)
        /\ data.transaction_type = Body(r).transaction_type
    BY DEF RequestOK, Drafted
  <1>2. transactions' = Append(transactions, data)
    BY DEF InsertOne
  <1> HIDE DEF data
  <1>3. /\ transactions' \in Seq(Transaction)
        /\ Len(transactions') = n
        /\ transactions'[n] = data
        /\ DOMAIN transactions' = DOMAIN transactions \cup {n}
        /\ \A i \in DOMAIN transactions : i < n /\ transactions'[i] = transactions[i]
    BY <1>1, <1>2 DEF TypeOK
  <1>4. DatabaseGrows
    BY <1>3 DEF DatabaseGrows
  <1>5. BalanceNonNegative'
    BY DEF IInv, BalanceNonNegative
  <1>6. AmountsPaid'
    BY <1>1, <1>3, AmountIsPaid DEF IInv, AmountsPaid
  <1>7. RefundsWerePaid'
    <2> SUFFICES ASSUME NEW j \in DOMAIN transactions',
                        transactions'[j].transaction_type = "cancel"
                 PROVE  \E i \in DOMAIN transactions' :
                            /\ i < j
                            /\ SameKey(transactions', i, j)
                            /\ transactions'[i].transaction_type = "subscribe"
                            /\ transactions'[i].amount = transactions'[j].amount
      BY DEF RefundsWerePaid
    <2>1. CASE j \in DOMAIN transactions
      BY <1>3, <2>1 DEF IInv, RefundsWerePaid, SameKey
    <2>2. CASE j = n
      <3> DEFINE active == local[r].active_subscription
      <3>1. /\ active \in DOMAIN transactions
            /\ transactions[active].user_id = Sub(r)
            /\ transactions[active].fund_id = Body(r).fund_id
            /\ transactions[active].transaction_type = "subscribe"
            /\ transactions[active].amount = Amount(r)
        BY <1>1, <1>3, <2>2 DEF RequestOK, Validated, Amount, History
      <3> QED
        BY <1>1, <1>3, <2>2, <3>1 DEF SameKey
    <2> QED
      BY <1>3, <2>1, <2>2
  <1> QED
    BY <1>3, <1>4, <1>5, <1>6, <1>7 DEF data

LEMMA InsertStep == ASSUME IInv, NEW r \in Requests, Insert(r) PROVE IInv'
  <1> PICK n : n = Len(transactions) + 1
    OBVIOUS
  <1> TypeOK /\ RequestOK(r)
    BY DEF IInv
  <1>1. /\ pc[r] = "insert"
        /\ InsertOne(r)
        /\ UNCHANGED <<users, request, response, sent, clock, loop>>
    BY DEF Insert, Goto
  <1>2. /\ n \in Nat \ {0} /\ n \notin DOMAIN transactions /\ n \in DOMAIN transactions'
        /\ transactions'[n] = local[r].transaction_data
        /\ local' = [local EXCEPT ![r].new_transaction = n]
    BY <1>1, InsertOneKeeps DEF TypeOK, Insert
  <1>3. TypeOK'
    <2>1. transactions' \in Seq(Transaction)
      BY <1>1, InsertOneKeeps
    <2>2. [local[r] EXCEPT !.new_transaction = n] \in Locals
      <3>1. local[r] \in Locals /\ n \in Nat
        BY <1>2 DEF TypeOK
      <3> QED
        BY <3>1 DEF Locals
    <2>3. local' \in [Requests -> Locals]
      BY <1>2, <2>2 DEF TypeOK
    <2> QED
      BY <1>1, <2>1, <2>3 DEF Insert, Goto, TypeOK, Step
  <1>4. /\ pc'[r] = "find_inserted"
        /\ local'[r] = [local[r] EXCEPT !.new_transaction = n]
        /\ OthersUnchanged(r)
    BY <1>1, <1>2 DEF Insert, Goto, TypeOK, OthersUnchanged
  <1>5. /\ local'[r].new_transaction = n
        /\ local'[r].user = local[r].user
        /\ local'[r].active_subscription = local[r].active_subscription
    BY <1>4 DEF TypeOK, Locals
  <1>6. HeldId(r)' = n
    BY <1>4, <1>5 DEF HeldId
  <1>7. Body(r)' = Body(r) /\ Sub(r)' = Sub(r)
    BY <1>1 DEF Body, Sub
  <1>8. RecordedAt(r, n)'
    BY <1>1, <1>2, <1>7 DEF RequestOK, Drafted, RecordedAt, Amount
  <1>9. Validated(r)'
    BY <1>1, <1>5, <1>7, InsertOneKeeps DEF RequestOK, Validated, History, DatabaseGrows
  <1>10. RequestOK(r)'
    BY <1>1, <1>2, <1>4, <1>5, <1>6, <1>7, <1>8, <1>9 DEF RequestOK, Accepted, UserFound,
           FundFound, Drafted, Inserted, DatabaseSteps
  <1> QED
    BY <1>1, <1>2, <1>3, <1>4, <1>6, <1>10, InsertOneKeeps, OthersFrame DEF IInv

\* A handler that answers 200 names the transaction it inserted.
LEMMA FinishRecorded ==
    ASSUME IInv, NEW r \in Requests, pc[r] \in {"find_inserted", "send_message"},
           Finish(r, "200", local[r].new_transaction),
           UNCHANGED <<database, clock, request>>, sent' \subseteq Nat
    PROVE  IInv'
  <1> PICK id : id = local[r].new_transaction
    OBVIOUS
  <1> TypeOK /\ RequestOK(r)
    BY DEF IInv
  <1>1. id \in Nat \ {0} /\ id = HeldId(r) /\ RecordedAt(r, id)
    BY DEF RequestOK, Inserted, HeldId, TypeOK, Locals
  <1>2. /\ "done" \in Step
        /\ NoLocals \in Locals
        /\ [status |-> "200", transaction |-> id] \in Response
    BY <1>1 DEF Step, NoLocals, Locals, Response
  <1>3. TypeOK'
    BY <1>2 DEF Finish, TypeOK, database
  <1>4. /\ pc'[r] = "done"
        /\ request'[r] = request[r]
        /\ response'[r].status = "200"
        /\ response'[r].transaction = id
        /\ OthersUnchanged(r)
    BY DEF Finish, TypeOK, OthersUnchanged
  <1>5. HeldId(r)' = id
    BY <1>4 DEF HeldId
  <1>6. RecordedAt(r, id)'
    BY <1>1, <1>4 DEF RecordedAt, Sub, Body, database
  <1>7. RequestOK(r)'
    BY <1>1, <1>4, <1>5, <1>6 DEF RequestOK, Accepted, UserFound, FundFound, Validated,
           Drafted, Inserted, DatabaseSteps
  <1> QED
    BY <1>1, <1>3, <1>4, <1>5, <1>7, DatabaseFrame, OthersFrame DEF IInv

LEMMA FindInsertedStep == ASSUME IInv, NEW r \in Requests, FindInserted(r) PROVE IInv'
  <1> TypeOK /\ RequestOK(r)
    BY DEF IInv
  <1>1. UNCHANGED <<request, database, sent, clock>> /\ pc[r] = "find_inserted"
    BY DEF FindInserted
  <1>2. CASE Finish(r, "200", local[r].new_transaction)
    BY <1>1, <1>2, FinishRecorded DEF TypeOK
  <1>3. CASE Goto(r, "send_message") /\ UNCHANGED <<loop, local>>
    <2>1. TypeOK'
      BY <1>1, <1>3 DEF Goto, TypeOK, Step, database
    <2>2. /\ pc'[r] = "send_message"
          /\ UNCHANGED <<request, local, response>>
          /\ OthersUnchanged(r)
      BY <1>1, <1>3 DEF Goto, TypeOK, OthersUnchanged
    <2>3. HeldId(r)' = HeldId(r)
      BY <1>1, <2>2 DEF HeldId
    <2>4. RequestOK(r)'
      BY <1>1, <2>2, <2>3 DEF RequestOK, Accepted, UserFound, FundFound, Validated, Drafted,
             Inserted, RecordedAt, DatabaseSteps, History, Sub, Body, database
    <2> QED
      BY <1>1, <2>1, <2>2, <2>3, <2>4, DatabaseFrame, OthersFrame DEF IInv
  <1> QED
    BY <1>2, <1>3 DEF FindInserted

LEMMA SendMessageStep == ASSUME IInv, NEW r \in Requests, SendMessage(r) PROVE IInv'
  <1> TypeOK /\ RequestOK(r)
    BY DEF IInv
  <1>1. UNCHANGED <<request, database, clock>> /\ pc[r] = "send_message"
    BY DEF SendMessage
  <1>2. sent' \subseteq Nat
    <2>1. local[r].new_transaction \in Nat /\ sent \subseteq Nat
      BY DEF TypeOK, Locals
    <2> QED
      BY <2>1 DEF SendMessage
  <1>3. CASE Finish(r, "200", local[r].new_transaction)
    BY <1>1, <1>2, <1>3, FinishRecorded
  <1>4. CASE Finish(r, "500", 0)
    <2>1. TypeOK'
      BY <1>1, <1>2, <1>4, FinishEmpty, DatabaseFrame DEF TypeOK, database
    <2> QED
      BY <1>1, <1>4, <2>1, FinishEmpty, DatabaseFrame DEF IInv
  <1> QED
    BY <1>3, <1>4 DEF SendMessage

LEMMA DatabaseErrorStep == ASSUME IInv, NEW r \in Requests, DatabaseError(r) PROVE IInv'
  <1> TypeOK
    BY DEF IInv
  <1>1. /\ UNCHANGED <<request, database, sent, clock>>
        /\ pc[r] # "idle"
        /\ Finish(r, "500", 0)
    BY DEF DatabaseError, CanStart, DatabaseSteps
  <1>2. TypeOK'
    BY <1>1, FinishEmpty, DatabaseFrame DEF TypeOK, database
  <1> QED
    BY <1>1, <1>2, FinishEmpty, DatabaseFrame DEF IInv

LEMMA LostReplyStep == ASSUME IInv, NEW r \in Requests, LostReply(r) PROVE IInv'
  <1> TypeOK
    BY DEF IInv
  <1>1. UNCHANGED <<request, sent, clock>> /\ Finish(r, "500", 0)
    BY DEF LostReply
  <1>2. CASE pc[r] = "update_balance" /\ SetBalance(r) /\ UNCHANGED transactions
    <2>1. TypeOK'
      BY <1>1, <1>2, FinishEmpty, SetBalanceKeeps DEF TypeOK
    <2> QED
      BY <1>1, <1>2, <2>1, FinishEmpty, SetBalanceKeeps DEF IInv
  <1>3. CASE pc[r] = "insert" /\ InsertOne(r) /\ UNCHANGED users
    <2>1. TypeOK'
      BY <1>1, <1>3, FinishEmpty, InsertOneKeeps DEF TypeOK
    <2> QED
      BY <1>1, <1>3, <2>1, FinishEmpty, InsertOneKeeps DEF IInv
  <1> QED
    BY <1>2, <1>3 DEF LostReply

LEMMA CrashStep == ASSUME IInv, NEW p \in Processes, Crash(p) PROVE IInv'
  <1> DEFINE lost == {r \in Requests : Process(r) = p /\ pc[r] \notin {"idle", "done"}}
  <1> TypeOK
    BY DEF IInv
  <1>1. UNCHANGED <<request, database, sent, clock>>
    BY DEF Crash
  <1>2. /\ "done" \in Step
        /\ NoLocals \in Locals
        /\ [NoResponse EXCEPT !.status = "dropped"] \in Response
    BY DEF Step, NoLocals, Locals, NoResponse, Response
  <1>3. TypeOK'
    BY <1>1, <1>2 DEF Crash, TypeOK, database
  <1>4. ASSUME NEW r \in Requests
        PROVE  RequestOK(r)' /\ HeldId(r)' \in {0, HeldId(r)}
    <2>1. RequestOK(r)
      BY DEF IInv
    <2>2. CASE r \in lost
      <3>1. /\ pc'[r] = "done"
            /\ pc[r] # "idle"
            /\ request'[r] = request[r]
            /\ response'[r].status = "dropped"
            /\ response'[r].transaction = 0
        BY <1>1, <2>2 DEF Crash, NoResponse
      <3>2. HeldId(r)' = 0
        BY <3>1 DEF HeldId
      <3> QED
        BY <2>1, <3>1, <3>2 DEF RequestOK, Accepted, UserFound, FundFound, Validated, Drafted,
               Inserted, DatabaseSteps
    <2>3. CASE r \notin lost
      <3>1. /\ pc'[r] = pc[r]
            /\ request'[r] = request[r]
            /\ local'[r] = local[r]
            /\ response'[r] = response[r]
        BY <1>1, <2>3 DEF Crash
      <3> QED
        BY <1>1, <3>1, DatabaseFrame, RequestFrame
    <2> QED
      BY <2>2, <2>3
  <1>5. HeldOnce'
    BY <1>4 DEF IInv, HeldOnce
  <1> QED
    BY <1>1, <1>3, <1>4, <1>5, DatabaseFrame DEF IInv

\* Only a clock moves, or nothing at all.
LEMMA ClockStep ==
    ASSUME IInv, clock' \in [Processes -> Nat],
           UNCHANGED <<database, sent, loop, pc, request, local, response>>
    PROVE  IInv'
  <1>1. TypeOK'
    BY DEF IInv, TypeOK, database
  <1>2. ASSUME NEW r \in Requests PROVE RequestOK(r)' /\ HeldId(r)' = HeldId(r)
    BY DatabaseFrame, RequestFrame
  <1>3. HeldOnce'
    BY <1>2 DEF IInv, HeldOnce
  <1> QED
    BY <1>1, <1>2, <1>3, DatabaseFrame DEF IInv

THEOREM StepInvariant == IInv /\ [Next]_vars => IInv'
  <1> SUFFICES ASSUME IInv, [Next]_vars PROVE IInv'
    OBVIOUS
  <1>1. ASSUME NEW r \in Requests, Receive(r) PROVE IInv'
    BY <1>1, ReceiveStep
  <1>2. ASSUME NEW r \in Requests, Handler(r) PROVE IInv'
    BY <1>2, FindUserStep, FindFundStep, FindTransactionsStep, UpdateBalanceStep, InsertStep,
       FindInsertedStep, SendMessageStep DEF Handler
  <1>3. ASSUME NEW r \in Requests, DatabaseError(r) \/ LostReply(r) PROVE IInv'
    BY <1>3, DatabaseErrorStep, LostReplyStep
  <1>4. ASSUME NEW p \in Processes, Crash(p) PROVE IInv'
    BY <1>4, CrashStep
  <1>5. ASSUME NEW p \in Processes, Tick(p) \/ SetClockBack(p) PROVE IInv'
    <2>1. clock \in [Processes -> Nat]
      BY DEF IInv, TypeOK
    <2>2. clock' \in [Processes -> Nat]
      BY <1>5, <2>1 DEF Tick, SetClockBack
    <2> QED
      BY <1>5, <2>2, ClockStep DEF Tick, SetClockBack
  <1>6. CASE UNCHANGED vars
    <2>1. clock' \in [Processes -> Nat]
      BY <1>6 DEF IInv, TypeOK, vars
    <2> QED
      BY <1>6, <2>1, ClockStep DEF vars, database
  <1> QED
    BY <1>1, <1>2, <1>3, <1>4, <1>5, <1>6 DEF Next

THEOREM Invariant == Spec => []IInv
  <1> QED
    BY InitInvariant, StepInvariant, PTL DEF Spec

-----------------------------------------------------------------------------
\* Every variable keeps its type: in particular no branch of create_transactions reads
\* a local variable, a user or a subscription that is None (funds.py:84-178).
THEOREM TypeCorrect == Spec => []TypeOK
  <1> QED
    BY Invariant, PTL DEF IInv

\* With any number of processes writing stale balances, and any fault, no balance is
\* negative (funds.py:135-141,163-164).
THEOREM BalancesNonNegative == Spec => []BalanceNonNegative
  <1> QED
    BY Invariant, PTL DEF IInv

\* With any number of processes and any fault, what a cancellation pays back was paid
\* by that user for that fund (funds.py:157-170).
THEOREM RefundsPaid == Spec => []RefundsWerePaid
  <1> QED
    BY Invariant, PTL DEF IInv

\* With any number of processes and any fault, a 200 names a transaction that is
\* recorded, is the one asked for, and is named by no other answer (funds.py:150,176).
THEOREM AcknowledgementsRecorded == Spec => []AcknowledgedAreRecorded
  <1>1. IInv => AcknowledgedAreRecorded
    <2> SUFFICES ASSUME IInv, NEW r \in Requests, response[r].status = "200"
                 PROVE  LET id == response[r].transaction IN
                        /\ RecordedAt(r, id)
                        /\ \A q \in Requests \ {r} : response[q].transaction # id
      BY DEF AcknowledgedAreRecorded, RecordedAt
    <2>1. ASSUME NEW q \in Requests, response[q].transaction # 0
          PROVE  HeldId(q) = response[q].transaction
      BY <2>1 DEF IInv, RequestOK, Inserted, HeldId, NoResponse
    <2>2. response[r].transaction # 0 /\ RecordedAt(r, response[r].transaction)
      BY <2>1 DEF IInv, RequestOK, Inserted
    <2> QED
      BY <2>1, <2>2 DEF IInv, HeldOnce
  <1> QED
    BY <1>1, Invariant, PTL

-----------------------------------------------------------------------------
(* The scan of create_transactions over the sorted history (LedgerScan).       *)

\* The loop over h as a function of the positions seen, as FoldLeft defines it: what a
\* step yields does not depend on what the loop held before.
IsLoop(scan, log, h) ==
    scan = [T \in SUBSET DOMAIN h |->
              IF T = {} THEN 0
              ELSE IF log[h[Max(T)]].transaction_type = "subscribe" THEN h[Max(T)] ELSE 0]

LEMMA ScanLooksAtLast ==
    ASSUME NEW log, NEW s, NEW f,
           NEW h, h = SortedHistory(log, s, f), NEW n \in Nat, DOMAIN h = 1..n
    PROVE  Scan(log, s, f) =
               IF n = 0 THEN 0
               ELSE IF log[h[n]].transaction_type = "subscribe" THEN h[n] ELSE 0
  <1>1. Scan(log, s, f) = (CHOOSE any : IsLoop(any, log, h))[DOMAIN h]
    BY DEF Scan, FoldLeft, MapThenFoldSet, IsLoop
  <1>2. PICK scan : scan = CHOOSE any : IsLoop(any, log, h)
    OBVIOUS
  <1>3. IsLoop(scan, log, h)
    <2>1. \E any : IsLoop(any, log, h)
      BY DEF IsLoop
    <2> QED
      BY <1>2, <2>1
  <1>4. n # 0 => Max(1..n) = n
    BY DEF Max
  <1>5. 1..n = {} <=> n = 0
    OBVIOUS
  <1>6. scan[1..n] = IF n = 0 THEN 0
                     ELSE IF log[h[n]].transaction_type = "subscribe" THEN h[n] ELSE 0
    BY <1>3, <1>4, <1>5 DEF IsLoop
  <1> QED
    BY <1>1, <1>2, <1>6

\* The loop over the sorted history finds what the closed form says.
LEMMA ScanIsActiveSubscription ==
    ASSUME NEW log, NEW s, NEW f,
           IsFiniteSet(History(log, s, f)), Stamped(log, History(log, s, f))
    PROVE  Scan(log, s, f) = ActiveSubscription(log, s, f)
  <1> DEFINE I == History(log, s, f)
             h == SortedHistory(log, s, f)
             n == Cardinality(I)
  <1>1. h \in SetToSeqs(I) /\ InOrder(log, h)
    BY CanBeSorted DEF SortedHistory, InOrder
  <1>2. n \in Nat /\ DOMAIN h = 1..n
    BY <1>1, FS_CardinalityType DEF SetToSeqs
  <1>3. Scan(log, s, f) = IF n = 0 THEN 0
                          ELSE IF log[h[n]].transaction_type = "subscribe" THEN h[n] ELSE 0
    BY <1>2, ScanLooksAtLast
  <1>4. CASE I = {}
    BY <1>3, <1>4, FS_EmptySet DEF ActiveSubscription
  <1>5. CASE I # {}
    <2>1. /\ n # 0
          /\ h[n] \in I
          /\ \A j \in I : NotAfter(log, j, h[n])
      BY <1>1, <1>5, LastIsLatest
    <2>2. /\ LatestOf(log, I) \in I
          /\ \A j \in I : NotAfter(log, j, LatestOf(log, I))
      BY <2>1 DEF LatestOf
    <2>3. LatestOf(log, I) = h[n]
      <3>1. PICK i, j \in I : i = LatestOf(log, I) /\ j = h[n]
        BY <2>1, <2>2
      <3>2. NotAfter(log, i, j) /\ NotAfter(log, j, i)
        BY <2>1, <2>2, <3>1
      <3>3. i = j
        BY <3>2 DEF NotAfter, Stamped
      <3> QED
        BY <3>1, <3>3
    <2> QED
      BY <1>3, <1>5, <2>1, <2>3 DEF ActiveSubscription
  <1> QED
    BY <1>4, <1>5

\* With any number of processes, in whatever order their clocks stamped the history, the
\* loop over the sorted history ends with the subscription in force, or with None after
\* a cancellation (funds.py:111-121).
THEOREM ScanFinds == Spec => []ScanFindsActiveSubscription
  <1>1. TypeOK => ScanFindsActiveSubscription
    BY LatestFound, ScanIsActiveSubscription DEF ScanFindsActiveSubscription
  <1> QED
    BY <1>1, TypeCorrect, PTL

-----------------------------------------------------------------------------
(* Notifications.                                                              *)

\* Nobody is notified by SMS: the users found, and the one each handler read.
OptionsKept ==
    /\ \A s \in Subs : users[s] # None => users[s].notif_options \in NotifOptions
    /\ \A r \in Requests :
          pc[r] \in DatabaseSteps \cup {"send_message"} =>
              local[r].user.notif_options \in NotifOptions

\* No request changes how a user wants to be notified.
LEMMA OptionsInDatabase ==
    ASSUME IInv, OptionsKept, [Next]_vars
    PROVE  \A s \in Subs : users'[s] # None => users'[s].notif_options \in NotifOptions
  <1>1. CASE UNCHANGED users
    BY <1>1 DEF OptionsKept
  <1>2. ASSUME NEW r \in Requests, pc[r] = "update_balance", SetBalance(r)
        PROVE  \A s \in Subs : users'[s] # None => users'[s].notif_options \in NotifOptions
    <2>1. /\ users[Sub(r)] \in UserOut
          /\ Sub(r) \in Subs
          /\ users \in [Subs -> UserOut \cup {None}]
      BY <1>2, AmountIsPaid DEF IInv, TypeOK, RequestOK, UserFound, DatabaseSteps
    <2>2. users'[Sub(r)] = [users[Sub(r)] EXCEPT !.balance = NewBalance(r)]
      BY <1>2, <2>1 DEF SetBalance
    <2>3. users'[Sub(r)].notif_options = users[Sub(r)].notif_options
      BY <2>1, <2>2 DEF UserOut
    <2>4. \A s \in Subs \ {Sub(r)} : users'[s] = users[s]
      BY <1>2, <2>1 DEF SetBalance
    <2> QED
      BY <2>1, <2>3, <2>4, NoneAssumption DEF NoneAssumption, OptionsKept
  <1> QED
    BY <1>1, <1>2 DEF Next, vars, database, Receive, Handler, FindUser, FindFund,
           FindTransactions, UpdateBalance, Insert, FindInserted, SendMessage, DatabaseError,
           LostReply, Crash, Tick, SetClockBack

\* A request under way keeps the user that FindUser read.
LEMMA UserKept ==
    ASSUME IInv, [Next]_vars, NEW r \in Requests,
           pc'[r] \in DatabaseSteps \cup {"send_message"}
    PROVE  \/ /\ pc[r] \in DatabaseSteps \cup {"send_message"}
              /\ local'[r].user = local[r].user
           \/ /\ Sub(r) \in Subs
              /\ users[Sub(r)] # None
              /\ local'[r].user = users[Sub(r)]
  <1> TypeOK /\ RequestOK(r)
    BY DEF IInv
  <1> USE DEF TypeOK
  <1>1. local[r] \in Locals
    OBVIOUS
  <1>2. CASE UNCHANGED vars
    BY <1>2 DEF vars
  <1>3. ASSUME NEW q \in Requests, Receive(q) PROVE pc[r] = pc'[r] /\ local' = local
    BY <1>3 DEF Receive, DatabaseSteps
  <1>4. ASSUME NEW q \in Requests, NEW status, NEW id, Finish(q, status, id)
        PROVE  pc[r] = pc'[r] /\ local'[r] = local[r]
    BY <1>4 DEF Finish, DatabaseSteps
  <1>5. ASSUME NEW q \in Requests, FindUser(q)
        PROVE  \/ pc[r] = pc'[r] /\ local'[r] = local[r]
               \/ /\ Sub(r) \in Subs
                  /\ users[Sub(r)] # None
                  /\ local'[r].user = users[Sub(r)]
    <2>1. CASE \E status, id : Finish(q, status, id)
      BY <1>4, <2>1
    <2>2. CASE /\ users[Sub(q)] # None
               /\ local' = [local EXCEPT ![q].user = users[Sub(q)]]
               /\ Goto(q, "get_fund")
      <3>1. CASE q = r
        <4>1. Sub(r) \in Subs
          BY <1>5, <3>1 DEF FindUser, CanStart, RequestOK, Accepted, Sub
        <4> QED
          BY <1>1, <2>2, <3>1, <4>1 DEF Locals
      <3>2. CASE q # r
        BY <2>2, <3>2 DEF Goto
      <3> QED
        BY <3>1, <3>2
    <2> QED
      BY <1>5, <2>1, <2>2 DEF FindUser
  <1>6. ASSUME NEW q \in Requests, NEW step, Goto(q, step),
               \/ UNCHANGED local
               \/ \E a : local' = [local EXCEPT ![q].active_subscription = a]
               \/ \E d : local' = [local EXCEPT ![q].transaction_data = d]
               \/ \E i : local' = [local EXCEPT ![q].new_transaction = i],
               pc[q] \in DatabaseSteps
        PROVE  pc[r] \in DatabaseSteps \cup {"send_message"} /\ local'[r].user = local[r].user
    <2>1. CASE q = r
      BY <1>1, <1>6, <2>1 DEF Locals
    <2>2. CASE q # r
      BY <1>6, <2>2 DEF Goto
    <2> QED
      BY <2>1, <2>2
  <1>7. ASSUME NEW q \in Requests, FindFund(q) \/ FindTransactions(q) \/ FindInserted(q)
        PROVE  pc[r] \in DatabaseSteps \cup {"send_message"} /\ local'[r].user = local[r].user
    BY <1>4, <1>6, <1>7 DEF FindFund, FindTransactions, FindInserted, DatabaseSteps
  <1>8. ASSUME NEW q \in Requests, UpdateBalance(q) \/ Insert(q)
        PROVE  pc[r] \in DatabaseSteps \cup {"send_message"} /\ local'[r].user = local[r].user
    BY <1>6, <1>8 DEF UpdateBalance, Insert, DatabaseSteps
  <1>9. ASSUME NEW q \in Requests, SendMessage(q) \/ DatabaseError(q) \/ LostReply(q)
        PROVE  pc[r] = pc'[r] /\ local'[r] = local[r]
    BY <1>4, <1>9 DEF SendMessage, DatabaseError, LostReply
  <1>10. ASSUME NEW p \in Processes, Crash(p)
         PROVE  pc[r] = pc'[r] /\ local'[r] = local[r]
    BY <1>10 DEF Crash, DatabaseSteps
  <1>11. ASSUME NEW p \in Processes, Tick(p) \/ SetClockBack(p)
         PROVE  pc[r] = pc'[r] /\ local'[r] = local[r]
    BY <1>11 DEF Tick, SetClockBack
  <1> QED
    BY <1>2, <1>3, <1>5, <1>7, <1>8, <1>9, <1>10, <1>11 DEF Next, Handler

LEMMA OptionsInvariant == Spec => []OptionsKept
  <1>1. Init => OptionsKept
    BY DEF Init, OptionsKept, DatabaseSteps
  <1>2. IInv /\ OptionsKept /\ [Next]_vars => OptionsKept'
    BY OptionsInDatabase, UserKept DEF OptionsKept
  <1> QED
    BY <1>1, <1>2, Invariant, PTL DEF Spec

\* Where no user chose SMS, whose notifier re-raises (notifications.py:87), a
\* notification that cannot be sent never turns a recorded subscription into an error
\* (notifications.py:66-68, funds.py:172-178).
THEOREM NotifierFailuresHarmless ==
    ASSUME "sms" \notin NotifOptions PROVE Spec => NotifierFailuresAreHarmless
  <1>1. ASSUME IInv, OptionsKept, [Next]_vars,
               NEW r \in Requests, pc[r] = "send_message", pc'[r] = "done"
        PROVE  response'[r].status \in {"200", "dropped"}
    <2> TypeOK
      BY <1>1 DEF IInv
    <2> USE DEF TypeOK
    <2>1. local[r].user.notif_options # "sms"
      BY <1>1 DEF OptionsKept
    <2>2. ASSUME NEW q \in Requests, q # r PROVE ~ Receive(q) /\ ~ Handler(q)
      BY <1>1, <2>2 DEF Receive, Handler, FindUser, FindFund, FindTransactions, UpdateBalance,
             Insert, FindInserted, SendMessage, Finish, Goto
    <2>3. ASSUME NEW q \in Requests PROVE ~ DatabaseError(q) /\ ~ LostReply(q)
      BY <1>1, <2>3 DEF DatabaseError, LostReply, DatabaseSteps, CanStart, Finish
    <2>4. CASE Receive(r) \/ Handler(r)
      <3>1. SendMessage(r)
        BY <1>1, <2>4 DEF Receive, Handler, FindUser, CanStart, FindFund, FindTransactions,
               UpdateBalance, Insert, FindInserted
      <3> QED
        BY <2>1, <3>1 DEF SendMessage, Finish
    <2>5. CASE \E p \in Processes : Crash(p)
      BY <1>1, <2>5 DEF Crash, NoResponse
    <2>6. CASE UNCHANGED pc
      BY <1>1, <2>6
    <2> QED
      BY <1>1, <2>2, <2>3, <2>4, <2>5, <2>6 DEF Next, Tick, SetClockBack, vars
  <1>2. IInv /\ OptionsKept /\ [Next]_vars =>
            [\A r \in Requests : pc[r] = "send_message" /\ pc'[r] = "done" =>
                 response'[r].status \in {"200", "dropped"}]_vars
    BY <1>1
  <1> QED
    BY <1>2, Invariant, OptionsInvariant, PTL DEF Spec, NotifierFailuresAreHarmless

=============================================================================
