--------------------------- MODULE OneProcessProofs ---------------------------
(***************************************************************************)
(* What FundTransactions guarantees when one process serves the database   *)
(* and its clock is not set back: every other fault may happen, and users, *)
(* funds and requests may be any number.                                   *)
(***************************************************************************)
EXTENDS FundTransactionsProofs

OneProcess ==
    /\ \E p : Processes = {p}
    /\ "clock" \notin Faults

(* The inductive invariant.                                                    *)

UnderWay(r) == pc[r] \in DatabaseSteps \cup {"send_message"}

LoopTaken == \A r \in Requests : UnderWay(r) => loop[Process(r)] = r

\* The log is sorted, and no clock is behind it.
LogInOrder ==
    /\ Sorted(transactions)
    /\ \A i \in DOMAIN transactions, p \in Processes :
          transactions[i].timestamp <= clock[p]

\* What the handler found is still so: nobody else writes while it is under way.
StillTrue(r) ==
    /\ pc[r] \in {"get_fund", "get_transactions", "update_balance"} =>
          users[Sub(r)] = local[r].user
    /\ pc[r] = "insert" => users[Sub(r)].balance = NewBalance(r)
    /\ pc[r] \in {"update_balance", "insert"} =>
          local[r].active_subscription =
              ActiveSubscription(transactions, Sub(r), Body(r).fund_id)

\* The draft is stamped after everything recorded, and before now.
DraftLatest(r) ==
    pc[r] = "insert" =>
        /\ \A i \in DOMAIN transactions :
              transactions[i].timestamp <= local[r].transaction_data.timestamp
        /\ local[r].transaction_data.timestamp <= clock[Process(r)]

OInv ==
    /\ IInv
    /\ LoopTaken
    /\ LogInOrder
    /\ \A r \in Requests : StillTrue(r) /\ DraftLatest(r)
    /\ OneSubscriptionAtATime
    /\ CancelsRefundTheirSubscription

-----------------------------------------------------------------------------
LEMMA InitOne == Init => OInv
  <1> SUFFICES ASSUME Init PROVE OInv
    OBVIOUS
  <1>1. IInv
    BY InitInvariant
  <1>2. LoopTaken /\ \A r \in Requests : StillTrue(r) /\ DraftLatest(r)
    BY DEF Init, LoopTaken, UnderWay, StillTrue, DraftLatest, DatabaseSteps
  <1>3. LogInOrder /\ OneSubscriptionAtATime /\ CancelsRefundTheirSubscription
    BY DEF Init, LogInOrder, Sorted, OneSubscriptionAtATime, CancelsRefundTheirSubscription
  <1> QED
    BY <1>1, <1>2, <1>3 DEF OInv

\* While one handler is under way, or about to start, no other is.
LEMMA Alone ==
    ASSUME OneProcess, OInv, NEW r \in Requests, NEW q \in Requests,
           UnderWay(r) \/ CanStart(r), UnderWay(q)
    PROVE  q = r
  <1>1. PICK p : Processes = {p}
    BY DEF OneProcess
  <1>2. Process(r) = p /\ Process(q) = p
    <2>1. pc[r] # "idle" /\ pc[q] # "idle"
      BY DEF UnderWay, CanStart, DatabaseSteps
    <2> QED
      BY <1>1, <2>1 DEF OInv, IInv, RequestOK, Accepted, Process
  <1>3. loop[p] = q
    BY <1>2 DEF OInv, LoopTaken
  <1>4. CASE UnderWay(r)
    BY <1>2, <1>3, <1>4 DEF OInv, LoopTaken
  <1>5. CASE CanStart(r)
    BY <1>2, <1>3, <1>5, NoneAssumption DEF NoneAssumption, CanStart
  <1> QED
    BY <1>4, <1>5

\* Nothing that is said of the log changes unless it grows or a clock is set back.
LEMMA LogFrame ==
    ASSUME OInv, UNCHANGED transactions,
           \A p \in Processes : clock'[p] \in Nat /\ clock[p] <= clock'[p]
    PROVE  LogInOrder' /\ OneSubscriptionAtATime' /\ CancelsRefundTheirSubscription'
  <1>1. LogInOrder'
    <2> SUFFICES ASSUME NEW i \in DOMAIN transactions, NEW p \in Processes
                 PROVE  transactions[i].timestamp <= clock'[p]
      BY DEF OInv, LogInOrder, Sorted
    <2>1. transactions[i] \in Transaction /\ clock[p] \in Nat
      BY DEF OInv, IInv, TypeOK
    <2>2. transactions[i].timestamp \in Nat /\ transactions[i].timestamp <= clock[p]
      BY <2>1 DEF OInv, LogInOrder, Transaction
    <2> QED
      BY <2>1, <2>2
  <1>2. OneSubscriptionAtATime' /\ CancelsRefundTheirSubscription'
    BY DEF OInv, OneSubscriptionAtATime, CancelsRefundTheirSubscription, Follows, SameKey
  <1> QED
    BY <1>1, <1>2

LEMMA LogKept ==
    ASSUME OInv, UNCHANGED <<transactions, clock>>
    PROVE  LogInOrder' /\ OneSubscriptionAtATime' /\ CancelsRefundTheirSubscription'
  <1>1. \A p \in Processes : clock'[p] \in Nat /\ clock[p] <= clock'[p]
    BY DEF OInv, IInv, TypeOK
  <1> QED
    BY <1>1, LogFrame

\* The insertion of a validated transaction keeps the log well formed.
LEMMA LogInsert ==
    ASSUME OneProcess, OInv, NEW r \in Requests, pc[r] = "insert", InsertOne(r),
           UNCHANGED <<clock, users>>
    PROVE  LogInOrder' /\ OneSubscriptionAtATime' /\ CancelsRefundTheirSubscription'
  <1> PICK data, n, active :
        /\ data = local[r].transaction_data
        /\ n = Len(transactions) + 1
        /\ active = local[r].active_subscription
    OBVIOUS
  <1> DEFINE H == History(transactions, Sub(r), Body(r).fund_id)
  <1>1. /\ TypeOK /\ RequestOK(r) /\ StillTrue(r) /\ DraftLatest(r)
        /\ LogInOrder /\ OneSubscriptionAtATime /\ CancelsRefundTheirSubscription
    BY DEF OInv, IInv
  <1>2. /\ data \in Transaction
        /\ data.user_id = Sub(r)
        /\ data.fund_id = Body(r).fund_id
        /\ data.amount = Amount(r)
        /\ data.transaction_type = Body(r).transaction_type
        /\ \A i \in DOMAIN transactions : transactions[i].timestamp <= data.timestamp
        /\ data.timestamp <= clock[Process(r)]
    BY <1>1 DEF RequestOK, Drafted, DraftLatest
  <1>3. transactions' = Append(transactions, data) /\ transactions \in Seq(Transaction)
    BY <1>1 DEF InsertOne, TypeOK
  <1>4. /\ DOMAIN transactions' = DOMAIN transactions \cup {n}
        /\ transactions'[n] = data
        /\ \A i \in DOMAIN transactions :
              i \in Nat /\ i < n /\ transactions'[i] = transactions[i]
        /\ n \in Nat
    BY <1>2, <1>3
  <1>5. /\ Sub(r) \in Subs
        /\ Body(r).fund_id \in FundIds
        /\ HasLatest(transactions, Sub(r), Body(r).fund_id)
    BY AmountIsPaid, LatestFound DEF OInv, IInv
  <1>6. /\ \A x \in Transaction : x.timestamp \in Int
        /\ WellTimed(transactions)
        /\ Sorted(transactions)
    <2>1. \A i \in DOMAIN transactions : i \in Nat \ {0} /\ transactions[i] \in Transaction
      BY <1>3
    <2>2. \A x \in Transaction : x.timestamp \in Int
      BY DEF Transaction
    <2> QED
      BY <1>1, <2>1, <2>2 DEF WellTimed, LogInOrder
  <1>7. LogInOrder'
    <2>1. Sorted(transactions')
      BY <1>2, <1>3, <1>5, <1>6, AppendActive
    <2>2. \A p \in Processes : p = Process(r)
      BY AmountIsPaid DEF OneProcess, OInv
    <2>3. \A i \in DOMAIN transactions', p \in Processes :
             transactions'[i].timestamp <= clock[p]
      BY <1>1, <1>2, <1>4, <2>2 DEF LogInOrder
    <2> QED
      BY <2>1, <2>3 DEF LogInOrder
  <1>8. \A i, j \in DOMAIN transactions :
            Follows(transactions', i, j) <=> Follows(transactions, i, j)
    BY <1>2, <1>3, AppendFollows
  <1>9. \A i \in DOMAIN transactions' :
            Follows(transactions', i, n) <=> i \in H /\ \A k \in H : k <= i
    BY <1>2, <1>3, AppendFollows
  <1>10. ASSUME H # {}
         PROVE  \E last \in H :
                   /\ \A k \in H : k <= last
                   /\ active = IF transactions[last].transaction_type = "subscribe"
                               THEN last ELSE 0
    BY <1>1, <1>5, <1>6, <1>10, SortedActive DEF StillTrue
  <1>11. \A i \in H : i \in DOMAIN transactions
    BY DEF History
  <1> HIDE DEF H
  <1>12. OneSubscriptionAtATime'
    <2> SUFFICES ASSUME NEW i \in DOMAIN transactions', NEW j \in DOMAIN transactions',
                        Follows(transactions', i, j)
                 PROVE  \/ transactions'[i].transaction_type = "cancel"
                        \/ transactions'[j].transaction_type = "cancel"
      BY DEF OneSubscriptionAtATime
    <2>1. i < j
      BY DEF Follows
    <2>2. i \in DOMAIN transactions
      BY <1>4, <2>1
    <2>3. CASE j \in DOMAIN transactions
      BY <1>1, <1>4, <1>8, <2>2, <2>3 DEF OneSubscriptionAtATime
    <2>4. CASE j = n /\ Body(r).transaction_type = "cancel"
      BY <1>2, <1>4, <2>4
    <2>5. CASE j = n /\ Body(r).transaction_type # "cancel"
      <3>1. i \in H /\ \A k \in H : k <= i
        BY <1>9, <2>5
      <3>2. active = 0
        BY <1>1, <1>2, <2>5 DEF RequestOK, Validated, Transaction, TransactionType
      <3>3. PICK last \in H :
                /\ \A k \in H : k <= last
                /\ active = IF transactions[last].transaction_type = "subscribe"
                            THEN last ELSE 0
        BY <1>10, <3>1
      <3>4. last = i
        BY <1>4, <1>11, <3>1, <3>3
      <3>5. transactions[i].transaction_type # "subscribe"
        BY <1>4, <1>11, <3>1, <3>2, <3>3, <3>4, <1>3
      <3>6. transactions[i] \in Transaction
        BY <1>3, <2>2
      <3> QED
        BY <1>4, <2>2, <3>5, <3>6 DEF Transaction, TransactionType
    <2> QED
      BY <1>4, <2>3, <2>4, <2>5
  <1>13. CancelsRefundTheirSubscription'
    <2> SUFFICES ASSUME NEW j \in DOMAIN transactions',
                        transactions'[j].transaction_type = "cancel"
                 PROVE  \E i \in DOMAIN transactions' :
                            /\ Follows(transactions', i, j)
                            /\ transactions'[i].transaction_type = "subscribe"
                            /\ transactions'[i].amount = transactions'[j].amount
      BY DEF CancelsRefundTheirSubscription
    <2>1. CASE j \in DOMAIN transactions
      BY <1>1, <1>4, <1>8, <2>1 DEF CancelsRefundTheirSubscription
    <2>2. CASE j = n
      <3>1. /\ active \in H
            /\ transactions[active].transaction_type = "subscribe"
            /\ transactions[active].amount = data.amount
        BY <1>1, <1>2, <1>4, <2>2 DEF RequestOK, Validated, Amount, H
      <3>2. active # 0
        BY <1>3, <1>11, <3>1
      <3>3. \A k \in H : k <= active
        BY <1>10, <3>1, <3>2
      <3>4. Follows(transactions', active, n)
        BY <1>4, <1>9, <1>11, <3>1, <3>3
      <3> QED
        BY <1>4, <1>11, <2>2, <3>1, <3>4
    <2> QED
      BY <1>4, <2>1, <2>2
  <1> QED
    BY <1>7, <1>12, <1>13

\* A step of the handler that is under way need only look after its own request.
LEMMA OneFrame ==
    ASSUME OneProcess, OInv, IInv', NEW r \in Requests, UnderWay(r) \/ CanStart(r),
           OthersUnchanged(r),
           UnderWay(r)' => loop'[Process(r)] = r /\ request'[r] = request[r],
           StillTrue(r)', DraftLatest(r)',
           LogInOrder', OneSubscriptionAtATime', CancelsRefundTheirSubscription'
    PROVE  OInv'
  <1>1. ASSUME NEW q \in Requests, q # r PROVE ~ UnderWay(q)'
    <2>1. ~ UnderWay(q)
      BY <1>1, Alone
    <2> QED
      BY <1>1, <2>1 DEF OthersUnchanged, UnderWay
  <1>2. LoopTaken'
    BY <1>1 DEF LoopTaken, Process
  <1>3. ASSUME NEW q \in Requests PROVE StillTrue(q)' /\ DraftLatest(q)'
    BY <1>1 DEF StillTrue, DraftLatest, UnderWay, DatabaseSteps
  <1> QED
    BY <1>2, <1>3 DEF OInv

\* In particular a handler that stops has nothing to look after.
LEMMA OneFinish ==
    ASSUME OneProcess, OInv, IInv', NEW r \in Requests, UnderWay(r) \/ CanStart(r),
           NEW status, NEW id, Finish(r, status, id), UNCHANGED request,
           LogInOrder', OneSubscriptionAtATime', CancelsRefundTheirSubscription'
    PROVE  OInv'
  <1>1. TypeOK
    BY DEF OInv, IInv
  <1>2. pc'[r] = "done" /\ OthersUnchanged(r)
    BY <1>1 DEF Finish, TypeOK, OthersUnchanged
  <1>3. ~ UnderWay(r)' /\ StillTrue(r)' /\ DraftLatest(r)'
    BY <1>2 DEF UnderWay, StillTrue, DraftLatest, DatabaseSteps
  <1> QED
    BY <1>2, <1>3, OneFrame

LEMMA OneHandler ==
    ASSUME OneProcess, OInv, IInv', NEW r \in Requests, Handler(r)
    PROVE  OInv'
  <1> TypeOK
    BY DEF OInv, IInv
  <1>1. CASE FindUser(r)
    <2>1. CanStart(r) /\ UNCHANGED <<users, transactions, clock, request>>
      BY <1>1 DEF FindUser, database
    <2>2. CASE Finish(r, "404", 0) \/ Finish(r, "500", 0)
      BY LogKept, <2>1, <2>2, OneFinish
    <2>3. CASE /\ loop' = [loop EXCEPT ![Process(r)] = r]
               /\ local' = [local EXCEPT ![r].user = users[Sub(r)]]
               /\ Goto(r, "get_fund")
      <3>1. /\ pc'[r] = "get_fund"
            /\ local'[r].user = users[Sub(r)]
            /\ OthersUnchanged(r)
        BY <2>1, <2>3 DEF Goto, TypeOK, Locals, OthersUnchanged
      <3>2. Process(r) \in Processes
        BY <2>1 DEF CanStart, OInv, IInv, RequestOK, Accepted, Process
      <3>3. loop'[Process(r)] = r
        BY <2>3, <3>2 DEF TypeOK
      <3>4. StillTrue(r)' /\ DraftLatest(r)'
        BY <2>1, <3>1 DEF StillTrue, DraftLatest, Sub
      <3> QED
        BY LogKept, <2>1, <3>1, <3>3, <3>4, OneFrame
    <2> QED
      BY <1>1, <2>2, <2>3 DEF FindUser
  <1>2. CASE FindFund(r)
    <2>1. /\ UnderWay(r)
          /\ pc[r] = "get_fund"
          /\ UNCHANGED <<users, transactions, clock, request>>
      BY <1>2 DEF FindFund, UnderWay, DatabaseSteps, database
    <2>2. CASE Finish(r, "404", 0) \/ Finish(r, "500", 0)
      BY LogKept, <2>1, <2>2, OneFinish
    <2>3. CASE Goto(r, "get_transactions") /\ UNCHANGED <<loop, local>>
      <3>1. pc'[r] = "get_transactions" /\ OthersUnchanged(r)
        BY <2>1, <2>3 DEF Goto, TypeOK, OthersUnchanged
      <3>2. loop'[Process(r)] = r
        BY <2>1, <2>3 DEF OInv, LoopTaken
      <3>3. StillTrue(r)' /\ DraftLatest(r)'
        BY <2>1, <2>3, <3>1 DEF OInv, StillTrue, DraftLatest, Sub
      <3> QED
        BY LogKept, <2>1, <3>1, <3>2, <3>3, OneFrame
    <2> QED
      BY <1>2, <2>2, <2>3 DEF FindFund
  <1>3. CASE FindTransactions(r)
    <2>1. /\ UnderWay(r)
          /\ pc[r] = "get_transactions"
          /\ UNCHANGED <<users, transactions, clock, request>>
      BY <1>3 DEF FindTransactions, UnderWay, DatabaseSteps, database
    <2>2. CASE Finish(r, "400", 0)
      BY LogKept, <2>1, <2>2, OneFinish
    <2>3. ASSUME NEW active,
                 active = ActiveSubscription(transactions, Sub(r), Body(r).fund_id),
                 local' = [local EXCEPT ![r].active_subscription = active],
                 Goto(r, "update_balance"),
                 UNCHANGED loop
          PROVE  OInv'
      <3>1. pc'[r] = "update_balance" /\ OthersUnchanged(r)
        BY <2>1, <2>3 DEF Goto, TypeOK, OthersUnchanged
      <3>2. /\ local'[r].active_subscription = active
            /\ local'[r].user = local[r].user
        BY <2>3 DEF TypeOK, Locals
      <3>3. loop'[Process(r)] = r
        BY <2>1, <2>3 DEF OInv, LoopTaken
      <3>4. Sub(r)' = Sub(r) /\ Body(r)' = Body(r)
        BY <2>1 DEF Sub, Body
      <3>5. StillTrue(r)' /\ DraftLatest(r)'
        BY <2>1, <2>3, <3>1, <3>2, <3>4 DEF OInv, StillTrue, DraftLatest
      <3> QED
        BY LogKept, <2>1, <3>1, <3>3, <3>5, OneFrame
    <2> QED
      BY <1>3, <2>2, <2>3 DEF FindTransactions
  <1>4. CASE UpdateBalance(r)
    <2>1. /\ UnderWay(r)
          /\ pc[r] = "update_balance"
          /\ SetBalance(r)
          /\ UNCHANGED <<transactions, clock, loop, request>>
          /\ local' = [local EXCEPT ![r].transaction_data = TransactionData(r)]
          /\ Goto(r, "insert")
      BY <1>4 DEF UpdateBalance, UnderWay, DatabaseSteps
    <2>2. pc'[r] = "insert" /\ OthersUnchanged(r)
      BY <2>1 DEF Goto, TypeOK, OthersUnchanged
    <2>3. /\ local'[r].transaction_data = TransactionData(r)
          /\ local'[r].active_subscription = local[r].active_subscription
          /\ local'[r].user = local[r].user
      BY <2>1 DEF TypeOK, Locals
    <2>4. loop'[Process(r)] = r
      BY <2>1 DEF OInv, LoopTaken
    <2>5. Sub(r)' = Sub(r) /\ Body(r)' = Body(r) /\ Process(r)' = Process(r)
      BY <2>1 DEF Sub, Body, Process
    <2>6. NewBalance(r)' = NewBalance(r)
      BY <2>1, <2>3, <2>5 DEF NewBalance, Amount
    <2>7. users'[Sub(r)].balance = NewBalance(r)
      <3>1. Sub(r) \in Subs /\ users[Sub(r)] \in UserOut
        BY <2>1, AmountIsPaid DEF OInv, IInv, RequestOK, UserFound, DatabaseSteps
      <3> QED
        BY <2>1, <3>1 DEF SetBalance, TypeOK, UserOut
    <2>8. StillTrue(r)'
      BY <2>1, <2>2, <2>3, <2>5, <2>6, <2>7 DEF OInv, StillTrue
    <2>9. DraftLatest(r)'
      <3>1. Process(r) \in Processes
        BY <2>1, AmountIsPaid DEF OInv
      <3>2. clock[Process(r)] \in Nat
        BY <3>1 DEF TypeOK
      <3>3. TransactionData(r).timestamp = clock[Process(r)]
        BY DEF TransactionData
      <3> QED
        BY <2>1, <2>3, <2>5, <3>1, <3>2, <3>3 DEF OInv, LogInOrder, DraftLatest
    <2> QED
      BY LogKept, <2>1, <2>2, <2>4, <2>8, <2>9, OneFrame
  <1>5. CASE FindInserted(r)
    <2>1. UnderWay(r) /\ pc[r] = "find_inserted" /\ UNCHANGED <<transactions, clock, request>>
      BY <1>5 DEF FindInserted, UnderWay, DatabaseSteps, database
    <2>2. CASE Finish(r, "200", local[r].new_transaction)
      BY LogKept, <2>1, <2>2, OneFinish
    <2>3. CASE Goto(r, "send_message") /\ UNCHANGED <<loop, local>>
      <3>1. pc'[r] = "send_message" /\ OthersUnchanged(r)
        BY <2>1, <2>3 DEF Goto, TypeOK, OthersUnchanged
      <3>2. loop'[Process(r)] = r
        BY <2>1, <2>3 DEF OInv, LoopTaken
      <3>3. StillTrue(r)' /\ DraftLatest(r)'
        BY <3>1 DEF StillTrue, DraftLatest
      <3> QED
        BY LogKept, <2>1, <3>1, <3>2, <3>3, OneFrame
    <2> QED
      BY <1>5, <2>2, <2>3 DEF FindInserted
  <1>6. CASE SendMessage(r)
    <2>1. UnderWay(r) /\ UNCHANGED <<transactions, clock, request>>
      BY <1>6 DEF SendMessage, UnderWay, database
    <2>2. Finish(r, "200", local[r].new_transaction) \/ Finish(r, "500", 0)
      BY <1>6 DEF SendMessage
    <2> QED
      BY LogKept, <2>1, <2>2, OneFinish
  <1>7. CASE Insert(r)
    <2>1. /\ UnderWay(r)
          /\ pc[r] = "insert"
          /\ InsertOne(r)
          /\ UNCHANGED <<clock, users, loop, request>>
          /\ Goto(r, "find_inserted")
      BY <1>7 DEF Insert, UnderWay, DatabaseSteps
    <2>2. pc'[r] = "find_inserted" /\ OthersUnchanged(r)
      BY <1>7, <2>1 DEF Insert, Goto, TypeOK, OthersUnchanged
    <2>3. loop'[Process(r)] = r
      BY <2>1 DEF OInv, LoopTaken
    <2>4. StillTrue(r)' /\ DraftLatest(r)'
      BY <2>2 DEF StillTrue, DraftLatest
    <2>5. LogInOrder' /\ OneSubscriptionAtATime' /\ CancelsRefundTheirSubscription'
      BY <2>1, LogInsert
    <2> QED
      BY <2>1, <2>2, <2>3, <2>4, <2>5, OneFrame
  <1> QED
    BY <1>1, <1>2, <1>3, <1>4, <1>5, <1>6, <1>7 DEF Handler

LEMMA OneDatabaseError ==
    ASSUME OneProcess, OInv, IInv', NEW r \in Requests, DatabaseError(r)
    PROVE  OInv'
  <1>1. /\ UnderWay(r) \/ CanStart(r)
        /\ UNCHANGED <<transactions, clock, request>>
        /\ Finish(r, "500", 0)
    BY DEF DatabaseError, UnderWay, database
  <1> QED
    BY <1>1, LogKept, OneFinish

LEMMA OneLostReply ==
    ASSUME OneProcess, OInv, IInv', NEW r \in Requests, LostReply(r)
    PROVE  OInv'
  <1>1. UnderWay(r) /\ UNCHANGED <<clock, request>> /\ Finish(r, "500", 0)
    BY DEF LostReply, UnderWay, DatabaseSteps
  <1>2. CASE UNCHANGED transactions
    BY <1>1, <1>2, LogKept, OneFinish
  <1>3. CASE pc[r] = "insert" /\ InsertOne(r) /\ UNCHANGED users
    BY <1>1, <1>3, LogInsert, OneFinish
  <1> QED
    BY <1>2, <1>3 DEF LostReply

\* A crash leaves no handler under way.
LEMMA OneCrash ==
    ASSUME OneProcess, OInv, IInv', NEW p \in Processes, Crash(p)
    PROVE  OInv'
  <1>1. ASSUME NEW r \in Requests PROVE ~ UnderWay(r)'
    <2>1. RequestOK(r) /\ TypeOK
      BY DEF OInv, IInv
    <2>2. pc[r] \notin {"idle", "done"} => Process(r) = p
      BY <2>1 DEF RequestOK, Accepted, Process, OneProcess
    <2> QED
      BY <2>2 DEF Crash, UnderWay, DatabaseSteps
  <1>2. LoopTaken' /\ \A r \in Requests : StillTrue(r)' /\ DraftLatest(r)'
    BY <1>1 DEF LoopTaken, StillTrue, DraftLatest, UnderWay, DatabaseSteps
  <1>3. UNCHANGED <<transactions, clock>>
    BY DEF Crash, database
  <1> QED
    BY <1>2, <1>3, LogKept DEF OInv

\* Requests wait, and the clock moves on, without consequence.
LEMMA OneIdle ==
    ASSUME OneProcess, OInv, IInv', UNCHANGED <<users, transactions, loop, local>>,
           \A p \in Processes : clock'[p] \in Nat /\ clock[p] <= clock'[p],
           \A r \in Requests : UnderWay(r)' => pc'[r] = pc[r] /\ request'[r] = request[r]
    PROVE  OInv'
  <1>1. ASSUME NEW r \in Requests
        PROVE  /\ UnderWay(r)' => loop'[Process(r)'] = r
               /\ StillTrue(r)'
               /\ DraftLatest(r)'
    <2>1. CASE ~ UnderWay(r)'
      BY <2>1 DEF StillTrue, DraftLatest, UnderWay, DatabaseSteps
    <2>2. CASE UnderWay(r)'
      <3>1. /\ UnderWay(r) /\ pc'[r] = pc[r] /\ request'[r] = request[r]
            /\ Sub(r)' = Sub(r) /\ Body(r)' = Body(r) /\ Process(r)' = Process(r)
        BY <2>2 DEF UnderWay, Sub, Body, Process
      <3>2. loop'[Process(r)'] = r
        BY <3>1 DEF OInv, LoopTaken
      <3>3. StillTrue(r)'
        BY <3>1 DEF OInv, StillTrue, NewBalance, Amount
      <3>4. DraftLatest(r)'
        <4> SUFFICES ASSUME pc[r] = "insert" PROVE DraftLatest(r)'
          BY <3>1 DEF DraftLatest
        <4>1. Process(r) \in Processes /\ local[r].transaction_data \in Transaction
          BY AmountIsPaid DEF OInv, IInv, RequestOK, Drafted
        <4>2. /\ local[r].transaction_data.timestamp \in Nat
              /\ clock[Process(r)] \in Nat
              /\ clock'[Process(r)] \in Nat
              /\ clock[Process(r)] <= clock'[Process(r)]
          BY <4>1 DEF OInv, IInv, TypeOK, Transaction
        <4> QED
          BY <3>1, <4>2 DEF OInv, DraftLatest
      <3> QED
        BY <3>2, <3>3, <3>4
    <2> QED
      BY <2>1, <2>2
  <1>2. LoopTaken'
    BY <1>1 DEF LoopTaken
  <1> QED
    BY <1>1, <1>2, LogFrame DEF OInv

LEMMA StepOne == OneProcess /\ OInv /\ [Next]_vars => OInv'
  <1> SUFFICES ASSUME OneProcess, OInv, [Next]_vars PROVE OInv'
    OBVIOUS
  <1>1. IInv'
    BY StepInvariant DEF OInv
  <1>2. clock \in [Processes -> Nat]
    BY DEF OInv, IInv, TypeOK
  <1>3. ASSUME NEW r \in Requests, Receive(r) PROVE OInv'
    <2>1. UNCHANGED <<users, transactions, loop, local, clock>>
      BY <1>3 DEF Receive
    <2>2. ASSUME NEW q \in Requests, UnderWay(q)'
          PROVE  pc'[q] = pc[q] /\ request'[q] = request[q]
      <3>1. pc \in [Requests -> Step] /\ request \in [Requests -> Request]
        BY DEF OInv, IInv, TypeOK
      <3> QED
        BY <1>3, <2>2, <3>1 DEF Receive, UnderWay, DatabaseSteps
    <2> QED
      BY <1>1, <1>2, <2>1, <2>2, OneIdle
  <1>4. ASSUME NEW r \in Requests, Handler(r) PROVE OInv'
    BY <1>1, <1>4, OneHandler
  <1>5. ASSUME NEW r \in Requests, DatabaseError(r) \/ LostReply(r) PROVE OInv'
    BY <1>1, <1>5, OneDatabaseError, OneLostReply
  <1>6. ASSUME NEW p \in Processes, Crash(p) PROVE OInv'
    BY <1>1, <1>6, OneCrash
  <1>7. ASSUME NEW p \in Processes, Tick(p) PROVE OInv'
    <2>1. /\ UNCHANGED <<users, transactions, loop, local, pc, request>>
          /\ \A q \in Processes : clock'[q] \in Nat /\ clock[q] <= clock'[q]
      BY <1>2, <1>7 DEF Tick, database
    <2> QED
      BY <1>1, <2>1, OneIdle
  <1>8. ASSUME NEW p \in Processes, SetClockBack(p) PROVE OInv'
    BY <1>8 DEF SetClockBack, OneProcess
  <1>9. CASE UNCHANGED vars
    BY <1>1, <1>2, <1>9, OneIdle DEF vars
  <1> QED
    BY <1>3, <1>4, <1>5, <1>6, <1>7, <1>8, <1>9 DEF Next

THEOREM OneInvariant == ASSUME OneProcess PROVE Spec => []OInv
  <1>1. OInv /\ [Next]_vars => OInv'
    BY StepOne
  <1> QED
    BY <1>1, InitOne, PTL DEF Spec

-----------------------------------------------------------------------------
\* One process whose clock is not set back never records two subscriptions in a row
\* for a user and a fund_id, in spite of errors, lost acknowledgements and crashes
\* (funds.py:111-127).
THEOREM OneSubscription ==
    ASSUME OneProcess PROVE Spec => []OneSubscriptionAtATime
  <1> QED
    BY OneInvariant, PTL DEF OInv

\* Nor a cancellation but of the subscription recorded just before it, with its amount
\* (funds.py:157-176).
THEOREM CancelsRefund ==
    ASSUME OneProcess PROVE Spec => []CancelsRefundTheirSubscription
  <1> QED
    BY OneInvariant, PTL DEF OInv

=============================================================================
