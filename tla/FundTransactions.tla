--------------------------- MODULE FundTransactions ---------------------------
(***************************************************************************)
(* POST /funds/post/transactions: a client subscribes to a fund or cancels *)
(* a subscription (app/routers/funds.py, create_transactions), on top of   *)
(* the repositories of app/repositories and the notifiers of               *)
(* app/notifications.py.                                                   *)
(*                                                                         *)
(* The handler is an "async def" without a single await: once a process    *)
(* enters it, its event loop runs nothing else until it returns.  Several  *)
(* processes may serve the same database (compute.tf creates the new       *)
(* instance before it destroys the old one).  Every call to MongoDB or to  *)
(* a notifier is a step of its own, before which the process may crash and *)
(* which may fail.                                                         *)
(***************************************************************************)
EXTENDS Ledger, FiniteSetsExt

CONSTANTS
    Processes,     \* uvicorn processes that share the database
    Requests,      \* HTTP requests, each made once
    Subs,          \* Cognito subjects; a user document is known by its subject
    FundIds,       \* the strings clients send as fund_id
    FundOf,        \* the fund a well-formed fund_id names, None if there is none
    MinAmount,     \* min_amount of each fund
    Bodies,        \* the TransactionIn bodies that clients send
    NotifOptions,  \* the notif_options found in user documents
    DEFAULT_INITIAL_BALANCE,
    Faults,        \* what can go wrong, a subset of FaultKinds
    MaxClock,      \* bound: no clock goes beyond this value
    None

FaultKinds == {"database", "reply", "crash", "notifier", "clock"}

TransactionType == {"subscribe", "cancel"}

UserOut == [balance : Int, phone : BOOLEAN, notif_options : {"email", "sms"}]

TransactionIn == [fund_id : FundIds, transaction_type : TransactionType,
                  amount : Int \cup {None}]

Transaction == [user_id : Subs, fund_id : FundIds, amount : Int,
                transaction_type : TransactionType, timestamp : Nat]

Step == {"idle", "queued", "get_fund", "get_transactions", "update_balance", "insert",
         "find_inserted", "send_message", "done"}

Request == [process : Processes \cup {None}, sub : Subs \cup {None},
            body : Bodies \cup {None}]

Locals == [user : UserOut \cup {None}, active_subscription : Nat,
           transaction_data : Transaction \cup {None}, new_transaction : Nat]

Response == [status : {"pending", "200", "400", "404", "500", "dropped"},
             transaction : Nat]

ASSUME ConstantsAssumption ==
    /\ Bodies \subseteq TransactionIn
    /\ DOMAIN FundOf \subseteq FundIds
    /\ \A f \in DOMAIN FundOf : FundOf[f] # None => MinAmount[FundOf[f]] \in Nat \ {0}
    /\ NotifOptions \subseteq {"email", "sms"}
    /\ DEFAULT_INITIAL_BALANCE \in Nat
    /\ Faults \subseteq FaultKinds
    /\ MaxClock \in Nat

ASSUME NoneAssumption ==
    /\ None \notin Requests
    /\ None \notin Int
    /\ None \notin UserOut
    /\ None \notin Transaction

VARIABLES
    users,         \* db.users: the document of each subject, None if there is none
    transactions,  \* db.transactions, in insertion order; the position is the _id
    sent,          \* _ids of the subscriptions whose notification went out
    clock,         \* datetime.now() of each process, in the milliseconds BSON keeps
    loop,          \* the request each event loop is in the middle of, or None
    pc,            \* the call each request makes next
    request,       \* what each request asks for, and of which process
    local,         \* the local variables of create_transactions
    response       \* the answer to each request

vars == <<users, transactions, sent, clock, loop, pc, request, local, response>>

database == <<users, transactions>>

-----------------------------------------------------------------------------
NoLocals == [user |-> None, active_subscription |-> 0,
             transaction_data |-> None, new_transaction |-> 0]

NoRequest == [process |-> None, sub |-> None, body |-> None]

NoResponse == [status |-> "pending", transaction |-> 0]

\* Every user document was written by create_user, with or without a phone.
Init ==
    /\ users \in [Subs -> {None} \cup [balance : {DEFAULT_INITIAL_BALANCE},
                                       phone : BOOLEAN, notif_options : NotifOptions]]
    /\ transactions = <<>>
    /\ sent = {}
    /\ clock = [p \in Processes |-> 0]
    /\ loop = [p \in Processes |-> None]
    /\ pc = [r \in Requests |-> "idle"]
    /\ request = [r \in Requests |-> NoRequest]
    /\ local = [r \in Requests |-> NoLocals]
    /\ response = [r \in Requests |-> NoResponse]

\* A request whose token and body were accepted waits for the event loop.
Receive(r) ==
    /\ pc[r] = "idle"
    /\ \E p \in Processes, s \in Subs, b \in Bodies :
          request' = [request EXCEPT ![r] = [process |-> p, sub |-> s, body |-> b]]
    /\ pc' = [pc EXCEPT ![r] = "queued"]
    /\ UNCHANGED <<users, transactions, sent, clock, loop, local, response>>

Process(r) == request[r].process

Sub(r) == request[r].sub

Body(r) == request[r].body

Goto(r, step) ==
    /\ pc' = [pc EXCEPT ![r] = step]
    /\ UNCHANGED response

\* Mutant: the event loop stays taken by a request that raised.
FinishWithoutRelease(r, status, id) ==
    /\ pc' = [pc EXCEPT ![r] = "done"]
    /\ response' = [response EXCEPT ![r] = [status |-> status, transaction |-> id]]
    /\ loop' = IF status = "500" THEN loop ELSE [loop EXCEPT ![Process(r)] = None]
    /\ local' = [local EXCEPT ![r] = NoLocals]

\* The handler returns or raises: the event loop is free and the locals are gone.
Finish(r, status, id) ==
    /\ pc' = [pc EXCEPT ![r] = "done"]
    /\ response' = [response EXCEPT ![r] = [status |-> status, transaction |-> id]]
    /\ loop' = [loop EXCEPT ![Process(r)] = None]
    /\ local' = [local EXCEPT ![r] = NoLocals]

\* The loop picks the request up only when no other handler is under way.
CanStart(r) ==
    /\ pc[r] = "queued"
    /\ loop[Process(r)] = None

\* get_user_by_cognito_id: no document is a 404; one without a phone cannot be
\* turned into a UserOut and raises.
FindUser(r) ==
    /\ CanStart(r)
    /\ LET user == users[Sub(r)] IN
       \/ /\ user = None
          /\ Finish(r, "404", 0)
       \/ /\ user # None
          /\ ~ user.phone
          /\ Finish(r, "500", 0)
       \/ /\ user # None
          /\ user.phone
          /\ loop' = [loop EXCEPT ![Process(r)] = r]
          /\ local' = [local EXCEPT ![r].user = user]
          /\ Goto(r, "get_fund")
    /\ UNCHANGED <<database, sent, clock, request>>

\* get_fund_by_id: ObjectId() raises on a malformed id; an unknown one is a 404.
FindFund(r) ==
    /\ pc[r] = "get_fund"
    /\ LET f == Body(r).fund_id IN
       \/ /\ f \notin DOMAIN FundOf
          /\ Finish(r, "500", 0)
       \/ /\ f \in DOMAIN FundOf
          /\ FundOf[f] = None
          /\ Finish(r, "404", 0)
       \/ /\ f \in DOMAIN FundOf
          /\ FundOf[f] # None
          /\ Goto(r, "get_transactions")
          /\ UNCHANGED <<loop, local>>
    /\ UNCHANGED <<database, sent, clock, request>>

\* Mutant: no check of the balance.
RefusedOnCredit(r, active) ==
    IF Body(r).transaction_type = "subscribe"
    THEN \/ active # 0
         \/ Body(r).amount = None
         \/ Body(r).amount < MinAmount[FundOf[Body(r).fund_id]]
    ELSE active = 0

\* Mutant: no check of the active subscription.
RefusedUnlessSubscribed(r, active) ==
    IF Body(r).transaction_type = "subscribe"
    THEN \/ Body(r).amount = None
         \/ Body(r).amount < MinAmount[FundOf[Body(r).fund_id]]
         \/ local[r].user.balance < Body(r).amount
    ELSE active = 0

\* The conditions under which the handler raises a 400, given active_subscription.
Refused(r, active) ==
    IF Body(r).transaction_type = "subscribe"
    THEN \/ active # 0
         \/ Body(r).amount = None
         \/ Body(r).amount < MinAmount[FundOf[Body(r).fund_id]]
         \/ local[r].user.balance < Body(r).amount
    ELSE active = 0

\* get_transactions_by_user_and_fund, the scan of its result and the validation.
FindTransactions(r) ==
    /\ pc[r] = "get_transactions"
    /\ LET active == ActiveSubscription(transactions, Sub(r), Body(r).fund_id) IN
       IF Refused(r, active)
       THEN Finish(r, "400", 0)
       ELSE /\ local' = [local EXCEPT ![r].active_subscription = active]
            /\ Goto(r, "update_balance")
            /\ UNCHANGED loop
    /\ UNCHANGED <<database, sent, clock, request>>

\* Mutant: a cancellation refunds the first subscription of the user to the fund.
AmountOfFirst(r) ==
    IF Body(r).transaction_type = "subscribe"
    THEN Body(r).amount
    ELSE transactions[Min({i \in History(transactions, Sub(r), Body(r).fund_id) :
                              transactions[i].transaction_type = "subscribe"})].amount

\* Mutant: a cancellation refunds the minimum amount of the fund.
AmountOfFund(r) ==
    IF Body(r).transaction_type = "subscribe"
    THEN Body(r).amount
    ELSE MinAmount[FundOf[Body(r).fund_id]]

\* The amount that changes hands: the one asked for, or the one to refund.
Amount(r) ==
    IF Body(r).transaction_type = "subscribe"
    THEN Body(r).amount
    ELSE transactions[local[r].active_subscription].amount

\* Mutant: the balance is left alone by a cancellation.
NewBalanceKept(r) ==
    IF Body(r).transaction_type = "subscribe"
    THEN local[r].user.balance - Amount(r)
    ELSE local[r].user.balance

\* Mutant: $inc instead of $set, on a balance that was checked earlier.
NewBalanceInc(r) ==
    IF Body(r).transaction_type = "subscribe"
    THEN users[Sub(r)].balance - Amount(r)
    ELSE users[Sub(r)].balance + Amount(r)

\* Computed from the balance read at the start of the handler.
NewBalance(r) ==
    IF Body(r).transaction_type = "subscribe"
    THEN local[r].user.balance - Amount(r)
    ELSE local[r].user.balance + Amount(r)

\* update_user_balance: $set of the balance alone.  No code deletes a user, so its
\* find_one never comes back empty here.
SetBalance(r) == users' = [users EXCEPT ![Sub(r)].balance = NewBalance(r)]

\* Mutant: a cancellation records the amount of its own body.
TransactionDataAsSent(r) ==
    [user_id |-> Sub(r), fund_id |-> Body(r).fund_id, amount |-> Body(r).amount,
     transaction_type |-> Body(r).transaction_type,
     timestamp |-> clock[Process(r)]]

TransactionData(r) ==
    [user_id |-> Sub(r), fund_id |-> Body(r).fund_id, amount |-> Amount(r),
     transaction_type |-> Body(r).transaction_type,
     timestamp |-> clock[Process(r)]]

\* The balance is written first; then the clock is read for the transaction.
UpdateBalance(r) ==
    /\ pc[r] = "update_balance"
    /\ SetBalance(r)
    /\ local' = [local EXCEPT ![r].transaction_data = TransactionData(r)]
    /\ Goto(r, "insert")
    /\ UNCHANGED <<transactions, sent, clock, loop, request>>

InsertOne(r) == transactions' = Append(transactions, local[r].transaction_data)

\* create_transaction, up to insert_one.
Insert(r) ==
    /\ pc[r] = "insert"
    /\ InsertOne(r)
    /\ local' = [local EXCEPT ![r].new_transaction = Len(transactions) + 1]
    /\ Goto(r, "find_inserted")
    /\ UNCHANGED <<users, sent, clock, loop, request>>

\* Mutant: the newest transaction is read back, whoever made it.
FindNewest(r) ==
    /\ pc[r] = "find_inserted"
    /\ IF Body(r).transaction_type = "subscribe"
       THEN /\ Goto(r, "send_message")
            /\ local' = [local EXCEPT ![r].new_transaction = Len(transactions)]
            /\ UNCHANGED loop
       ELSE Finish(r, "200", Len(transactions))
    /\ UNCHANGED <<database, sent, clock, request>>

\* create_transaction reads the document back; a cancellation is not notified.
FindInserted(r) ==
    /\ pc[r] = "find_inserted"
    /\ IF Body(r).transaction_type = "subscribe"
       THEN Goto(r, "send_message") /\ UNCHANGED <<loop, local>>
       ELSE Finish(r, "200", local[r].new_transaction)
    /\ UNCHANGED <<database, sent, clock, request>>

\* Mutant: EmailNotifier re-raises, as SMSNotifier does.
SendMessageOrRaise(r) ==
    /\ pc[r] = "send_message"
    /\ \/ /\ sent' = sent \cup {local[r].new_transaction}
          /\ Finish(r, "200", local[r].new_transaction)
       \/ /\ "notifier" \in Faults
          /\ Finish(r, "500", 0)
          /\ UNCHANGED sent
    /\ UNCHANGED <<database, clock, request>>

\* send_message: EmailNotifier swallows every exception, SMSNotifier re-raises.
SendMessage(r) ==
    /\ pc[r] = "send_message"
    /\ \/ /\ sent' = sent \cup {local[r].new_transaction}
          /\ Finish(r, "200", local[r].new_transaction)
       \/ /\ "notifier" \in Faults
          /\ local[r].user.notif_options = "email"
          /\ Finish(r, "200", local[r].new_transaction)
          /\ UNCHANGED sent
       \/ /\ "notifier" \in Faults
          /\ local[r].user.notif_options = "sms"
          /\ Finish(r, "500", 0)
          /\ UNCHANGED sent
    /\ UNCHANGED <<database, clock, request>>

Handler(r) ==
    \/ FindUser(r)
    \/ FindFund(r)
    \/ FindTransactions(r)
    \/ UpdateBalance(r)
    \/ Insert(r)
    \/ FindInserted(r)
    \/ SendMessage(r)

-----------------------------------------------------------------------------
(* What can go wrong.  Nothing in the handler catches a database exception.    *)

DatabaseSteps == {"get_fund", "get_transactions", "update_balance", "insert",
                  "find_inserted"}

\* A database call raises and has had no effect.
DatabaseError(r) ==
    /\ "database" \in Faults
    /\ CanStart(r) \/ pc[r] \in DatabaseSteps
    /\ Finish(r, "500", 0)
    /\ UNCHANGED <<database, sent, clock, request>>

\* Mutant: a handler that puts the old balance back when the insert raises.
LostReplyUndone(r) ==
    /\ "reply" \in Faults
    /\ \/ /\ pc[r] = "update_balance"
          /\ SetBalance(r)
          /\ UNCHANGED transactions
       \/ /\ pc[r] = "insert"
          /\ InsertOne(r)
          /\ users' = [users EXCEPT ![Sub(r)].balance = local[r].user.balance]
    /\ Finish(r, "500", 0)
    /\ UNCHANGED <<sent, clock, request>>

\* A write is applied, but its acknowledgement is lost and the call raises.
LostReply(r) ==
    /\ "reply" \in Faults
    /\ \/ /\ pc[r] = "update_balance"
          /\ SetBalance(r)
          /\ UNCHANGED transactions
       \/ /\ pc[r] = "insert"
          /\ InsertOne(r)
          /\ UNCHANGED users
    /\ Finish(r, "500", 0)
    /\ UNCHANGED <<sent, clock, request>>

\* A process dies and is started again: its requests are never answered.
Crash(p) ==
    LET lost == {r \in Requests : Process(r) = p /\ pc[r] \notin {"idle", "done"}} IN
    /\ "crash" \in Faults
    /\ lost # {}
    /\ pc' = [r \in Requests |-> IF r \in lost THEN "done" ELSE pc[r]]
    /\ response' = [r \in Requests |->
                      IF r \in lost THEN [NoResponse EXCEPT !.status = "dropped"]
                                    ELSE response[r]]
    /\ local' = [r \in Requests |-> IF r \in lost THEN NoLocals ELSE local[r]]
    /\ loop' = [loop EXCEPT ![p] = None]
    /\ UNCHANGED <<database, sent, clock, request>>

Tick(p) ==
    /\ clock[p] < MaxClock
    /\ clock' = [clock EXCEPT ![p] = @ + 1]
    /\ UNCHANGED <<database, sent, loop, pc, request, local, response>>

\* datetime.now() is wall-clock time, which the operating system may set back.
SetClockBack(p) ==
    /\ "clock" \in Faults
    /\ clock[p] > 0
    /\ clock' = [clock EXCEPT ![p] = @ - 1]
    /\ UNCHANGED <<database, sent, loop, pc, request, local, response>>

Next ==
    \/ \E r \in Requests :
          Receive(r) \/ Handler(r) \/ DatabaseError(r) \/ LostReply(r)
    \/ \E p \in Processes : Crash(p) \/ Tick(p) \/ SetClockBack(p)

Spec == Init /\ [][Next]_vars

\* A handler that is under way, or first in the loop, goes on; clients owe nothing.
FairSpec == Spec /\ \A r \in Requests : WF_vars(Handler(r))

-----------------------------------------------------------------------------
(* Properties.                                                                 *)

\* Every variable keeps the type the code gives it.
TypeOK ==
    /\ users \in [Subs -> UserOut \cup {None}]
    /\ transactions \in Seq(Transaction)
    /\ sent \subseteq Nat
    /\ clock \in [Processes -> Nat]
    /\ loop \in [Processes -> Requests \cup {None}]
    /\ pc \in [Requests -> Step]
    /\ request \in [Requests -> Request]
    /\ local \in [Requests -> Locals]
    /\ response \in [Requests -> Response]

\* A user is never subscribed twice in a row under one fund_id: "Verificar que el
\* usuario no tenga una suscripción activa" (funds.py:125) keeps its word, whatever
\* happened to the requests in between.
OneSubscriptionAtATime ==
    \A i, j \in DOMAIN transactions :
        Follows(transactions, i, j) =>
            \/ transactions[i].transaction_type = "cancel"
            \/ transactions[j].transaction_type = "cancel"

\* A cancellation ends the subscription recorded just before it and carries the same
\* amount (funds.py:158-170): none is cancelled twice, none with a wrong refund.
CancelsRefundTheirSubscription ==
    \A j \in DOMAIN transactions :
        transactions[j].transaction_type = "cancel" =>
            \E i \in DOMAIN transactions :
                /\ Follows(transactions, i, j)
                /\ transactions[i].transaction_type = "subscribe"
                /\ transactions[i].amount = transactions[j].amount

\* What a user has in funds, according to the recorded transactions.
Invested(s) == MapThenSumSet(LAMBDA f : Holding(transactions, s, f), FundIds)

\* Some request of the user ended in an error, or without an answer.
Failed(s) ==
    \E r \in Requests : Sub(r) = s /\ response[r].status \in {"500", "dropped"}

\* Some request of the user has written the balance and not yet the transaction.
BetweenWrites(s) == \E r \in Requests : Sub(r) = s /\ pc[r] = "insert"

\* As long as no request of a user failed, the balance and the funds add up to the
\* initial balance: two collections written one after the other (funds.py:141,150)
\* agree, however the requests of this and other users are ordered.
BooksBalance ==
    \A s \in Subs :
        users[s] # None /\ ~ Failed(s) /\ ~ BetweenWrites(s) =>
            users[s].balance + Invested(s) = DEFAULT_INITIAL_BALANCE

\* What a request of the user can have moved without a record: nothing, or, if it failed,
\* the amount it paid or (negative) one that the user had paid and it gave back.
Unrecorded(s, r) ==
    IF Sub(r) = s /\ response[r].status \in {"500", "dropped"}
    THEN {0} \cup IF Body(r).transaction_type = "subscribe"
                  THEN {Body(r).amount} \ {None}
                  ELSE {- transactions[i].amount :
                           i \in {j \in History(transactions, s, Body(r).fund_id) :
                                    transactions[j].transaction_type = "subscribe"}}
    ELSE {0}

\* Whatever fails between or after the two writes (funds.py:141,150), the books of a user
\* are off by exactly the amounts of requests of that user which did not succeed, each
\* counted once at most: the requests of others, and those that were answered with
\* success, cost nobody anything, and a failed subscription never makes money.
FailuresExplainTheBooks ==
    \A s \in Subs :
        users[s] # None /\ ~ BetweenWrites(s) =>
            \E off \in [Requests -> UNION {Unrecorded(s, r) : r \in Requests}] :
                /\ \A r \in Requests : off[r] \in Unrecorded(s, r)
                /\ users[s].balance + Invested(s)
                      + MapThenSumSet(LAMBDA r : off[r], Requests) = DEFAULT_INITIAL_BALANCE

\* No balance is ever negative: the handler writes a value it computed from the
\* balance it checked (funds.py:135-141), even if that balance is stale.
BalanceNonNegative == \A s \in Subs : users[s] # None => users[s].balance >= 0

\* A 200 names a transaction that is in the database, is what the request asked for,
\* and is nobody else's answer (funds.py:150,176).
AcknowledgedAreRecorded ==
    \A r \in Requests : response[r].status = "200" =>
        LET id == response[r].transaction IN
        /\ id \in DOMAIN transactions
        /\ transactions[id].user_id = Sub(r)
        /\ transactions[id].fund_id = Body(r).fund_id
        /\ transactions[id].transaction_type = Body(r).transaction_type
        /\ Body(r).transaction_type = "subscribe" =>
              transactions[id].amount = Body(r).amount
        /\ \A q \in Requests \ {r} : response[q].transaction # id

\* Refunds are of money that was paid: even with several processes, the amount of a
\* cancellation is that of an earlier subscription of the user under that fund_id.
RefundsWerePaid ==
    \A j \in DOMAIN transactions :
        transactions[j].transaction_type = "cancel" =>
            \E i \in DOMAIN transactions :
                /\ i < j
                /\ SameKey(transactions, i, j)
                /\ transactions[i].transaction_type = "subscribe"
                /\ transactions[i].amount = transactions[j].amount

\* A notification that cannot be sent does not turn a recorded subscription into an
\* error: Notifier.send answers with a bool (notifications.py:17).
NotifierFailuresAreHarmless ==
    [][\A r \in Requests :
          pc[r] = "send_message" /\ pc'[r] = "done" =>
              response'[r].status \in {"200", "dropped"}]_vars

\* Every request that reaches the event loop is answered, or its process dies: no
\* path through the handler leaves the loop taken (funds.py:85-178).
EveryRequestAnswered == \A r \in Requests : pc[r] = "queued" ~> pc[r] = "done"

\* A user has one subscription in force for a fund, not for a spelling of its id
\* ("en el fondo en cuestión", funds.py:125).
OneSubscriptionPerFund ==
    \A s \in Subs : \A f, g \in DOMAIN FundOf :
        /\ Holding(transactions, s, f) # 0
        /\ Holding(transactions, s, g) # 0
        /\ FundOf[f] = FundOf[g]
        => f = g

\* Cancelling gives back what subscribing took ("Revertir el balance del usuario",
\* funds.py:161): no balance exceeds the one the user started with.
RefundsAtMostWhatWasPaid ==
    \A s \in Subs : users[s] # None => users[s].balance <= DEFAULT_INITIAL_BALANCE

-----------------------------------------------------------------------------
(* With one process whose clock is not set back, the service implements the    *)
(* portfolio: an operation takes effect when its transaction is recorded.      *)

\* The balance as it was before the write of an operation not yet recorded.
Cash(s) ==
    IF \E r \in Requests : Sub(r) = s /\ pc[r] = "insert"
    THEN local[CHOOSE r \in Requests : Sub(r) = s /\ pc[r] = "insert"].user.balance
    ELSE IF users[s] = None THEN 0 ELSE users[s].balance

KnownFundIds == {f \in DOMAIN FundOf : FundOf[f] # None}

P == INSTANCE Portfolio WITH
        Floor <- [f \in KnownFundIds |-> MinAmount[FundOf[f]]],
        InitialBalance <- DEFAULT_INITIAL_BALANCE,
        cash <- [s \in Subs |-> Cash(s)],
        holding <- [s \in Subs |-> [f \in FundIds |-> Holding(transactions, s, f)]]

\* Without failures, every step of the service is a whole operation of the portfolio.
ImplementsPortfolio == P!Spec

\* With failures, an operation that ends in an error is at worst half done.
ImplementsLossyPortfolio == P!LossySpec

=============================================================================
