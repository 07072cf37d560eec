--------------------------- MODULE PortfolioProofs ----------------------------
(***************************************************************************)
(* One process whose clock is not set back implements the portfolio: every *)
(* step of the service is a whole operation of a user on a fund, the first *)
(* half of one, if something went wrong, or invisible.                     *)
(***************************************************************************)
EXTENDS OneProcessProofs

\* The balance in the database.
Stored(s) == IF users[s] = None THEN 0 ELSE users[s].balance

\* What Cash is: the balance a handler read as long as it is between its two writes,
\* and the one in the database otherwise.
CashKnown ==
    \A s \in Subs :
        /\ \A r \in Requests :
              pc[r] = "insert" /\ Sub(r) = s => Cash(s) = local[r].user.balance
        /\ (\A r \in Requests : ~ (pc[r] = "insert" /\ Sub(r) = s)) =>
              Cash(s) = Stored(s)

\* An operation that was validated: what it does to the cash, and what is held.
Sound(r) ==
    LET s == Sub(r)
        f == Body(r).fund_id
    IN  /\ s \in Subs
        /\ f \in KnownFundIds
        /\ IF Body(r).transaction_type = "subscribe"
           THEN /\ Holding(transactions, s, f) = 0
                /\ Amount(r) \in MinAmount[FundOf[f]] .. Cash(s)
                /\ NewBalance(r) = Cash(s) - Amount(r)
           ELSE /\ Body(r).transaction_type = "cancel"
                /\ Holding(transactions, s, f) = Amount(r)
                /\ Amount(r) # 0
                /\ NewBalance(r) = Cash(s) + Amount(r)

\* The cash of user s becomes c, and nobody else's changes.
CashBecomes(s, c) ==
    \A u \in Subs : Cash(u)' = IF u = s THEN c ELSE Cash(u)

HoldingBecomes(s, f, a) ==
    \A u \in Subs, g \in FundIds :
        Holding(transactions, u, g)' =
            IF u = s /\ g = f THEN a ELSE Holding(transactions, u, g)

CashSame == \A u \in Subs : Cash(u)' = Cash(u)

-----------------------------------------------------------------------------
LEMMA CashValue == ASSUME OneProcess PROVE OInv => CashKnown
  <1> SUFFICES ASSUME OInv, NEW s \in Subs
               PROVE  /\ \A r \in Requests :
                            pc[r] = "insert" /\ Sub(r) = s => Cash(s) = local[r].user.balance
                      /\ (\A r \in Requests : ~ (pc[r] = "insert" /\ Sub(r) = s)) =>
                            Cash(s) = Stored(s)
    BY DEF CashKnown
  <1>1. ASSUME NEW r \in Requests, pc[r] = "insert", Sub(r) = s
        PROVE  Cash(s) = local[r].user.balance
    <2> DEFINE c == CHOOSE q \in Requests : Sub(q) = s /\ pc[q] = "insert"
    <2>1. c \in Requests /\ Sub(c) = s /\ pc[c] = "insert"
      BY <1>1
    <2>2. c = r
      BY <1>1, <2>1, Alone DEF UnderWay, DatabaseSteps
    <2> QED
      BY <1>1, <2>2 DEF Cash
  <1>2. ASSUME \A r \in Requests : ~ (pc[r] = "insert" /\ Sub(r) = s)
        PROVE  Cash(s) = Stored(s)
    BY <1>2 DEF Cash, Stored
  <1> QED
    BY <1>1, <1>2

LEMMA CashValueNext == ASSUME OneProcess PROVE OInv' => CashKnown'
  BY CashValue, PTL

\* A request past its validation is the operation of a user that can be carried out.
LEMMA SoundWhenValidated ==
    ASSUME OneProcess, OInv, NEW r \in Requests, pc[r] \in {"update_balance", "insert"}
    PROVE  /\ Sound(r)
           /\ pc[r] = "update_balance" => Stored(Sub(r)) = Cash(Sub(r))
           /\ pc[r] = "insert" => Stored(Sub(r)) = NewBalance(r)
  <1> DEFINE s == Sub(r)
             f == Body(r).fund_id
  <1>1. /\ TypeOK /\ RequestOK(r) /\ StillTrue(r) /\ CashKnown
    BY CashValue DEF OInv, IInv
  <1>2. /\ s \in Subs /\ f \in FundIds
        /\ Amount(r) \in Nat \ {0}
        /\ Body(r).transaction_type \in TransactionType
    BY AmountIsPaid DEF OInv
  <1>3. /\ users[s] \in UserOut
        /\ local[r].user \in UserOut
        /\ f \in DOMAIN FundOf /\ FundOf[f] # None
    BY <1>1 DEF RequestOK, UserFound, FundFound, DatabaseSteps
  <1>4. users[s] # None /\ Stored(s) = users[s].balance
    BY <1>3, NoneAssumption DEF NoneAssumption, Stored
  <1>5. Cash(s) = local[r].user.balance
    <2>1. CASE pc[r] = "insert"
      BY <1>1, <1>2, <2>1 DEF CashKnown
    <2>2. CASE pc[r] = "update_balance"
      <3>1. ASSUME NEW q \in Requests PROVE pc[q] # "insert"
        BY <2>2, Alone DEF UnderWay, DatabaseSteps
      <3>2. Cash(s) = Stored(s)
        BY <1>1, <1>2, <3>1 DEF CashKnown
      <3> QED
        BY <1>1, <1>4, <2>2, <3>2 DEF StillTrue
    <2> QED
      BY <2>1, <2>2
  <1>6. local[r].active_subscription = ActiveSubscription(transactions, s, f)
    BY <1>1 DEF StillTrue
  <1>7. Sound(r)
    <2>1. CASE Body(r).transaction_type = "subscribe"
      <3>1. Holding(transactions, s, f) = 0
        BY <1>1, <1>6, <2>1 DEF RequestOK, Validated, Holding
      <3>2. /\ Amount(r) \in MinAmount[FundOf[f]] .. Cash(s)
            /\ NewBalance(r) = Cash(s) - Amount(r)
        BY <1>1, <1>5, <2>1 DEF RequestOK, Validated, Amount, NewBalance
      <3> QED
        BY <1>2, <1>3, <2>1, <3>1, <3>2 DEF Sound, KnownFundIds
    <2>2. CASE Body(r).transaction_type # "subscribe"
      <3>1. Body(r).transaction_type = "cancel"
        BY <1>2, <2>2 DEF TransactionType
      <3>2. local[r].active_subscription # 0
        BY <1>1, <2>2 DEF RequestOK, Validated, History, TypeOK
      <3>3. Holding(transactions, s, f) = Amount(r)
        BY <1>6, <2>2, <3>2 DEF Holding, Amount
      <3>4. NewBalance(r) = Cash(s) + Amount(r)
        BY <1>5, <2>2 DEF NewBalance
      <3> QED
        BY <1>2, <1>3, <2>2, <3>1, <3>3, <3>4 DEF Sound, KnownFundIds
    <2> QED
      BY <2>1, <2>2
  <1>8. /\ pc[r] = "update_balance" => Stored(s) = Cash(s)
        /\ pc[r] = "insert" => Stored(s) = NewBalance(r)
    BY <1>1, <1>4, <1>5 DEF StillTrue
  <1> QED
    BY <1>7, <1>8

-----------------------------------------------------------------------------
(* Steps of the service as steps of the portfolio.                             *)

\* What the portfolio's variables stand for, a user and a fund_id at a time.
LEMMA CashStep ==
    ASSUME NEW s \in Subs, NEW c, CashBecomes(s, c)
    PROVE  [u \in Subs |-> Cash(u)]' = [[u \in Subs |-> Cash(u)] EXCEPT ![s] = c]
  BY DEF CashBecomes

LEMMA HoldingStep ==
    ASSUME NEW s \in Subs, NEW f \in FundIds, NEW a, HoldingBecomes(s, f, a)
    PROVE  [u \in Subs |-> [g \in FundIds |-> Holding(transactions, u, g)]]' =
               [[u \in Subs |-> [g \in FundIds |-> Holding(transactions, u, g)]]
                    EXCEPT ![s][f] = a]
  <1> PICK H, new :
          /\ H = [u \in Subs |-> [g \in FundIds |-> Holding(transactions, u, g)]]
          /\ new = [u \in Subs |-> [g \in FundIds |-> Holding(transactions, u, g)]]'
    OBVIOUS
  <1>1. H[s] = [g \in FundIds |-> Holding(transactions, s, g)]
    OBVIOUS
  <1>2. [u \in Subs |-> [g \in FundIds |-> Holding(transactions, u, g)']] =
            [H EXCEPT ![s] = [H[s] EXCEPT ![f] = a]]
    <2>1. ASSUME NEW u \in Subs, u # s
          PROVE  [g \in FundIds |-> Holding(transactions, u, g)'] = H[u]
      BY <2>1 DEF HoldingBecomes
    <2>2. [g \in FundIds |-> Holding(transactions, s, g)'] = [H[s] EXCEPT ![f] = a]
      BY <1>1 DEF HoldingBecomes
    <2>3. \A u \in Subs :
             [g \in FundIds |-> Holding(transactions, u, g)'] =
                 [H EXCEPT ![s] = [H[s] EXCEPT ![f] = a]][u]
      BY <2>1, <2>2
    <2> QED
      BY <2>3
  <1> QED
    BY <1>2

LEMMA AffordableIs ==
    ASSUME NEW s \in Subs, NEW f \in KnownFundIds
    PROVE  P!Affordable(s, f) =
               IF Holding(transactions, s, f) = 0
               THEN MinAmount[FundOf[f]] .. Cash(s) ELSE {}
  <1>1. f \in FundIds
    BY ConstantsAssumption DEF ConstantsAssumption, KnownFundIds
  <1> QED
    BY <1>1 DEF P!Affordable

LEMMA WholeOperation ==
    ASSUME NEW r \in Requests, Sound(r), CashBecomes(Sub(r), NewBalance(r)),
           HoldingBecomes(Sub(r), Body(r).fund_id,
                          IF Body(r).transaction_type = "subscribe" THEN Amount(r) ELSE 0)
    PROVE  P!Next
  <1> PICK s, f, a : s = Sub(r) /\ f = Body(r).fund_id /\ a = Amount(r)
    OBVIOUS
  <1>1. s \in Subs /\ f \in KnownFundIds /\ f \in FundIds
    BY ConstantsAssumption DEF ConstantsAssumption, Sound, KnownFundIds
  <1>2. CASE Body(r).transaction_type = "subscribe"
    <2>1. a \in P!Affordable(s, f)
      BY <1>1, <1>2, AffordableIs DEF Sound
    <2>2. /\ CashBecomes(s, Cash(s) - a)
          /\ HoldingBecomes(s, f, a)
      BY <1>2 DEF Sound
    <2>3. P!Subscribe(s, f)
      <3>1. [u \in Subs |-> Cash(u)]' =
                [[u \in Subs |-> Cash(u)] EXCEPT ![s] = [u \in Subs |-> Cash(u)][s] - a]
        BY <1>1, <2>2, CashStep
      <3>2. [u \in Subs |-> [g \in FundIds |-> Holding(transactions, u, g)]]' =
                [[u \in Subs |-> [g \in FundIds |-> Holding(transactions, u, g)]]
                     EXCEPT ![s][f] = a]
        BY <1>1, <2>2, HoldingStep, ZenonT(60)
      <3> QED
        BY <2>1, <3>1, <3>2, Zenon DEF P!Subscribe
    <2> QED
      BY <1>1, <2>3 DEF P!Next
  <1>3. CASE Body(r).transaction_type # "subscribe"
    <2>1. /\ Holding(transactions, s, f) = a /\ a # 0
          /\ CashBecomes(s, Cash(s) + a)
          /\ HoldingBecomes(s, f, 0)
      BY <1>3 DEF Sound
    <2>2. P!Cancel(s, f)
      <3>1. [u \in Subs |-> [g \in FundIds |-> Holding(transactions, u, g)]][s][f] = a
        BY <1>1, <2>1
      <3>2. [u \in Subs |-> Cash(u)]' =
                [[u \in Subs |-> Cash(u)] EXCEPT ![s] = [u \in Subs |-> Cash(u)][s] + a]
        BY <1>1, <2>1, CashStep
      <3>3. [u \in Subs |-> [g \in FundIds |-> Holding(transactions, u, g)]]' =
                [[u \in Subs |-> [g \in FundIds |-> Holding(transactions, u, g)]]
                     EXCEPT ![s][f] = 0]
        BY <1>1, <2>1, HoldingStep
      <3> QED
        BY <2>1, <3>1, <3>2, <3>3, Zenon DEF P!Cancel
    <2> QED
      BY <1>1, <2>2 DEF P!Next
  <1> QED
    BY <1>2, <1>3

LEMMA HalfOperation ==
    ASSUME NEW r \in Requests, Sound(r), CashBecomes(Sub(r), NewBalance(r)),
           UNCHANGED transactions
    PROVE  \E s \in Subs : s = Sub(r) /\ \E f \in KnownFundIds : P!Interrupted(s, f)
  <1> PICK s, f, a : s = Sub(r) /\ f = Body(r).fund_id /\ a = Amount(r)
    OBVIOUS
  <1>1. s \in Subs /\ f \in KnownFundIds /\ f \in FundIds
    BY ConstantsAssumption DEF ConstantsAssumption, Sound, KnownFundIds
  <1>2. UNCHANGED [u \in Subs |-> [g \in FundIds |-> Holding(transactions, u, g)]]
    OBVIOUS
  <1>3. CASE Body(r).transaction_type = "subscribe"
    <2>1. a \in P!Affordable(s, f)
      BY <1>1, <1>3, AffordableIs DEF Sound
    <2>2. CashBecomes(s, Cash(s) - a)
      BY <1>3 DEF Sound
    <2>3. [u \in Subs |-> Cash(u)]' =
              [[u \in Subs |-> Cash(u)] EXCEPT ![s] = [u \in Subs |-> Cash(u)][s] - a]
      BY <1>1, <2>2, CashStep
    <2>4. P!Interrupted(s, f)
      BY <1>2, <2>1, <2>3, Zenon DEF P!Interrupted
    <2> QED
      BY <1>1, <2>4
  <1>4. CASE Body(r).transaction_type # "subscribe"
    <2>1. /\ Holding(transactions, s, f) = a /\ a # 0
          /\ CashBecomes(s, Cash(s) + a)
      BY <1>4 DEF Sound
    <2>2. [u \in Subs |-> [g \in FundIds |-> Holding(transactions, u, g)]][s][f] = a
      BY <1>1, <2>1
    <2>3. [u \in Subs |-> Cash(u)]' =
              [[u \in Subs |-> Cash(u)] EXCEPT ![s] = [u \in Subs |-> Cash(u)][s] + a]
      BY <1>1, <2>1, CashStep
    <2>4. P!Interrupted(s, f)
      BY <1>2, <2>1, <2>2, <2>3, Zenon DEF P!Interrupted
    <2> QED
      BY <1>1, <2>4
  <1> QED
    BY <1>3, <1>4

LEMMA Invisible ==
    ASSUME CashSame, UNCHANGED transactions
    PROVE  UNCHANGED P!vars
  BY DEF CashSame, P!vars

-----------------------------------------------------------------------------
(* The cash before and after a step.                                           *)

\* Nobody is between two writes before or after the step, or it is the same request.
LEMMA CashQuiet ==
    ASSUME CashKnown, CashKnown', UNCHANGED users,
           \A q \in Requests :
              /\ pc'[q] = "insert" <=> pc[q] = "insert"
              /\ pc[q] = "insert" => request'[q] = request[q] /\ local'[q] = local[q]
    PROVE  CashSame
  <1> SUFFICES ASSUME NEW s \in Subs PROVE Cash(s)' = Cash(s)
    BY DEF CashSame
  <1>1. CASE \E q \in Requests : pc[q] = "insert" /\ Sub(q) = s
    BY <1>1 DEF CashKnown, Sub
  <1>2. CASE \A q \in Requests : ~ (pc[q] = "insert" /\ Sub(q) = s)
    BY <1>2 DEF CashKnown, Sub, Stored
  <1> QED
    BY <1>1, <1>2

\* Nobody is between two writes after the step: the database decides.
LEMMA CashAfter ==
    ASSUME CashKnown', \A q \in Requests : pc'[q] # "insert"
    PROVE  \A s \in Subs : Cash(s)' = Stored(s)'
  BY DEF CashKnown

\* Nor before it, but for r.
LEMMA CashBefore ==
    ASSUME OneProcess, OInv, NEW r \in Requests, UnderWay(r)
    PROVE  /\ \A s \in Subs : s # Sub(r) => Cash(s) = Stored(s)
           /\ \A q \in Requests : q # r => pc[q] # "insert"
  <1>1. \A q \in Requests : q # r => pc[q] # "insert"
    BY Alone DEF UnderWay, DatabaseSteps
  <1> QED
    BY <1>1, CashValue DEF CashKnown

\* An operation that ends between its writes, or in the first of them, leaves the
\* balance it wrote.
LEMMA CashInterrupted ==
    ASSUME OneProcess, OInv, CashKnown', NEW r \in Requests, UnderWay(r),
           \A q \in Requests : pc'[q] # "insert",
           \A s \in Subs : Stored(s)' = IF s = Sub(r) THEN NewBalance(r) ELSE Stored(s)
    PROVE  CashBecomes(Sub(r), NewBalance(r))
  BY CashAfter, CashBefore DEF CashBecomes

LEMMA InsertTakesEffect ==
    ASSUME OneProcess, OInv, CashKnown', NEW r \in Requests, pc[r] = "insert",
           InsertOne(r), UNCHANGED users, \A q \in Requests : pc'[q] # "insert"
    PROVE  P!Next
  <1> DEFINE data == local[r].transaction_data
             f == Body(r).fund_id
             a == IF Body(r).transaction_type = "subscribe" THEN Amount(r) ELSE 0
  <1>1. /\ TypeOK /\ RequestOK(r) /\ DraftLatest(r) /\ LogInOrder
    BY DEF OInv, IInv
  <1>2. /\ data \in Transaction
        /\ data.user_id = Sub(r)
        /\ data.fund_id = f
        /\ data.amount = Amount(r)
        /\ data.transaction_type = Body(r).transaction_type
        /\ \A i \in DOMAIN transactions : transactions[i].timestamp <= data.timestamp
    BY <1>1 DEF RequestOK, Drafted, DraftLatest
  <1>3. transactions' = Append(transactions, data) /\ transactions \in Seq(Transaction)
    BY <1>1 DEF InsertOne, TypeOK
  <1>4. HoldingBecomes(Sub(r), f, a)
    <2> SUFFICES ASSUME NEW u \in Subs, NEW g \in FundIds
                 PROVE  Holding(transactions', u, g) =
                            IF u = Sub(r) /\ g = f THEN a
                            ELSE Holding(transactions, u, g)
      BY DEF HoldingBecomes
    <2>1. \A x \in Transaction : x.timestamp \in Int
      BY DEF Transaction
    <2>2. Sorted(transactions) /\ HasLatest(transactions, u, g)
      BY <1>1, LatestFound DEF LogInOrder
    <2>3. ActiveSubscription(transactions', u, g) =
              IF data.user_id = u /\ data.fund_id = g
              THEN IF data.transaction_type = "subscribe" THEN Len(transactions) + 1 ELSE 0
              ELSE ActiveSubscription(transactions, u, g)
      BY <1>2, <1>3, <2>1, <2>2, AppendActive
    <2>4. /\ transactions'[Len(transactions) + 1] = data
          /\ Len(transactions) + 1 # 0
          /\ \A i \in DOMAIN transactions : transactions'[i] = transactions[i]
      BY <1>2, <1>3
    <2>5. CASE u = Sub(r) /\ g = f
      BY <1>2, <2>3, <2>4, <2>5 DEF Holding
    <2>6. CASE ~ (u = Sub(r) /\ g = f)
      <3>1. ActiveSubscription(transactions', u, g) = ActiveSubscription(transactions, u, g)
        BY <1>2, <2>3, <2>6
      <3>2. 0 \notin DOMAIN transactions
        BY <1>3
      <3>3. ActiveSubscription(transactions, u, g) # 0 =>
                ActiveSubscription(transactions, u, g) \in DOMAIN transactions
        BY <2>2, <3>2, ActiveSubscriptionIsLatest DEF History
      <3> QED
        BY <2>4, <2>6, <3>1, <3>3 DEF Holding
    <2> QED
      BY <2>5, <2>6
  <1>5. Sound(r) /\ Stored(Sub(r)) = NewBalance(r)
    BY <1>1, SoundWhenValidated
  <1>6. \A s \in Subs : Stored(s)' = IF s = Sub(r) THEN NewBalance(r) ELSE Stored(s)
    BY <1>5 DEF Stored
  <1>7. CashBecomes(Sub(r), NewBalance(r))
    BY <1>6, CashInterrupted DEF UnderWay, DatabaseSteps
  <1> QED
    BY <1>4, <1>5, <1>7, WholeOperation

-----------------------------------------------------------------------------
(* One lemma per kind of step.                                                 *)

\* Request r ends in an error, or without an answer, once its balance is written.
Broken(r) ==
    /\ pc[r] \in {"update_balance", "insert"}
    /\ response'[r].status \in {"500", "dropped"}
    /\ Sound(r) /\ CashBecomes(Sub(r), NewBalance(r))
    /\ UNCHANGED <<transactions, request>>

\* An operation was interrupted, and its user knows.
Half ==
    /\ Faults # {}
    /\ \E s \in Subs, f \in KnownFundIds :
          /\ P!Interrupted(s, f) /\ Failed(s)'
          /\ \E r \in Requests : s = Sub(r) /\ Broken(r)

Mapped == P!Next \/ UNCHANGED P!vars \/ Half

\* Only UpdateBalance takes a request to "insert".
LEMMA FinishLeaves ==
    ASSUME TypeOK, NEW r \in Requests, NEW status, NEW id, Finish(r, status, id),
           \A q \in Requests : q # r => pc[q] # "insert"
    PROVE  \A q \in Requests : pc'[q] # "insert"
  BY DEF Finish, TypeOK

LEMMA HandlerMapped ==
    ASSUME OneProcess, OInv, CashKnown', NEW r \in Requests, Handler(r)
    PROVE  P!Next \/ UNCHANGED P!vars
  <1>1. TypeOK /\ StillTrue(r)
    BY DEF OInv, IInv
  <1>2. CASE /\ pc[r] # "insert" /\ pc'[r] # "insert"
             /\ \A q \in Requests \ {r} : pc'[q] = pc[q] /\ local'[q] = local[q]
             /\ UNCHANGED <<users, transactions, request>>
    <2>1. CashSame
      BY <1>2, CashValue, CashQuiet
    <2> QED
      BY <1>2, <2>1, Invisible
  <1>3. ASSUME NEW status, NEW id, Finish(r, status, id), pc[r] # "insert",
               UNCHANGED <<users, transactions, request>>
        PROVE  P!Next \/ UNCHANGED P!vars
    BY <1>1, <1>2, <1>3 DEF Finish, TypeOK
  <1>4. ASSUME NEW step, Goto(r, step), step # "insert", pc[r] # "insert",
               \A q \in Requests \ {r} : local'[q] = local[q],
               UNCHANGED <<users, transactions, request>>
        PROVE  P!Next \/ UNCHANGED P!vars
    BY <1>1, <1>2, <1>4 DEF Goto, TypeOK
  <1>5. CASE FindUser(r)
    BY <1>1, <1>3, <1>4, <1>5 DEF FindUser, CanStart, database, TypeOK
  <1>6. CASE FindFund(r)
    BY <1>1, <1>3, <1>4, <1>6 DEF FindFund, database
  <1>7. CASE FindTransactions(r)
    BY <1>1, <1>3, <1>4, <1>7 DEF FindTransactions, database, TypeOK
  <1>8. CASE UpdateBalance(r)
    <2>1. /\ pc[r] = "update_balance" /\ pc'[r] = "insert"
          /\ \A q \in Requests \ {r} : pc'[q] = pc[q]
          /\ local'[r].user = local[r].user
          /\ users' = [users EXCEPT ![Sub(r)].balance = NewBalance(r)]
          /\ UNCHANGED <<transactions, request>>
      BY <1>1, <1>8 DEF UpdateBalance, SetBalance, Goto, TypeOK, Locals
    <2>2. UnderWay(r) /\ Sub(r) \in Subs /\ Sub(r)' = Sub(r)
      BY <2>1, AmountIsPaid DEF OInv, UnderWay, DatabaseSteps, Sub
    <2>3. \A q \in Requests : q # r => pc'[q] # "insert"
      BY <2>1, <2>2, CashBefore
    <2>4. Cash(Sub(r)) = Stored(Sub(r)) /\ users[Sub(r)] = local[r].user
      BY <1>1, <2>1, SoundWhenValidated DEF StillTrue
    <2>5. local[r].user # None
      BY <2>1, NoneAssumption DEF NoneAssumption, OInv, IInv, RequestOK, UserFound,
             DatabaseSteps
    <2>6. ASSUME NEW s \in Subs, s = Sub(r) PROVE Cash(s)' = Cash(s)
      <3>1. Cash(s)' = local[r].user.balance
        BY <2>1, <2>2, <2>6 DEF CashKnown
      <3> QED
        BY <2>4, <2>5, <2>6, <3>1 DEF Stored
    <2>7. ASSUME NEW s \in Subs, s # Sub(r) PROVE Cash(s)' = Cash(s)
      <3>1. Cash(s) = Stored(s)
        BY <2>2, <2>7, CashBefore
      <3>2. users'[s] = users[s]
        BY <1>1, <2>1, <2>7 DEF TypeOK
      <3>3. Stored(s)' = Stored(s)
        BY <3>2 DEF Stored
      <3>4. Cash(s)' = Stored(s)'
        BY <2>2, <2>3, <2>7 DEF CashKnown
      <3> QED
        BY <3>1, <3>3, <3>4
    <2> QED
      BY <2>1, <2>6, <2>7, Invisible DEF CashSame
  <1>9. CASE Insert(r)
    <2>1. /\ pc[r] = "insert" /\ pc'[r] # "insert"
          /\ \A q \in Requests \ {r} : pc'[q] = pc[q]
      BY <1>1, <1>9 DEF Insert, Goto, TypeOK
    <2>2. \A q \in Requests : pc'[q] # "insert"
      BY <2>1, CashBefore DEF UnderWay, DatabaseSteps
    <2> QED
      BY <1>9, <2>1, <2>2, InsertTakesEffect DEF Insert
  <1>10. CASE FindInserted(r)
    BY <1>1, <1>3, <1>4, <1>10 DEF FindInserted, database
  <1>11. CASE SendMessage(r)
    BY <1>1, <1>3, <1>11 DEF SendMessage, database
  <1> QED
    BY <1>5, <1>6, <1>7, <1>8, <1>9, <1>10, <1>11 DEF Handler

\* A failure between the two writes leaves an operation half done.
LEMMA InterruptedMapped ==
    ASSUME OneProcess, OInv, CashKnown', Faults # {}, UNCHANGED transactions,
           NEW r \in Requests,
           \/ pc[r] = "insert" /\ UNCHANGED users
           \/ pc[r] = "update_balance" /\ SetBalance(r),
           \A q \in Requests : pc'[q] # "insert",
           UNCHANGED request, response'[r].status \in {"500", "dropped"}
    PROVE  Half
  <1>1. Sound(r) /\ Sub(r) \in Subs /\ UnderWay(r)
    BY SoundWhenValidated, AmountIsPaid DEF OInv, UnderWay, DatabaseSteps
  <1>2. \A s \in Subs : Stored(s)' = IF s = Sub(r) THEN NewBalance(r) ELSE Stored(s)
    <2>1. CASE pc[r] = "insert" /\ UNCHANGED users
      BY <2>1, SoundWhenValidated DEF Stored
    <2>2. CASE pc[r] = "update_balance" /\ SetBalance(r)
      <3>1. users[Sub(r)] \in UserOut /\ users \in [Subs -> UserOut \cup {None}]
        BY <2>2 DEF OInv, IInv, TypeOK, RequestOK, UserFound, DatabaseSteps
      <3>2. NewBalance(r) \in Int
        BY <2>2, AmountIsPaid DEF OInv, IInv, RequestOK, UserFound, DatabaseSteps, UserOut,
               NewBalance
      <3>3. users'[Sub(r)] = [users[Sub(r)] EXCEPT !.balance = NewBalance(r)]
        BY <1>1, <2>2, <3>1 DEF SetBalance
      <3>4. users'[Sub(r)] \in UserOut /\ users'[Sub(r)].balance = NewBalance(r)
        BY <3>1, <3>2, <3>3 DEF UserOut
      <3>5. \A s \in Subs : s # Sub(r) => users'[s] = users[s]
        BY <2>2, <3>1 DEF SetBalance
      <3> QED
        BY <3>4, <3>5, NoneAssumption DEF NoneAssumption, Stored
    <2> QED
      BY <2>1, <2>2
  <1>3. CashBecomes(Sub(r), NewBalance(r))
    BY <1>1, <1>2, CashInterrupted
  <1>4. \A s \in Subs : s = Sub(r) => Failed(s)'
    BY DEF Failed, Sub
  <1>5. PICK s \in Subs : s = Sub(r) /\ \E f \in KnownFundIds : P!Interrupted(s, f)
    BY <1>1, <1>3, HalfOperation
  <1>6. Failed(s)'
    BY <1>4, <1>5 DEF Failed, Sub
  <1>7. Broken(r)
    BY <1>1, <1>3 DEF Broken
  <1> QED
    BY <1>5, <1>6, <1>7 DEF Half

LEMMA DatabaseErrorMapped ==
    ASSUME OneProcess, OInv, CashKnown', NEW r \in Requests, DatabaseError(r)
    PROVE  Mapped
  <1>1. /\ TypeOK
        /\ UNCHANGED <<users, transactions, request>>
        /\ Faults # {}
        /\ Finish(r, "500", 0)
        /\ UnderWay(r) \/ CanStart(r)
    BY DEF OInv, IInv, DatabaseError, database, UnderWay
  <1>2. /\ pc'[r] = "done" /\ response'[r].status = "500"
        /\ \A q \in Requests \ {r} : pc'[q] = pc[q] /\ local'[q] = local[q]
    BY <1>1 DEF Finish, TypeOK
  <1>3. CASE pc[r] = "insert"
    <2>1. \A q \in Requests : pc'[q] # "insert"
      BY <1>1, <1>2, <1>3, CashBefore DEF CanStart
    <2> QED
      BY <1>1, <1>2, <1>3, <2>1, InterruptedMapped DEF Mapped
  <1>4. CASE pc[r] # "insert"
    <2>1. CashSame
      BY <1>1, <1>2, <1>4, CashValue, CashQuiet
    <2> QED
      BY <1>1, <2>1, Invisible DEF Mapped
  <1> QED
    BY <1>3, <1>4

LEMMA LostReplyMapped ==
    ASSUME OneProcess, OInv, CashKnown', NEW r \in Requests, LostReply(r)
    PROVE  Mapped
  <1>1. /\ TypeOK
        /\ Faults # {}
        /\ Finish(r, "500", 0)
        /\ UnderWay(r)
        /\ UNCHANGED request
        /\ response'[r].status = "500"
    BY DEF OInv, IInv, TypeOK, LostReply, Finish, UnderWay, DatabaseSteps
  <1>2. \A q \in Requests : pc'[q] # "insert"
    BY <1>1, CashBefore, FinishLeaves
  <1>3. CASE pc[r] = "update_balance" /\ SetBalance(r) /\ UNCHANGED transactions
    BY <1>1, <1>2, <1>3, InterruptedMapped DEF Mapped
  <1>4. CASE pc[r] = "insert" /\ InsertOne(r) /\ UNCHANGED users
    BY <1>2, <1>4, InsertTakesEffect DEF Mapped
  <1> QED
    BY <1>3, <1>4 DEF LostReply

LEMMA CrashMapped ==
    ASSUME OneProcess, OInv, CashKnown', NEW p \in Processes, Crash(p)
    PROVE  Mapped
  <1>1. TypeOK /\ Faults # {} /\ UNCHANGED <<users, transactions, request>>
    BY DEF OInv, IInv, Crash, database
  <1>2. ASSUME NEW q \in Requests PROVE pc'[q] # "insert"
    <2>1. pc[q] # "idle" => Process(q) = p
      BY DEF OInv, IInv, RequestOK, Accepted, Process, OneProcess
    <2> QED
      BY <2>1 DEF Crash
  <1>3. ASSUME NEW r \in Requests, pc[r] = "insert" PROVE Mapped
    <2>1. Process(r) = p
      BY <1>3 DEF OInv, IInv, RequestOK, Accepted, Process, OneProcess
    <2>2. response'[r].status = "dropped"
      BY <1>3, <2>1 DEF Crash, NoResponse
    <2> QED
      BY <1>1, <1>2, <1>3, <2>2, InterruptedMapped DEF Mapped
  <1>4. CASE \A r \in Requests : pc[r] # "insert"
    <2>1. CashSame
      BY <1>1, <1>2, <1>4, CashValue, CashQuiet
    <2> QED
      BY <1>1, <2>1, Invisible DEF Mapped
  <1> QED
    BY <1>3, <1>4

LEMMA StepMapped ==
    ASSUME OneProcess, OInv, CashKnown', [Next]_vars
    PROVE  Mapped
  <1>1. TypeOK
    BY DEF OInv, IInv
  <1>2. ASSUME NEW r \in Requests, Receive(r) PROVE Mapped
    <2>1. /\ UNCHANGED <<users, transactions, local>>
          /\ pc[r] = "idle" /\ pc'[r] = "queued"
          /\ \A q \in Requests \ {r} : pc'[q] = pc[q] /\ request'[q] = request[q]
      BY <1>1, <1>2 DEF Receive, TypeOK
    <2>2. CashSame
      BY <2>1, CashValue, CashQuiet
    <2> QED
      BY <2>1, <2>2, Invisible DEF Mapped
  <1>3. ASSUME NEW p \in Processes, Tick(p) \/ SetClockBack(p) PROVE Mapped
    <2>1. UNCHANGED <<users, transactions, local, pc, request>>
      BY <1>3 DEF Tick, SetClockBack, database
    <2>2. CashSame
      BY <2>1, CashValue, CashQuiet
    <2> QED
      BY <2>1, <2>2, Invisible DEF Mapped
  <1>4. CASE UNCHANGED vars
    <2>1. UNCHANGED <<users, transactions, local, pc, request>>
      BY <1>4 DEF vars
    <2>2. CashSame
      BY <2>1, CashValue, CashQuiet
    <2> QED
      BY <2>1, <2>2, Invisible DEF Mapped
  <1> QED
    BY <1>2, <1>3, <1>4, HandlerMapped, DatabaseErrorMapped, LostReplyMapped, CrashMapped
       DEF Next, Mapped

LEMMA InitMapped == ASSUME OneProcess, Init PROVE P!Init
  <1>1. OInv
    BY InitOne
  <1>2. \A s \in Subs : Cash(s) \in {0, DEFAULT_INITIAL_BALANCE}
    BY <1>1 DEF Init, Cash
  <1>3. \A s \in Subs, f \in FundIds : Holding(transactions, s, f) = 0
    BY DEF Init, Holding, ActiveSubscription, History
  <1> QED
    BY <1>2, <1>3 DEF P!Init

-----------------------------------------------------------------------------
\* One process whose clock is not set back implements the promise that survives
\* failures: errors, lost acknowledgements and crashes at any point of any request
\* leave at worst an operation whose balance was written and whose transaction was not
\* (funds.py:141-150,164-176).
THEOREM ImplementsLossy == ASSUME OneProcess PROVE Spec => ImplementsLossyPortfolio
  <1>1. Init => P!Init
    BY InitMapped
  <1>2. OInv /\ OInv' /\ [Next]_vars => [P!LossyNext]_P!vars
    <2> SUFFICES ASSUME OInv, OInv', [Next]_vars PROVE [P!LossyNext]_P!vars
      OBVIOUS
    <2>1. Mapped
      BY CashValueNext, StepMapped
    <2>2. (\E s \in Subs, f \in KnownFundIds : P!Interrupted(s, f)) => P!LossyNext
      BY DEF P!LossyNext
    <2>3. P!Next => P!LossyNext
      BY DEF P!LossyNext
    <2> QED
      BY <2>1, <2>2, <2>3 DEF Mapped, Half
  <1> QED
    BY <1>1, <1>2, OneInvariant, PTL DEF Spec, ImplementsLossyPortfolio, P!LossySpec

\* When nothing goes wrong every step is a whole operation: cash and holdings never
\* disagree.
THEOREM Implements ==
    ASSUME OneProcess, Faults = {} PROVE Spec => ImplementsPortfolio
  <1>1. Init => P!Init
    BY InitMapped
  <1>2. OInv /\ OInv' /\ [Next]_vars => [P!Next]_P!vars
    <2> SUFFICES ASSUME OInv, OInv', [Next]_vars PROVE [P!Next]_P!vars
      OBVIOUS
    <2>1. Mapped
      BY CashValueNext, StepMapped
    <2> QED
      BY <2>1 DEF Mapped, Half
  <1> QED
    BY <1>1, <1>2, OneInvariant, PTL DEF Spec, ImplementsPortfolio, P!Spec

-----------------------------------------------------------------------------
(* The books: a sum over the funds, of which there are finitely many.          *)

HoldingsOf(s) == [f \in FundIds |-> Holding(transactions, s, f)]

\* What Invested(s) adds up, one fund_id at a time.
InvestedIs(s, total) ==
    /\ Totals(total, HoldingsOf(s), FundIds)
    /\ Invested(s) = total[FundIds]

\* The inductive invariant: until a failure makes them disagree, the cash and the funds
\* of a user add up to the initial balance, in the middle of an operation as well.
Balanced ==
    \A s \in Subs :
        users[s] # None /\ ~ (Faults # {} /\ Failed(s)) =>
            Cash(s) + Invested(s) = DEFAULT_INITIAL_BALANCE

LEMMA HoldingType ==
    ASSUME IInv, NEW s \in Subs, NEW f \in FundIds
    PROVE  Holding(transactions, s, f) \in Nat
  <1> DEFINE active == ActiveSubscription(transactions, s, f)
  <1>1. 0 \notin DOMAIN transactions
    BY DEF IInv, TypeOK
  <1>2. active # 0 => active \in DOMAIN transactions
    BY <1>1, LatestFound, ActiveSubscriptionIsLatest DEF IInv, History
  <1>3. ASSUME NEW i \in DOMAIN transactions PROVE transactions[i].amount \in Nat
    <2>1. transactions[i] \in Transaction
      BY DEF IInv, TypeOK
    <2> QED
      BY <2>1 DEF Transaction, IInv, AmountsPaid
  <1> QED
    BY <1>2, <1>3 DEF Holding

LEMMA CashType ==
    ASSUME OneProcess, OInv, NEW s \in Subs, users[s] # None
    PROVE  Cash(s) \in Int
  <1>1. CASE \E r \in Requests : pc[r] = "insert" /\ Sub(r) = s
    <2>1. PICK r \in Requests : pc[r] = "insert" /\ Sub(r) = s
      BY <1>1
    <2>2. local[r].user \in UserOut
      BY <2>1 DEF OInv, IInv, RequestOK, UserFound, DatabaseSteps
    <2> QED
      BY <2>1, <2>2, CashValue DEF CashKnown, UserOut
  <1>2. CASE \A r \in Requests : ~ (pc[r] = "insert" /\ Sub(r) = s)
    <2>1. users[s] \in UserOut
      BY DEF OInv, IInv, TypeOK
    <2> QED
      BY <1>2, <2>1, CashValue DEF CashKnown, Stored, UserOut
  <1> QED
    BY <1>1, <1>2

LEMMA InvestedTotal ==
    ASSUME IsFiniteSet(FundIds)
    PROVE  IInv => \A s \in Subs : \E total : InvestedIs(s, total)
  <1> SUFFICES ASSUME IInv, NEW s \in Subs PROVE \E total : InvestedIs(s, total)
    OBVIOUS
  <1>1. \A f \in FundIds : HoldingsOf(s)[f] \in Int
    BY HoldingType DEF HoldingsOf
  <1>2. Invested(s) = (CHOOSE total : IsFold(total, HoldingsOf(s), FundIds))[FundIds]
    BY DEF Invested, MapThenSumSet, MapThenFoldSet, IsFold, HoldingsOf
  <1>3. PICK total : total = CHOOSE any : IsFold(any, HoldingsOf(s), FundIds)
    OBVIOUS
  <1>4. IsFold(total, HoldingsOf(s), FundIds)
    <2>1. \E any : IsFold(any, HoldingsOf(s), FundIds)
      BY <1>1, FoldExists
    <2> QED
      BY <1>3, <2>1
  <1> QED
    BY <1>2, <1>3, <1>4, FoldTotals DEF InvestedIs

LEMMA InvestedTotalNext ==
    ASSUME IsFiniteSet(FundIds)
    PROVE  IInv' => \A s \in Subs : \E total : InvestedIs(s, total)'
  <1>1. IInv' => (\A s \in Subs : \E total : InvestedIs(s, total))'
    BY InvestedTotal, PTL
  <1> QED
    BY <1>1

\* No holding is more than all of them, and nothing held adds up to nothing.
LEMMA InvestedBounds ==
    ASSUME IsFiniteSet(FundIds), IInv, NEW s \in Subs
    PROVE  /\ Invested(s) \in Nat
           /\ \A f \in FundIds : Holding(transactions, s, f) <= Invested(s)
           /\ (\A f \in FundIds : Holding(transactions, s, f) = 0) => Invested(s) = 0
  <1>1. PICK total : InvestedIs(s, total)
    BY InvestedTotal
  <1>2. \A f \in FundIds : /\ HoldingsOf(s)[f] \in Nat
                           /\ HoldingsOf(s)[f] = Holding(transactions, s, f)
    BY HoldingType DEF HoldingsOf
  <1>3. Totals(total, HoldingsOf(s), FundIds) /\ Invested(s) = total[FundIds]
    BY <1>1 DEF InvestedIs
  <1>4. /\ total[FundIds] \in Nat
        /\ \A f \in FundIds : HoldingsOf(s)[f] <= total[FundIds]
        /\ (\A f \in FundIds : HoldingsOf(s)[f] = 0) => total[FundIds] = 0
    BY <1>2, <1>3, TotalBounds
  <1> QED
    BY <1>2, <1>3, <1>4

\* What user s puts into a fund is what their cash loses; d is 0 if nothing moves.
Exchange(s, f, d) ==
    /\ Cash(s)' = Cash(s) - d
    /\ \A g \in FundIds :
          Holding(transactions, s, g)' =
              IF g = f THEN Holding(transactions, s, g) + d
              ELSE Holding(transactions, s, g)

LEMMA ExchangeBalances ==
    ASSUME IsFiniteSet(FundIds), IInv, IInv', NEW s \in Subs, Cash(s) \in Int,
           NEW f, NEW d \in Int, f \in FundIds \/ d = 0, Exchange(s, f, d)
    PROVE  Cash(s)' + Invested(s)' = Cash(s) + Invested(s)
  <1>1. PICK total : InvestedIs(s, total)
    BY InvestedTotal
  <1>2. PICK other : InvestedIs(s, other)'
    BY InvestedTotalNext
  <1> DEFINE F == HoldingsOf(s)
             H == [g \in FundIds |-> Holding(transactions', s, g)]
  <1>3. Totals(total, F, FundIds) /\ Invested(s) = total[FundIds]
    BY <1>1 DEF InvestedIs
  <1>4. Totals(other, H, FundIds) /\ Invested(s)' = other[FundIds]
    BY <1>2 DEF InvestedIs, HoldingsOf
  <1>5. \A g \in FundIds : F[g] \in Int
    BY HoldingType DEF HoldingsOf
  <1>6. \A g \in FundIds : H[g] = IF g = f THEN F[g] + d ELSE F[g]
    BY DEF Exchange, HoldingsOf
  <1> HIDE DEF F, H
  <1>7. other[FundIds] = IF f \in FundIds THEN total[FundIds] + d ELSE total[FundIds]
    BY <1>3, <1>4, <1>5, <1>6, TotalChange
  <1>8. Invested(s) \in Int
    BY InvestedBounds
  <1> QED
    BY <1>3, <1>4, <1>7, <1>8 DEF Exchange

-----------------------------------------------------------------------------
(* Every step of the portfolio balances.                                       *)

Exchanges(s) == \E f, d : d \in Int /\ (f \in FundIds \/ d = 0) /\ Exchange(s, f, d)

\* The variables of the portfolio, read back as what they stand for.
LEMMA CashRead ==
    ASSUME NEW s \in Subs, NEW c,
           [u \in Subs |-> Cash(u)]' = [[u \in Subs |-> Cash(u)] EXCEPT ![s] = c]
    PROVE  CashBecomes(s, c)
  BY DEF CashBecomes

LEMMA HoldingRead ==
    ASSUME NEW s \in Subs, NEW f \in FundIds, NEW a,
           [u \in Subs |-> [g \in FundIds |-> Holding(transactions, u, g)]]' =
               [[u \in Subs |-> [g \in FundIds |-> Holding(transactions, u, g)]]
                    EXCEPT ![s][f] = a]
    PROVE  HoldingBecomes(s, f, a)
  <1> PICK H :
          H = [u \in Subs |-> [g \in FundIds |-> Holding(transactions, u, g)]]
    OBVIOUS
  <1>1. [u \in Subs |-> [g \in FundIds |-> Holding(transactions', u, g)]] =
            [H EXCEPT ![s] = [H[s] EXCEPT ![f] = a]]
    OBVIOUS
  <1>2. ASSUME NEW u \in Subs, NEW g \in FundIds
        PROVE  Holding(transactions', u, g) =
                   IF u = s /\ g = f THEN a ELSE Holding(transactions, u, g)
    <2>1. Holding(transactions', u, g) = [H EXCEPT ![s] = [H[s] EXCEPT ![f] = a]][u][g]
      BY <1>1
    <2> QED
      BY <2>1
  <1> QED
    BY <1>2 DEF HoldingBecomes

HoldingSame ==
    \A u \in Subs, g \in FundIds :
        Holding(transactions, u, g)' = Holding(transactions, u, g)

LEMMA HoldingUnread ==
    ASSUME UNCHANGED [v \in Subs |-> [g \in FundIds |-> Holding(transactions, v, g)]]
    PROVE  HoldingSame
  <1>1. ASSUME NEW v \in Subs, NEW g \in FundIds
        PROVE  Holding(transactions', v, g) = Holding(transactions, v, g)
    <2>1. [w \in Subs |-> [h \in FundIds |-> Holding(transactions', w, h)]][v][g] =
              [w \in Subs |-> [h \in FundIds |-> Holding(transactions, w, h)]][v][g]
      OBVIOUS
    <2> QED
      BY <2>1
  <1> QED
    BY <1>1 DEF HoldingSame

LEMMA SameExchanges ==
    ASSUME NEW u \in Subs, Cash(u) \in Int, Cash(u)' = Cash(u), HoldingSame, IInv
    PROVE  Exchanges(u)
  <1>1. Exchange(u, 0, 0)
    <2>1. \A g \in FundIds : Holding(transactions, u, g) \in Nat
      BY HoldingType
    <2> QED
      BY <2>1 DEF Exchange, HoldingSame
  <1> QED
    BY <1>1 DEF Exchanges

LEMMA NextExchanges ==
    ASSUME IInv, P!Next, NEW u \in Subs, Cash(u) \in Int
    PROVE  Exchanges(u)
  <1>1. PICK s \in Subs, f \in KnownFundIds : P!Subscribe(s, f) \/ P!Cancel(s, f)
    BY DEF P!Next
  <1>2. f \in FundIds /\ MinAmount[FundOf[f]] \in Nat
    BY ConstantsAssumption DEF ConstantsAssumption, KnownFundIds
  <1>3. \A g \in FundIds : Holding(transactions, u, g) \in Nat
    BY HoldingType
  <1>4. ASSUME NEW d \in Int, NEW a,
               CashBecomes(s, Cash(s) - d), HoldingBecomes(s, f, a),
               a = Holding(transactions, s, f) + d
        PROVE  Exchanges(u)
    <2>1. CASE u = s
      <3>1. Exchange(u, f, d)
        BY <1>2, <1>4, <2>1 DEF Exchange, CashBecomes, HoldingBecomes
      <3> QED
        BY <1>2, <3>1 DEF Exchanges
    <2>2. CASE u # s
      <3>1. Exchange(u, f, 0)
        BY <1>3, <1>4, <2>2 DEF Exchange, CashBecomes, HoldingBecomes
      <3> QED
        BY <3>1 DEF Exchanges
    <2> QED
      BY <2>1, <2>2
  <1>5. CASE P!Subscribe(s, f)
    <2>1. PICK a \in P!Affordable(s, f) :
              /\ [v \in Subs |-> Cash(v)]' =
                     [[v \in Subs |-> Cash(v)] EXCEPT ![s] = [v \in Subs |-> Cash(v)][s] - a]
              /\ [v \in Subs |-> [g \in FundIds |-> Holding(transactions, v, g)]]' =
                     [[v \in Subs |-> [g \in FundIds |-> Holding(transactions, v, g)]]
                          EXCEPT ![s][f] = a]
      BY <1>5, Zenon DEF P!Subscribe
    <2>2. Holding(transactions, s, f) = 0 /\ a \in Int
      <3>1. a \in IF Holding(transactions, s, f) = 0
                  THEN MinAmount[FundOf[f]] .. Cash(s) ELSE {}
        BY <2>1, AffordableIs
      <3> QED
        BY <3>1
    <2>3. CashBecomes(s, Cash(s) - a)
      BY <2>1, CashRead
    <2>4. HoldingBecomes(s, f, a)
      BY <1>2, <2>1, HoldingRead
    <2> QED
      BY <1>4, <2>2, <2>3, <2>4
  <1>6. CASE P!Cancel(s, f)
    <2>1. /\ [v \in Subs |-> Cash(v)]' =
                 [[v \in Subs |-> Cash(v)] EXCEPT ![s] =
                      [v \in Subs |-> Cash(v)][s] +
                      [v \in Subs |-> [g \in FundIds |-> Holding(transactions, v, g)]][s][f]]
          /\ [v \in Subs |-> [g \in FundIds |-> Holding(transactions, v, g)]]' =
                 [[v \in Subs |-> [g \in FundIds |-> Holding(transactions, v, g)]]
                      EXCEPT ![s][f] = 0]
      BY <1>6, Zenon DEF P!Cancel
    <2>2. PICK a : a = Holding(transactions, s, f)
      OBVIOUS
    <2>3. a \in Nat
      BY <1>2, <2>2, HoldingType
    <2>4. HoldingBecomes(s, f, 0)
      BY <1>2, <2>1, HoldingRead
    <2>5. CashBecomes(s, Cash(s) + a)
      BY <1>2, <2>1, <2>2, CashRead
    <2>6. CASE u = s
      <3>1. Exchange(u, f, -a)
        BY <1>2, <2>2, <2>3, <2>4, <2>5, <2>6 DEF Exchange, CashBecomes, HoldingBecomes
      <3> QED
        BY <1>2, <2>3, <3>1 DEF Exchanges
    <2>7. CASE u # s
      <3>1. Exchange(u, f, 0)
        BY <1>3, <2>4, <2>5, <2>7 DEF Exchange, CashBecomes, HoldingBecomes
      <3> QED
        BY <3>1 DEF Exchanges
    <2> QED
      BY <2>6, <2>7
  <1> QED
    BY <1>1, <1>5, <1>6

LEMMA InterruptedExchanges ==
    ASSUME IInv, NEW s \in Subs, NEW f, P!Interrupted(s, f),
           NEW u \in Subs, u # s, Cash(u) \in Int
    PROVE  Exchanges(u)
  <1>1. HoldingSame
    <2>1. UNCHANGED [v \in Subs |-> [g \in FundIds |-> Holding(transactions, v, g)]]
      BY Zenon DEF P!Interrupted
    <2> QED
      BY <2>1, HoldingUnread
  <1>2. \E c : [v \in Subs |-> Cash(v)]' = [[v \in Subs |-> Cash(v)] EXCEPT ![s] = c]
    BY Zenon DEF P!Interrupted
  <1>3. Cash(u)' = Cash(u)
    BY <1>2, CashRead DEF CashBecomes
  <1> QED
    BY <1>1, <1>3, SameExchanges

-----------------------------------------------------------------------------
(* What a user has been told, and that they exist, is never taken back.        *)

LEMMA AnswerStays ==
    ASSUME IInv, [Next]_vars, NEW r \in Requests, response[r].status \in {"500", "dropped"}
    PROVE  response'[r] = response[r] /\ request'[r] = request[r]
  <1> TypeOK
    BY DEF IInv
  <1> USE DEF TypeOK
  <1>1. pc[r] = "done"
    BY DEF IInv, RequestOK, Inserted, NoResponse
  <1>2. ASSUME NEW q \in Requests, NEW status, NEW id, pc[q] # "done", Finish(q, status, id)
        PROVE  response'[r] = response[r]
    BY <1>1, <1>2 DEF Finish
  <1>3. ASSUME NEW q \in Requests, Receive(q)
        PROVE  response'[r] = response[r] /\ request'[r] = request[r]
    BY <1>1, <1>3 DEF Receive
  <1>4. ASSUME NEW q \in Requests, Handler(q) \/ DatabaseError(q) \/ LostReply(q)
        PROVE  response'[r] = response[r] /\ request'[r] = request[r]
    <2>1. pc[q] # "done" /\ UNCHANGED request
      BY <1>4 DEF Handler, FindUser, CanStart, FindFund, FindTransactions, UpdateBalance,
             Insert, FindInserted, SendMessage, DatabaseError, LostReply, DatabaseSteps
    <2>2. UNCHANGED response \/ \E status, id : Finish(q, status, id)
      BY <1>4 DEF Handler, FindUser, FindFund, FindTransactions, UpdateBalance, Insert,
             FindInserted, SendMessage, DatabaseError, LostReply, Goto
    <2> QED
      BY <1>2, <2>1, <2>2
  <1>5. ASSUME NEW p \in Processes, Crash(p) \/ Tick(p) \/ SetClockBack(p)
        PROVE  response'[r] = response[r] /\ request'[r] = request[r]
    BY <1>1, <1>5 DEF Crash, Tick, SetClockBack
  <1>6. CASE UNCHANGED vars
    BY <1>6 DEF vars
  <1> QED
    BY <1>3, <1>4, <1>5, <1>6 DEF Next

LEMMA FailedStays ==
    ASSUME IInv, [Next]_vars, NEW s \in Subs, Failed(s)
    PROVE  Failed(s)'
  <1>1. PICK r \in Requests : Sub(r) = s /\ response[r].status \in {"500", "dropped"}
    BY DEF Failed
  <1>2. response'[r] = response[r] /\ request'[r] = request[r]
    BY <1>1, AnswerStays
  <1> QED
    BY <1>1, <1>2 DEF Failed, Sub

LEMMA UsersStay ==
    ASSUME IInv, [Next]_vars, NEW s \in Subs, users'[s] # None
    PROVE  users[s] # None
  <1>1. CASE UNCHANGED users
    BY <1>1
  <1>2. ASSUME NEW r \in Requests, pc[r] = "update_balance", SetBalance(r)
        PROVE  users[s] # None
    <2>1. users[Sub(r)] \in UserOut /\ users \in [Subs -> UserOut \cup {None}]
      BY <1>2 DEF IInv, TypeOK, RequestOK, UserFound, DatabaseSteps
    <2>2. users[s] # users'[s] => s = Sub(r)
      BY <1>2, <2>1 DEF SetBalance
    <2> QED
      BY <2>1, <2>2, NoneAssumption DEF NoneAssumption
  <1> QED
    BY <1>1, <1>2 DEF Next, vars, database, Receive, Handler, FindUser, FindFund,
           FindTransactions, UpdateBalance, Insert, FindInserted, SendMessage, DatabaseError,
           LostReply, Crash, Tick, SetClockBack

-----------------------------------------------------------------------------
(* The books balance.                                                          *)

LEMMA InitBalanced ==
    ASSUME OneProcess, IsFiniteSet(FundIds), Init
    PROVE  Balanced
  <1>1. OInv /\ IInv
    BY InitOne DEF OInv
  <1>2. ASSUME NEW s \in Subs, users[s] # None
        PROVE  Cash(s) + Invested(s) = DEFAULT_INITIAL_BALANCE
    <2>1. Cash(s) = DEFAULT_INITIAL_BALANCE
      BY <1>2 DEF Init, Cash
    <2>2. \A f \in FundIds : Holding(transactions, s, f) = 0
      BY DEF Init, Holding, ActiveSubscription, History
    <2>3. Invested(s) = 0
      BY <1>1, <2>2, InvestedBounds
    <2> QED
      BY <2>1, <2>3, ConstantsAssumption DEF ConstantsAssumption
  <1> QED
    BY <1>2 DEF Balanced

\* What a step does to one user: an exchange, or half of one.
LEMMA StepExchanges ==
    ASSUME OneProcess, OInv, OInv', CashKnown', [Next]_vars,
           NEW s \in Subs, Cash(s) \in Int
    PROVE  \/ Exchanges(s)
           \/ Faults # {} /\ \E r \in Requests : s = Sub(r) /\ Broken(r) /\ Failed(s)'
  <1>1. IInv
    BY DEF OInv
  <1>2. CASE P!Next
    BY <1>1, <1>2, NextExchanges
  <1>3. CASE UNCHANGED P!vars
    <2>1. /\ [v \in Subs |-> Cash(v)]' = [v \in Subs |-> Cash(v)]
          /\ UNCHANGED [v \in Subs |-> [g \in FundIds |-> Holding(transactions, v, g)]]
      BY <1>3, Zenon DEF P!vars
    <2>2. [v \in Subs |-> Cash(v)'][s] = [v \in Subs |-> Cash(v)][s]
      BY <2>1
    <2>3. HoldingSame
      BY <2>1, HoldingUnread
    <2> QED
      BY <1>1, <2>2, <2>3, SameExchanges
  <1>4. CASE Half
    <2>1. PICK u \in Subs, f \in KnownFundIds :
              /\ P!Interrupted(u, f) /\ Failed(u)'
              /\ \E r \in Requests : u = Sub(r) /\ Broken(r)
      BY <1>4 DEF Half
    <2>2. CASE u = s
      BY <1>4, <2>1, <2>2 DEF Half
    <2>3. CASE u # s
      BY <1>1, <2>1, <2>3, InterruptedExchanges
    <2> QED
      BY <2>2, <2>3
  <1> QED
    BY <1>2, <1>3, <1>4, StepMapped DEF Mapped

LEMMA StepBalanced ==
    ASSUME OneProcess, IsFiniteSet(FundIds), OInv, OInv', CashKnown', Balanced, [Next]_vars
    PROVE  Balanced'
  <1> SUFFICES ASSUME NEW s \in Subs, users'[s] # None, ~ (Faults # {} /\ Failed(s)')
               PROVE  Cash(s)' + Invested(s)' = DEFAULT_INITIAL_BALANCE
    BY DEF Balanced
  <1>1. IInv /\ IInv'
    BY DEF OInv
  <1>2. users[s] # None /\ ~ (Faults # {} /\ Failed(s))
    BY <1>1, UsersStay, FailedStays
  <1>3. Cash(s) + Invested(s) = DEFAULT_INITIAL_BALANCE
    BY <1>2 DEF Balanced
  <1>4. Cash(s) \in Int
    BY <1>2, CashType
  <1>5. Exchanges(s)
    BY <1>4, StepExchanges
  <1>6. PICK f, d : d \in Int /\ (f \in FundIds \/ d = 0) /\ Exchange(s, f, d)
    BY <1>5 DEF Exchanges
  <1> QED
    BY <1>1, <1>3, <1>4, <1>6, ExchangeBalances

THEOREM BalancedInvariant ==
    ASSUME OneProcess, IsFiniteSet(FundIds) PROVE Spec => []Balanced
  <1>1. Init => Balanced
    BY InitBalanced
  <1>2. OInv /\ OInv' /\ CashKnown' /\ Balanced /\ [Next]_vars => Balanced'
    BY StepBalanced
  <1> QED
    BY <1>1, <1>2, CashValueNext, OneInvariant, PTL DEF Spec

\* With one process whose clock is not set back, and any fault, the balance of a user
\* none of whose requests failed and what the log says is in the funds add up to what
\* the user started with, for every number of users, funds and requests (funds.py:
\* 138-150,161-176): no order of requests makes money appear or disappear.
THEOREM BooksAreBalanced ==
    ASSUME OneProcess, IsFiniteSet(FundIds) PROVE Spec => []BooksBalance
  <1>1. OInv /\ Balanced => BooksBalance
    <2> SUFFICES ASSUME OInv, Balanced, NEW s \in Subs,
                        users[s] # None, ~ Failed(s), ~ BetweenWrites(s)
                 PROVE  users[s].balance + Invested(s) = DEFAULT_INITIAL_BALANCE
      BY DEF BooksBalance
    <2>1. Cash(s) = users[s].balance
      BY CashValue DEF CashKnown, Stored, BetweenWrites
    <2> QED
      BY <2>1 DEF Balanced
  <1> QED
    BY <1>1, OneInvariant, BalancedInvariant, PTL

-----------------------------------------------------------------------------
(* What failures do to the books: a sum over the requests, which are finitely  *)
(* many.                                                                       *)

\* off says what each request of user s moved without a record, total adds it up.
OffBy(s, off, total) ==
    /\ \A r \in Requests : off[r] \in Int /\ off[r] \in Unrecorded(s, r)
    /\ Totals(total, off, Requests)

\* The inductive form of FailuresExplainTheBooks, which says nothing in the middle of an
\* operation.
Accounted ==
    \A s \in Subs : users[s] # None =>
        \E off, total :
            /\ OffBy(s, off, total)
            /\ Cash(s) + Invested(s) + total[Requests] = DEFAULT_INITIAL_BALANCE

LEMMA SumExists ==
    ASSUME IsFiniteSet(Requests), NEW off, \A r \in Requests : off[r] \in Int
    PROVE  \E total : Totals(total, off, Requests)
  BY FoldExists, FoldTotals

LEMMA InitAccounted ==
    ASSUME OneProcess, IsFiniteSet(FundIds), IsFiniteSet(Requests), Init
    PROVE  Accounted
  <1> SUFFICES ASSUME NEW s \in Subs, users[s] # None
               PROVE  \E off, total :
                          /\ OffBy(s, off, total)
                          /\ Cash(s) + Invested(s) + total[Requests] = DEFAULT_INITIAL_BALANCE
    BY DEF Accounted
  <1> DEFINE off == [r \in Requests |-> 0]
  <1>1. \A r \in Requests : off[r] \in Nat /\ off[r] \in Unrecorded(s, r) /\ off[r] = 0
    BY DEF Unrecorded
  <1> HIDE DEF off
  <1>2. PICK total : Totals(total, off, Requests)
    BY <1>1, SumExists
  <1>3. total[Requests] = 0
    BY <1>1, <1>2, TotalBounds
  <1>4. OffBy(s, off, total)
    BY <1>1, <1>2 DEF OffBy
  <1>5. OInv
    BY InitOne
  <1>6. Cash(s) = DEFAULT_INITIAL_BALANCE
    BY DEF Init, Cash
  <1>7. Invested(s) = 0
    <2>1. \A f \in FundIds : Holding(transactions, s, f) = 0
      BY DEF Init, Holding, ActiveSubscription, History
    <2> QED
      BY <1>5, <2>1, InvestedBounds DEF OInv
  <1> QED
    BY <1>3, <1>4, <1>6, <1>7, ConstantsAssumption DEF ConstantsAssumption

LEMMA LogStays ==
    ASSUME IInv, [Next]_vars, NEW i \in DOMAIN transactions
    PROVE  i \in DOMAIN transactions' /\ transactions'[i] = transactions[i]
  <1>1. CASE UNCHANGED transactions
    BY <1>1
  <1>2. ASSUME NEW r \in Requests, InsertOne(r)
        PROVE  i \in DOMAIN transactions' /\ transactions'[i] = transactions[i]
    BY <1>2 DEF InsertOne, IInv, TypeOK
  <1> QED
    BY <1>1, <1>2 DEF Next, vars, database, Receive, Handler, FindUser, FindFund,
           FindTransactions, UpdateBalance, Insert, FindInserted, SendMessage, DatabaseError,
           LostReply, Crash, Tick, SetClockBack

\* What may have been moved without a record stays possible.
LEMMA UnrecordedStays ==
    ASSUME IInv, [Next]_vars, NEW s, NEW r \in Requests
    PROVE  Unrecorded(s, r) \subseteq Unrecorded(s, r)'
  <1>1. CASE response[r].status \in {"500", "dropped"}
    <2>1. response'[r] = response[r] /\ Sub(r)' = Sub(r) /\ Body(r)' = Body(r)
      BY <1>1, AnswerStays DEF Sub, Body
    <2>2. \A i \in DOMAIN transactions :
             i \in DOMAIN transactions' /\ transactions'[i] = transactions[i]
      BY LogStays
    <2> QED
      BY <2>1, <2>2 DEF Unrecorded, History
  <1>2. CASE ~ (response[r].status \in {"500", "dropped"})
    BY <1>2 DEF Unrecorded
  <1> QED
    BY <1>1, <1>2

\* A request that breaks off has moved nothing so far, and can have moved its amount.
LEMMA BrokenIsUnrecorded ==
    ASSUME IInv, NEW r \in Requests, Broken(r), NEW s, s = Sub(r),
           NEW c, c = IF Body(r).transaction_type = "subscribe" THEN Amount(r) ELSE - Amount(r)
    PROVE  /\ c \in Int
           /\ c \in Unrecorded(s, r)'
           /\ Unrecorded(s, r) = {0}
  <1>1. /\ RequestOK(r)
        /\ pc[r] \in {"update_balance", "insert"}
        /\ response'[r].status \in {"500", "dropped"}
        /\ UNCHANGED <<transactions, request>>
    BY DEF IInv, Broken
  <1>2. Amount(r) \in Nat
    BY <1>1, AmountIsPaid
  <1>3. Unrecorded(s, r) = {0}
    BY <1>1 DEF RequestOK, Inserted, NoResponse, Unrecorded
  <1>4. CASE Body(r).transaction_type = "subscribe"
    <2>1. c = Body(r).amount /\ c # None
      BY <1>2, <1>4, NoneAssumption DEF NoneAssumption, Amount
    <2> QED
      BY <1>1, <1>2, <1>3, <1>4, <2>1 DEF Unrecorded, Sub, Body
  <1>5. CASE Body(r).transaction_type # "subscribe"
    <2> DEFINE i == local[r].active_subscription
    <2>1. /\ i \in History(transactions, Sub(r), Body(r).fund_id)
          /\ transactions[i].transaction_type = "subscribe"
          /\ c = - transactions[i].amount
      BY <1>1, <1>5 DEF RequestOK, Validated, Amount
    <2> HIDE DEF i
    <2> QED
      BY <1>1, <1>2, <1>3, <1>5, <2>1 DEF Unrecorded, Sub, Body
  <1> QED
    BY <1>4, <1>5

LEMMA StepAccounted ==
    ASSUME OneProcess, IsFiniteSet(FundIds), IsFiniteSet(Requests),
           OInv, OInv', CashKnown', Accounted, [Next]_vars
    PROVE  Accounted'
  <1> SUFFICES ASSUME NEW s \in Subs, users'[s] # None
               PROVE  \E off, total :
                          /\ OffBy(s, off, total)'
                          /\ Cash(s)' + Invested(s)' + total[Requests] =
                                 DEFAULT_INITIAL_BALANCE
    BY DEF Accounted
  <1>1. IInv /\ IInv'
    BY DEF OInv
  <1>2. users[s] # None
    BY <1>1, UsersStay
  <1>3. PICK off, total :
            /\ OffBy(s, off, total)
            /\ Cash(s) + Invested(s) + total[Requests] = DEFAULT_INITIAL_BALANCE
    BY <1>2 DEF Accounted
  <1>4. Cash(s) \in Int /\ Invested(s) \in Nat
    BY <1>1, <1>2, CashType, InvestedBounds
  <1>5. \A r \in Requests : off[r] \in Int /\ off[r] \in Unrecorded(s, r)'
    BY <1>1, <1>3, UnrecordedStays DEF OffBy
  <1>6. CASE Exchanges(s)
    <2>1. PICK f, d : d \in Int /\ (f \in FundIds \/ d = 0) /\ Exchange(s, f, d)
      BY <1>6 DEF Exchanges
    <2>2. Cash(s)' + Invested(s)' = Cash(s) + Invested(s)
      BY <1>1, <1>4, <2>1, ExchangeBalances
    <2>3. OffBy(s, off, total)'
      BY <1>3, <1>5 DEF OffBy
    <2> QED
      BY <1>3, <2>2, <2>3
  <1>7. ASSUME NEW r \in Requests, s = Sub(r), Broken(r)
        PROVE  \E new, sum :
                   /\ OffBy(s, new, sum)'
                   /\ Cash(s)' + Invested(s)' + sum[Requests] = DEFAULT_INITIAL_BALANCE
    <2> PICK c : c = IF Body(r).transaction_type = "subscribe" THEN Amount(r) ELSE - Amount(r)
      OBVIOUS
    <2>1. c \in Int /\ c \in Unrecorded(s, r)' /\ off[r] = 0
      BY <1>1, <1>3, <1>7, BrokenIsUnrecorded DEF OffBy
    <2>9. PICK new : \A q \in Requests : new[q] = IF q = r THEN off[q] + c ELSE off[q]
      <3> WITNESS [q \in Requests |-> IF q = r THEN off[q] + c ELSE off[q]]
      <3> QED OBVIOUS
    <2>2. \A q \in Requests : new[q] \in Int /\ new[q] \in Unrecorded(s, q)'
      BY <1>5, <2>1, <2>9
    <2>3. PICK sum : Totals(sum, new, Requests)
      BY <2>2, SumExists
    <2>4. sum[Requests] = total[Requests] + c
      <3>1. Totals(total, off, Requests) /\ \A q \in Requests : off[q] \in Int
        BY <1>3 DEF OffBy
      <3>3. r \in Requests /\ c \in Int
        BY <1>7, <2>1
      <3>4. sum[Requests] = IF r \in Requests THEN total[Requests] + c ELSE total[Requests]
        BY <2>3, <2>9, <3>1, <3>3, TotalChange
      <3> QED
        BY <3>3, <3>4
    <2>5. total[Requests] \in Int
      BY <1>3, TotalType DEF OffBy
    <2>6. Cash(s)' = Cash(s) - c
      <3>1. Cash(s)' = NewBalance(r) /\ Sound(r) /\ Amount(r) \in Nat
        BY <1>1, <1>7, AmountIsPaid DEF Broken, CashBecomes
      <3> QED
        BY <1>4, <1>7, <3>1 DEF Sound
    <2>7. Invested(s)' = Invested(s)
      BY <1>7 DEF Broken, Invested, MapThenSumSet, MapThenFoldSet
    <2>8. OffBy(s, new, sum)'
      BY <2>2, <2>3 DEF OffBy
    <2> QED
      BY <1>3, <1>4, <2>1, <2>4, <2>5, <2>6, <2>7, <2>8
  <1> QED
    BY <1>4, <1>6, <1>7, StepExchanges

THEOREM AccountedInvariant ==
    ASSUME OneProcess, IsFiniteSet(FundIds), IsFiniteSet(Requests) PROVE Spec => []Accounted
  <1>1. Init => Accounted
    BY InitAccounted
  <1>2. OInv /\ OInv' /\ CashKnown' /\ Accounted /\ [Next]_vars => Accounted'
    BY StepAccounted
  <1> QED
    BY <1>1, <1>2, CashValueNext, OneInvariant, PTL DEF Spec

\* With one process whose clock is not set back, and any fault at any point of any number
\* of requests of any number of users, what is missing from the books of a user, or too
\* much, is a sum of amounts of requests of that user which did not succeed (funds.py:
\* 138-150,161-176).
THEOREM FailuresExplain ==
    ASSUME OneProcess, IsFiniteSet(FundIds), IsFiniteSet(Requests)
    PROVE  Spec => []FailuresExplainTheBooks
  <1>1. OInv /\ Accounted => FailuresExplainTheBooks
    <2> SUFFICES ASSUME OInv, Accounted, NEW s \in Subs, users[s] # None, ~ BetweenWrites(s)
                 PROVE  \E off \in [Requests -> UNION {Unrecorded(s, r) : r \in Requests}] :
                            /\ \A r \in Requests : off[r] \in Unrecorded(s, r)
                            /\ users[s].balance + Invested(s)
                                  + MapThenSumSet(LAMBDA r : off[r], Requests) =
                                      DEFAULT_INITIAL_BALANCE
      BY DEF FailuresExplainTheBooks
    <2>1. Cash(s) = users[s].balance
      BY CashValue DEF CashKnown, Stored, BetweenWrites
    <2>2. PICK any, total :
              /\ OffBy(s, any, total)
              /\ Cash(s) + Invested(s) + total[Requests] = DEFAULT_INITIAL_BALANCE
      BY DEF Accounted
    <2> PICK off : off = [r \in Requests |-> any[r]]
      OBVIOUS
    <2>3. \A r \in Requests : /\ any[r] \in Int /\ off[r] \in Int
                              /\ off[r] = any[r] /\ off[r] \in Unrecorded(s, r)
      BY <2>2 DEF OffBy
    <2>4. off \in [Requests -> UNION {Unrecorded(s, r) : r \in Requests}]
      BY <2>3
    <2>5. MapThenSumSet(LAMBDA r : off[r], Requests) =
              (CHOOSE sum : IsFold(sum, off, Requests))[Requests]
      BY DEF MapThenSumSet, MapThenFoldSet, IsFold
    <2>6. PICK sum : sum = CHOOSE fold : IsFold(fold, off, Requests)
      OBVIOUS
    <2>7. Totals(sum, off, Requests)
      BY <2>3, <2>6, FoldExists, FoldTotals
    <2>8. sum[Requests] = total[Requests]
      <3>1. Totals(total, any, Requests)
        BY <2>2 DEF OffBy
      <3>2. \A r \in Requests : any[r] \in Int /\ off[r] = any[r]
        BY <2>3
      <3> QED
        BY <2>7, <3>1, <3>2, TotalsAgree
    <2> QED
      BY <2>1, <2>2, <2>3, <2>4, <2>5, <2>6, <2>8
  <1> QED
    BY <1>1, OneInvariant, AccountedInvariant, PTL

\* When moreover nothing goes wrong, what RefundTwice refutes holds: no balance is ever
\* more than the user started with, not even between the two writes of a cancellation
\* (funds.py:161-164).
THEOREM RefundsBounded ==
    ASSUME OneProcess, IsFiniteSet(FundIds), Faults = {}
    PROVE  Spec => []RefundsAtMostWhatWasPaid
  <1>1. OInv /\ Balanced => RefundsAtMostWhatWasPaid
    <2> SUFFICES ASSUME OInv, Balanced, NEW s \in Subs, users[s] # None
                 PROVE  users[s].balance <= DEFAULT_INITIAL_BALANCE
      BY DEF RefundsAtMostWhatWasPaid
    <2>1. /\ Cash(s) + Invested(s) = DEFAULT_INITIAL_BALANCE
          /\ Cash(s) \in Int
          /\ Invested(s) \in Nat
          /\ \A f \in FundIds : Holding(transactions, s, f) <= Invested(s)
          /\ DEFAULT_INITIAL_BALANCE \in Nat
      BY CashType, InvestedBounds, ConstantsAssumption DEF Balanced, OInv, ConstantsAssumption
    <2>2. CASE ~ BetweenWrites(s)
      <3>1. Cash(s) = users[s].balance
        BY <2>2, CashValue DEF CashKnown, Stored, BetweenWrites
      <3> QED
        BY <2>1, <3>1
    <2>3. CASE BetweenWrites(s)
      <3>1. PICK r \in Requests : Sub(r) = s /\ pc[r] = "insert"
        BY <2>3 DEF BetweenWrites
      <3>2. Sound(r) /\ users[s].balance = NewBalance(r)
        BY <3>1, SoundWhenValidated DEF Stored
      <3>3. Body(r).fund_id \in FundIds /\ Amount(r) \in Nat
        BY <3>1, AmountIsPaid DEF OInv
      <3> QED
        BY <2>1, <3>1, <3>2, <3>3 DEF Sound
    <2> QED
      BY <2>2, <2>3
  <1> QED
    BY <1>1, OneInvariant, BalancedInvariant, PTL

=============================================================================
