----------------------------- MODULE AccountsProofs -----------------------------
(***************************************************************************)
(* Proofs about Accounts, for every number of processes, sign-ups and      *)
(* e-mails, every policy of the pool and every set of faults.              *)
(***************************************************************************)
EXTENDS Accounts, TLAPS

SentAs(r, kind) == InBody(r) \in Body /\ InBody(r).kind = kind

\* The sign-up whose subject is u reached the pool.
Enrolled(u) ==
    /\ SentAs(u, "signup")
    /\ pc[u] \in {"find_email", "insert_one", "done"}

\* What is known of a request at each call.
RequestOK(r) ==
    /\ pc[r] \in {"signup", "find_email", "insert_one"} => SentAs(r, "signup")
    /\ pc[r] = "confirm" => SentAs(r, "confirm")
    /\ pc[r] = "login" => SentAs(r, "login")
    /\ pc[r] = "token" =>
          SentAs(r, "transactions") /\ InBody(r).bearer \in sessions \cup {None}
    /\ pc[r] = "find_user" => SentAs(r, "transactions") /\ InBody(r).bearer \in sessions
    /\ pc[r] # "done" => response[r].status = "pending"

RequestsOK == \A r \in Requests : RequestOK(r)

\* An account is of the sign-up with its e-mail.
PoolOK ==
    \A e \in Emails, u \in Requests : pool[e] # None /\ pool[e].sub = u =>
        /\ Enrolled(u)
        /\ Email(u) = e

SessionsOK == \A u \in sessions : Enrolled(u)

\* A sign-up under way owns the account of its e-mail, which has no document yet.
UnderWayOK ==
    \A r \in Requests : pc[r] \in {"find_email", "insert_one"} =>
        /\ pool[Email(r)] # None
        /\ pool[Email(r)].sub = r
        /\ ~ HasDocument(r)

\* A sign-up that succeeded was answered with the document of its account.
AnswersOK ==
    \A u \in Requests : SentAs(u, "signup") /\ response[u].status = "200" =>
        /\ response[u].user \in DOMAIN users
        /\ users[response[u].user].cognito_id = u

AInv ==
    /\ RequestsOK
    /\ PoolOK
    /\ SessionsOK
    /\ UnderWayOK
    /\ DocumentsMatchAccounts
    /\ AnswersOK

IInv == TypeOK /\ AInv

LEMMA BodyFields ==
    ASSUME NEW b \in Body
    PROVE  /\ b.kind \in Endpoints
           /\ b.kind # "transactions" => b.email \in Emails
           /\ b.kind = "signup" => b.password \in Passwords /\ b.phone_number \in BOOLEAN
           /\ b.kind = "login" => b.password \in Passwords
           /\ b.kind = "transactions" => b.bearer \in Requests \cup {None}
  BY DEF Body, Endpoints

LEMMA AccountFields ==
    ASSUME TypeOK, NEW e \in Emails, pool[e] # None
    PROVE  /\ pool[e] \in Account
           /\ pool[e].sub \in Requests
           /\ pool[e].password \in Passwords
  BY DEF TypeOK, Account

LEMMA UserFields ==
    ASSUME TypeOK, NEW i \in DOMAIN users
    PROVE  /\ users[i] \in User
           /\ users[i].email \in Emails
           /\ users[i].cognito_id \in Requests
  <1>1. users[i] \in User
    BY DEF TypeOK
  <1> QED BY <1>1 DEF User

-----------------------------------------------------------------------------
(* Types.                                                                      *)

Statuses == {"pending", "200", "400", "401", "403", "404", "500", "dropped"}

LEMMA FinishType ==
    ASSUME TypeOK, NEW r \in Requests, NEW s \in Statuses, NEW n \in Nat, Finish(r, s, n)
    PROVE  /\ pc' \in [Requests -> {"idle", "signup", "find_email", "insert_one", "confirm",
                                    "login", "token", "find_user", "done"}]
           /\ response' \in [Requests -> [status : Statuses, user : Nat]]
           /\ loop' \in [Processes -> Requests \cup {None}]
  BY DEF TypeOK, Finish, Statuses

LEMMA ContinueType ==
    ASSUME TypeOK, NEW r \in Requests, NEW c \in {"find_email", "insert_one"}, Continue(r, c)
    PROVE  /\ pc' \in [Requests -> {"idle", "signup", "find_email", "insert_one", "confirm",
                                    "login", "token", "find_user", "done"}]
           /\ response' = response
           /\ loop' \in [Processes -> Requests \cup {None}]
  BY DEF TypeOK, Continue

LEMMA EnrolType ==
    ASSUME TypeOK, NEW r \in Requests, SentAs(r, "signup"), Enrol(r)
    PROVE  pool' \in [Emails -> Account \cup {None}]
  <1>1. Email(r) \in Emails /\ InBody(r).password \in Passwords
    BY BodyFields DEF SentAs, Email
  <1>2. [sub |-> r, password |-> InBody(r).password, confirmed |-> FALSE] \in Account
    BY <1>1 DEF Account
  <1> QED BY <1>1, <1>2 DEF Enrol, TypeOK

LEMMA SetConfirmedType ==
    ASSUME TypeOK, NEW r \in Requests, SentAs(r, "confirm"), Confirmable(r), SetConfirmed(r)
    PROVE  pool' \in [Emails -> Account \cup {None}]
  <1>1. Email(r) \in Emails
    BY BodyFields DEF SentAs, Email
  <1>2. pool[Email(r)] \in Account
    BY <1>1, AccountFields DEF Confirmable
  <1>3. [pool[Email(r)] EXCEPT !.confirmed = TRUE] \in Account
    BY <1>2 DEF Account
  <1> QED BY <1>1, <1>3 DEF SetConfirmed, TypeOK

LEMMA InsertType ==
    ASSUME TypeOK, NEW r \in Requests, SentAs(r, "signup"), InsertOne(r)
    PROVE  users' \in Seq(User) /\ Len(users) + 1 \in Nat
  <1>1. Document(r) \in User
    BY BodyFields DEF SentAs, Email, Document, User
  <1> QED BY <1>1 DEF InsertOne, TypeOK

LEMMA TypeStep ==
    ASSUME IInv, Next
    PROVE  TypeOK'
  <1> USE DEF IInv
  <1> TypeOK /\ RequestsOK
    BY DEF AInv
  <1> HIDE DEF IInv
  <1>1. ASSUME NEW r \in Requests, Receive(r) PROVE TypeOK'
    <2>1. PICK p \in Processes, b \in Body :
            /\ b.kind \in Kinds
            /\ request' = [request EXCEPT ![r] = [process |-> p, body |-> b]]
            /\ pc' = [pc EXCEPT ![r] = IF b.kind = "transactions" THEN "token" ELSE b.kind]
      BY <1>1 DEF Receive
    <2>2. (IF b.kind = "transactions" THEN "token" ELSE b.kind)
            \in {"signup", "confirm", "login", "token"}
      BY BodyFields DEF Endpoints
    <2>3. pc' \in [Requests -> {"idle", "signup", "find_email", "insert_one", "confirm",
                                "login", "token", "find_user", "done"}]
      BY <2>1, <2>2 DEF TypeOK
    <2>4. request' \in [Requests ->
                          [process : Processes \cup {None}, body : Body \cup {None}]]
      BY <2>1 DEF TypeOK
    <2> QED BY <1>1, <2>3, <2>4 DEF Receive, data, TypeOK
  <1>2. ASSUME NEW r \in Requests, SignUp(r) PROVE TypeOK'
    <2>1. SentAs(r, "signup")
      BY <1>2 DEF SignUp, RequestsOK, RequestOK
    <2>2. CASE Acceptable(r)
      BY <1>2, <2>1, <2>2, EnrolType, ContinueType DEF SignUp, TypeOK
    <2>3. CASE ~ Acceptable(r)
      BY <1>2, <2>3, FinishType DEF SignUp, TypeOK, Statuses
    <2> QED BY <2>2, <2>3
  <1>3. ASSUME NEW r \in Requests, FindEmail(r) PROVE TypeOK'
    BY <1>3, FinishType, ContinueType DEF FindEmail, TypeOK, Statuses, data
  <1>4. ASSUME NEW r \in Requests, InsertUser(r) PROVE TypeOK'
    <2>1. SentAs(r, "signup")
      BY <1>4 DEF InsertUser, RequestsOK, RequestOK
    <2>2. users' \in Seq(User) /\ Len(users) + 1 \in Nat
      BY <1>4, <2>1, InsertType DEF InsertUser
    <2>3. PICK s \in Statuses, n \in Nat : Finish(r, s, n)
      BY <1>4, <2>2 DEF InsertUser, Statuses
    <2> QED BY <1>4, <2>2, <2>3, FinishType DEF InsertUser, TypeOK, Statuses
  <1>5. ASSUME NEW r \in Requests, Confirm(r) PROVE TypeOK'
    <2>1. SentAs(r, "confirm")
      BY <1>5 DEF Confirm, RequestsOK, RequestOK
    <2>2. pool' \in [Emails -> Account \cup {None}]
      BY <1>5, <2>1, SetConfirmedType DEF Confirm, TypeOK
    <2>3. PICK s \in Statuses, n \in Nat : Finish(r, s, n)
      BY <1>5 DEF Confirm, Statuses
    <2> QED BY <1>5, <2>2, <2>3, FinishType DEF Confirm, TypeOK, Statuses
  <1>6. ASSUME NEW r \in Requests, Login(r) PROVE TypeOK'
    <2>1. SentAs(r, "login")
      BY <1>6 DEF Login, RequestsOK, RequestOK
    <2>2. Email(r) \in Emails
      BY <2>1, BodyFields DEF SentAs, Email
    <2>3. sessions' \subseteq Requests
      <3>1. sessions \subseteq Requests
        BY DEF TypeOK
      <3>2. Recognized(r) => pool[Email(r)].sub \in Requests
        BY <2>2, AccountFields DEF Recognized
      <3> QED BY <1>6, <3>1, <3>2 DEF Login
    <2>4. PICK s \in Statuses, n \in Nat : Finish(r, s, n)
      BY <1>6 DEF Login, Statuses
    <2> QED BY <1>6, <2>3, <2>4, FinishType DEF Login, TypeOK, Statuses
  <1>7. ASSUME NEW r \in Requests, CheckToken(r) PROVE TypeOK'
    <2>1. pc' \in [Requests -> {"idle", "signup", "find_email", "insert_one", "confirm",
                                "login", "token", "find_user", "done"}]
      BY <1>7 DEF CheckToken, TypeOK
    <2>2. response' \in [Requests -> [status : Statuses, user : Nat]]
      <3>1. response \in [Requests -> [status : Statuses, user : Nat]]
        BY DEF TypeOK, Statuses
      <3>2. \/ response' = response
            \/ \E status \in Statuses :
                  response' = [response EXCEPT ![r] = [status |-> status, user |-> 0]]
        BY <1>7 DEF CheckToken, Statuses
      <3>3. \A status \in Statuses :
              [status |-> status, user |-> 0] \in [status : Statuses, user : Nat]
        OBVIOUS
      <3> QED BY <3>1, <3>2, <3>3
    <2> QED BY <1>7, <2>1, <2>2 DEF CheckToken, TypeOK, Statuses, data
  <1>8. ASSUME NEW r \in Requests, FindUser(r) PROVE TypeOK'
    <2>1. \A i \in Own(r) : i \in Nat
      BY DEF Own, TypeOK
    <2>2. PICK s \in Statuses, n \in Nat : Finish(r, s, n)
      BY <1>8, <2>1 DEF FindUser, Statuses
    <2> QED BY <1>8, <2>2, FinishType DEF FindUser, TypeOK, Statuses, data
  <1>9. ASSUME NEW r \in Requests, CognitoError(r) PROVE TypeOK'
    BY <1>9, FinishType DEF CognitoError, TypeOK, Statuses, data
  <1>10. ASSUME NEW r \in Requests, CognitoReplyLost(r) PROVE TypeOK'
    <2>1. pc[r] = "signup" => SentAs(r, "signup")
      BY DEF RequestsOK, RequestOK
    <2>2. pc[r] = "confirm" => SentAs(r, "confirm")
      BY DEF RequestsOK, RequestOK
    <2>3. pool' \in [Emails -> Account \cup {None}]
      BY <1>10, <2>1, <2>2, EnrolType, SetConfirmedType DEF CognitoReplyLost
    <2>4. PICK s \in Statuses, n \in Nat : Finish(r, s, n)
      BY <1>10 DEF CognitoReplyLost, Statuses
    <2> QED BY <1>10, <2>3, <2>4, FinishType DEF CognitoReplyLost, TypeOK, Statuses
  <1>11. ASSUME NEW r \in Requests, DatabaseError(r) PROVE TypeOK'
    BY <1>11, FinishType DEF DatabaseError, TypeOK, Statuses, data
  <1>12. ASSUME NEW r \in Requests, DatabaseReplyLost(r) PROVE TypeOK'
    <2>1. SentAs(r, "signup")
      BY <1>12 DEF DatabaseReplyLost, RequestsOK, RequestOK
    <2>2. users' \in Seq(User)
      BY <1>12, <2>1, InsertType DEF DatabaseReplyLost
    <2> QED BY <1>12, <2>2, FinishType DEF DatabaseReplyLost, TypeOK, Statuses
  <1>13. ASSUME NEW p \in Processes, Crash(p) PROVE TypeOK'
    BY <1>13 DEF Crash, TypeOK, data
  <1> QED
    BY <1>1, <1>2, <1>3, <1>4, <1>5, <1>6, <1>7, <1>8, <1>9, <1>10, <1>11, <1>12, <1>13
    DEF Next, Handler

-----------------------------------------------------------------------------
(* What is known of requests, accounts and documents.                          *)

\* The same accounts, whatever has happened to their confirmation.
SameAccounts ==
    \A e \in Emails :
        /\ pool'[e] # None <=> pool[e] # None
        /\ pool[e] # None => pool'[e].sub = pool[e].sub

\* A request stays where it is, or ends; a sign-up does not end well.
StaysOrEnds(r) ==
    \/ pc'[r] = pc[r] /\ response'[r] = response[r]
    \/ /\ pc'[r] = "done"
       /\ SentAs(r, "signup") => response'[r].status # "200"

\* A step that neither enrols nor inserts keeps everything that is known.
LEMMA QuietStep ==
    ASSUME IInv, SameAccounts, UNCHANGED <<users, request>>,
           sessions \subseteq sessions',
           \A u \in sessions' : u \in sessions \/ \E e \in Emails : pool[e] # None /\ u = pool[e].sub,
           \A r \in Requests : StaysOrEnds(r)
    PROVE  AInv'
  <1>1. TypeOK /\ RequestsOK /\ PoolOK /\ SessionsOK /\ UnderWayOK /\ DocumentsMatchAccounts
          /\ AnswersOK
    BY DEF IInv, AInv
  <1>2. \A r : InBody(r)' = InBody(r) /\ Email(r)' = Email(r)
    BY DEF InBody, Email
  <1>3. \A r, k : SentAs(r, k)' <=> SentAs(r, k)
    BY DEF SentAs, InBody
  <1>4. \A u \in Requests : Enrolled(u) => Enrolled(u)'
    BY <1>3 DEF Enrolled, StaysOrEnds
  <1>5. RequestsOK'
    <2> SUFFICES ASSUME NEW r \in Requests PROVE RequestOK(r)'
      BY DEF RequestsOK
    <2>1. RequestOK(r)
      BY <1>1 DEF RequestsOK
    <2>2. CASE pc'[r] = pc[r] /\ response'[r] = response[r]
      BY <1>2, <1>3, <2>1, <2>2 DEF RequestOK
    <2>3. CASE pc'[r] = "done"
      BY <2>3 DEF RequestOK
    <2> QED BY <2>2, <2>3 DEF StaysOrEnds
  <1>6. PoolOK'
    BY <1>1, <1>2, <1>4 DEF PoolOK, SameAccounts
  <1>7. SessionsOK'
    <2> SUFFICES ASSUME NEW u \in sessions' PROVE Enrolled(u)'
      BY DEF SessionsOK
    <2>1. u \in Requests
      BY <1>1, AccountFields DEF TypeOK
    <2>2. Enrolled(u)
      BY <1>1, <2>1 DEF SessionsOK, PoolOK
    <2> QED BY <1>4, <2>1, <2>2
  <1>8. UnderWayOK'
    <2> SUFFICES ASSUME NEW r \in Requests, pc'[r] \in {"find_email", "insert_one"}
                 PROVE  /\ pool'[Email(r)'] # None
                        /\ pool'[Email(r)'].sub = r
                        /\ ~ HasDocument(r)'
      BY DEF UnderWayOK
    <2>1. pc[r] \in {"find_email", "insert_one"}
      BY DEF StaysOrEnds
    <2>2. Email(r) \in Emails
      BY <1>1, <2>1, BodyFields DEF RequestsOK, RequestOK, SentAs, Email
    <2>3. ~ HasDocument(r)'
      BY <1>1, <2>1 DEF UnderWayOK, HasDocument
    <2> QED BY <1>1, <1>2, <2>1, <2>2, <2>3 DEF UnderWayOK, SameAccounts
  <1>9. DocumentsMatchAccounts'
    <2>1. \A i \in DOMAIN users : users[i].email \in Emails
      BY <1>1, UserFields
    <2> QED BY <1>1, <2>1 DEF DocumentsMatchAccounts, SameAccounts
  <1>10. AnswersOK'
    BY <1>1, <1>3 DEF AnswersOK, StaysOrEnds
  <1> QED BY <1>5, <1>6, <1>7, <1>8, <1>9, <1>10 DEF AInv

\* A sign-up that Cognito accepts, whether or not its answer arrives.
LEMMA EnrolStep ==
    ASSUME IInv, NEW r \in Requests, pc[r] = "signup", Acceptable(r), Enrol(r),
           UNCHANGED <<users, sessions, request>>,
           NEW c \in {"find_email", "done"}, pc' = [pc EXCEPT ![r] = c],
           \A q \in Requests : q # r => response'[q] = response[q],
           IF c = "done" THEN response'[r].status # "200" ELSE response'[r] = response[r]
    PROVE  AInv'
  <1>1. TypeOK /\ RequestsOK /\ PoolOK /\ SessionsOK /\ UnderWayOK /\ DocumentsMatchAccounts
          /\ AnswersOK
    BY DEF IInv, AInv
  <1>2. \A q : InBody(q)' = InBody(q) /\ Email(q)' = Email(q)
    BY DEF InBody, Email
  <1>3. \A q, k : SentAs(q, k)' <=> SentAs(q, k)
    BY DEF SentAs, InBody
  <1>4. SentAs(r, "signup") /\ Email(r) \in Emails
    BY <1>1, BodyFields DEF RequestsOK, RequestOK, SentAs, Email
  <1>5. pc'[r] = c /\ \A q \in Requests : q # r => pc'[q] = pc[q]
    BY <1>1 DEF TypeOK
  <1>6. /\ pool'[Email(r)] # None
        /\ pool'[Email(r)].sub = r
        /\ \A e \in Emails : e # Email(r) => pool'[e] = pool[e]
    <2>1. [sub |-> r, password |-> InBody(r).password, confirmed |-> FALSE] \in Account
      BY <1>4, BodyFields DEF Account, SentAs
    <2> QED BY <1>1, <1>4, <2>1, ConstantsAssumption DEF Enrol, TypeOK
  <1>7. \A u \in Requests : Enrolled(u) => u # r /\ Enrolled(u)'
    BY <1>3, <1>5 DEF Enrolled
  <1>8. \A i \in DOMAIN users : users[i].email # Email(r) /\ users[i].cognito_id # r
    <2> TAKE i \in DOMAIN users
    <2>1. users[i].email \in Emails /\ users[i].cognito_id \in Requests
      BY <1>1, UserFields
    <2>2. pool[users[i].email] # None /\ pool[users[i].email].sub = users[i].cognito_id
      BY <1>1 DEF DocumentsMatchAccounts
    <2>3. Enrolled(users[i].cognito_id)
      BY <1>1, <2>1, <2>2 DEF PoolOK
    <2> QED BY <2>2, <2>3 DEF Acceptable, Enrolled
  <1>9. RequestsOK'
    <2> SUFFICES ASSUME NEW q \in Requests PROVE RequestOK(q)'
      BY DEF RequestsOK
    <2>1. RequestOK(q)
      BY <1>1 DEF RequestsOK
    <2>2. CASE q # r
      BY <1>2, <1>3, <1>5, <2>1, <2>2 DEF RequestOK
    <2>3. CASE q = r
      BY <1>3, <1>4, <1>5, <2>1, <2>3 DEF RequestOK
    <2> QED BY <2>2, <2>3
  <1>10. PoolOK'
    <2> SUFFICES ASSUME NEW e \in Emails, NEW u \in Requests,
                        pool'[e] # None, pool'[e].sub = u
                 PROVE  Enrolled(u)' /\ Email(u) = e
      BY <1>2 DEF PoolOK
    <2>1. CASE e # Email(r)
      BY <1>1, <1>6, <1>7, <2>1 DEF PoolOK
    <2>2. CASE e = Email(r)
      BY <1>3, <1>4, <1>5, <1>6, <2>2 DEF Enrolled
    <2> QED BY <2>1, <2>2
  <1>11. SessionsOK'
    BY <1>1, <1>7 DEF SessionsOK, TypeOK
  <1>12. UnderWayOK'
    <2> SUFFICES ASSUME NEW q \in Requests, pc'[q] \in {"find_email", "insert_one"}
                 PROVE  /\ pool'[Email(q)] # None
                        /\ pool'[Email(q)].sub = q
                        /\ ~ HasDocument(q)
      BY <1>2 DEF UnderWayOK, HasDocument
    <2>1. CASE q = r
      BY <1>6, <1>8, <2>1 DEF HasDocument
    <2>2. CASE q # r
      <3>1. pc[q] \in {"find_email", "insert_one"}
        BY <1>5, <2>2
      <3>2. Email(q) \in Emails
        BY <1>1, <3>1, BodyFields DEF RequestsOK, RequestOK, SentAs, Email
      <3>3. pool[Email(q)] # None /\ pool[Email(q)].sub = q /\ ~ HasDocument(q)
        BY <1>1, <3>1 DEF UnderWayOK
      <3> QED BY <1>6, <3>2, <3>3 DEF Acceptable
    <2> QED BY <2>1, <2>2
  <1>13. DocumentsMatchAccounts'
    <2>1. \A i \in DOMAIN users : users[i].email \in Emails
      BY <1>1, UserFields
    <2> QED BY <1>1, <1>6, <1>8, <2>1 DEF DocumentsMatchAccounts
  <1>14. AnswersOK'
    <2> SUFFICES ASSUME NEW u \in Requests, SentAs(u, "signup"), response'[u].status = "200"
                 PROVE  response'[u] = response[u]
      BY <1>1, <1>3 DEF AnswersOK
    <2>1. CASE u # r
      BY <2>1
    <2>2. CASE u = r
      BY <2>2
    <2> QED BY <2>1, <2>2
  <1> QED BY <1>9, <1>10, <1>11, <1>12, <1>13, <1>14 DEF AInv

\* The insertion of a document, acknowledged or not.
LEMMA InsertStep ==
    ASSUME IInv, NEW r \in Requests, pc[r] = "insert_one", InsertOne(r),
           UNCHANGED <<pool, sessions, request>>,
           pc' = [pc EXCEPT ![r] = "done"],
           \A q \in Requests : q # r => response'[q] = response[q],
           response'[r].status = "200" => response'[r].user = Len(users) + 1
    PROVE  AInv'
  <1>1. TypeOK /\ RequestsOK /\ PoolOK /\ SessionsOK /\ UnderWayOK /\ DocumentsMatchAccounts
          /\ AnswersOK
    BY DEF IInv, AInv
  <1>2. \A q : InBody(q)' = InBody(q) /\ Email(q)' = Email(q)
    BY DEF InBody, Email
  <1>3. \A q, k : SentAs(q, k)' <=> SentAs(q, k)
    BY DEF SentAs, InBody
  <1>4. SentAs(r, "signup") /\ Email(r) \in Emails
    BY <1>1, BodyFields DEF RequestsOK, RequestOK, SentAs, Email
  <1>5. pc'[r] = "done" /\ \A q \in Requests : q # r => pc'[q] = pc[q]
    BY <1>1 DEF TypeOK
  <1>6. pool[Email(r)] # None /\ pool[Email(r)].sub = r /\ ~ HasDocument(r)
    BY <1>1 DEF UnderWayOK
  <1>7. /\ Document(r).email = Email(r)
        /\ Document(r).cognito_id = r
        /\ Document(r) \in User
    BY <1>4, BodyFields DEF Document, SentAs, User
  <1>8. /\ DOMAIN users' = DOMAIN users \cup {Len(users) + 1}
        /\ Len(users) + 1 \notin DOMAIN users
        /\ users'[Len(users) + 1] = Document(r)
        /\ \A i \in DOMAIN users : users'[i] = users[i]
    BY <1>1, <1>7 DEF InsertOne, TypeOK
  <1>9. \A u \in Requests : Enrolled(u) => Enrolled(u)'
    BY <1>3, <1>5 DEF Enrolled
  <1>10. RequestsOK'
    <2> SUFFICES ASSUME NEW q \in Requests PROVE RequestOK(q)'
      BY DEF RequestsOK
    <2>1. RequestOK(q)
      BY <1>1 DEF RequestsOK
    <2>2. CASE q # r
      BY <1>2, <1>3, <1>5, <2>1, <2>2 DEF RequestOK
    <2>3. CASE q = r
      BY <1>5, <2>3 DEF RequestOK
    <2> QED BY <2>2, <2>3
  <1>11. PoolOK'
    BY <1>1, <1>2, <1>9 DEF PoolOK
  <1>12. SessionsOK'
    BY <1>1, <1>9 DEF SessionsOK, TypeOK
  <1>13. UnderWayOK'
    <2> SUFFICES ASSUME NEW q \in Requests, pc'[q] \in {"find_email", "insert_one"}
                 PROVE  pool[Email(q)] # None /\ pool[Email(q)].sub = q /\ ~ HasDocument(q)'
      BY <1>2 DEF UnderWayOK
    <2>1. q # r /\ pc[q] \in {"find_email", "insert_one"}
      BY <1>5
    <2>2. pool[Email(q)] # None /\ pool[Email(q)].sub = q /\ ~ HasDocument(q)
      BY <1>1, <2>1 DEF UnderWayOK
    <2> QED BY <1>7, <1>8, <2>1, <2>2 DEF HasDocument
  <1>14. DocumentsMatchAccounts'
    <2>1. \A i \in DOMAIN users : users[i].email # Email(r)
      BY <1>1, <1>6 DEF DocumentsMatchAccounts, HasDocument
    <2> QED BY <1>1, <1>6, <1>7, <1>8, <2>1 DEF DocumentsMatchAccounts
  <1>15. AnswersOK'
    <2> SUFFICES ASSUME NEW u \in Requests, SentAs(u, "signup"), response'[u].status = "200"
                 PROVE  /\ response'[u].user \in DOMAIN users'
                        /\ users'[response'[u].user].cognito_id = u
      BY <1>3 DEF AnswersOK
    <2>1. CASE u = r
      BY <1>7, <1>8, <2>1
    <2>2. CASE u # r
      <3>1. response'[u] = response[u]
        BY <2>2
      <3>2. response[u].user \in DOMAIN users /\ users[response[u].user].cognito_id = u
        BY <1>1, <3>1 DEF AnswersOK
      <3> QED BY <1>8, <3>1, <3>2
    <2> QED BY <2>1, <2>2
  <1> QED BY <1>10, <1>11, <1>12, <1>13, <1>14, <1>15 DEF AInv

LEMMA ReceiveStep ==
    ASSUME IInv, NEW r \in Requests, Receive(r)
    PROVE  AInv'
  <1>1. TypeOK /\ RequestsOK /\ PoolOK /\ SessionsOK /\ UnderWayOK /\ DocumentsMatchAccounts
          /\ AnswersOK
    BY DEF IInv, AInv
  <1>2. PICK p \in Processes, b \in Body :
          /\ b.kind \in Kinds
          /\ b.kind = "transactions" => b.bearer \in sessions \cup {None}
          /\ request' = [request EXCEPT ![r] = [process |-> p, body |-> b]]
          /\ pc' = [pc EXCEPT ![r] = IF b.kind = "transactions" THEN "token" ELSE b.kind]
    BY DEF Receive
  <1>3. pc[r] = "idle" /\ UNCHANGED <<pool, users, sessions, loop, response>>
    BY DEF Receive, data
  <1>4. b.kind \in Endpoints
    BY BodyFields
  <1>5. /\ InBody(r)' = b
        /\ \A q \in Requests : q # r => InBody(q)' = InBody(q) /\ Email(q)' = Email(q)
    BY <1>1, <1>2 DEF InBody, Email, TypeOK
  <1>6. \A q \in Requests : q # r => \A k : SentAs(q, k)' <=> SentAs(q, k)
    BY <1>5 DEF SentAs
  <1>7. \A k : SentAs(r, k)' <=> b.kind = k
    BY <1>5 DEF SentAs
  <1>8. /\ pc'[r] = IF b.kind = "transactions" THEN "token" ELSE b.kind
        /\ \A q \in Requests : q # r => pc'[q] = pc[q]
    BY <1>1, <1>2 DEF TypeOK
  <1>9. \A u \in Requests : Enrolled(u) => u # r /\ Enrolled(u)'
    BY <1>3, <1>6, <1>8 DEF Enrolled
  <1>10. RequestsOK'
    <2> SUFFICES ASSUME NEW q \in Requests PROVE RequestOK(q)'
      BY DEF RequestsOK
    <2>1. RequestOK(q)
      BY <1>1 DEF RequestsOK
    <2>2. CASE q # r
      BY <1>3, <1>5, <1>6, <1>8, <2>1, <2>2 DEF RequestOK
    <2>3. CASE q = r
      <3>1. response'[r].status = "pending"
        BY <1>3, <2>1, <2>3 DEF RequestOK
      <3> QED BY <1>2, <1>3, <1>4, <1>5, <1>7, <1>8, <2>3, <3>1 DEF RequestOK, Endpoints
    <2> QED BY <2>2, <2>3
  <1>11. PoolOK'
    BY <1>1, <1>3, <1>5, <1>9 DEF PoolOK
  <1>12. SessionsOK'
    BY <1>1, <1>3, <1>9 DEF SessionsOK, TypeOK
  <1>13. UnderWayOK'
    <2> SUFFICES ASSUME NEW q \in Requests, pc'[q] \in {"find_email", "insert_one"}
                 PROVE  q # r
      BY <1>1, <1>3, <1>5, <1>8 DEF UnderWayOK, HasDocument
    <2> QED BY <1>4, <1>8 DEF Endpoints
  <1>14. DocumentsMatchAccounts'
    BY <1>1, <1>3 DEF DocumentsMatchAccounts
  <1>15. AnswersOK'
    <2>1. response[r].status = "pending"
      BY <1>1, <1>3 DEF RequestsOK, RequestOK
    <2> QED BY <1>1, <1>3, <1>6, <2>1 DEF AnswersOK
  <1> QED BY <1>10, <1>11, <1>12, <1>13, <1>14, <1>15 DEF AInv

-----------------------------------------------------------------------------
(* The invariant.                                                              *)

\* What Finish and Continue do to pc and response.
LEMMA Finishes ==
    ASSUME TypeOK, NEW r \in Requests, NEW s, NEW n, Finish(r, s, n)
    PROVE  /\ pc' = [pc EXCEPT ![r] = "done"]
           /\ pc'[r] = "done" /\ \A q \in Requests : q # r => pc'[q] = pc[q]
           /\ response'[r].status = s /\ response'[r].user = n
           /\ \A q \in Requests : q # r => response'[q] = response[q]
  BY DEF Finish, TypeOK

\* A request that ends badly, with nothing written, keeps the invariant.
LEMMA EndsQuietly ==
    ASSUME IInv, NEW r \in Requests, NEW s, NEW n, Finish(r, s, n),
           SentAs(r, "signup") => s # "200", UNCHANGED <<data, request>>
    PROVE  AInv'
  <1>1. \A q \in Requests : StaysOrEnds(q)
    BY Finishes DEF StaysOrEnds, IInv
  <1>2. SameAccounts
    BY DEF SameAccounts, data
  <1> QED BY <1>1, <1>2, QuietStep DEF data

\* A confirmation, whether or not its answer arrives.
LEMMA ConfirmStep ==
    ASSUME IInv, NEW r \in Requests, pc[r] = "confirm", Confirmable(r), SetConfirmed(r),
           NEW s, NEW n, Finish(r, s, n), UNCHANGED <<users, sessions, request>>
    PROVE  AInv'
  <1>1. SentAs(r, "confirm") /\ Email(r) \in Emails
    BY BodyFields DEF IInv, AInv, RequestsOK, RequestOK, SentAs, Email
  <1>2. \A q \in Requests : StaysOrEnds(q)
    BY <1>1, Finishes DEF StaysOrEnds, IInv, SentAs
  <1>3. SameAccounts
    <2>1. pool[Email(r)] \in Account
      BY <1>1, AccountFields DEF Confirmable, IInv
    <2>2. /\ [pool[Email(r)] EXCEPT !.confirmed = TRUE] \in Account
          /\ [pool[Email(r)] EXCEPT !.confirmed = TRUE].sub = pool[Email(r)].sub
      BY <2>1 DEF Account
    <2>3. /\ pool'[Email(r)] = [pool[Email(r)] EXCEPT !.confirmed = TRUE]
          /\ \A e \in Emails : e # Email(r) => pool'[e] = pool[e]
      BY <1>1 DEF SetConfirmed, IInv, TypeOK
    <2> QED BY <2>2, <2>3, ConstantsAssumption DEF SameAccounts, Confirmable
  <1> QED BY <1>2, <1>3, QuietStep

\* create_user goes on to the insertion: what is known of a sign-up under way is the same.
LEMMA FindEmailContinues ==
    ASSUME IInv, NEW r \in Requests, pc[r] = "find_email",
           pc' = [pc EXCEPT ![r] = "insert_one"], UNCHANGED <<data, request, response>>
    PROVE  AInv'
  <1>1. TypeOK /\ RequestsOK /\ PoolOK /\ SessionsOK /\ UnderWayOK /\ DocumentsMatchAccounts
          /\ AnswersOK
    BY DEF IInv, AInv
  <1>2. \A q : InBody(q)' = InBody(q) /\ Email(q)' = Email(q)
    BY DEF InBody, Email
  <1>3. \A q, k : SentAs(q, k)' <=> SentAs(q, k)
    BY DEF SentAs, InBody
  <1>4. pc'[r] = "insert_one" /\ \A q \in Requests : q # r => pc'[q] = pc[q]
    BY <1>1 DEF TypeOK
  <1>5. UNCHANGED <<pool, users, sessions, response>>
    BY DEF data
  <1>6. \A u \in Requests : Enrolled(u) => Enrolled(u)'
    BY <1>3, <1>4 DEF Enrolled
  <1>7. RequestsOK'
    BY <1>1, <1>2, <1>3, <1>4, <1>5 DEF RequestsOK, RequestOK
  <1>8. PoolOK'
    BY <1>1, <1>2, <1>5, <1>6 DEF PoolOK
  <1>9. SessionsOK'
    BY <1>1, <1>5, <1>6 DEF SessionsOK, TypeOK
  <1>10. UnderWayOK'
    BY <1>1, <1>2, <1>4, <1>5 DEF UnderWayOK, HasDocument
  <1>11. DocumentsMatchAccounts'
    BY <1>1, <1>5 DEF DocumentsMatchAccounts
  <1>12. AnswersOK'
    BY <1>1, <1>3, <1>5 DEF AnswersOK
  <1> QED BY <1>7, <1>8, <1>9, <1>10, <1>11, <1>12 DEF AInv

\* A token is accepted or refused: the reader is not a sign-up.
LEMMA CheckTokenStep ==
    ASSUME IInv, NEW r \in Requests, CheckToken(r)
    PROVE  AInv'
  <1>1. TypeOK /\ RequestsOK /\ PoolOK /\ SessionsOK /\ UnderWayOK /\ DocumentsMatchAccounts
          /\ AnswersOK
    BY DEF IInv, AInv
  <1>2. \A q : InBody(q)' = InBody(q) /\ Email(q)' = Email(q)
    BY DEF InBody, Email, CheckToken
  <1>3. \A q, k : SentAs(q, k)' <=> SentAs(q, k)
    BY DEF SentAs, InBody, CheckToken
  <1>4. SentAs(r, "transactions") /\ InBody(r).bearer \in sessions \cup {None}
    BY <1>1 DEF RequestsOK, RequestOK, CheckToken
  <1>5. /\ pc'[r] = "done" \/ (pc'[r] = "find_user" /\ InBody(r).bearer # None)
        /\ pc'[r] = "find_user" => response'[r] = response[r]
        /\ \A q \in Requests : q # r => pc'[q] = pc[q] /\ response'[q] = response[q]
    BY <1>1 DEF CheckToken, TypeOK
  <1>6. UNCHANGED <<pool, users, sessions>>
    BY DEF CheckToken, data
  <1>7. \A u \in Requests : SentAs(u, "signup") => u # r
    BY <1>4 DEF SentAs
  <1>8. \A u \in Requests : Enrolled(u) => Enrolled(u)'
    BY <1>3, <1>5, <1>7 DEF Enrolled
  <1>9. RequestsOK'
    <2> SUFFICES ASSUME NEW q \in Requests PROVE RequestOK(q)'
      BY DEF RequestsOK
    <2>1. RequestOK(q)
      BY <1>1 DEF RequestsOK
    <2>2. CASE q # r
      BY <1>2, <1>3, <1>5, <1>6, <2>1, <2>2 DEF RequestOK
    <2>3. CASE q = r
      BY <1>2, <1>3, <1>4, <1>5, <1>6, <2>1, <2>3 DEF RequestOK, CheckToken
    <2> QED BY <2>2, <2>3
  <1>10. PoolOK'
    BY <1>1, <1>2, <1>6, <1>8 DEF PoolOK
  <1>11. SessionsOK'
    BY <1>1, <1>6, <1>8 DEF SessionsOK, TypeOK
  <1>12. UnderWayOK'
    BY <1>1, <1>2, <1>5, <1>6 DEF UnderWayOK, HasDocument
  <1>13. DocumentsMatchAccounts'
    BY <1>1, <1>6 DEF DocumentsMatchAccounts
  <1>14. AnswersOK'
    BY <1>1, <1>3, <1>5, <1>6, <1>7 DEF AnswersOK
  <1> QED BY <1>9, <1>10, <1>11, <1>12, <1>13, <1>14 DEF AInv

LEMMA AccountsStep ==
    ASSUME IInv, Next
    PROVE  AInv'
  <1> TypeOK /\ RequestsOK
    BY DEF IInv, AInv
  <1>1. ASSUME NEW r \in Requests, Receive(r) PROVE AInv'
    BY <1>1, ReceiveStep
  <1>2. ASSUME NEW r \in Requests, SignUp(r) PROVE AInv'
    <2>1. CASE Acceptable(r)
      BY <1>2, <2>1, EnrolStep DEF SignUp, Continue
    <2>2. CASE ~ Acceptable(r)
      BY <1>2, <2>2, EndsQuietly DEF SignUp, data
    <2> QED BY <2>1, <2>2
  <1>3. ASSUME NEW r \in Requests, FindEmail(r) PROVE AInv'
    <2>1. CASE Finish(r, "500", 0)
      BY <1>3, <2>1, EndsQuietly DEF FindEmail, data
    <2>2. CASE Continue(r, "insert_one")
      BY <1>3, <2>2, FindEmailContinues DEF FindEmail, Continue
    <2> QED BY <1>3, <2>1, <2>2 DEF FindEmail
  <1>4. ASSUME NEW r \in Requests, InsertUser(r) PROVE AInv'
    <2>1. CASE Finish(r, "200", Len(users) + 1)
      BY <1>4, <2>1, Finishes, InsertStep DEF InsertUser
    <2>2. CASE Finish(r, "500", 0)
      BY <1>4, <2>2, Finishes, InsertStep DEF InsertUser
    <2> QED BY <1>4, <2>1, <2>2 DEF InsertUser
  <1>5. ASSUME NEW r \in Requests, Confirm(r) PROVE AInv'
    <2>1. CASE Confirmable(r)
      BY <1>5, <2>1, ConfirmStep DEF Confirm
    <2>2. CASE ~ Confirmable(r)
      BY <1>5, <2>2, EndsQuietly DEF Confirm, data
    <2> QED BY <2>1, <2>2
  <1>6. ASSUME NEW r \in Requests, Login(r) PROVE AInv'
    <2>1. SentAs(r, "login") /\ Email(r) \in Emails
      BY <1>6, BodyFields DEF Login, RequestsOK, RequestOK, SentAs, Email
    <2>2. CASE Recognized(r)
      <3>1. sessions' = sessions \cup {pool[Email(r)].sub} /\ pool[Email(r)] # None
        BY <1>6, <2>2 DEF Login, Recognized
      <3>2. \A q \in Requests : StaysOrEnds(q)
        BY <1>6, <2>1, <2>2, Finishes DEF Login, StaysOrEnds, SentAs
      <3>3. SameAccounts
        BY <1>6 DEF Login, SameAccounts
      <3> QED BY <1>6, <2>1, <3>1, <3>2, <3>3, QuietStep DEF Login
    <2>3. CASE ~ Recognized(r)
      BY <1>6, <2>3, EndsQuietly DEF Login, data
    <2> QED BY <2>2, <2>3
  <1>7. ASSUME NEW r \in Requests, CheckToken(r) PROVE AInv'
    BY <1>7, CheckTokenStep
  <1>8. ASSUME NEW r \in Requests, FindUser(r) PROVE AInv'
    <2>1. ~ SentAs(r, "signup")
      BY <1>8 DEF FindUser, RequestsOK, RequestOK, SentAs
    <2>2. PICK s, n : Finish(r, s, n)
      BY <1>8 DEF FindUser
    <2> QED BY <1>8, <2>1, <2>2, EndsQuietly DEF FindUser
  <1>9. ASSUME NEW r \in Requests, CognitoError(r) PROVE AInv'
    <2>1. PICK s \in {"400", "500"} : Finish(r, s, 0)
      BY <1>9 DEF CognitoError
    <2> QED BY <1>9, <2>1, EndsQuietly DEF CognitoError
  <1>10. ASSUME NEW r \in Requests, CognitoReplyLost(r) PROVE AInv'
    <2>1. PICK s \in {"400", "500"} : Finish(r, s, 0)
      BY <1>10 DEF CognitoReplyLost
    <2>2. CASE pc[r] = "signup" /\ Acceptable(r) /\ Enrol(r)
      BY <1>10, <2>1, <2>2, Finishes, EnrolStep DEF CognitoReplyLost
    <2>3. CASE pc[r] = "confirm" /\ Confirmable(r) /\ SetConfirmed(r)
      BY <1>10, <2>1, <2>3, ConfirmStep DEF CognitoReplyLost
    <2> QED BY <1>10, <2>2, <2>3 DEF CognitoReplyLost
  <1>11. ASSUME NEW r \in Requests, DatabaseError(r) PROVE AInv'
    BY <1>11, EndsQuietly DEF DatabaseError
  <1>12. ASSUME NEW r \in Requests, DatabaseReplyLost(r) PROVE AInv'
    BY <1>12, Finishes, InsertStep DEF DatabaseReplyLost
  <1>13. ASSUME NEW p \in Processes, Crash(p) PROVE AInv'
    <2>1. \A q \in Requests : StaysOrEnds(q)
      BY <1>13 DEF Crash, StaysOrEnds
    <2>2. SameAccounts
      BY <1>13 DEF Crash, SameAccounts, data
    <2> QED BY <1>13, <2>1, <2>2, QuietStep DEF Crash, data
  <1> QED
    BY <1>1, <1>2, <1>3, <1>4, <1>5, <1>6, <1>7, <1>8, <1>9, <1>10, <1>11, <1>12, <1>13
    DEF Next, Handler

LEMMA InitInv == Init => IInv
  <1> SUFFICES ASSUME Init PROVE IInv
    OBVIOUS
  <1>1. TypeOK
    BY DEF Init, TypeOK
  <1>2. RequestsOK
    BY DEF Init, RequestsOK, RequestOK
  <1>3. PoolOK /\ SessionsOK /\ UnderWayOK
    BY DEF Init, PoolOK, SessionsOK, UnderWayOK
  <1>4. DocumentsMatchAccounts
    BY DEF Init, DocumentsMatchAccounts
  <1>5. AnswersOK
    BY DEF Init, AnswersOK
  <1> QED BY <1>1, <1>2, <1>3, <1>4, <1>5 DEF IInv, AInv

LEMMA Invariance == Spec => []IInv
  <1>1. IInv /\ [Next]_vars => IInv'
    <2> SUFFICES ASSUME IInv, [Next]_vars PROVE IInv'
      OBVIOUS
    <2>1. CASE Next
      BY <2>1, TypeStep, AccountsStep DEF IInv
    <2>2. CASE UNCHANGED vars
      <3>1. TypeOK'
        BY <2>2 DEF IInv, TypeOK, vars
      <3>2. SameAccounts /\ \A q \in Requests : StaysOrEnds(q)
        BY <2>2 DEF vars, SameAccounts, StaysOrEnds
      <3> QED BY <2>2, <3>1, <3>2, QuietStep DEF vars, IInv
    <2> QED BY <2>1, <2>2
  <1> QED BY <1>1, InitInv, PTL DEF Spec

\* Every variable keeps its type: no handler uses the e-mail, the password or the bearer
\* of a body that has none, nor the subject of an account that does not exist.
THEOREM AccountsTypeCorrect == Spec => []TypeOK
  <1>1. IInv => TypeOK
    BY DEF IInv
  <1> QED BY <1>1, Invariance, PTL

\* create_user checks and inserts in two calls, and db.users enforces nothing; still
\* documents and accounts match, whatever the processes and the faults.
THEOREM DocumentsMatch == Spec => []DocumentsMatchAccounts
  <1>1. IInv => DocumentsMatchAccounts
    BY DEF IInv, AInv
  <1> QED BY <1>1, Invariance, PTL

\* A sign-up that owns the account of its e-mail finds no document with it
\* (users.py:45-47): that document would be its own, and it has none yet.
THEOREM EmailsAreFreeForTheirOwners == Spec => []EmailsAreFree
  <1>1. IInv => EmailsAreFree
    <2> SUFFICES ASSUME IInv, NEW r \in Requests, pc[r] \in {"find_email", "insert_one"},
                        NEW i \in DOMAIN users, users[i].email = Email(r)
                 PROVE  FALSE
      BY DEF EmailsAreFree
    <2>1. users[i].cognito_id = r
      BY DEF IInv, AInv, UnderWayOK, DocumentsMatchAccounts
    <2> QED BY <2>1 DEF IInv, AInv, UnderWayOK, HasDocument
  <1> QED BY <1>1, Invariance, PTL

-----------------------------------------------------------------------------
(* Action properties.                                                          *)

\* Documents are inserted by the sign-up whose account they are of, and by nothing else.
LEMMA OnlyInserts ==
    ASSUME IInv, Next, users' # users
    PROVE  \E r \in Requests : pc[r] = "insert_one" /\ InsertOne(r)
  BY DEF Next, Handler, Receive, SignUp, FindEmail, InsertUser, Confirm, Login, CheckToken,
         FindUser, CognitoError, CognitoReplyLost, DatabaseError, DatabaseReplyLost, Crash,
         data

\* An account left without a document stays so: the second half of a sign-up that stopped is
\* done by nobody, and the e-mail cannot sign up again.
THEOREM OrphansAreNotAdopted == Spec => OrphansStay
  <1> DEFINE A == \A e \in Emails :
          pool[e] # None /\ pc[pool[e].sub] = "done" /\ ~ HasDocument(pool[e].sub) =>
              \A i \in DOMAIN users' : users'[i].email # e
  <1>1. IInv /\ [Next]_vars => [A]_vars
    <2> SUFFICES ASSUME IInv, Next, NEW e \in Emails, pool[e] # None,
                        pc[pool[e].sub] = "done", ~ HasDocument(pool[e].sub)
                 PROVE  \A i \in DOMAIN users' : users'[i].email # e
      OBVIOUS
    <2>1. \A i \in DOMAIN users : users[i].email # e
      BY DEF IInv, AInv, DocumentsMatchAccounts, HasDocument
    <2>2. CASE users' = users
      BY <2>1, <2>2
    <2>3. CASE users' # users
      <3>1. PICK r \in Requests : pc[r] = "insert_one" /\ InsertOne(r)
        BY <2>3, OnlyInserts
      <3>2. pool[Email(r)].sub = r /\ SentAs(r, "signup")
        BY <3>1 DEF IInv, AInv, UnderWayOK, RequestsOK, RequestOK
      <3>3. Email(r) # e
        BY <3>1, <3>2
      <3>4. Document(r).email = Email(r) /\ Document(r) \in User
        BY <3>2, BodyFields DEF Document, SentAs, Email, User
      <3>5. \A i \in DOMAIN users' :
               \/ i \in DOMAIN users /\ users'[i] = users[i]
               \/ users'[i] = Document(r)
        BY <3>1, <3>4 DEF InsertOne, IInv, TypeOK
      <3> QED BY <2>1, <3>3, <3>4, <3>5
    <2> QED BY <2>2, <2>3
  <1> QED BY <1>1, Invariance, PTL DEF Spec, OrphansStay

\* A reader waits at find_user until its own step, an error of its own, or a crash.
LEMMA OthersStay ==
    ASSUME TypeOK, Next, NEW r \in Requests, pc[r] = "find_user", pc'[r] # pc[r]
    PROVE  FindUser(r) \/ DatabaseError(r) \/ \E p \in Processes : Crash(p)
  <1>1. ASSUME NEW q \in Requests, NEW c, pc' = [pc EXCEPT ![q] = c] PROVE q = r
    BY <1>1 DEF TypeOK
  <1>2. ASSUME NEW q \in Requests, Receive(q) PROVE FALSE
    BY <1>1, <1>2 DEF Receive
  <1>3. ASSUME NEW q \in Requests, SignUp(q) \/ FindEmail(q) \/ InsertUser(q) PROVE FALSE
    BY <1>1, <1>3 DEF SignUp, FindEmail, InsertUser, Finish, Continue
  <1>4. ASSUME NEW q \in Requests, Confirm(q) \/ Login(q) \/ CheckToken(q) PROVE FALSE
    BY <1>1, <1>4 DEF Confirm, Login, CheckToken, Finish
  <1>5. ASSUME NEW q \in Requests,
               CognitoError(q) \/ CognitoReplyLost(q) \/ DatabaseReplyLost(q)
        PROVE  FALSE
    BY <1>1, <1>5
    DEF CognitoError, CognitoCalls, CognitoReplyLost, DatabaseReplyLost, Finish
  <1>6. ASSUME NEW q \in Requests, FindUser(q) \/ DatabaseError(q) PROVE q = r
    BY <1>1, <1>6 DEF FindUser, DatabaseError, Finish
  <1> QED BY <1>2, <1>3, <1>4, <1>5, <1>6 DEF Next, Handler

\* The one who was told that the sign-up succeeded is found from then on, and is shown the
\* document that was created then.
THEOREM SignedUpUsersAreFound == Spec => SignedUpAreFound
  <1> DEFINE A == \A r \in Requests :
          /\ pc[r] = "find_user" /\ pc'[r] = "done"
          /\ response[InBody(r).bearer].status = "200"
          => /\ response'[r].status # "404"
             /\ response'[r].status = "200" =>
                   response'[r].user = response[InBody(r).bearer].user
  <1>1. IInv /\ [Next]_vars => [A]_vars
    <2> SUFFICES ASSUME IInv, Next, NEW r \in Requests, pc[r] = "find_user",
                        pc'[r] = "done", response[InBody(r).bearer].status = "200"
                 PROVE  /\ response'[r].status # "404"
                        /\ response'[r].status = "200" =>
                              response'[r].user = response[InBody(r).bearer].user
      OBVIOUS
    <2> DEFINE u == InBody(r).bearer
               d == response[u].user
    <2>1. TypeOK /\ RequestsOK /\ PoolOK /\ SessionsOK /\ DocumentsMatchAccounts /\ AnswersOK
      BY DEF IInv, AInv
    <2>2. u \in sessions /\ u \in Requests
      BY <2>1 DEF RequestsOK, RequestOK, TypeOK
    <2>3. SentAs(u, "signup")
      BY <2>1, <2>2 DEF SessionsOK, Enrolled
    <2>4. d \in Own(r)
      BY <2>1, <2>2, <2>3 DEF AnswersOK, Own
    <2>5. \A i \in Own(r) : i = d
      <3> SUFFICES ASSUME NEW i \in DOMAIN users, users[i].cognito_id = u PROVE i = d
        BY DEF Own
      <3>1. d \in DOMAIN users /\ users[d].cognito_id = u
        BY <2>4 DEF Own
      <3>2. \A j \in DOMAIN users : users[j].cognito_id = u => users[j].email = Email(u)
        BY <2>1, <2>2, UserFields DEF DocumentsMatchAccounts, PoolOK
      <3> QED BY <2>1, <3>1, <3>2 DEF DocumentsMatchAccounts
    <2>6. CASE FindUser(r)
      <3>1. PICK i \in Own(r) : Finish(r, "200", i) \/ Finish(r, "500", 0)
        BY <2>4, <2>6 DEF FindUser
      <3> QED BY <2>1, <2>5, <3>1, Finishes
    <2>7. CASE DatabaseError(r)
      BY <2>1, <2>7, Finishes DEF DatabaseError
    <2>8. CASE \E p \in Processes : Crash(p)
      BY <2>8 DEF Crash
    <2>9. FindUser(r) \/ DatabaseError(r) \/ \E p \in Processes : Crash(p)
      BY <2>1, OthersStay
    <2> QED BY <2>6, <2>7, <2>8, <2>9
  <1> QED BY <1>1, Invariance, PTL DEF Spec, SignedUpAreFound

=============================================================================
