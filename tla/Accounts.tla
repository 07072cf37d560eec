-------------------------------- MODULE Accounts --------------------------------
(***************************************************************************)
(* Sign-up, confirmation and login (app/routers/auth.py), the user         *)
(* documents that sign-up writes (app/repositories/users.py), the check of *)
(* access tokens (app/security/auth.py) and the endpoint that reads the    *)
(* caller's document (read_transactions_by_user of app/routers/funds.py).  *)
(*                                                                         *)
(* An account lives in two places: in the Cognito user pool, which accepts *)
(* each e-mail once, and in db.users, which enforces nothing.  Sign-up     *)
(* writes the first and then the second.  As in FundTransactions, a        *)
(* handler keeps the event loop of its process until it ends, and the      *)
(* process may stop, or a call fail, at every call.                        *)
(***************************************************************************)
EXTENDS Integers, Sequences

CONSTANTS
    Processes,
    Requests,          \* each made once; a sign-up is the subject of its account
    Emails,
    Passwords,
    StrongPasswords,   \* those that the password policy of the pool accepts
    AuthFlows,         \* the flows that the app client of the pool allows
    Kinds,             \* the endpoints that clients call, a subset of Endpoints
    Faults,            \* what can go wrong, a subset of FaultKinds
    None

FaultKinds == {"cognito", "database", "reply", "crash"}

Endpoints == {"signup", "confirm", "login", "transactions"}

Account == [sub : Requests, password : Passwords, confirmed : BOOLEAN]

User == [email : Emails, phone : BOOLEAN, cognito_id : Requests]

Body ==
    [kind : {"signup"}, email : Emails, password : Passwords, phone_number : BOOLEAN]
        \cup [kind : {"confirm"}, email : Emails, right_code : BOOLEAN]
        \cup [kind : {"login"}, email : Emails, password : Passwords]
        \cup [kind : {"transactions"}, bearer : Requests \cup {None}]

ASSUME ConstantsAssumption ==
    /\ StrongPasswords \subseteq Passwords
    /\ Kinds \subseteq Endpoints
    /\ Faults \subseteq FaultKinds
    /\ None \notin Requests \cup Account \cup Processes

VARIABLES
    pool,       \* the Cognito account of each e-mail, None if there is none
    users,      \* db.users, in insertion order
    sessions,   \* the subjects to whom an access token was issued
    loop,       \* the request each event loop is in the middle of, or None
    pc,         \* the call each request makes next
    request,    \* process and body of each request
    response    \* status, and the position of the document it was answered with

vars == <<pool, users, sessions, loop, pc, request, response>>

data == <<pool, users, sessions>>

Init ==
    /\ pool = [e \in Emails |-> None]
    /\ users = <<>>
    /\ sessions = {}
    /\ loop = [p \in Processes |-> None]
    /\ pc = [r \in Requests |-> "idle"]
    /\ request = [r \in Requests |-> [process |-> None, body |-> None]]
    /\ response = [r \in Requests |-> [status |-> "pending", user |-> 0]]

InBody(r) == request[r].body

Email(r) == InBody(r).email

\* A bearer token is one that was issued, or something else or missing (None).
Receive(r) ==
    /\ pc[r] = "idle"
    /\ \E p \in Processes, b \in Body :
          /\ b.kind \in Kinds
          /\ b.kind = "transactions" => b.bearer \in sessions \cup {None}
          /\ request' = [request EXCEPT ![r] = [process |-> p, body |-> b]]
          /\ pc' = [pc EXCEPT ![r] = IF b.kind = "transactions" THEN "token" ELSE b.kind]
    /\ UNCHANGED <<data, loop, response>>

Finish(r, status, user) ==
    /\ pc' = [pc EXCEPT ![r] = "done"]
    /\ response' = [response EXCEPT ![r] = [status |-> status, user |-> user]]
    /\ loop' = [loop EXCEPT ![request[r].process] = None]

\* The next call of the handler, which keeps the event loop.
Continue(r, call) ==
    /\ pc' = [pc EXCEPT ![r] = call]
    /\ loop' = [loop EXCEPT ![request[r].process] = r]
    /\ UNCHANGED response

CanStart(r) == loop[request[r].process] = None

-----------------------------------------------------------------------------
(* POST /auth/signup.                                                          *)

\* Mutant: the name given to Cognito is not the e-mail, and is new each time.
AcceptableAgain(r) == InBody(r).password \in StrongPasswords

\* What the pool accepts: an e-mail it does not have, a password of its policy.
Acceptable(r) == pool[Email(r)] = None /\ InBody(r).password \in StrongPasswords

Enrol(r) ==
    pool' = [pool EXCEPT ![Email(r)] =
                [sub |-> r, password |-> InBody(r).password, confirmed |-> FALSE]]

\* Mutant: "already exists" is taken for a repeated sign-up, and goes on.
SignUpAgain(r) ==
    /\ pc[r] = "signup"
    /\ CanStart(r)
    /\ IF pool[Email(r)] = None
       THEN Enrol(r) /\ Continue(r, "find_email")
       ELSE Continue(r, "find_email") /\ UNCHANGED pool
    /\ UNCHANGED <<users, sessions, request>>

\* cog.sign_up: a ClientError is answered with a 400.
SignUp(r) ==
    /\ pc[r] = "signup"
    /\ CanStart(r)
    /\ IF Acceptable(r)
       THEN Enrol(r) /\ Continue(r, "find_email")
       ELSE Finish(r, "400", 0) /\ UNCHANGED pool
    /\ UNCHANGED <<users, sessions, request>>

\* create_user, get_user_by_email: its ValueError is not a ClientError.
FindEmail(r) ==
    /\ pc[r] = "find_email"
    /\ IF \E i \in DOMAIN users : users[i].email = Email(r)
       THEN Finish(r, "500", 0)
       ELSE Continue(r, "insert_one")
    /\ UNCHANGED <<data, request>>

\* Mutant: the Cognito subject is not stored.
DocumentWithoutSubject(r) ==
    [email |-> Email(r), phone |-> InBody(r).phone_number, cognito_id |-> None]

Document(r) ==
    [email |-> Email(r), phone |-> InBody(r).phone_number, cognito_id |-> r]

\* Mutant: the document is kept under the subject of some other sign-up.
InsertElsewhere(r) ==
    users' = Append(users, [Document(r) EXCEPT !.cognito_id =
                                CHOOSE q \in Requests : q # r])

InsertOne(r) == users' = Append(users, Document(r))

\* create_user, insert_one: UserOut demands a phone, after the document is written.
InsertUser(r) ==
    /\ pc[r] = "insert_one"
    /\ InsertOne(r)
    /\ IF InBody(r).phone_number
       THEN Finish(r, "200", Len(users) + 1)
       ELSE Finish(r, "500", 0)
    /\ UNCHANGED <<pool, sessions, request>>

-----------------------------------------------------------------------------
(* POST /auth/confirm and POST /auth/login.                                    *)

Confirmable(r) ==
    /\ pool[Email(r)] # None
    /\ ~ pool[Email(r)].confirmed
    /\ InBody(r).right_code

SetConfirmed(r) == pool' = [pool EXCEPT ![Email(r)].confirmed = TRUE]

Confirm(r) ==
    /\ pc[r] = "confirm"
    /\ CanStart(r)
    /\ IF Confirmable(r)
       THEN SetConfirmed(r) /\ Finish(r, "200", 0)
       ELSE Finish(r, "400", 0) /\ UNCHANGED pool
    /\ UNCHANGED <<users, sessions, request>>

\* What initiate_auth asks for.
Recognized(r) ==
    /\ "USER_PASSWORD_AUTH" \in AuthFlows
    /\ pool[Email(r)] # None
    /\ pool[Email(r)].confirmed
    /\ pool[Email(r)].password = InBody(r).password

Login(r) ==
    /\ pc[r] = "login"
    /\ CanStart(r)
    /\ IF Recognized(r)
       THEN sessions' = sessions \cup {pool[Email(r)].sub} /\ Finish(r, "200", 0)
       ELSE Finish(r, "400", 0) /\ UNCHANGED sessions
    /\ UNCHANGED <<pool, users, request>>

-----------------------------------------------------------------------------
(* GET /funds/get/transactions.                                                *)

\* get_current_user, in a thread of its own: a token that was issued is accepted
\* until it expires.  A failure to fetch the keys is a PyJWTError as well.  A request
\* without a token is refused by HTTPBearer, with a 403.
CheckToken(r) ==
    /\ pc[r] = "token"
    /\ \/ /\ InBody(r).bearer # None
          /\ pc' = [pc EXCEPT ![r] = "find_user"]
          /\ UNCHANGED response
       \/ /\ pc' = [pc EXCEPT ![r] = "done"]
          /\ \E status \in {"401"} \cup IF InBody(r).bearer = None THEN {"403"} ELSE {} :
                response' = [response EXCEPT ![r] = [status |-> status, user |-> 0]]
    /\ UNCHANGED <<data, loop, request>>

\* The documents find_one may return: those of the caller's subject.
Own(r) == {i \in DOMAIN users : users[i].cognito_id = InBody(r).bearer}

\* get_user_by_cognito_id: the first document, if a UserOut can be made of it.  The
\* list of transactions that follows changes nothing.
FindUser(r) ==
    /\ pc[r] = "find_user"
    /\ CanStart(r)
    /\ \/ /\ Own(r) = {}
          /\ Finish(r, "404", 0)
       \/ \E i \in Own(r) :
             /\ \A j \in Own(r) : i <= j
             /\ IF users[i].phone THEN Finish(r, "200", i) ELSE Finish(r, "500", 0)
    /\ UNCHANGED <<data, request>>

Handler(r) ==
    \/ SignUp(r)
    \/ FindEmail(r)
    \/ InsertUser(r)
    \/ Confirm(r)
    \/ Login(r)
    \/ CheckToken(r)
    \/ FindUser(r)

-----------------------------------------------------------------------------
(* What can go wrong.                                                          *)

CognitoCalls == {"signup", "confirm", "login"}

\* A call to Cognito has no effect: a ClientError is a 400, anything else a 500.
CognitoError(r) ==
    /\ "cognito" \in Faults
    /\ pc[r] \in CognitoCalls
    /\ CanStart(r)
    /\ \E status \in {"400", "500"} : Finish(r, status, 0)
    /\ UNCHANGED <<data, request>>

\* A call takes effect and its answer is lost.  boto3 repeats it, and is told that the
\* account exists, or is confirmed already (400), or gives up (500).
CognitoReplyLost(r) ==
    /\ "reply" \in Faults
    /\ \/ pc[r] = "signup" /\ Acceptable(r) /\ Enrol(r)
       \/ pc[r] = "confirm" /\ Confirmable(r) /\ SetConfirmed(r)
    /\ CanStart(r)
    /\ \E status \in {"400", "500"} : Finish(r, status, 0)
    /\ UNCHANGED <<users, sessions, request>>

DatabaseError(r) ==
    /\ "database" \in Faults
    /\ \/ pc[r] \in {"find_email", "insert_one"}
       \/ pc[r] = "find_user" /\ CanStart(r)
    /\ Finish(r, "500", 0)
    /\ UNCHANGED <<data, request>>

DatabaseReplyLost(r) ==
    /\ "reply" \in Faults
    /\ pc[r] = "insert_one"
    /\ InsertOne(r)
    /\ Finish(r, "500", 0)
    /\ UNCHANGED <<pool, sessions, request>>

\* A process dies and is started again: its requests are never answered.
Crash(p) ==
    LET lost == {r \in Requests : request[r].process = p /\ pc[r] # "done"} IN
    /\ "crash" \in Faults
    /\ lost # {}
    /\ pc' = [r \in Requests |-> IF r \in lost THEN "done" ELSE pc[r]]
    /\ response' = [r \in Requests |->
                      IF r \in lost THEN [status |-> "dropped", user |-> 0]
                                    ELSE response[r]]
    /\ loop' = [loop EXCEPT ![p] = None]
    /\ UNCHANGED <<data, request>>

Next ==
    \/ \E r \in Requests :
          \/ Receive(r)
          \/ Handler(r)
          \/ CognitoError(r)
          \/ CognitoReplyLost(r)
          \/ DatabaseError(r)
          \/ DatabaseReplyLost(r)
    \/ \E p \in Processes : Crash(p)

Spec == Init /\ [][Next]_vars

-----------------------------------------------------------------------------
(* Properties.                                                                 *)

TypeOK ==
    /\ pool \in [Emails -> Account \cup {None}]
    /\ users \in Seq(User)
    /\ sessions \subseteq Requests
    /\ loop \in [Processes -> Requests \cup {None}]
    /\ pc \in [Requests -> {"idle", "signup", "find_email", "insert_one", "confirm",
                            "login", "token", "find_user", "done"}]
    /\ request \in [Requests -> [process : Processes \cup {None}, body : Body \cup {None}]]
    /\ response \in [Requests -> [status : {"pending", "200", "400", "401", "403", "404", "500",
                                            "dropped"}, user : Nat]]

IsA(r, kind) == InBody(r) # None /\ InBody(r).kind = kind

HasDocument(u) == \E i \in DOMAIN users : users[i].cognito_id = u

\* db.users has no unique index, and create_user checks an e-mail and inserts in two
\* calls (users.py:45,57); still no account ever has two documents and no document is
\* of anything but an account, whichever processes sign-ups run in and however they end.
DocumentsMatchAccounts ==
    \A i \in DOMAIN users :
        /\ pool[users[i].email] # None
        /\ pool[users[i].email].sub = users[i].cognito_id
        /\ \A j \in DOMAIN users : users[j].email = users[i].email => j = i

\* Who was told that the sign-up succeeded (auth.py:58) is never told from then on that
\* there is no such user (funds.py:75), and is shown the document that was created then.
\* It takes the answer: an account can be confirmed and used before its document exists.
SignedUpAreFound ==
    [][\A r \in Requests :
          /\ pc[r] = "find_user" /\ pc'[r] = "done"
          /\ response[InBody(r).bearer].status = "200"
          => /\ response'[r].status # "404"
             /\ response'[r].status = "200" =>
                   response'[r].user = response[InBody(r).bearer].user]_vars

\* A sign-up that stopped between Cognito and db.users (auth.py:47-56) is completed by
\* nobody: a later sign-up with that e-mail does not give it a document.
OrphansStay ==
    [][\A e \in Emails :
          pool[e] # None /\ pc[pool[e].sub] = "done" /\ ~ HasDocument(pool[e].sub) =>
              \A i \in DOMAIN users' : users'[i].email # e]_vars

\* Once Cognito has taken a sign-up, create_user does not refuse it: its check of the e-mail
\* (users.py:45-47) and its insertion find no document with that e-mail, whatever sign-ups
\* came before or are under way in another process.  Only a failure leaves an account
\* without its document.
EmailsAreFree ==
    \A r \in Requests :
        pc[r] \in {"find_email", "insert_one"} =>
            \A i \in DOMAIN users : users[i].email # Email(r)

=============================================================================
