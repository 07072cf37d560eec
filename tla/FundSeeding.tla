------------------------------ MODULE FundSeeding ------------------------------
(***************************************************************************)
(* How the collection of funds is filled, and what the service makes of    *)
(* it.  Two programs insert the five funds if there are none: the Lambda   *)
(* (terraform/lambda_build/handler.py), which Terraform invokes once and   *)
(* others may invoke again, and a script (app/init_db.py).  Each counts    *)
(* the documents and then inserts all of them, in two calls; the count of  *)
(* the Lambda is answered by a secondary.  The script spells the keys of a *)
(* fund in Spanish, and FundsOut, through which the service reads every    *)
(* fund (app/repositories/funds.py), does not know those.                  *)
(*                                                                         *)
(* What can go wrong in a behaviour is chosen at its start.                *)
(***************************************************************************)
EXTENDS Integers, FiniteSets

CONSTANTS
    Lambdas,      \* the invocations of the Lambda
    Scripts,      \* the runs of the script
    FundCount,    \* funds_data has this many funds
    Categories,
    CategoryOf,   \* the category of each fund
    None

Runs == Lambdas \cup Scripts

Funds == 1 .. FundCount

\* A document is known by the run that inserted it and its fund_id.
Documents == [run : Runs, fund : Funds]

\* "error": any call may raise, and a run may be stopped at any call.  "failover": the
\* primary stops in the middle of an insert_many.  "overlap": a run may start while
\* another is under way.  "lag": secondaries are behind the primary.
\* "unescaped": the password has a character that a URI must escape.  "apart":
\* settings.mongo_db is not the database that the Lambda is told to fill.
Conditions == {"error", "failover", "overlap", "lag", "unescaped", "apart"}

\* Those by which a run can end with an error.
Failures == {"error", "failover", "unescaped"}

ASSUME ConstantsAssumption ==
    /\ Lambdas \cap Scripts = {}
    /\ FundCount \in Nat \ {0}
    /\ CategoryOf \in [Funds -> Categories]
    /\ None \notin Runs \cup {"applied"}
    /\ "applied" \notin Runs

VARIABLES
    conditions,   \* what can go wrong; never changes
    funds,        \* the documents of the collections "funds", on the primary
    replicated,   \* those that the secondaries have
    batches,      \* the runs whose insert_many the primary is working on
    pc,           \* the call each run makes next
    outcome,      \* how each run ended
    provisioner   \* what null_resource.invoke_seed waits for

vars == <<conditions, funds, replicated, batches, pc, outcome, provisioner>>

store == <<funds, replicated, batches>>

Init ==
    /\ conditions \in SUBSET Conditions
    /\ funds = {}
    /\ replicated = {}
    /\ batches = {}
    /\ pc = [s \in Runs |-> "idle"]
    /\ outcome = [s \in Runs |-> "pending"]
    /\ provisioner = None

\* settings.mongo_db, of the script and of the service; the event of the Lambda.
ServiceDatabase == IF "apart" \in conditions THEN "btg" ELSE "amaris"

Database(s) == IF s \in Scripts THEN ServiceDatabase ELSE "amaris"

InsertedBy(s) == {d \in funds : d.run = s}

UnderWay(s) == pc[s] \notin {"idle", "done"}

\* handler.py returns its errors, init_db.py prints them: either way the run ends.
End(s, how) ==
    /\ pc' = [pc EXCEPT ![s] = "done"]
    /\ outcome' = [outcome EXCEPT ![s] = how]

Continue(s, call) ==
    /\ pc' = [pc EXCEPT ![s] = call]
    /\ UNCHANGED outcome

-----------------------------------------------------------------------------
(* Who starts a run.                                                           *)

CanStart == "overlap" \in conditions \/ \A s \in Runs : ~ UnderWay(s)

\* By hand.
Start(s) ==
    /\ pc[s] = "idle"
    /\ CanStart
    /\ Continue(s, "secret")
    /\ UNCHANGED <<conditions, store, provisioner>>

\* aws lambda invoke.  The command waits less than a Lambda may take; it then invokes
\* again, while the first invocation runs on.
Provision(s) ==
    /\ s \in Lambdas
    /\ pc[s] = "idle"
    /\ CanStart
    /\ \/ provisioner = None
       \/ provisioner \in Lambdas /\ UnderWay(provisioner)
    /\ Continue(s, "secret")
    /\ provisioner' = s
    /\ UNCHANGED <<conditions, store>>

\* The answer goes to a file and its content to nobody: the resource is created.
Applied ==
    /\ provisioner \in Lambdas
    /\ pc[provisioner] = "done"
    /\ provisioner' = "applied"
    /\ UNCHANGED <<conditions, store, pc, outcome>>

-----------------------------------------------------------------------------
(* A run.                                                                      *)

\* get_secret.  The script connects when it counts.
GetSecret(s) ==
    /\ pc[s] = "secret"
    /\ Continue(s, IF s \in Lambdas THEN "ping" ELSE "count")
    /\ UNCHANGED <<conditions, store, provisioner>>

\* MongoClient parses the URI, in which the password stands as it is, and the server
\* answers a ping.
Connect(s) ==
    /\ pc[s] = "ping"
    /\ IF "unescaped" \in conditions THEN End(s, "error") ELSE Continue(s, "count")
    /\ UNCHANGED <<conditions, store, provisioner>>

\* readPreference=secondaryPreferred.
Source(s) == IF s \in Lambdas THEN replicated ELSE funds

\* Mutant: the documents of both databases are counted.
CountAll(s) == Source(s)

\* count_documents({}), by which a run sees the documents of its own database.
Counted(s) == {d \in Source(s) : Database(d.run) = Database(s)}

\* Mutant: the count is taken and not looked at.
CountInVain(s) ==
    /\ pc[s] = "count"
    /\ Continue(s, "insert")
    /\ UNCHANGED <<conditions, store, provisioner>>

\* Mutant: a run that finds less than the whole catalogue inserts it.
CountToRepair(s) ==
    /\ pc[s] = "count"
    /\ IF Cardinality(Counted(s)) < FundCount
       THEN Continue(s, "insert")
       ELSE End(s, "skipped")
    /\ UNCHANGED <<conditions, store, provisioner>>

Count(s) ==
    /\ pc[s] = "count"
    /\ IF Counted(s) = {} THEN Continue(s, "insert") ELSE End(s, "skipped")
    /\ UNCHANGED <<conditions, store, provisioner>>

\* insert_many sends one command ...
Insert(s) ==
    /\ pc[s] = "insert"
    /\ batches' = batches \cup {s}
    /\ Continue(s, "reply")
    /\ UNCHANGED <<conditions, funds, replicated, provisioner>>

\* Mutant: insert_many does not wait for the acknowledgement.
Unacknowledged(s) ==
    /\ pc[s] = "reply"
    /\ End(s, "inserted")
    /\ UNCHANGED <<conditions, store, provisioner>>

\* ... and returns when the primary is done with it, or raises.
Reply(s) ==
    /\ pc[s] = "reply"
    /\ s \notin batches
    /\ End(s, IF \A f \in Funds : [run |-> s, fund |-> f] \in funds
              THEN "inserted" ELSE "error")
    /\ UNCHANGED <<conditions, store, provisioner>>

\* A call raises, or the run is stopped: by hand, or when the time of the Lambda is over.
\* Neither stops what the primary is doing.
Fail(s) ==
    /\ "error" \in conditions
    /\ UnderWay(s)
    /\ End(s, "error")
    /\ UNCHANGED <<conditions, store, provisioner>>

Run(s) == GetSecret(s) \/ Connect(s) \/ Count(s) \/ Insert(s) \/ Reply(s)

-----------------------------------------------------------------------------
(* The database.                                                               *)

\* Mutant: insert_one, of the first fund.
InsertFirst(s) ==
    /\ s \in batches
    /\ funds' = funds \cup {[run |-> s, fund |-> 1]}
    /\ batches' = batches \ {s}
    /\ replicated' = IF "lag" \in conditions THEN replicated ELSE funds'
    /\ UNCHANGED <<conditions, pc, outcome, provisioner>>

\* Mutant: insert_many(funds_data, ordered=False).
InsertAny(s) ==
    /\ s \in batches
    /\ \E f \in Funds :
          /\ [run |-> s, fund |-> f] \notin funds
          /\ funds' = funds \cup {[run |-> s, fund |-> f]}
          /\ batches' = IF \A g \in Funds : [run |-> s, fund |-> g] \in funds'
                        THEN batches \ {s} ELSE batches
    /\ replicated' = IF "lag" \in conditions THEN replicated ELSE funds'
    /\ UNCHANGED <<conditions, pc, outcome, provisioner>>

\* The documents of a batch are inserted in order, one at a time.
InsertNext(s) ==
    /\ s \in batches
    /\ \E f \in Funds :
          /\ [run |-> s, fund |-> f] \notin funds
          /\ \A g \in Funds : g < f => [run |-> s, fund |-> g] \in funds
          /\ funds' = funds \cup {[run |-> s, fund |-> f]}
          /\ batches' = IF f = FundCount THEN batches \ {s} ELSE batches
    /\ replicated' = IF "lag" \in conditions THEN replicated ELSE funds'
    /\ UNCHANGED <<conditions, pc, outcome, provisioner>>

Failover(s) ==
    /\ "failover" \in conditions
    /\ s \in batches
    /\ batches' = batches \ {s}
    /\ UNCHANGED <<conditions, funds, replicated, pc, outcome, provisioner>>

\* The order does not matter to whether a count is zero.
Replicate ==
    /\ \E d \in funds \ replicated : replicated' = replicated \cup {d}
    /\ UNCHANGED <<conditions, funds, batches, pc, outcome, provisioner>>

Next ==
    \/ \E s \in Runs :
          \/ Start(s)
          \/ Provision(s)
          \/ Run(s)
          \/ Fail(s)
          \/ InsertNext(s)
          \/ Failover(s)
    \/ Applied
    \/ Replicate

\* Every call returns or raises; the primary goes on with what it was sent.
Fairness == \A s \in Runs : WF_vars(Run(s)) /\ WF_vars(InsertNext(s))

Spec == Init /\ [][Next]_vars /\ Fairness

-----------------------------------------------------------------------------
(* What the service answers about the funds (app/routers/funds.py:22-58).      *)

Stored == {d \in funds : Database(d.run) = ServiceDatabase}

\* FundsOut(**fund) takes name, min_amount and category; the script writes Nombre,
\* Monto_minimo and Categoria.
HasKeys(d) == d.run \in Lambdas

\* get_funds: one document that is no FundsOut makes the whole answer a 500.
GetFunds ==
    IF \A d \in Stored : HasKeys(d)
    THEN [status |-> 200, funds |-> Stored]
    ELSE [status |-> 500, funds |-> {}]

\* get_funds_by_category: the query finds a document by the key "category".
GetFundsByCategory(c) ==
    [status |-> 200, funds |-> {d \in Stored : HasKeys(d) /\ CategoryOf[d.fund] = c}]

\* get_fund_by_id, of a document or (None) of an id that no document has.
GetFundById(d) ==
    [status |-> IF d \notin Stored THEN 404 ELSE IF HasKeys(d) THEN 200 ELSE 500,
     funds  |-> {d} \cap {e \in Stored : HasKeys(e)}]

-----------------------------------------------------------------------------
(* Properties.                                                                 *)

\* The types; of what a run inserted, no fund is there without those before it in
\* funds_data; and the secondaries, which lag, have nothing that the primary has not.
TypeOK ==
    /\ conditions \subseteq Conditions
    /\ funds \subseteq Documents
    /\ \A d \in funds, f \in Funds : f < d.fund => [d EXCEPT !.fund = f] \in funds
    /\ replicated \subseteq funds
    /\ batches \subseteq Runs
    /\ pc \in [Runs -> {"idle", "secret", "ping", "count", "insert", "reply", "done"}]
    /\ outcome \in [Runs -> {"pending", "inserted", "skipped", "error"}]
    /\ provisioner \in Lambdas \cup {None, "applied"}

Complete(database) ==
    \A f \in Funds : \E d \in funds : d.fund = f /\ Database(d.run) = database

\* "Check if the collection is empty before inserting" (init_db.py:13): as long as runs do
\* not overlap and the count is not stale, two runs fill one database only if one of them
\* answered with an error and the primary went on with its batch.  A primary that fails in
\* the middle, and a run that is stopped, double nothing otherwise.
SeededOnce ==
    {"overlap", "lag"} \cap conditions = {} =>
        \A d, e \in funds :
            d.run # e.run /\ Database(d.run) = Database(e.run) =>
                "error" \in {outcome[d.run], outcome[e.run]}

\* The Lambda that answers that it inserted the funds (handler.py:64) is to be believed,
\* whatever else is or was running: from then on each fund is found under its category and
\* by its id.
InsertedAreServed ==
    \A s \in Lambdas, f \in Funds :
        outcome[s] = "inserted" /\ "apart" \notin conditions =>
            \E d \in GetFundsByCategory(CategoryOf[f]).funds :
                d.fund = f /\ GetFundById(d).status = 200

\* Nothing is inserting, and every run to come will find a document.
Settled ==
    /\ batches = {}
    /\ \A s \in Runs : pc[s] \in {"idle", "secret", "ping", "count"} => Counted(s) # {}
    /\ \A s \in Runs : pc[s] # "insert"

\* What seeding has left, complete or not, duplicated or not, stays as it is: no further
\* run adds what is missing (handler.py:53, init_db.py:14).
SettledStays == [][Settled => Settled' /\ UNCHANGED funds]_vars

\* Terraform looks at no answer (mongo.tf:312-315).  If nevertheless the resource is there
\* and the funds are not, then a run of that database has said that it failed, or one that
\* was started meanwhile is still inserting: overlap, stale counts and invocations that
\* find the collection filled never leave it incomplete in silence.
AppliedMeansSeeded ==
    provisioner = "applied" =>
        \/ Complete("amaris")
        \/ \E s \in Runs :
              /\ Database(s) = "amaris"
              /\ \/ outcome[s] = "error" /\ conditions \cap Failures # {}
                 \/ pc[s] = "reply" /\ "overlap" \in conditions

\* "Una lista de todos los fondos" (app/routers/funds.py:55): once a seeder has inserted the
\* funds in the service's database, the service lists them.
SeededFundsAreListed ==
    \A s \in Runs :
        outcome[s] = "inserted" /\ Database(s) = ServiceDatabase =>
            \A f \in Funds : \E d \in GetFunds.funds : d.fund = f

\* An invocation of the Lambda, however many overlap with it and however stale their
\* counts are, ends with all the funds in the database, its own or those of another run.
SeedingCompletes ==
    conditions \subseteq {"overlap", "lag", "apart"} /\ (\E s \in Lambdas : UnderWay(s))
        ~> Complete("amaris")

=============================================================================
