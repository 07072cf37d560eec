--------------------------- MODULE FundSeedingProofs ---------------------------
(***************************************************************************)
(* What seeding guarantees, for any number of runs, of funds and of        *)
(* categories, and whatever goes wrong.                                    *)
(***************************************************************************)
EXTENDS FundSeeding, TLAPS

-----------------------------------------------------------------------------
(* The inductive invariant.                                                    *)

\* Without overlap at most one run is under way.
OneAtATime ==
    "overlap" \notin conditions =>
        \A s, t \in Runs : UnderWay(s) /\ UnderWay(t) => s = t

\* The primary works on what a run waits for, or has given up on.
BatchesOK ==
    \A s \in batches :
        pc[s] = "reply" \/ (pc[s] = "done" /\ outcome[s] = "error" /\ "error" \in conditions)

DocumentsOK == \A d \in funds : pc[d.run] \in {"reply", "done"}

OutcomesOK ==
    /\ \A s \in Runs : outcome[s] = "pending" <=> pc[s] # "done"
    /\ \A s \in Runs, f \in Funds :
          outcome[s] = "inserted" => [run |-> s, fund |-> f] \in funds
    /\ \A s \in Runs : outcome[s] = "error" => conditions \cap Failures # {}

\* Who inserts is the only one to have inserted, but for who gave up.
OnlyInserter ==
    {"overlap", "lag"} \cap conditions = {} =>
        /\ replicated = funds
        /\ \A s \in Runs, d \in funds :
              pc[s] \in {"insert", "reply"} /\ Database(d.run) = Database(s) =>
                  d.run = s \/ outcome[d.run] = "error"

\* As long as nothing fails, a batch that is over is in the database.
BatchesArrive ==
    conditions \cap Failures = {} =>
        \A s \in Runs, f \in Funds :
            pc[s] = "reply" /\ s \notin batches => [run |-> s, fund |-> f] \in funds

\* Somebody knows why the database of a run is not full: a run that failed, or one that
\* is still at it.
Accountable(s) ==
    \E t \in Runs :
        /\ Database(t) = Database(s)
        /\ \/ outcome[t] = "error"
           \/ pc[t] = "reply" /\ "overlap" \in conditions

\* A run that is over leaves its database full, or somebody knows why not.
NothingMissing ==
    \A s \in Runs : pc[s] = "done" => Complete(Database(s)) \/ Accountable(s)

AppliedOK == provisioner = "applied" => \E s \in Lambdas : pc[s] = "done"

IInv ==
    /\ TypeOK
    /\ OneAtATime
    /\ BatchesOK
    /\ DocumentsOK
    /\ OutcomesOK
    /\ OnlyInserter
    /\ SeededOnce
    /\ BatchesArrive
    /\ NothingMissing
    /\ AppliedOK

-----------------------------------------------------------------------------
(* Every step keeps the invariant.                                             *)

LEMMA InitIInv == Init => IInv
  BY ConstantsAssumption
     DEF Init, IInv, TypeOK, OneAtATime, BatchesOK, DocumentsOK, OutcomesOK, OnlyInserter,
         SeededOnce, BatchesArrive, NothingMissing, AppliedOK, UnderWay

\* One step per action; at each, the general part, what tells who inserts, and what
\* tells that nothing is missing.
LEMMA StepKeepsIInv == IInv /\ [Next]_vars => IInv'
  <1>. SUFFICES ASSUME IInv, [Next]_vars PROVE IInv'
    OBVIOUS
  <1>. USE DEF IInv, TypeOK, BatchesOK, DocumentsOK, OutcomesOK, Runs, Documents, UnderWay
  <1>1. ASSUME NEW s \in Runs, Start(s) PROVE IInv'
    <2>1. TypeOK' /\ OneAtATime' /\ BatchesOK'
      BY <1>1, ConstantsAssumption DEF OneAtATime, Start, CanStart, Continue, store
    <2>2. DocumentsOK' /\ OutcomesOK' /\ BatchesArrive' /\ AppliedOK'
      BY <1>1, ConstantsAssumption DEF BatchesArrive, AppliedOK, Start, CanStart, Continue, store
    <2>3. OnlyInserter' /\ SeededOnce'
      BY <1>1, ConstantsAssumption
         DEF OneAtATime, OnlyInserter, SeededOnce, Database, ServiceDatabase, Start,
             CanStart, Continue, store
    <2>4. NothingMissing'
      BY <1>1, ConstantsAssumption
         DEF OneAtATime, NothingMissing, Accountable, Complete, Database, ServiceDatabase, Funds,
             Start, CanStart, Continue, store
    <2>. QED BY <2>1, <2>2, <2>3, <2>4
  <1>2. ASSUME NEW s \in Runs, Provision(s) PROVE IInv'
    <2>1. TypeOK' /\ OneAtATime' /\ BatchesOK'
      BY <1>2, ConstantsAssumption DEF OneAtATime, Provision, CanStart, Continue, store
    <2>2. DocumentsOK' /\ OutcomesOK' /\ BatchesArrive' /\ AppliedOK'
      BY <1>2, ConstantsAssumption
         DEF BatchesArrive, AppliedOK, Provision, CanStart, Continue, store
    <2>3. OnlyInserter' /\ SeededOnce'
      BY <1>2, ConstantsAssumption
         DEF OneAtATime, OnlyInserter, SeededOnce, Database, ServiceDatabase, Provision,
             CanStart, Continue, store
    <2>4. NothingMissing'
      BY <1>2, ConstantsAssumption
         DEF OneAtATime, NothingMissing, Accountable, Complete, Database, ServiceDatabase, Funds,
             Provision, CanStart, Continue, store
    <2>. QED BY <2>1, <2>2, <2>3, <2>4
  <1>3. ASSUME NEW s \in Runs, GetSecret(s) PROVE IInv'
    <2>1. TypeOK' /\ OneAtATime' /\ BatchesOK'
      BY <1>3, ConstantsAssumption DEF OneAtATime, GetSecret, Continue, store
    <2>2. DocumentsOK' /\ OutcomesOK' /\ BatchesArrive' /\ AppliedOK'
      BY <1>3, ConstantsAssumption DEF BatchesArrive, AppliedOK, GetSecret, Continue, store
    <2>3. OnlyInserter' /\ SeededOnce'
      BY <1>3, ConstantsAssumption
         DEF OneAtATime, OnlyInserter, SeededOnce, Database, ServiceDatabase, GetSecret,
             Continue, store
    <2>4. NothingMissing'
      BY <1>3, ConstantsAssumption
         DEF OneAtATime, NothingMissing, Accountable, Complete, Database, ServiceDatabase, Funds,
             GetSecret, Continue, store
    <2>. QED BY <2>1, <2>2, <2>3, <2>4
  <1>4. ASSUME NEW s \in Runs, Connect(s) PROVE IInv'
    <2>1. TypeOK' /\ OneAtATime' /\ BatchesOK'
      BY <1>4, ConstantsAssumption DEF OneAtATime, Connect, Continue, End, store
    <2>2. DocumentsOK' /\ OutcomesOK' /\ BatchesArrive' /\ AppliedOK'
      BY <1>4, ConstantsAssumption
         DEF BatchesArrive, AppliedOK, Failures, Connect, Continue, End, store
    <2>3. OnlyInserter' /\ SeededOnce'
      BY <1>4, ConstantsAssumption
         DEF OneAtATime, OnlyInserter, SeededOnce, Database, ServiceDatabase, Connect,
             Continue, End, store
    <2>4. NothingMissing'
      BY <1>4, ConstantsAssumption
         DEF OneAtATime, NothingMissing, Accountable, Complete, Database, ServiceDatabase, Funds,
             Connect, Continue, End, store
    <2>. QED BY <2>1, <2>2, <2>3, <2>4
  <1>5. ASSUME NEW s \in Runs, Count(s) PROVE IInv'
    <2>1. TypeOK' /\ OneAtATime' /\ BatchesOK'
      BY <1>5, ConstantsAssumption
         DEF OneAtATime, Count, Continue, End, Counted, Source, store
    <2>2. DocumentsOK' /\ OutcomesOK' /\ BatchesArrive' /\ AppliedOK'
      BY <1>5, ConstantsAssumption
         DEF BatchesArrive, AppliedOK, Count, Continue, End, Counted, Source, store
    <2>3. OnlyInserter' /\ SeededOnce'
      BY <1>5, ConstantsAssumption
         DEF OneAtATime, OnlyInserter, SeededOnce, Database, ServiceDatabase, Count,
             Continue, End, Counted, Source, store
    <2>4. NothingMissing'
      <3>1. funds' = funds /\ conditions' = conditions
        BY <1>5 DEF Count, store
      <3>2. \A t \in Runs : Complete(Database(t))' <=> Complete(Database(t))
        BY <3>1 DEF Complete, Database, ServiceDatabase, Funds
      <3>3. \A t \in Runs : Accountable(t) => Accountable(t)'
        BY <1>5, <3>1 DEF Accountable, Count, Continue, End, Database, ServiceDatabase
      <3>4. CASE Counted(s) = {}
        BY <1>5, <3>2, <3>3, <3>4 DEF NothingMissing, Count, Continue
      <3>5. CASE Counted(s) # {}
        <4>1. PICK d \in funds : Database(d.run) = Database(s) /\ d.run \in Runs
          BY <3>5 DEF Counted, Source
        <4>2. \A t \in Runs : pc'[t] = "done" => pc[t] = "done" \/ t = s
          BY <1>5 DEF Count, Continue, End
        <4>3. Complete(Database(s)) \/ Accountable(s)
          <5>1. CASE pc[d.run] = "done"
            BY <4>1, <5>1 DEF NothingMissing, Accountable
          <5>2. CASE pc[d.run] = "reply"
            BY <1>5, <4>1, <5>2 DEF OneAtATime, Count, Accountable
          <5> QED BY <4>1, <5>1, <5>2 DEF DocumentsOK
        <4> QED BY <3>2, <3>3, <4>1, <4>2, <4>3 DEF NothingMissing
      <3>. QED BY <3>4, <3>5
    <2>. QED BY <2>1, <2>2, <2>3, <2>4
  <1>6. ASSUME NEW s \in Runs, Insert(s) PROVE IInv'
    <2>1. TypeOK' /\ OneAtATime' /\ BatchesOK'
      BY <1>6, ConstantsAssumption DEF OneAtATime, Insert, Continue
    <2>2. DocumentsOK' /\ OutcomesOK' /\ BatchesArrive' /\ AppliedOK'
      BY <1>6, ConstantsAssumption DEF BatchesArrive, AppliedOK, Insert, Continue
    <2>3. OnlyInserter' /\ SeededOnce'
      BY <1>6, ConstantsAssumption
         DEF OneAtATime, OnlyInserter, SeededOnce, Database, ServiceDatabase, Insert,
             Continue
    <2>4. NothingMissing'
      BY <1>6, ConstantsAssumption
         DEF OneAtATime, NothingMissing, Accountable, Complete, Database, ServiceDatabase, Funds,
             Insert, Continue
    <2>. QED BY <2>1, <2>2, <2>3, <2>4
  <1>7. ASSUME NEW s \in Runs, Reply(s) PROVE IInv'
    <2>1. TypeOK' /\ OneAtATime' /\ BatchesOK'
      BY <1>7, ConstantsAssumption DEF OneAtATime, Reply, End, store
    <2>2. DocumentsOK' /\ OutcomesOK' /\ BatchesArrive' /\ AppliedOK'
      BY <1>7, ConstantsAssumption DEF BatchesArrive, AppliedOK, Reply, End, store
    <2>3. OnlyInserter' /\ SeededOnce'
      BY <1>7, ConstantsAssumption
         DEF OneAtATime, OnlyInserter, SeededOnce, Database, ServiceDatabase, Reply,
             End, store
    <2>4. NothingMissing'
      <3>1. CASE \A f \in Funds : [run |-> s, fund |-> f] \in funds
        <4>1. \A f \in Funds : \E d \in funds : d.fund = f /\ d.run = s
          BY <3>1
        <4>2. Complete(Database(s))'
          BY <1>7, <4>1 DEF Complete, Database, ServiceDatabase, Reply, store
        <4>. QED
          BY <1>7, <4>2
             DEF NothingMissing, Accountable, Complete, Database, ServiceDatabase, Reply,
                 End, store
      <3>2. CASE ~ \A f \in Funds : [run |-> s, fund |-> f] \in funds
        <4>1. outcome'[s] = "error"
          BY <1>7, <3>2 DEF Reply, End
        <4>. QED
          BY <1>7, <4>1
             DEF NothingMissing, Accountable, Complete, Database, ServiceDatabase, Reply,
                 End, store
      <3>. QED
        BY <3>1, <3>2
    <2>. QED BY <2>1, <2>2, <2>3, <2>4
  <1>8. ASSUME NEW s \in Runs, Fail(s) PROVE IInv'
    <2>1. TypeOK' /\ OneAtATime' /\ BatchesOK'
      BY <1>8, ConstantsAssumption DEF OneAtATime, Fail, End, store
    <2>2. DocumentsOK' /\ OutcomesOK' /\ BatchesArrive' /\ AppliedOK'
      BY <1>8, ConstantsAssumption DEF BatchesArrive, AppliedOK, Failures, Fail, End, store
    <2>3. OnlyInserter' /\ SeededOnce'
      BY <1>8, ConstantsAssumption
         DEF OneAtATime, OnlyInserter, SeededOnce, Database, ServiceDatabase, Fail, End,
             store
    <2>4. NothingMissing'
      BY <1>8, ConstantsAssumption
         DEF OneAtATime, NothingMissing, Accountable, Complete, Database, ServiceDatabase, Funds,
             Fail, End, store
    <2>. QED BY <2>1, <2>2, <2>3, <2>4
  <1>9. ASSUME NEW s \in Runs, InsertNext(s) PROVE IInv'
    <2>1. TypeOK' /\ OneAtATime' /\ BatchesOK'
      BY <1>9, ConstantsAssumption DEF OneAtATime, InsertNext
    <2>2. DocumentsOK' /\ OutcomesOK' /\ BatchesArrive' /\ AppliedOK'
      <3>1. PICK f \in Funds :
                /\ \A g \in Funds : g < f => [run |-> s, fund |-> g] \in funds
                /\ funds' = funds \cup {[run |-> s, fund |-> f]}
                /\ batches' = IF f = FundCount THEN batches \ {s} ELSE batches
        BY <1>9 DEF InsertNext
      <3>2. f = FundCount => \A g \in Funds : [run |-> s, fund |-> g] \in funds'
        BY <3>1, ConstantsAssumption DEF ConstantsAssumption, Funds
      <3>3. BatchesArrive'
        BY <1>9, <3>1, <3>2 DEF BatchesArrive, InsertNext
      <3>. QED
        BY <1>9, <3>1, <3>3 DEF AppliedOK, InsertNext
    <2>3. OnlyInserter' /\ SeededOnce'
      BY <1>9, ConstantsAssumption
         DEF OneAtATime, OnlyInserter, SeededOnce, Database, ServiceDatabase, InsertNext
    <2>4. NothingMissing'
      BY <1>9, ConstantsAssumption
         DEF OneAtATime, NothingMissing, Accountable, Complete, Database, ServiceDatabase, Funds,
             InsertNext
    <2>. QED BY <2>1, <2>2, <2>3, <2>4
  <1>10. ASSUME NEW s \in Runs, Failover(s) PROVE IInv'
    <2>1. TypeOK' /\ OneAtATime' /\ BatchesOK'
      BY <1>10, ConstantsAssumption DEF OneAtATime, Failover
    <2>2. DocumentsOK' /\ OutcomesOK' /\ BatchesArrive' /\ AppliedOK'
      BY <1>10, ConstantsAssumption DEF BatchesArrive, AppliedOK, Failures, Failover
    <2>3. OnlyInserter' /\ SeededOnce'
      BY <1>10, ConstantsAssumption
         DEF OneAtATime, OnlyInserter, SeededOnce, Database, ServiceDatabase, Failover
    <2>4. NothingMissing'
      BY <1>10, ConstantsAssumption
         DEF OneAtATime, NothingMissing, Accountable, Complete, Database, ServiceDatabase, Funds,
             Failover
    <2>. QED BY <2>1, <2>2, <2>3, <2>4
  <1>11. CASE Applied
    <2>1. TypeOK' /\ OneAtATime' /\ BatchesOK'
      BY <1>11, ConstantsAssumption DEF OneAtATime, Applied, store
    <2>2. DocumentsOK' /\ OutcomesOK' /\ BatchesArrive' /\ AppliedOK'
      BY <1>11, ConstantsAssumption DEF BatchesArrive, AppliedOK, Applied, store
    <2>3. OnlyInserter' /\ SeededOnce'
      BY <1>11, ConstantsAssumption
         DEF OneAtATime, OnlyInserter, SeededOnce, Database, ServiceDatabase, Applied,
             store
    <2>4. NothingMissing'
      BY <1>11, ConstantsAssumption
         DEF OneAtATime, NothingMissing, Accountable, Complete, Database, ServiceDatabase, Funds,
             Applied, store
    <2>. QED BY <2>1, <2>2, <2>3, <2>4
  <1>12. CASE Replicate
    <2>1. TypeOK' /\ OneAtATime' /\ BatchesOK'
      BY <1>12, ConstantsAssumption DEF OneAtATime, Replicate
    <2>2. DocumentsOK' /\ OutcomesOK' /\ BatchesArrive' /\ AppliedOK'
      BY <1>12, ConstantsAssumption DEF BatchesArrive, AppliedOK, Replicate
    <2>3. OnlyInserter' /\ SeededOnce'
      BY <1>12, ConstantsAssumption
         DEF OneAtATime, OnlyInserter, SeededOnce, Database, ServiceDatabase, Replicate
    <2>4. NothingMissing'
      BY <1>12, ConstantsAssumption
         DEF OneAtATime, NothingMissing, Accountable, Complete, Database, ServiceDatabase, Funds,
             Replicate
    <2>. QED BY <2>1, <2>2, <2>3, <2>4
  <1>13. CASE UNCHANGED vars
    <2>1. TypeOK' /\ OneAtATime' /\ BatchesOK'
      BY <1>13, ConstantsAssumption DEF OneAtATime, vars, store
    <2>2. DocumentsOK' /\ OutcomesOK' /\ BatchesArrive' /\ AppliedOK'
      BY <1>13, ConstantsAssumption DEF BatchesArrive, AppliedOK, vars, store
    <2>3. OnlyInserter' /\ SeededOnce'
      BY <1>13, ConstantsAssumption
         DEF OneAtATime, OnlyInserter, SeededOnce, Database, ServiceDatabase, vars,
             store
    <2>4. NothingMissing'
      BY <1>13, ConstantsAssumption
         DEF OneAtATime, NothingMissing, Accountable, Complete, Database, ServiceDatabase, Funds,
             vars, store
    <2>. QED BY <2>1, <2>2, <2>3, <2>4
  <1>. QED
    BY <1>1, <1>2, <1>3, <1>4, <1>5, <1>6, <1>7, <1>8, <1>9, <1>10, <1>11, <1>12, <1>13
       DEF Next, Run

THEOREM Invariant == Spec => []IInv
  BY InitIInv, StepKeepsIInv, PTL DEF Spec

-----------------------------------------------------------------------------
(* What follows.                                                               *)

\* The variables of the model have the types that it gives them.
THEOREM SeedingTypeCorrect == Spec => []TypeOK
  <1>1. IInv => TypeOK
    BY DEF IInv
  <1>. QED BY <1>1, Invariant, PTL

\* Without overlap and stale counts, one run inserts everything that a database gets, but
\* for batches whose run gave up: counting before inserting is then enough (handler.py:53,
\* init_db.py:14).
THEOREM OneSeeder == Spec => []SeededOnce
  <1>1. IInv => SeededOnce
    BY DEF IInv
  <1>. QED BY <1>1, Invariant, PTL

\* The funds that a Lambda answers it inserted are served (handler.py:63-64), whatever
\* fails and overlaps: nothing ever deletes them or hides them from a category.
THEOREM InsertedFundsAreServed == Spec => []InsertedAreServed
  <1>1. IInv => InsertedAreServed
    <2>. SUFFICES ASSUME IInv, NEW s \in Lambdas, NEW f \in Funds,
                         outcome[s] = "inserted", "apart" \notin conditions
                  PROVE  \E d \in GetFundsByCategory(CategoryOf[f]).funds :
                             d.fund = f /\ GetFundById(d).status = 200
      BY DEF InsertedAreServed
    <2>. DEFINE d == [run |-> s, fund |-> f]
    <2>1. d \in funds
      BY DEF IInv, OutcomesOK, Runs
    <2>2. d \in Stored /\ HasKeys(d)
      BY <2>1 DEF Stored, HasKeys, Database, ServiceDatabase
    <2>3. d \in GetFundsByCategory(CategoryOf[f]).funds
      BY <2>2 DEF GetFundsByCategory
    <2>4. GetFundById(d).status = 200
      BY <2>2 DEF GetFundById
    <2>. QED BY <2>3, <2>4
  <1>. QED BY <1>1, Invariant, PTL

\* What LocalSeed refutes is the script's doing alone: where only the Lambda seeds, the
\* service lists every fund that was inserted for it, however many invocations overlap and
\* whatever fails (handler.py:53-64, routers/funds.py:50-58).
THEOREM LambdaFundsAreListed ==
    ASSUME Scripts = {} PROVE Spec => []SeededFundsAreListed
  <1>1. IInv => SeededFundsAreListed
    <2>. SUFFICES ASSUME IInv, NEW s \in Runs, NEW f \in Funds,
                         outcome[s] = "inserted", Database(s) = ServiceDatabase
                  PROVE  \E d \in GetFunds.funds : d.fund = f
      BY DEF SeededFundsAreListed
    <2>. DEFINE d == [run |-> s, fund |-> f]
    <2>1. d \in Stored /\ d.fund = f
      BY DEF IInv, OutcomesOK, Stored
    <2>2. \A e \in Stored : HasKeys(e)
      BY DEF IInv, TypeOK, Documents, Runs, Stored, HasKeys
    <2>3. GetFunds.funds = Stored
      BY <2>2 DEF GetFunds
    <2>. QED BY <2>1, <2>3
  <1>. QED BY <1>1, Invariant, PTL

\* Whatever overlaps, lags and fails: if Terraform takes the seeding for done and funds are
\* missing, then a run said so, or is still inserting (mongo.tf:299-322, handler.py:53-69).
THEOREM AppliedIsSeeded == Spec => []AppliedMeansSeeded
  <1>1. IInv => AppliedMeansSeeded
    <2>. SUFFICES ASSUME IInv, provisioner = "applied", ~ Complete("amaris")
                  PROVE  \E s \in Runs :
                            /\ Database(s) = "amaris"
                            /\ \/ outcome[s] = "error" /\ conditions \cap Failures # {}
                               \/ pc[s] = "reply" /\ "overlap" \in conditions
      BY DEF AppliedMeansSeeded
    <2>1. PICK s \in Lambdas : pc[s] = "done"
      BY DEF IInv, AppliedOK
    <2>2. Database(s) = "amaris"
      BY ConstantsAssumption DEF ConstantsAssumption, Database
    <2>3. Accountable(s)
      BY <2>1, <2>2 DEF IInv, NothingMissing, Runs
    <2>4. \A t \in Runs : outcome[t] = "error" => conditions \cap Failures # {}
      BY DEF IInv, OutcomesOK
    <2>. QED BY <2>2, <2>3, <2>4 DEF Accountable
  <1>. QED BY <1>1, Invariant, PTL

\* An incomplete or doubled catalogue is never repaired (handler.py:53, init_db.py:14).
THEOREM SettledIsFinal == Spec => SettledStays
  <1>1. IInv /\ [Next]_vars => (Settled => Settled' /\ UNCHANGED funds)
    <2>. SUFFICES ASSUME IInv, [Next]_vars, Settled
                  PROVE  Settled' /\ UNCHANGED funds
      OBVIOUS
    <2>. USE DEF Settled, Counted, Source, Database, ServiceDatabase
    <2>1. ASSUME NEW s \in Runs, Start(s) \/ Provision(s) PROVE Settled' /\ UNCHANGED funds
      BY <2>1 DEF Start, Provision, Continue, store, IInv, TypeOK
    <2>2. ASSUME NEW s \in Runs, GetSecret(s) \/ Connect(s)
          PROVE Settled' /\ UNCHANGED funds
      BY <2>2 DEF GetSecret, Connect, Continue, End, store, IInv, TypeOK
    <2>3. ASSUME NEW s \in Runs, Count(s) \/ Fail(s) \/ Reply(s)
          PROVE Settled' /\ UNCHANGED funds
      BY <2>3 DEF Count, Fail, Reply, Continue, End, store, IInv, TypeOK
    <2>4. ASSUME NEW s \in Runs, Insert(s) \/ InsertNext(s) \/ Failover(s)
          PROVE FALSE
      BY <2>4 DEF Insert, InsertNext, Failover
    <2>5. CASE Replicate
      BY <2>5 DEF Replicate, IInv, TypeOK
    <2>6. CASE Applied \/ UNCHANGED vars
      BY <2>6 DEF Applied, vars, store
    <2>. QED
      BY <2>1, <2>2, <2>3, <2>4, <2>5, <2>6 DEF Next, Run
  <1>2. IInv /\ [Next]_vars => [Settled => Settled' /\ UNCHANGED funds]_vars
    BY <1>1
  <1>. QED BY <1>2, Invariant, PTL DEF Spec, SettledStays

=============================================================================
