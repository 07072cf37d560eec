----------------------------- MODULE DiscoveryProofs -----------------------------
(***************************************************************************)
(* What a client believes of its servers stays consistent for any servers, *)
(* any answers and any errors, in whatever order they come.                *)
(***************************************************************************)
EXTENDS Discovery, TLAPS

-----------------------------------------------------------------------------
(* The inductive invariant.                                                    *)

Proper(d) ==
    /\ d.type \in ServerTypes
    /\ d.type \in Members => d.set # None
    /\ d.setVersion \in Nat
    /\ d.electionId \in Nat
    /\ d.hosts \subseteq Addresses

Shape ==
    /\ topology_type \in {"Unknown", "Single", "Sharded"} \cup ReplicaSet
    /\ max_set_version \in Nat
    /\ max_election_id \in Nat
    /\ DOMAIN sds \subseteq Addresses
    /\ \A x \in DOMAIN sds : Proper(sds[x])
    /\ opened \in BOOLEAN
    /\ modern \in BOOLEAN
    /\ cluster \in Clusters \cup {None}

\* Servers other than the seed come with a replica set.
Alone == topology_type \in {"Unknown", "Single"} => DOMAIN sds = {Seed}

\* What the answers leave behind, pools aside.
Beliefs == Shape /\ Alone /\ OnePrimary /\ OnlyNamedServers /\ PrimaryIsNewest

PoolPerServer == pools \in [DOMAIN sds -> {"paused", "ready"}]

IInv == Beliefs /\ PoolPerServer /\ SelectableIsReady

\* What is believed of a is what it said, at most, and no other server is put in a better
\* light than before.
Effect(a, d) ==
    /\ a \in DOMAIN sds' => sds'[a] = d \/ sds'[a].type = "Unknown"
    /\ \A x \in DOMAIN sds' \ {a} :
         IF x \in DOMAIN sds THEN sds'[x] = sds[x] \/ sds'[x].type = "Unknown"
                             ELSE sds'[x].type = "Unknown"
    /\ topology_type' = "Single" => DOMAIN sds' \subseteq {a}

LEMMA UnknownIsProper ==
  ASSUME NEW tv
  PROVE  /\ UnknownServer(tv).type = "Unknown" /\ Proper(UnknownServer(tv))
  BY DEF UnknownServer, Proper, ServerTypes, Members

LEMMA ToUnknownIsProper ==
  ASSUME NEW d
  PROVE  to_unknown(d).type = "Unknown" /\ Proper(to_unknown(d))
  BY UnknownIsProper DEF to_unknown

LEMMA DescriptionIsProper ==
  ASSUME Shape, NEW x
  PROVE  /\ Proper(Description(x))
         /\ x \notin DOMAIN sds => Description(x).type = "Unknown"
         /\ x \in DOMAIN sds => Description(x) = sds[x]
  BY UnknownIsProper DEF Shape, Description

LEMMA Checked ==
  ASSUME NEW servers
  PROVE  /\ CheckHasPrimary(servers) \in ReplicaSet
         /\ CheckHasPrimary(servers) = "ReplicaSetWithPrimary" <=> PrimariesOf(servers) # {}
  BY DEF CheckHasPrimary, ReplicaSet

-----------------------------------------------------------------------------
(* One lemma for each part of updated_topology_description.                    *)

LEMMA TypesOf ==
  ASSUME NEW d, Proper(d)
  PROVE  /\ d.type \in {"Unknown", "RSGhost"} => TopologyOf(d.type) = "Unknown"
         /\ d.type = "Standalone" => TopologyOf(d.type) = "Single"
         /\ d.type = "Mongos" => TopologyOf(d.type) = "Sharded"
         /\ d.type = "RSPrimary" => TopologyOf(d.type) = "ReplicaSetWithPrimary"
         /\ d.type \in {"RSSecondary", "RSOther"} => TopologyOf(d.type) = "ReplicaSetNoPrimary"
         /\ d.type \in {"Unknown", "RSGhost", "Standalone", "Mongos", "RSPrimary",
                        "RSSecondary", "RSOther"}
  BY DEF TopologyOf, Proper, ServerTypes

LEMMA AnyKeeps ==
  ASSUME Beliefs, NEW a \in DOMAIN sds, NEW d, Proper(d), FromAny(a, d),
         UNCHANGED <<opened, modern, cluster>>
  PROVE  Beliefs' /\ Effect(a, d)
  <1>1. topology_type \in {"Unknown", "Single"}
    BY DEF FromAny, TypeAfter
  <1>2. DOMAIN sds = {Seed} /\ a = Seed
    BY <1>1 DEF Beliefs, Alone
  <1>3. DOMAIN sds' = {Seed} /\ sds'[Seed] = d
    BY <1>2 DEF FromAny, Replaced
  <1>4. topology_type' \in {"Unknown", "Single"}
        /\ (topology_type' = "Unknown" => d.type # "RSPrimary")
    BY TypesOf DEF FromAny, TypeAfter
  <1>. QED
    BY <1>2, <1>3, <1>4
       DEF FromAny, Keep, Beliefs, Shape, Alone, OnePrimary, OnlyNamedServers, PrimaryIsNewest,
           PrimariesOf, Effect, ReplicaSet

LEMMA ShardKeeps ==
  ASSUME Beliefs, NEW a \in DOMAIN sds, NEW d, Proper(d), FromShard(a, d),
         UNCHANGED <<opened, modern, cluster>>
  PROVE  Beliefs' /\ Effect(a, d)
  <1>1. topology_type # "Unknown" => topology_type = "Sharded"
    BY DEF FromShard, TypeAfter
  <1>2. PrimariesOf(sds) \ {a} = {}
    BY <1>1 DEF Beliefs, Alone, OnePrimary, PrimariesOf
  <1>3. /\ DOMAIN sds' \subseteq DOMAIN sds /\ topology_type' = "Sharded"
        /\ \A x \in DOMAIN sds' : sds'[x] = IF x = a THEN d ELSE sds[x]
        /\ a \in DOMAIN sds' => d.type \in {"Mongos", "Unknown"}
    BY DEF FromShard, Replaced, Without
  <1>4. PrimariesOf(sds') = {}
    BY <1>2, <1>3 DEF PrimariesOf
  <1>. QED
    BY <1>3, <1>4 DEF FromShard, Keep, Beliefs, Shape, Alone, OnePrimary, OnlyNamedServers,
       PrimaryIsNewest, PrimariesOf, Effect, ReplicaSet

\* The primary, if there is one, is as before: only servers were taken away or forgotten.
LEMMA Lessened ==
  ASSUME Beliefs, NEW a \in DOMAIN sds, NEW d, topology_type \in ReplicaSet \cup {"Unknown"},
         DOMAIN sds' \subseteq DOMAIN sds,
         \A x \in DOMAIN sds' \ {a} : sds'[x] = sds[x],
         a \in DOMAIN sds' => /\ Proper(sds'[a])
                              /\ sds'[a].type # "RSPrimary"
                              /\ sds'[a] = d \/ sds'[a].type = "Unknown",
         topology_type' = CheckHasPrimary(sds'),
         replica_set_name' # None \/ replica_set_name' = replica_set_name,
         UNCHANGED <<max_set_version, max_election_id, opened, modern, cluster>>
  PROVE  Beliefs' /\ Effect(a, d)
  <1>1. PrimariesOf(sds') \subseteq PrimariesOf(sds)
        /\ \A x \in PrimariesOf(sds') : sds'[x] = sds[x]
    BY DEF PrimariesOf
  <1>2. /\ topology_type' \in ReplicaSet
        /\ topology_type' = "ReplicaSetWithPrimary" <=> PrimariesOf(sds') # {}
    BY Checked
  <1>3. Shape' /\ Alone'
    BY <1>2 DEF Beliefs, Shape, Alone, ReplicaSet
  <1>4. topology_type' = "ReplicaSetWithPrimary" => topology_type = "ReplicaSetWithPrimary"
    BY <1>1, <1>2 DEF Beliefs, OnePrimary, ReplicaSet
  <1>5. OnePrimary'
    BY <1>1, <1>2, <1>4 DEF Beliefs, OnePrimary
  <1>6. OnlyNamedServers'
    BY <1>1, <1>4 DEF Beliefs, OnlyNamedServers
  <1>7. PrimaryIsNewest'
    BY <1>1, <1>4 DEF Beliefs, PrimaryIsNewest
  <1>. QED BY <1>2, <1>3, <1>5, <1>6, <1>7 DEF Beliefs, Effect, ReplicaSet

\* Of a replica set without a primary, the topology has none to lose.
LEMMA NoneToLose ==
  ASSUME Beliefs, topology_type = "ReplicaSetNoPrimary"
  PROVE  PrimariesOf(sds) = {}
  BY DEF Beliefs, OnePrimary

LEMMA NonMemberKeeps ==
  ASSUME Beliefs, NEW a \in DOMAIN sds, NEW d, Proper(d), FromNonMember(a, d),
         UNCHANGED <<opened, modern, cluster>>
  PROVE  Beliefs' /\ Effect(a, d)
  <1>1. topology_type \in ReplicaSet
    BY TypesOf DEF FromNonMember, TypeAfter, ReplicaSet
  <1>2. /\ DOMAIN sds' \subseteq DOMAIN sds
        /\ \A x \in DOMAIN sds' : sds'[x] = IF x = a THEN d ELSE sds[x]
        /\ d.type # "RSPrimary" /\ Keep
    BY DEF FromNonMember, Replaced, Without
  <1>3. topology_type = "ReplicaSetNoPrimary" => PrimariesOf(sds') = {}
    BY <1>2, NoneToLose DEF PrimariesOf
  <1>4. topology_type' = CheckHasPrimary(sds')
    BY <1>1, <1>3 DEF FromNonMember, CheckHasPrimary, ReplicaSet
  <1>. QED BY <1>1, <1>2, <1>4, Lessened DEF Keep

LEMMA MemberWithPrimaryKeeps ==
  ASSUME Beliefs, NEW a \in DOMAIN sds, NEW d, Proper(d), FromMemberWithPrimary(a, d),
         UNCHANGED <<opened, modern, cluster>>
  PROVE  Beliefs' /\ Effect(a, d)
  <1>1. topology_type \in ReplicaSet
    BY TypesOf DEF FromMemberWithPrimary, TypeAfter, ReplicaSet, Members
  <1>2. /\ DOMAIN sds' \subseteq DOMAIN sds
        /\ \A x \in DOMAIN sds' : sds'[x] = IF x = a THEN d ELSE sds[x]
        /\ d.type # "RSPrimary" /\ Keep
        /\ topology_type' = CheckHasPrimary(sds')
    BY DEF FromMemberWithPrimary, Replaced, Without
  <1>. QED BY <1>1, <1>2, Lessened DEF Keep

\* A topology that has heard of no primary.
LEMMA NoPrimaryYet ==
  ASSUME Beliefs, topology_type \in {"Unknown", "ReplicaSetNoPrimary"}
  PROVE  PrimariesOf(sds) = {}
  BY DEF Beliefs, OnePrimary

LEMMA MemberNoPrimaryKeeps ==
  ASSUME Beliefs, NEW a \in DOMAIN sds, NEW d, Proper(d), FromMemberNoPrimary(a, d),
         UNCHANGED <<opened, modern, cluster>>
  PROVE  Beliefs' /\ Effect(a, d)
  <1>1. topology_type \in {"Unknown", "ReplicaSetNoPrimary"}
    BY DEF FromMemberNoPrimary, TypeAfter
  <1>2. /\ DOMAIN sds' \subseteq Addresses
        /\ \A x \in DOMAIN sds' : sds'[x] = IF x = a THEN d ELSE Description(x)
    <2>1. DOMAIN sds \subseteq Addresses /\ d.hosts \subseteq Addresses
      BY DEF Beliefs, Shape, Proper
    <2>2. CASE sds' = Without(a)
      BY <2>1, <2>2 DEF Without, Description
    <2>3. CASE d.set = Named(d)
      BY <2>1, <2>3 DEF FromMemberNoPrimary
    <2>. QED BY <2>2, <2>3 DEF FromMemberNoPrimary
  <1>3. Shape
    BY DEF Beliefs
  <1>4. \A x \in DOMAIN sds' : Proper(sds'[x])
    BY <1>2, <1>3, DescriptionIsProper
  <1>5. topology_type' = "ReplicaSetNoPrimary"
        /\ UNCHANGED <<max_set_version, max_election_id>>
    BY DEF FromMemberNoPrimary
  <1>6. Effect(a, d)
    BY <1>2, <1>3, <1>5, DescriptionIsProper DEF Effect
  <1>7. d.type # "RSPrimary"
    BY DEF FromMemberNoPrimary
  <1>8. PrimariesOf(sds') = {}
    BY <1>1, <1>2, <1>6, <1>7, NoPrimaryYet DEF Effect, PrimariesOf
  <1>. QED
    BY <1>2, <1>4, <1>5, <1>6, <1>8
       DEF Beliefs, Shape, Alone, OnePrimary, OnlyNamedServers, PrimaryIsNewest, ReplicaSet

LEMMA StalePrimaryKeeps ==
  ASSUME Beliefs, NEW a \in DOMAIN sds, NEW d, Proper(d), FromStalePrimary(a, d),
         UNCHANGED <<opened, modern, cluster>>
  PROVE  Beliefs' /\ Effect(a, d)
  <1>1. topology_type \in ReplicaSet \cup {"Unknown"}
    BY DEF FromStalePrimary, TypeAfter
  <1>2. /\ DOMAIN sds' \subseteq DOMAIN sds
        /\ \A x \in DOMAIN sds' \ {a} : sds'[x] = sds[x]
        /\ a \in DOMAIN sds' => sds'[a] = to_unknown(d)
        /\ topology_type' = CheckHasPrimary(sds')
    BY DEF FromStalePrimary, Replaced, Without
  <1>3. /\ replica_set_name' # None \/ replica_set_name' = replica_set_name
        /\ UNCHANGED <<max_set_version, max_election_id>>
    BY DEF FromStalePrimary, Keep, Proper, Members
  <1>4. to_unknown(d).type = "Unknown" /\ Proper(to_unknown(d))
    BY ToUnknownIsProper
  <1>. QED BY <1>1, <1>2, <1>3, <1>4, Lessened

LEMMA ForeignPrimaryKeeps ==
  ASSUME Beliefs, NEW a \in DOMAIN sds, NEW d, Proper(d), FromForeignPrimary(a, d),
         UNCHANGED <<opened, modern, cluster>>
  PROVE  Beliefs' /\ Effect(a, d)
  <1>1. topology_type \in ReplicaSet \cup {"Unknown"}
    BY DEF FromForeignPrimary, TypeAfter
  <1>2. /\ DOMAIN sds' \subseteq DOMAIN sds
        /\ \A x \in DOMAIN sds' \ {a} : sds'[x] = sds[x]
        /\ a \in DOMAIN sds' => sds'[a] = to_unknown(d)
        /\ topology_type' = CheckHasPrimary(sds')
    BY DEF FromForeignPrimary, Replaced, Without
  <1>3. /\ replica_set_name' # None \/ replica_set_name' = replica_set_name
        /\ UNCHANGED <<max_set_version, max_election_id>>
    BY DEF FromForeignPrimary, Keep, Proper, Members
  <1>4. to_unknown(d).type = "Unknown" /\ Proper(to_unknown(d))
    BY ToUnknownIsProper
  <1>. QED BY <1>1, <1>2, <1>3, <1>4, Lessened

LEMMA PrimaryKeeps ==
  ASSUME Beliefs, NEW a \in DOMAIN sds, NEW d, Proper(d), FromPrimary(a, d),
         UNCHANGED <<opened, modern, cluster>>
  PROVE  Beliefs' /\ Effect(a, d)
  <1>1. PICK old : /\ sds' = Crowned(a, d, old)
                   /\ \A x \in PrimariesOf(sds) \ {a} : x = old
    BY DEF FromPrimary, Beliefs, OnePrimary
  <1>2. /\ DOMAIN sds' = d.hosts
        /\ \A x \in DOMAIN sds' :
             sds'[x] = IF x = a THEN d ELSE IF x = old THEN to_unknown(sds[x]) ELSE Description(x)
    BY <1>1 DEF Crowned
  <1>3. Shape
    BY DEF Beliefs
  <1>4. \A x \in DOMAIN sds' : Proper(sds'[x])
    BY <1>2, <1>3, DescriptionIsProper, ToUnknownIsProper
  <1>5. /\ topology_type' \in ReplicaSet
        /\ topology_type' = "ReplicaSetWithPrimary" <=> PrimariesOf(sds') # {}
    BY Checked DEF FromPrimary
  <1>6. Effect(a, d)
    BY <1>2, <1>3, <1>5, DescriptionIsProper, ToUnknownIsProper DEF Effect, ReplicaSet
  <1>7. PrimariesOf(sds') \subseteq {a}
    <2>. SUFFICES ASSUME NEW x \in DOMAIN sds', x # a, sds'[x].type = "RSPrimary" PROVE FALSE
      BY DEF PrimariesOf
    <2>1. x # old
      BY <1>2, ToUnknownIsProper
    <2>2. sds'[x] = Description(x)
      BY <1>2, <2>1
    <2>3. x \in DOMAIN sds /\ sds[x].type = "RSPrimary"
      BY <1>3, <2>2, DescriptionIsProper
    <2>. QED BY <1>1, <2>1, <2>3 DEF PrimariesOf
  <1>8. /\ replica_set_name' # None
        /\ max_set_version' \in Nat /\ max_election_id' \in Nat
        /\ modern => max_election_id' = d.electionId /\ max_set_version' = d.setVersion
        /\ ~ modern /\ 0 \notin {d.setVersion, d.electionId} =>
             max_election_id' = d.electionId /\ d.setVersion <= max_set_version'
    BY <1>3 DEF FromPrimary, NoteElection, Proper, Members, Shape
  <1>9. Shape' /\ Alone'
    BY <1>2, <1>3, <1>4, <1>5, <1>8 DEF Shape, Alone, ReplicaSet, Proper
  <1>10. OnePrimary'
    BY <1>5, <1>7, <1>8 DEF OnePrimary, ReplicaSet
  <1>11. OnlyNamedServers'
    BY <1>2, <1>7 DEF OnlyNamedServers, PrimariesOf
  <1>12. PrimaryIsNewest'
    BY <1>2, <1>7, <1>8 DEF PrimaryIsNewest, PrimariesOf
  <1>. QED BY <1>6, <1>9, <1>10, <1>11, <1>12 DEF Beliefs

-----------------------------------------------------------------------------
(* Every step.                                                                 *)

LEMMA ChangeKeeps ==
  ASSUME IInv, NEW a \in DOMAIN sds, NEW d, Proper(d), NEW reset \in BOOLEAN,
         reset => d.type = "Unknown", ProcessChange(a, d, reset)
  PROVE  IInv'
  <1>1. Beliefs' /\ Effect(a, d)
    <2>1. UNCHANGED <<opened, modern, cluster>>
      BY DEF ProcessChange
    <2>2. Beliefs
      BY DEF IInv
    <2>. QED BY <2>1, <2>2, AnyKeeps, ShardKeeps, NonMemberKeeps, MemberWithPrimaryKeeps,
         MemberNoPrimaryKeeps, PrimaryKeeps, StalePrimaryKeeps, ForeignPrimaryKeeps
         DEF ProcessChange
  <1>2. /\ DOMAIN pools' = DOMAIN sds'
        /\ \A x \in DOMAIN sds' \ {a} : pools'[x] = IF x \in DOMAIN sds THEN pools[x] ELSE "paused"
        /\ a \in DOMAIN sds' =>
             pools'[a] = IF reset THEN "paused" ELSE IF MakesReady(d) THEN "ready" ELSE pools[a]
        /\ pools' = [x \in DOMAIN sds' |-> pools'[x]]
    BY DEF ProcessChange, UpdateServers
  <1>3. PoolPerServer'
    BY <1>2 DEF IInv, PoolPerServer
  <1>4. ASSUME NEW x \in DOMAIN sds', x # a,
               is_readable(sds'[x]) \/ (topology_type' = "Single" /\ sds'[x].type # "Unknown")
        PROVE  pools'[x] = "ready"
    <2>1. topology_type' # "Single"
      BY <1>1, <1>4 DEF Effect
    <2>2. is_readable(sds'[x])
      BY <1>4, <2>1
    <2>3. x \in DOMAIN sds /\ sds'[x] = sds[x]
      BY <1>1, <1>4, <2>2 DEF Effect, is_readable
    <2>. QED BY <1>2, <1>4, <2>2, <2>3 DEF IInv, SelectableIsReady
  <1>5. ASSUME a \in DOMAIN sds',
               is_readable(sds'[a]) \/ (topology_type' = "Single" /\ sds'[a].type # "Unknown")
        PROVE  pools'[a] = "ready"
    <2>1. sds'[a].type # "Unknown"
      BY <1>5 DEF is_readable
    <2>2. sds'[a] = d
      BY <1>1, <1>5, <2>1 DEF Effect
    <2>3. MakesReady(d) /\ ~ reset
      BY <1>5, <2>1, <2>2 DEF MakesReady
    <2>. QED BY <1>2, <1>5, <2>3
  <1>6. SelectableIsReady'
    BY <1>4, <1>5 DEF SelectableIsReady, is_readable
  <1>. QED BY <1>1, <1>3, <1>6 DEF IInv

LEMMA CloseKeeps ==
  ASSUME IInv, close
  PROVE  IInv'
  <1>1. /\ DOMAIN sds' = DOMAIN sds
        /\ \A x \in DOMAIN sds' : sds'[x] = UnknownServer(None)
        /\ pools' = [x \in DOMAIN sds' |-> "paused"]
        /\ opened' = FALSE /\ UNCHANGED <<modern, cluster>> /\ Keep
    BY DEF close
  <1>2. \A x \in DOMAIN sds' : sds'[x].type = "Unknown" /\ Proper(sds'[x])
    BY <1>1, UnknownIsProper
  <1>3. /\ topology_type = "ReplicaSetWithPrimary" => topology_type' = "ReplicaSetNoPrimary"
        /\ topology_type # "ReplicaSetWithPrimary" => topology_type' = topology_type
    BY DEF close
  <1>4. PrimariesOf(sds') = {} /\ topology_type' # "ReplicaSetWithPrimary"
    BY <1>2, <1>3 DEF PrimariesOf
  <1>5. Shape' /\ Alone'
    BY <1>1, <1>2, <1>3 DEF IInv, Beliefs, Shape, Alone, Keep, ReplicaSet
  <1>6. OnePrimary' /\ OnlyNamedServers' /\ PrimaryIsNewest'
    BY <1>4 DEF OnePrimary, OnlyNamedServers, PrimaryIsNewest
  <1>7. PoolPerServer' /\ SelectableIsReady'
    BY <1>1, <1>2 DEF PoolPerServer, SelectableIsReady, is_readable
  <1>. QED BY <1>5, <1>6, <1>7 DEF IInv, Beliefs

\* What does not touch the description or the pools.
LEMMA QuietKeeps ==
  ASSUME IInv, UNCHANGED <<description, pools, opened, modern>>,
         cluster' \in Clusters \cup {None}
  PROVE  IInv'
  <1>1. Shape' /\ Alone'
    BY DEF IInv, Beliefs, Shape, Alone, description
  <1>2. OnePrimary' /\ OnlyNamedServers' /\ PrimaryIsNewest'
    BY DEF IInv, Beliefs, OnePrimary, OnlyNamedServers, PrimaryIsNewest, description, PrimariesOf
  <1>3. PoolPerServer' /\ SelectableIsReady'
    BY DEF IInv, PoolPerServer, SelectableIsReady, description
  <1>. QED BY <1>1, <1>2, <1>3 DEF IInv, Beliefs

LEMMA AnswersAreProper ==
  ASSUME IInv, NEW a \in DOMAIN sds,
         NEW d \in IF cluster = None THEN Answers ELSE {cluster[a]}
  PROVE  Proper(d)
  <1>1. d \in Answers
    BY ConstantsAssumption DEF IInv, Beliefs, Shape
  <1>. QED BY <1>1, ConstantsAssumption DEF Proper

LEMMA InitKeeps == Init => IInv
  <1>. SUFFICES ASSUME Init PROVE IInv
    OBVIOUS
  <1>1. /\ DOMAIN sds = {Seed} /\ sds[Seed].type = "Unknown" /\ Proper(sds[Seed])
        /\ PrimariesOf(sds) = {} /\ topology_type \in {"Unknown", "ReplicaSetNoPrimary"}
    BY UnknownIsProper DEF Init, PrimariesOf
  <1>2. Shape /\ Alone
    BY <1>1, ConstantsAssumption DEF Init, Shape, Alone, ReplicaSet
  <1>3. OnePrimary /\ OnlyNamedServers /\ PrimaryIsNewest
    BY <1>1 DEF OnePrimary, OnlyNamedServers, PrimaryIsNewest
  <1>4. PoolPerServer /\ SelectableIsReady
    BY <1>1 DEF Init, PoolPerServer, SelectableIsReady, is_readable
  <1>. QED BY <1>2, <1>3, <1>4 DEF IInv, Beliefs

LEMMA StepKeeps == IInv /\ [Next]_vars => IInv'
  <1>. SUFFICES ASSUME IInv, [Next]_vars PROVE IInv'
    OBVIOUS
  <1>1. ASSUME NEW a \in Addresses, Report(a) PROVE IInv'
    <2>1. PICK d \in (IF cluster = None THEN Answers ELSE {cluster[a]}) :
             ProcessChange(a, d, d.type = "Unknown")
      BY <1>1 DEF Report
    <2>2. a \in DOMAIN sds
      BY <1>1 DEF Report
    <2>3. Proper(d)
      BY <2>2, AnswersAreProper
    <2>. QED BY <2>1, <2>2, <2>3, ChangeKeeps
  <1>2. ASSUME NEW a \in Addresses, NotPrimary(a) PROVE IInv'
    <2>1. PICK tv \in Versions, reset \in BOOLEAN : ProcessChange(a, UnknownServer(tv), reset)
      BY <1>2 DEF NotPrimary
    <2>2. a \in DOMAIN sds
      BY <1>2 DEF NotPrimary
    <2>. QED BY <2>1, <2>2, UnknownIsProper, ChangeKeeps
  <1>3. ASSUME NEW a \in Addresses, ConnectionFailure(a) PROVE IInv'
    <2>1. a \in DOMAIN sds /\ ProcessChange(a, UnknownServer(None), TRUE)
      BY <1>3 DEF ConnectionFailure
    <2>. QED BY <2>1, UnknownIsProper, ChangeKeeps
  <1>4. CASE close
    BY <1>4, CloseKeeps
  <1>5. CASE Settle
    BY <1>5, QuietKeeps DEF Settle
  <1>6. CASE UNCHANGED vars
    BY <1>6, QuietKeeps DEF vars, IInv, Beliefs, Shape
  <1>. QED BY <1>1, <1>2, <1>3, <1>4, <1>5, <1>6 DEF Next

LEMMA Invariance == Spec => []IInv
  <1>. QED BY InitKeeps, StepKeeps, PTL DEF Spec

-----------------------------------------------------------------------------
(* The results.                                                                *)

\* Whatever servers answer, the description stays well formed, with a pool for each server
\* it holds and for no other.
THEOREM DiscoveryTypeCorrect == Spec => []TypeOK
  <1>1. IInv => TypeOK
    BY DEF IInv, Beliefs, Shape, PoolPerServer, TypeOK, Proper
  <1>. QED BY <1>1, Invariance, PTL

\* Of any number of servers that claim to be the primary, in any order, at most one is
\* believed at a time, and the topology knows whether one is.
THEOREM AtMostOnePrimary == Spec => []OnePrimary
  <1>1. IInv => OnePrimary
    BY DEF IInv, Beliefs
  <1>. QED BY <1>1, Invariance, PTL

\* While a primary is believed, servers it does not name are not in the topology.
THEOREM OnlyMembersAreUsed == Spec => []OnlyNamedServers
  <1>1. IInv => OnlyNamedServers
    BY DEF IInv, Beliefs
  <1>. QED BY <1>1, Invariance, PTL

\* The pool of a server that can be selected gives connections out, although errors of
\* operations and reports of monitors pause and ready it in any order.
THEOREM SelectablePoolsAreReady == Spec => []SelectableIsReady
  <1>1. IInv => SelectableIsReady
    BY DEF IInv
  <1>. QED BY <1>1, Invariance, PTL

\* The primary believed is that of the newest election any server told of, however late
\* or reordered the reports of older ones are.
THEOREM NewestPrimaryIsBelieved == Spec => []PrimaryIsNewest
  <1>1. IInv => PrimaryIsNewest
    BY DEF IInv, Beliefs
  <1>. QED BY <1>1, Invariance, PTL

LEMMA NoteElectionGrows ==
  ASSUME Shape, NEW d, Proper(d), ~ IsStalePrimary(d), NoteElection(d)
  PROVE  IF modern
         THEN ~ Before(<<max_election_id', max_set_version'>>,
                       <<max_election_id, max_set_version>>)
         ELSE ~ Before(<<max_set_version', max_election_id'>>,
                       <<max_set_version, max_election_id>>)
  <1>. /\ d.setVersion \in Nat /\ d.electionId \in Nat
       /\ max_set_version \in Nat /\ max_election_id \in Nat
    BY DEF Shape, Proper
  <1>1. CASE modern
    BY <1>1 DEF IsStalePrimary, NoteElection
  <1>2. CASE ~ modern /\ 0 \in {d.setVersion, d.electionId}
    BY <1>2 DEF NoteElection, Before
  <1>3. CASE ~ modern /\ 0 \notin {d.setVersion, d.electionId}
    BY <1>3 DEF IsStalePrimary, NoteElection, Before
  <1>. QED BY <1>1, <1>2, <1>3

LEMMA ChangeGrows ==
  ASSUME IInv, NEW a \in DOMAIN sds, NEW d, Proper(d), NEW reset, ProcessChange(a, d, reset)
  PROVE  \/ UNCHANGED <<max_set_version, max_election_id>>
         \/ ~ IsStalePrimary(d) /\ NoteElection(d)
  BY DEF ProcessChange, FromAny, FromShard, FromNonMember, FromMemberWithPrimary,
         FromMemberNoPrimary, FromPrimary, FromStalePrimary, FromForeignPrimary, Keep

\* What is remembered of elections never goes back.
THEOREM ElectionsAreRemembered == Spec => ElectionsOnlyGrow
  <1> DEFINE Grows ==
        IF modern
        THEN ~ Before(<<max_election_id', max_set_version'>>,
                      <<max_election_id, max_set_version>>)
        ELSE ~ Before(<<max_set_version', max_election_id'>>,
                      <<max_set_version, max_election_id>>)
  <1>1. ASSUME IInv, UNCHANGED <<max_set_version, max_election_id>> PROVE Grows
    BY <1>1 DEF IInv, Beliefs, Shape, Before
  <1>2. ASSUME IInv, NEW a \in DOMAIN sds, NEW d, Proper(d), NEW reset,
               ProcessChange(a, d, reset)
        PROVE  Grows
    <2>1. CASE UNCHANGED <<max_set_version, max_election_id>>
      BY <1>1, <1>2, <2>1
    <2>2. CASE ~ IsStalePrimary(d) /\ NoteElection(d)
      BY <1>2, <2>2, NoteElectionGrows DEF IInv, Beliefs
    <2>. QED BY <1>2, <2>1, <2>2, ChangeGrows
  <1>3. ASSUME IInv, Next PROVE Grows
    <2>1. ASSUME NEW a \in Addresses, Report(a) PROVE Grows
      <3>1. a \in DOMAIN sds
            /\ \E d \in (IF cluster = None THEN Answers ELSE {cluster[a]}) :
                  ProcessChange(a, d, d.type = "Unknown")
        BY <2>1 DEF Report
      <3>. QED BY <1>2, <1>3, <3>1, AnswersAreProper
    <2>2. ASSUME NEW a \in Addresses, NotPrimary(a) \/ ConnectionFailure(a) PROVE Grows
      <3>1. a \in DOMAIN sds
            /\ \E tv \in Versions, reset \in BOOLEAN :
                  ProcessChange(a, UnknownServer(tv), reset)
        BY <2>2, ConstantsAssumption DEF NotPrimary, ConnectionFailure
      <3>. QED BY <1>2, <1>3, <3>1, UnknownIsProper
    <2>3. CASE close \/ Settle
      BY <1>1, <1>3, <2>3 DEF close, Settle, Keep, description
    <2>. QED BY <1>3, <2>1, <2>2, <2>3 DEF Next
  <1>4. IInv /\ [Next]_vars => [Grows]_vars
    BY <1>3
  <1>. QED BY <1>4, Invariance, PTL DEF Spec, ElectionsOnlyGrow
=============================================================================
