-------------------------------- MODULE Discovery --------------------------------
(***************************************************************************)
(* How a MongoClient finds the servers of its database, and the primary    *)
(* among them (pymongo/topology.py, topology_description.py): monitors     *)
(* report what the servers say of themselves and of each other, operations *)
(* report errors, and the topology keeps one description and one pool per  *)
(* server it knows.  Everything happens under the topology's lock; what    *)
(* makes it hard is that reports contradict each other and come late.      *)
(*                                                                         *)
(* An absent setVersion or electionId is 0, below every other, as MinKey.  *)
(***************************************************************************)
EXTENDS Integers, FiniteSets

CONSTANTS
    Addresses,
    Seed,          \* the address in the URI; the URIs of this repository have one
    SetName,       \* the replicaSet of the URI, if it has one
    Answers,       \* what a server may answer to hello, or that it does not answer
    Clusters,      \* what all servers may answer once nothing changes any more
    Versions,      \* topologyVersions of errors
    None

ServerTypes == {"Unknown", "Standalone", "Mongos", "RSPrimary", "RSSecondary", "RSOther",
                "RSGhost"}

Members == {"RSPrimary", "RSSecondary", "RSOther"}

ASSUME ConstantsAssumption ==
    /\ Seed \in Addresses
    /\ SetName # None
    /\ None \in Versions
    /\ \A d \in Answers :
         /\ d.type \in ServerTypes
         /\ d.type \in Members => d.set # None
         /\ d.setVersion \in Nat /\ d.electionId \in Nat
         /\ d.hosts \subseteq Addresses
    /\ Clusters \subseteq [Addresses -> Answers]
    /\ None \notin Clusters

VARIABLES
    topology_type,
    replica_set_name,
    max_set_version,
    max_election_id,
    sds,      \* the server descriptions, by address
    pools,    \* whether the pool of a server is "ready", or "paused" (or closed, with the client)
    opened,
    modern,   \* whether the servers report maxWireVersion 17 or more; never changes
    cluster   \* None, or what the servers answer from now on

description == <<topology_type, replica_set_name, max_set_version, max_election_id, sds>>

vars == <<description, pools, opened, modern, cluster>>

\* ServerDescription(address, error=...)
UnknownServer(tv) ==
    [type |-> "Unknown", set |-> None, hosts |-> {}, me |-> None,
     setVersion |-> 0, electionId |-> 0, topologyVersion |-> tv]

to_unknown(d) == UnknownServer(d.topologyVersion)

Init ==
    /\ \/ topology_type = "Unknown" /\ replica_set_name = None
       \/ topology_type = "ReplicaSetNoPrimary" /\ replica_set_name = SetName
    /\ max_set_version = 0
    /\ max_election_id = 0
    /\ sds = [a \in {Seed} |-> UnknownServer(None)]
    /\ pools = [a \in {Seed} |-> "paused"]
    /\ opened = TRUE
    /\ modern \in BOOLEAN
    /\ cluster = None

Comparable(tv1, tv2) ==
    tv1 # None /\ tv2 # None /\ tv1.processId = tv2.processId

IsStaleDescription(current, new) ==
    /\ Comparable(current.topologyVersion, new.topologyVersion)
    /\ current.topologyVersion.counter > new.topologyVersion.counter

IsStaleError(current, tv) ==
    /\ Comparable(current.topologyVersion, tv)
    /\ current.topologyVersion.counter >= tv.counter

is_readable(d) == d.type \in {"RSPrimary", "RSSecondary", "Standalone", "Mongos"}

-----------------------------------------------------------------------------
(* updated_topology_description                                                *)

ReplicaSet == {"ReplicaSetNoPrimary", "ReplicaSetWithPrimary"}

Replaced(a, d) == [sds EXCEPT ![a] = d]
Without(a)     == [x \in DOMAIN sds \ {a} |-> sds[x]]

PrimariesOf(servers) == {x \in DOMAIN servers : servers[x].type = "RSPrimary"}

CheckHasPrimary(servers) ==
    IF PrimariesOf(servers) = {} THEN "ReplicaSetNoPrimary" ELSE "ReplicaSetWithPrimary"

\* With one seed, a standalone server is the topology.
TopologyOf(type) ==
    CASE type \in {"Unknown", "RSGhost"}     -> "Unknown"
      [] type = "Standalone"                 -> "Single"
      [] type = "Mongos"                     -> "Sharded"
      [] type = "RSPrimary"                  -> "ReplicaSetWithPrimary"
      [] type \in {"RSSecondary", "RSOther"} -> "ReplicaSetNoPrimary"

\* What a server is says what the topology is, if nothing has yet.
TypeAfter(d) == IF topology_type = "Unknown" THEN TopologyOf(d.type) ELSE topology_type

\* A server that was not known begins as Unknown.
Description(x) == IF x \in DOMAIN sds THEN sds[x] ELSE UnknownServer(None)

Keep == UNCHANGED <<replica_set_name, max_set_version, max_election_id>>

\* No replica set yet, and none to come.
FromAny(a, d) ==
    /\ TypeAfter(d) \in {"Unknown", "Single"}
    /\ topology_type' = TypeAfter(d)
    /\ sds' = Replaced(a, d)
    /\ Keep

FromShard(a, d) ==
    /\ TypeAfter(d) = "Sharded"
    /\ topology_type' = "Sharded"
    /\ sds' = IF d.type \in {"Mongos", "Unknown"} THEN Replaced(a, d) ELSE Without(a)
    /\ Keep

FromNonMember(a, d) ==
    /\ TypeAfter(d) \in ReplicaSet
    /\ \/ d.type \in {"Standalone", "Mongos"} /\ sds' = Without(a)
       \/ d.type \in {"Unknown", "RSGhost"} /\ sds' = Replaced(a, d)
    /\ topology_type' = IF topology_type = "ReplicaSetWithPrimary"
                        THEN CheckHasPrimary(sds') ELSE topology_type
    /\ Keep

CalledOtherwise(a, d) == d.me # None /\ d.me # a

\* _update_rs_with_primary_from_member: only the primary says who is a member.
FromMemberWithPrimary(a, d) ==
    /\ TypeAfter(d) = "ReplicaSetWithPrimary"
    /\ d.type \in Members \ {"RSPrimary"}
    /\ sds' = IF d.set # replica_set_name \/ CalledOtherwise(a, d)
              THEN Without(a) ELSE Replaced(a, d)
    /\ topology_type' = CheckHasPrimary(sds')
    /\ Keep

Named(d) == IF replica_set_name = None THEN d.set ELSE replica_set_name

\* Mutant: only a primary adds servers.
FromMemberAddingNone(a, d) ==
    /\ TypeAfter(d) = "ReplicaSetNoPrimary"
    /\ d.type \in Members \ {"RSPrimary"}
    /\ topology_type' = "ReplicaSetNoPrimary"
    /\ replica_set_name' = Named(d)
    /\ sds' = IF d.set # Named(d) \/ CalledOtherwise(a, d) THEN Without(a) ELSE Replaced(a, d)
    /\ UNCHANGED <<max_set_version, max_election_id>>

\* _update_rs_no_primary_from_member: a member adds servers and removes none but itself.
FromMemberNoPrimary(a, d) ==
    /\ TypeAfter(d) = "ReplicaSetNoPrimary"
    /\ d.type \in Members \ {"RSPrimary"}
    /\ topology_type' = "ReplicaSetNoPrimary"
    /\ replica_set_name' = Named(d)
    /\ \/ d.set # Named(d) /\ sds' = Without(a)
       \/ /\ d.set = Named(d)
          /\ sds' = [x \in (DOMAIN sds \cup d.hosts)
                             \ (IF CalledOtherwise(a, d) THEN {a} ELSE {}) |->
                        IF x = a THEN d ELSE Description(x)]
    /\ UNCHANGED <<max_set_version, max_election_id>>

\* Lexicographic, as Python compares tuples.
Before(p, q) == p[1] < q[1] \/ (p[1] = q[1] /\ p[2] < q[2])

\* Mutant: the order of older servers, for all.
IsStaleByVersion(d) ==
    Before(<<d.setVersion, d.electionId>>, <<max_set_version, max_election_id>>)

IsStalePrimary(d) ==
    IF modern
    THEN Before(<<d.electionId, d.setVersion>>, <<max_election_id, max_set_version>>)
    ELSE /\ 0 \notin {d.setVersion, d.electionId, max_set_version, max_election_id}
         /\ Before(<<d.setVersion, d.electionId>>, <<max_set_version, max_election_id>>)

NoteElection(d) ==
    /\ max_election_id' = IF modern \/ 0 \notin {d.setVersion, d.electionId}
                          THEN d.electionId ELSE max_election_id
    /\ max_set_version' = IF modern \/ d.setVersion > max_set_version
                          THEN d.setVersion ELSE max_set_version

\* Mutant: the servers it does not name stay.
CrownedAmongAll(a, d, old) ==
    [x \in d.hosts \cup DOMAIN sds |->
        IF x = a THEN d ELSE IF x = old THEN to_unknown(sds[x]) ELSE Description(x)]

\* The servers are those the new primary names; the old primary, if any, is forgotten.
Crowned(a, d, old) ==
    [x \in d.hosts |->
        IF x = a THEN d ELSE IF x = old THEN to_unknown(sds[x]) ELSE Description(x)]

\* Mutant: the old primary stays what it was.
CrownAnother(a, d) ==
    /\ TypeAfter(d) \in ReplicaSet
    /\ d.type = "RSPrimary"
    /\ d.set = Named(d)
    /\ ~ IsStalePrimary(d)
    /\ replica_set_name' = d.set
    /\ NoteElection(d)
    /\ sds' = Crowned(a, d, None)
    /\ topology_type' = CheckHasPrimary(sds')

\* _update_rs_from_primary.  The loop that looks for the old primary stops at the first.
FromPrimary(a, d) ==
    /\ TypeAfter(d) \in ReplicaSet
    /\ d.type = "RSPrimary"
    /\ d.set = Named(d)
    /\ ~ IsStalePrimary(d)
    /\ replica_set_name' = d.set
    /\ NoteElection(d)
    /\ \/ \E old \in PrimariesOf(sds) \ {a} : sds' = Crowned(a, d, old)
       \/ PrimariesOf(sds) \ {a} = {} /\ sds' = Crowned(a, d, None)
    /\ topology_type' = CheckHasPrimary(sds')

\* Mutant: the election is taken note of all the same.
FromStalePrimaryNoted(a, d) ==
    /\ TypeAfter(d) \in ReplicaSet
    /\ d.type = "RSPrimary"
    /\ d.set = Named(d)
    /\ IsStalePrimary(d)
    /\ NoteElection(d)
    /\ replica_set_name' = d.set
    /\ sds' = Replaced(a, to_unknown(d))
    /\ topology_type' = CheckHasPrimary(sds')

FromStalePrimary(a, d) ==
    /\ TypeAfter(d) \in ReplicaSet
    /\ d.type = "RSPrimary"
    /\ d.set = Named(d)
    /\ IsStalePrimary(d)
    /\ sds' = Replaced(a, to_unknown(d))
    /\ topology_type' = CheckHasPrimary(sds')
    /\ replica_set_name' = d.set
    /\ UNCHANGED <<max_set_version, max_election_id>>

FromForeignPrimary(a, d) ==
    /\ TypeAfter(d) \in ReplicaSet
    /\ d.type = "RSPrimary"
    /\ d.set # Named(d)
    /\ sds' = Without(a)
    /\ topology_type' = CheckHasPrimary(sds')
    /\ Keep

-----------------------------------------------------------------------------
(* Topology                                                                    *)

\* Mutant: the servers that are gone are kept.
LeaveServers ==
    [x \in DOMAIN sds \cup DOMAIN sds' |-> IF x \in DOMAIN sds THEN pools[x] ELSE "paused"]

\* _update_servers: a pool for each new server, and none for those that are gone.
UpdateServers ==
    [x \in DOMAIN sds' |-> IF x \in DOMAIN sds THEN pools[x] ELSE "paused"]

\* A server that could be selected, by what it says of itself.
MakesReady(d) ==
    is_readable(d) \/ (d.type # "Unknown" /\ topology_type' = "Single")

\* _process_change, and the reset of the pool that follows an error.
ProcessChange(a, d, reset_pool) ==
    /\ ~ IsStaleDescription(sds[a], d)
    /\ \/ FromAny(a, d) \/ FromShard(a, d) \/ FromNonMember(a, d)
       \/ FromMemberWithPrimary(a, d) \/ FromMemberNoPrimary(a, d)
       \/ FromPrimary(a, d) \/ FromStalePrimary(a, d) \/ FromForeignPrimary(a, d)
    /\ pools' = [x \in DOMAIN UpdateServers |->
                    IF x # a THEN UpdateServers[x]
                    ELSE IF reset_pool THEN "paused"
                    ELSE IF MakesReady(d) THEN "ready" ELSE UpdateServers[x]]
    /\ UNCHANGED <<opened, modern, cluster>>

\* on_change, which a monitor calls with what hello answered, or with the error.
Report(a) ==
    /\ opened
    /\ a \in DOMAIN sds
    /\ \E d \in IF cluster = None THEN Answers ELSE {cluster[a]} :
           ProcessChange(a, d, d.type = "Unknown")

\* Mutant: errors are not dated.
NotPrimaryAnyTime(a) ==
    /\ opened /\ cluster = None
    /\ a \in DOMAIN sds
    /\ \E tv \in Versions, reset \in BOOLEAN :
           /\ sds' = [sds EXCEPT ![a] = IF IsStaleDescription(sds[a], UnknownServer(tv))
                                        THEN sds[a] ELSE UnknownServer(tv)]
           /\ pools' = [pools EXCEPT ![a] = IF reset THEN "paused" ELSE pools[a]]
    /\ topology_type' = IF topology_type = "ReplicaSetWithPrimary"
                        THEN CheckHasPrimary(sds') ELSE topology_type
    /\ Keep
    /\ UNCHANGED <<opened, modern, cluster>>

\* handle_error: the server says that it is not the primary, and is shutting down or old.
NotPrimary(a) ==
    /\ opened /\ cluster = None
    /\ a \in DOMAIN sds
    /\ \E tv \in Versions, reset \in BOOLEAN :
           /\ ~ IsStaleError(sds[a], tv)
           /\ ProcessChange(a, UnknownServer(tv), reset)

\* handle_error: a connection of the pool's generation broke, or failed in its handshake.
ConnectionFailure(a) ==
    /\ opened /\ cluster = None
    /\ a \in DOMAIN sds
    /\ ProcessChange(a, UnknownServer(None), TRUE)

close ==
    /\ opened
    /\ opened' = FALSE
    /\ topology_type' = IF topology_type = "ReplicaSetWithPrimary"
                        THEN "ReplicaSetNoPrimary" ELSE topology_type
    /\ sds' = [x \in DOMAIN sds |-> UnknownServer(None)]
    /\ pools' = [x \in DOMAIN sds |-> "paused"]
    /\ Keep
    /\ UNCHANGED <<modern, cluster>>

\* The servers stop changing.  Elections and topologyVersions only grow, so that what was
\* heard so far is not newer than what they answer from now on.
Settle ==
    /\ opened /\ cluster = None
    /\ cluster' \in Clusters
    /\ \A a \in DOMAIN sds : ~ IsStaleDescription(sds[a], cluster'[a])
    /\ \A a \in PrimariesOf(cluster') : ~ IsStalePrimary(cluster'[a])
    /\ UNCHANGED <<description, pools, opened, modern>>

Next ==
    \/ \E a \in Addresses : Report(a) \/ NotPrimary(a) \/ ConnectionFailure(a)
    \/ close
    \/ Settle

Spec == Init /\ [][Next]_vars

\* Every monitor asks again after heartbeatFrequencyMS.
FairSpec == Spec /\ \A a \in Addresses : WF_vars(Report(a))

-----------------------------------------------------------------------------
(* Properties.                                                                 *)

\* The state is of the shape the code gives it, and there is a pool for each server.
TypeOK ==
    /\ topology_type \in {"Unknown", "Single", "Sharded"} \cup ReplicaSet
    /\ max_set_version \in Nat
    /\ max_election_id \in Nat
    /\ DOMAIN sds \subseteq Addresses
    /\ \A a \in DOMAIN sds : sds[a].type \in ServerTypes
    /\ pools \in [DOMAIN sds -> {"paused", "ready"}]
    /\ opened \in BOOLEAN
    /\ modern \in BOOLEAN
    /\ cluster \in Clusters \cup {None}

\* Writes have one place to go: whatever the servers claim, at most one is taken for the
\* primary, and the topology knows whether one is.
OnePrimary ==
    /\ \A a, b \in PrimariesOf(sds) : a = b
    /\ topology_type = "ReplicaSetWithPrimary" => PrimariesOf(sds) # {}
    /\ PrimariesOf(sds) # {} => topology_type \in {"ReplicaSetWithPrimary", "Single"}
    /\ topology_type = "ReplicaSetWithPrimary" => replica_set_name # None

\* While there is a primary, only the servers it names are used.
OnlyNamedServers ==
    topology_type = "ReplicaSetWithPrimary" =>
        \A a \in PrimariesOf(sds) : DOMAIN sds \subseteq sds[a].hosts

\* A server that an operation can be sent to has a pool that gives connections out
\* (topology.py:452); otherwise each attempt would fail until the next heartbeat.
SelectableIsReady ==
    \A a \in DOMAIN sds :
        is_readable(sds[a]) \/ (topology_type = "Single" /\ sds[a].type # "Unknown")
            => pools[a] = "ready"

\* The primary is that of the newest election heard of.
PrimaryIsNewest ==
    topology_type = "ReplicaSetWithPrimary" => \A a \in PrimariesOf(sds) :
        /\ modern => /\ sds[a].electionId = max_election_id
                     /\ sds[a].setVersion = max_set_version
        /\ ~ modern /\ 0 \notin {sds[a].setVersion, sds[a].electionId} =>
               /\ sds[a].electionId = max_election_id
               /\ sds[a].setVersion <= max_set_version

\* What is remembered of elections never goes back, so that a primary that was replaced
\* is not believed again when its report comes late.
ElectionsOnlyGrow ==
    [][ IF modern
        THEN ~ Before(<<max_election_id', max_set_version'>>,
                      <<max_election_id, max_set_version>>)
        ELSE ~ Before(<<max_set_version', max_election_id'>>,
                      <<max_set_version, max_election_id>>) ]_vars

\* Once nothing changes any more, the client finds the primary, if it still knows one
\* member of the set and has not taken the set for something else.
KnowsAMember ==
    /\ cluster # None
    /\ topology_type \in ReplicaSet \cup {"Unknown"}
    /\ replica_set_name \in {None, SetName}
    /\ \E a \in DOMAIN sds : cluster[a].type \in Members

Found ==
    /\ cluster # None
    /\ \E a \in DOMAIN sds : a \in PrimariesOf(cluster) /\ sds[a] = cluster[a]

PrimaryIsFound == KnowsAMember ~> (~ opened \/ Found)
=============================================================================
