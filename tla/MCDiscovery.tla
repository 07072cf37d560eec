------------------------------- MODULE MCDiscovery -------------------------------
EXTENDS Discovery, TLC

CONSTANTS a, b, c

Server(type, set, hosts, me, setVersion, electionId, tv) ==
    [type |-> type, set |-> set, hosts |-> hosts, me |-> me,
     setVersion |-> setVersion, electionId |-> electionId, topologyVersion |-> tv]

At(counter) == [processId |-> 1, counter |-> counter]

MCVersions == {None, At(1), At(2)}

Primary(hosts, setVersion, electionId) ==
    Server("RSPrimary", SetName, hosts, None, setVersion, electionId, None)

Secondary(hosts, me, tv) == Server("RSSecondary", SetName, hosts, me, 0, 0, tv)

\* Elections may be reported late and in any order, a server may be known under another
\* name, and an address may lead to a server that does not belong to the set.
MCAnswers ==
    {Primary(hosts, e[1], e[2]) :
        hosts \in {{a, b}, {b, c}}, e \in {<<0, 0>>, <<1, 2>>, <<2, 1>>, <<2, 2>>}}
    \cup {Secondary({a, b}, None, At(1)), Secondary({a, b, c}, b, None),
          Server("RSOther", "other", {a, c}, None, 0, 0, None),
          Server("RSPrimary", "other", {a, c}, None, 2, 2, At(2)),
          Server("Standalone", None, {}, None, 0, 0, None),
          Server("Mongos", None, {}, None, 0, 0, None),
          Server("RSGhost", None, {}, None, 0, 0, None)}
    \cup {UnknownServer(tv) : tv \in {None, At(2)}}

\* The seed is a secondary, or gone.
MCClusters ==
    {a :> Secondary({a, b}, None, At(1)) @@ b :> Primary({a, b}, 2, 2) @@ c :> UnknownServer(None),
     a :> UnknownServer(None) @@ b :> Secondary({a, b, c}, b, None) @@ c :> Primary({b, c}, 2, 2)}
=============================================================================
