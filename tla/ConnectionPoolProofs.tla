-------------------------- MODULE ConnectionPoolProofs --------------------------
(***************************************************************************)
(* The pool keeps its counters, its bounds and its wake-ups for any number *)
(* of checkouts and any values of maxPoolSize, maxConnecting and           *)
(* minPoolSize, however many times it is reset.                            *)
(***************************************************************************)
EXTENDS ConnectionPool, FiniteSetTheorems, TLAPS

-----------------------------------------------------------------------------
(* Counting the threads at a place.                                            *)

LEMMA CountIsNat ==
  ASSUME NEW S \in SUBSET Checkouts
  PROVE  /\ IsFiniteSet(S)
         /\ Cardinality(S) \in Nat
         /\ Cardinality(S) <= Cardinality(Checkouts)
         /\ Cardinality(Checkouts) \in Nat
  BY FS_Subset, FS_CardinalityType, ConstantsAssumption

LEMMA FewerPlaces ==
  ASSUME NEW X, NEW Y, X \subseteq Y
  PROVE  Cardinality(At(X)) <= Cardinality(At(Y))
  <1>1. At(X) \in SUBSET At(Y) /\ At(Y) \in SUBSET Checkouts
    BY DEF At
  <1>. QED BY <1>1, CountIsNat, FS_Subset

Has(X, place) == IF place \in X THEN 1 ELSE 0

\* No thread but t moves.
OnlyMoves(t) == \A u \in Checkouts \ {t} : pc'[u] = pc[u]

LEMMA Moving ==
  ASSUME NEW X, NEW t \in Checkouts, OnlyMoves(t)
  PROVE  Cardinality(At(X))' = Cardinality(At(X)) + Has(X, pc'[t]) - Has(X, pc[t])
  <1>. DEFINE Others == At(X) \ {t}
  <1>1. At(X) \in SUBSET Checkouts /\ Others \in SUBSET Checkouts /\ t \notin Others
    BY DEF At
  <1>2. At(X) = IF pc[t] \in X THEN Others \cup {t} ELSE Others
    BY DEF At
  <1>3. At(X)' = IF pc'[t] \in X THEN Others \cup {t} ELSE Others
    BY DEF At, OnlyMoves
  <1>4. Cardinality(Others \cup {t}) = Cardinality(Others) + 1
    BY <1>1, CountIsNat, FS_AddElement
  <1>5. Cardinality(Others) \in Nat
    BY <1>1, CountIsNat
  <1>. HIDE DEF Others
  <1>. QED BY <1>2, <1>3, <1>4, <1>5 DEF Has

\* The tallies that the counters and the bounds are made of.
Tallies ==
    /\ Cardinality(At(PermitPlaces)) \in Nat
    /\ Cardinality(At(ActivePlaces)) \in Nat
    /\ Cardinality(At(ConnectingPlaces)) \in Nat
    /\ Cardinality(At(CountedPlaces)) \in 0 .. Cardinality(Checkouts)
    /\ Cardinality(At(InUsePlaces)) \in Nat
    /\ Cardinality(At(InUsePlaces)) <= Cardinality(At(ActivePlaces))
    /\ Cardinality(At(ActivePlaces)) <= Cardinality(At(PermitPlaces))

LEMMA TalliesHold == Tallies
  <1>1. \A X : At(X) \in SUBSET Checkouts
    BY DEF At
  <1>2. InUsePlaces \subseteq ActivePlaces /\ ActivePlaces \subseteq PermitPlaces
    BY DEF ActivePlaces, PermitPlaces
  <1>. QED BY <1>1, <1>2, CountIsNat, FewerPlaces DEF Tallies

Moved(t) ==
    /\ Cardinality(At(PermitPlaces))' =
           Cardinality(At(PermitPlaces)) + Has(PermitPlaces, pc'[t]) - Has(PermitPlaces, pc[t])
    /\ Cardinality(At(ActivePlaces))' =
           Cardinality(At(ActivePlaces)) + Has(ActivePlaces, pc'[t]) - Has(ActivePlaces, pc[t])
    /\ Cardinality(At(ConnectingPlaces))' =
           Cardinality(At(ConnectingPlaces)) + Has(ConnectingPlaces, pc'[t])
                                             - Has(ConnectingPlaces, pc[t])
    /\ Cardinality(At(CountedPlaces))' =
           Cardinality(At(CountedPlaces)) + Has(CountedPlaces, pc'[t]) - Has(CountedPlaces, pc[t])
    /\ Cardinality(At(InUsePlaces))' =
           Cardinality(At(InUsePlaces)) + Has(InUsePlaces, pc'[t]) - Has(InUsePlaces, pc[t])

LEMMA MovedHolds == ASSUME NEW t \in Checkouts, OnlyMoves(t) PROVE Moved(t) /\ Tallies'
  <1>1. Tallies'
    BY TalliesHold, PTL
  <1>2. Moved(t)
    BY Moving DEF Moved
  <1>. QED BY <1>1, <1>2

Weights ==
    \A place \in Places :
        /\ Has(ConnectingPlaces, place) = IF place \in {"open", "handshake"} THEN 1 ELSE 0
        /\ Has(InUsePlaces, place) =
               IF place \in {"open", "handshake", "got", "using", "return"} THEN 1 ELSE 0
        /\ Has(ActivePlaces, place) =
               IF place \in {"new", "size", "permit", "done", "refused", "failed"} THEN 0 ELSE 1
        /\ Has(PermitPlaces, place) =
               IF place \in {"new", "size", "done", "refused", "failed"} THEN 0 ELSE 1
        /\ Has(CountedPlaces, place) = IF place \in {"new", "done", "refused"} THEN 0 ELSE 1

LEMMA WeightsHold == Weights
  BY DEF Weights, Has, Places, ConnectingPlaces, InUsePlaces, ActivePlaces, PermitPlaces,
         CountedPlaces

\* What a step does to each tally.
Delta(permits, active, connecting, counted, inuse) ==
    /\ Cardinality(At(PermitPlaces))' = Cardinality(At(PermitPlaces)) + permits
    /\ Cardinality(At(ActivePlaces))' = Cardinality(At(ActivePlaces)) + active
    /\ Cardinality(At(ConnectingPlaces))' = Cardinality(At(ConnectingPlaces)) + connecting
    /\ Cardinality(At(CountedPlaces))' = Cardinality(At(CountedPlaces)) + counted
    /\ Cardinality(At(InUsePlaces))' = Cardinality(At(InUsePlaces)) + inuse

-----------------------------------------------------------------------------
(* Sequences of idle connections.                                              *)

LEMMA Prepended ==
  ASSUME NEW S, NEW s \in Seq(S), NEW x \in S
  PROVE  /\ <<x>> \o s \in Seq(S)
         /\ Len(<<x>> \o s) = Len(s) + 1
         /\ \A i \in 1 .. Len(s) + 1 : (<<x>> \o s)[i] = IF i = 1 THEN x ELSE s[i - 1]
  OBVIOUS

LEMMA Popped ==
  ASSUME NEW S, NEW s \in Seq(S), s # <<>>
  PROVE  /\ Len(s) \in Nat \ {0}
         /\ Head(s) \in S /\ Head(s) = s[1]
         /\ Tail(s) \in Seq(S)
         /\ Len(Tail(s)) = Len(s) - 1
         /\ \A i \in 1 .. Len(s) - 1 : Tail(s)[i] = s[i + 1]
  OBVIOUS

LEMMA Trimmed ==
  ASSUME NEW S, NEW s \in Seq(S), NEW n \in 0 .. Len(s)
  PROVE  /\ SubSeq(s, 1, n) \in Seq(S)
         /\ Len(SubSeq(s, 1, n)) = n
         /\ \A i \in 1 .. n : SubSeq(s, 1, n)[i] = s[i]
  OBVIOUS

-----------------------------------------------------------------------------
(* The inductive invariant.                                                    *)

Shape ==
    /\ state \in {"paused", "ready", "closed"}
    /\ generation \in 0 .. MaxResets
    /\ conns \in Seq(0 .. MaxResets)
    /\ min_pool_size \in MinPoolSizes
    /\ pc \in [Checkouts -> Places]
    /\ conn \in [Checkouts -> 0 .. MaxResets \cup {None}]
    /\ broken \subseteq Checkouts
    /\ asleep \subseteq Checkouts
    /\ expired \subseteq Checkouts
    /\ sweep \in {"idle", "check", "trim", "room", "slot", "open", "add", "opened", "leave"}
    /\ reference \in 0 .. MaxResets
    /\ made \in 0 .. MaxResets \cup {None}

PermitsAreBounded == requests <= MaxPoolSize /\ pending <= MaxConnecting

\* No connection is younger than the pool's generation, and what was under way when the
\* pool was closed is older.
Generations ==
    /\ \A t \in Checkouts : conn[t] \in 0 .. generation \cup {None}
    /\ reference <= generation
    /\ sweep = "add" => made \in reference .. generation
    /\ state = "closed" =>
         /\ \A t \in Checkouts : pc[t] = "return" => conn[t] # generation
         /\ sweep \notin {"idle", "check"} => reference # generation

IInv ==
    /\ Shape
    /\ CountersAddUp
    /\ PermitsAreBounded
    /\ ConnectionsAreBounded
    /\ IdleAreFresh
    /\ Generations

LEMMA AppendLeft ==
  ASSUME Shape
  PROVE  /\ appendleft(generation) \in Seq(0 .. MaxResets)
         /\ Len(appendleft(generation)) = Len(conns) + 1
         /\ \A i \in 1 .. Len(conns) + 1 :
              appendleft(generation)[i] = IF i = 1 THEN generation ELSE conns[i - 1]
  <1>1. conns \in Seq(0 .. MaxResets) /\ generation \in 0 .. MaxResets
    BY DEF Shape
  <1>. QED BY <1>1, Prepended DEF appendleft

LEMMA PopLeft ==
  ASSUME Shape, conns # <<>>
  PROVE  /\ Len(conns) \in Nat \ {0}
         /\ Head(conns) \in 0 .. MaxResets /\ Head(conns) = conns[1]
         /\ Tail(conns) \in Seq(0 .. MaxResets)
         /\ Len(Tail(conns)) = Len(conns) - 1
         /\ \A i \in 1 .. Len(conns) - 1 : Tail(conns)[i] = conns[i + 1]
  <1>1. conns \in Seq(0 .. MaxResets)
    BY DEF Shape
  <1>. QED BY <1>1, Popped

LEMMA InitIInv == Init => IInv
  <1>. SUFFICES ASSUME Init PROVE IInv
    OBVIOUS
  <1>1. Shape
    BY ConstantsAssumption DEF Init, Shape, Places
  <1>2. /\ At(PermitPlaces) = {} /\ At(ActivePlaces) = {} /\ At(ConnectingPlaces) = {}
        /\ At(CountedPlaces) = {} /\ At(InUsePlaces) = {}
    BY DEF Init, At, PermitPlaces, ActivePlaces, InUsePlaces, ConnectingPlaces, CountedPlaces
  <1>3. Cardinality({}) = 0
    BY FS_EmptySet
  <1>. QED
    BY <1>1, <1>2, <1>3, ConstantsAssumption
       DEF IInv, Init, CountersAddUp, PermitsAreBounded, ConnectionsAreBounded, IdleAreFresh,
           Generations, SweepHolds, SweepOpens, SweepConnects

LEMMA Numbers ==
  ASSUME CountersAddUp
  PROVE  requests \in Nat /\ active_sockets \in Nat /\ pending \in Nat /\ operation_count \in Nat
  BY TalliesHold DEF Tallies, CountersAddUp, SweepHolds, SweepConnects

\* One step per action: what it does to the state, to the counters, and to the connections.
LEMMA StepKeepsIInv == IInv /\ [Next]_vars => IInv'
  <1>. SUFFICES ASSUME IInv, [Next]_vars PROVE IInv'
    OBVIOUS
  <1>. USE ConstantsAssumption
       DEF IInv, pool, counters, threads, sweeper
  <1>1. ASSUME NEW t \in Checkouts, Enter(t) PROVE IInv'
    <2>0. pc \in [Checkouts -> Places]
      BY DEF Shape
    <2>1. Shape'
      BY <1>1 DEF Shape, Places, Enter, Goto
    <2>2. Moved(t) /\ Tallies /\ Tallies'
      <3>1. OnlyMoves(t)
        BY <1>1 DEF Shape, OnlyMoves, Enter, Goto
      <3>. QED BY <3>1, MovedHolds, TalliesHold
    <2>3. pc[t] = "new" /\ pc'[t] \in {"size", "refused"}
      BY <1>1 DEF Shape, Enter, Goto
    <2>4. Delta(0, 0, 0, IF pc'[t] = "size" THEN 1 ELSE 0, 0)
      BY <2>2, <2>3, WeightsHold DEF Moved, Tallies, Delta, Weights, Places
    <2>5. CountersAddUp' /\ PermitsAreBounded'
      <3>1. /\ requests' = requests
            /\ active_sockets' = active_sockets
            /\ operation_count' = operation_count + (IF pc'[t] = "size" THEN 1 ELSE 0)
            /\ pending' = pending
            /\ sweep' = sweep
        BY Numbers, <2>0, <1>1 DEF Enter, Goto
      <3>2. /\ SweepHolds' = SweepHolds /\ SweepConnects' = SweepConnects
            /\ SweepHolds \in Int /\ SweepConnects \in Int
        BY <3>1 DEF SweepHolds, SweepConnects
      <3>. QED
        BY <2>2, <2>3, <2>4, <3>1, <3>2 DEF Delta, Tallies, CountersAddUp, PermitsAreBounded
    <2>6. ConnectionsAreBounded'
      <3>1. conns' = conns /\ sweep' = sweep /\ Len(conns) \in Nat /\ Len(conns') \in Nat
        BY <1>1 DEF Shape, Enter, Goto
      <3>2. SweepOpens' = SweepOpens /\ SweepOpens \in Int
        BY <3>1 DEF SweepOpens
      <3>3. /\ Cardinality(At(InUsePlaces))' <= Cardinality(At(InUsePlaces))
            /\ Cardinality(At(InUsePlaces)) \in Nat /\ Cardinality(At(InUsePlaces))' \in Nat
        BY <2>2, <2>3, <2>4 DEF Tallies, Delta
      <3>. QED BY <3>1, <3>2, <3>3 DEF ConnectionsAreBounded
    <2>7. IdleAreFresh'
      BY <1>1 DEF Shape, IdleAreFresh, Enter, Goto
    <2>8. Generations'
      BY <1>1 DEF Shape, Generations, Enter, Goto
    <2>. QED BY <2>1, <2>5, <2>6, <2>7, <2>8
  <1>2. ASSUME NEW t \in Checkouts, TakePermit(t) PROVE IInv'
    <2>0. pc \in [Checkouts -> Places]
      BY DEF Shape
    <2>1. Shape'
      BY <1>2 DEF Shape, Places, TakePermit, Goto
    <2>2. Moved(t) /\ Tallies /\ Tallies'
      <3>1. OnlyMoves(t)
        BY <1>2 DEF Shape, OnlyMoves, TakePermit, Goto
      <3>. QED BY <3>1, MovedHolds, TalliesHold
    <2>3. pc[t] = "size" /\ pc'[t] \in {"size", "permit", "failed"}
      BY <1>2 DEF Shape, TakePermit, Goto
    <2>4. Delta(IF pc'[t] = "permit" THEN 1 ELSE 0, 0, 0, 0, 0)
      BY <2>2, <2>3, WeightsHold DEF Moved, Tallies, Delta, Weights, Places
    <2>5. CountersAddUp' /\ PermitsAreBounded'
      <3>1. /\ requests' = requests + (IF pc'[t] = "permit" THEN 1 ELSE 0)
            /\ active_sockets' = active_sockets
            /\ operation_count' = operation_count
            /\ pending' = pending
            /\ pc'[t] = "permit" => requests < MaxPoolSize
            /\ sweep' = sweep
        BY Numbers, <2>0, <1>2 DEF TakePermit, Goto
      <3>2. /\ SweepHolds' = SweepHolds /\ SweepConnects' = SweepConnects
            /\ SweepHolds \in Int /\ SweepConnects \in Int
        BY <3>1 DEF SweepHolds, SweepConnects
      <3>. QED
        BY <2>2, <2>3, <2>4, <3>1, <3>2 DEF Delta, Tallies, CountersAddUp, PermitsAreBounded
    <2>6. ConnectionsAreBounded'
      <3>1. conns' = conns /\ sweep' = sweep /\ Len(conns) \in Nat /\ Len(conns') \in Nat
        BY <1>2 DEF Shape, TakePermit, Goto
      <3>2. SweepOpens' = SweepOpens /\ SweepOpens \in Int
        BY <3>1 DEF SweepOpens
      <3>3. /\ Cardinality(At(InUsePlaces))' <= Cardinality(At(InUsePlaces))
            /\ Cardinality(At(InUsePlaces)) \in Nat /\ Cardinality(At(InUsePlaces))' \in Nat
        BY <2>2, <2>3, <2>4 DEF Tallies, Delta
      <3>. QED BY <3>1, <3>2, <3>3 DEF ConnectionsAreBounded
    <2>7. IdleAreFresh'
      BY <1>2 DEF Shape, IdleAreFresh, TakePermit, Goto
    <2>8. Generations'
      BY <1>2 DEF Shape, Generations, TakePermit, Goto
    <2>. QED BY <2>1, <2>5, <2>6, <2>7, <2>8
  <1>3. ASSUME NEW t \in Checkouts, PermitTimeout(t) PROVE IInv'
    <2>0. pc \in [Checkouts -> Places]
      BY DEF Shape
    <2>1. Shape'
      BY <1>3 DEF Shape, Places, PermitTimeout, Goto, TimeOut
    <2>2. Moved(t) /\ Tallies /\ Tallies'
      <3>1. OnlyMoves(t)
        BY <1>3 DEF Shape, OnlyMoves, PermitTimeout, Goto, TimeOut
      <3>. QED BY <3>1, MovedHolds, TalliesHold
    <2>3. pc[t] = "size" /\ pc'[t] = "failed"
      BY <1>3 DEF Shape, PermitTimeout, Goto, TimeOut
    <2>4. Delta(0, 0, 0, 0, 0)
      BY <2>2, <2>3, WeightsHold DEF Moved, Tallies, Delta, Weights, Places
    <2>5. CountersAddUp' /\ PermitsAreBounded'
      <3>1. /\ requests' = requests
            /\ active_sockets' = active_sockets
            /\ operation_count' = operation_count
            /\ pending' = pending
            /\ sweep' = sweep
        BY Numbers, <2>0, <1>3 DEF PermitTimeout, Goto, TimeOut
      <3>2. /\ SweepHolds' = SweepHolds /\ SweepConnects' = SweepConnects
            /\ SweepHolds \in Int /\ SweepConnects \in Int
        BY <3>1 DEF SweepHolds, SweepConnects
      <3>. QED
        BY <2>2, <2>3, <2>4, <3>1, <3>2 DEF Delta, Tallies, CountersAddUp, PermitsAreBounded
    <2>6. ConnectionsAreBounded'
      <3>1. conns' = conns /\ sweep' = sweep /\ Len(conns) \in Nat /\ Len(conns') \in Nat
        BY <1>3 DEF Shape, PermitTimeout, Goto, TimeOut
      <3>2. SweepOpens' = SweepOpens /\ SweepOpens \in Int
        BY <3>1 DEF SweepOpens
      <3>3. /\ Cardinality(At(InUsePlaces))' <= Cardinality(At(InUsePlaces))
            /\ Cardinality(At(InUsePlaces)) \in Nat /\ Cardinality(At(InUsePlaces))' \in Nat
        BY <2>2, <2>3, <2>4 DEF Tallies, Delta
      <3>. QED BY <3>1, <3>2, <3>3 DEF ConnectionsAreBounded
    <2>7. IdleAreFresh'
      BY <1>3 DEF Shape, IdleAreFresh, PermitTimeout, Goto, TimeOut
    <2>8. Generations'
      BY <1>3 DEF Shape, Generations, PermitTimeout, Goto, TimeOut
    <2>. QED BY <2>1, <2>5, <2>6, <2>7, <2>8
  <1>4. ASSUME NEW t \in Checkouts, CountActive(t) PROVE IInv'
    <2>0. pc \in [Checkouts -> Places]
      BY DEF Shape
    <2>1. Shape'
      BY <1>4 DEF Shape, Places, CountActive, Goto
    <2>2. Moved(t) /\ Tallies /\ Tallies'
      <3>1. OnlyMoves(t)
        BY <1>4 DEF Shape, OnlyMoves, CountActive, Goto
      <3>. QED BY <3>1, MovedHolds, TalliesHold
    <2>3. pc[t] = "permit" /\ pc'[t] = "conn"
      BY <1>4 DEF Shape, CountActive, Goto
    <2>4. Delta(0, 1, 0, 0, 0)
      BY <2>2, <2>3, WeightsHold DEF Moved, Tallies, Delta, Weights, Places
    <2>5. CountersAddUp' /\ PermitsAreBounded'
      <3>1. /\ requests' = requests
            /\ active_sockets' = active_sockets + 1
            /\ operation_count' = operation_count
            /\ pending' = pending
            /\ sweep' = sweep
        BY Numbers, <2>0, <1>4 DEF CountActive, Goto
      <3>2. /\ SweepHolds' = SweepHolds /\ SweepConnects' = SweepConnects
            /\ SweepHolds \in Int /\ SweepConnects \in Int
        BY <3>1 DEF SweepHolds, SweepConnects
      <3>. QED
        BY <2>2, <2>3, <2>4, <3>1, <3>2 DEF Delta, Tallies, CountersAddUp, PermitsAreBounded
    <2>6. ConnectionsAreBounded'
      <3>1. conns' = conns /\ sweep' = sweep /\ Len(conns) \in Nat /\ Len(conns') \in Nat
        BY <1>4 DEF Shape, CountActive, Goto
      <3>2. SweepOpens' = SweepOpens /\ SweepOpens \in Int
        BY <3>1 DEF SweepOpens
      <3>3. /\ Cardinality(At(InUsePlaces))' <= Cardinality(At(InUsePlaces))
            /\ Cardinality(At(InUsePlaces)) \in Nat /\ Cardinality(At(InUsePlaces))' \in Nat
        BY <2>2, <2>3, <2>4 DEF Tallies, Delta
      <3>. QED BY <3>1, <3>2, <3>3 DEF ConnectionsAreBounded
    <2>7. IdleAreFresh'
      BY <1>4 DEF Shape, IdleAreFresh, CountActive, Goto
    <2>8. Generations'
      BY <1>4 DEF Shape, Generations, CountActive, Goto
    <2>. QED BY <2>1, <2>5, <2>6, <2>7, <2>8
  <1>5. ASSUME NEW t \in Checkouts, TakeConnection(t) PROVE IInv'
    <2>0. /\ conns # <<>> => Head(conns) = generation /\ Tail(conns) \in Seq(0 .. MaxResets)
          /\ conns # <<>> => Len(Tail(conns)) = Len(conns) - 1
          /\ conns = <<>> => Len(conns) = 0
          /\ generation \in 0 .. MaxResets /\ Len(conns) \in Nat
          /\ pc \in [Checkouts -> Places]
      BY PopLeft DEF Shape, IdleAreFresh
    <2>1. Shape'
      <3>1. /\ conns' = conns \/ (conns # <<>> /\ conns' = Tail(conns))
            /\ conn' = conn \/ (conns # <<>> /\ conn' = [conn EXCEPT ![t] = Head(conns)])
            /\ \E place \in Places : pc' = [pc EXCEPT ![t] = place]
            /\ asleep' \subseteq asleep \cup {t}
            /\ UNCHANGED <<state, generation, min_pool_size, broken, expired, sweep,
                           reference, made>>
        BY <1>5 DEF TakeConnection, Goto, Places, Shape
      <3>2. conns' \in Seq(0 .. MaxResets)
        BY <2>0, <3>1 DEF Shape
      <3>3. CASE conn' = conn
        BY <3>1, <3>2, <3>3 DEF Shape
      <3>4. CASE conn' = [conn EXCEPT ![t] = generation]
        BY <2>0, <3>1, <3>2, <3>4 DEF Shape
      <3>. QED BY <2>0, <3>1, <3>3, <3>4
    <2>2. Moved(t) /\ Tallies /\ Tallies'
      <3>1. OnlyMoves(t)
        BY <1>5 DEF Shape, OnlyMoves, TakeConnection, Goto
      <3>. QED BY <3>1, MovedHolds, TalliesHold
    <2>3. pc[t] = "conn" /\ pc'[t] \in {"conn", "got", "open", "fail"}
      BY <1>5 DEF Shape, TakeConnection, Goto
    <2>4. Delta(0, 0, IF pc'[t] = "open" THEN 1 ELSE 0, 0,
              IF pc'[t] \in {"got", "open"} THEN 1 ELSE 0)
      BY <2>2, <2>3, WeightsHold DEF Moved, Tallies, Delta, Weights, Places
    <2>5. CountersAddUp' /\ PermitsAreBounded'
      <3>1. /\ requests' = requests
            /\ active_sockets' = active_sockets
            /\ operation_count' = operation_count
            /\ pending' = pending + (IF pc'[t] = "open" THEN 1 ELSE 0)
            /\ pc'[t] = "open" => pending < MaxConnecting
            /\ sweep' = sweep
        BY Numbers, <2>0, <1>5 DEF TakeConnection, Goto
      <3>2. /\ SweepHolds' = SweepHolds /\ SweepConnects' = SweepConnects
            /\ SweepHolds \in Int /\ SweepConnects \in Int
        BY <3>1 DEF SweepHolds, SweepConnects
      <3>. QED
        BY <2>2, <2>3, <2>4, <3>1, <3>2 DEF Delta, Tallies, CountersAddUp, PermitsAreBounded
    <2>6. ConnectionsAreBounded'
      <3>1. /\ pc'[t] = "got" => conns # <<>> /\ conns' = Tail(conns)
            /\ pc'[t] = "open" => conns = <<>> /\ conns' = conns
            /\ pc'[t] \in {"conn", "fail"} => conns' = conns
            /\ sweep' = sweep /\ Len(conns) \in Nat
        BY <1>5 DEF Shape, TakeConnection, Goto
      <3>2. CASE pc'[t] = "open"
        <4>1. Len(conns') = 0
          BY <2>0, <3>1, <3>2
        <4>2. Cardinality(At(PermitPlaces))' + SweepHolds' <= MaxPoolSize
          BY <2>5 DEF CountersAddUp, PermitsAreBounded
        <4>3. SweepOpens' <= SweepHolds' /\ SweepOpens' \in Int /\ SweepHolds' \in Int
          BY DEF SweepOpens, SweepHolds
        <4>4. Cardinality(At(InUsePlaces))' <= Cardinality(At(PermitPlaces))'
              /\ Cardinality(At(InUsePlaces))' \in Nat /\ Cardinality(At(PermitPlaces))' \in Nat
          BY <2>2 DEF Tallies
        <4>5. MaxPoolSize \in Nat
          BY ConstantsAssumption
        <4>. QED BY <4>1, <4>2, <4>3, <4>4, <4>5 DEF ConnectionsAreBounded
      <3>3. CASE pc'[t] # "open"
        <4>1. /\ Len(conns') = IF pc'[t] = "got" THEN Len(conns) - 1 ELSE Len(conns)
              /\ Cardinality(At(InUsePlaces))' =
                   IF pc'[t] = "got" THEN Cardinality(At(InUsePlaces)) + 1
                                     ELSE Cardinality(At(InUsePlaces))
          BY <2>0, <2>2, <2>3, <2>4, <3>1, <3>3 DEF Tallies, Delta
        <4>2. SweepOpens' = SweepOpens /\ SweepOpens \in Int
          BY <3>1 DEF SweepOpens
        <4>. QED BY <2>0, <2>2, <4>1, <4>2 DEF Tallies, ConnectionsAreBounded
      <3>. QED BY <3>2, <3>3
    <2>7. IdleAreFresh'
      <3>1. state' = state /\ generation' = generation
            /\ (conns' = conns \/ (conns # <<>> /\ conns' = Tail(conns)))
        BY <1>5 DEF TakeConnection, Goto
      <3>2. Len(conns) \in Nat
        BY DEF Shape
      <3>3. ASSUME conns # <<>>, conns' = Tail(conns), NEW i \in 1 .. Len(conns')
            PROVE  conns'[i] = generation
        <4>1. Len(conns') = Len(conns) - 1 /\ i + 1 \in 1 .. Len(conns)
          BY <3>2, <3>3, PopLeft
        <4>2. conns'[i] = conns[i + 1]
          BY <3>3, <4>1, PopLeft
        <4>. QED BY <4>1, <4>2 DEF IdleAreFresh
      <3>. QED BY <3>1, <3>3 DEF IdleAreFresh
    <2>8. Generations'
      <3>1. /\ conn' = conn \/ conn' = [conn EXCEPT ![t] = generation]
            /\ \E place \in {"conn", "fail", "got", "open"} : pc' = [pc EXCEPT ![t] = place]
            /\ UNCHANGED <<state, generation, sweep, reference, made>>
        BY <2>0, <1>5 DEF TakeConnection, Goto
      <3>2. conn \in [Checkouts -> 0 .. MaxResets \cup {None}]
        BY DEF Shape
      <3>3. state' = "closed" => \A u \in Checkouts : pc'[u] = "return" => conn'[u] # generation
        BY <2>0, <3>1, <3>2 DEF Generations
      <3>4. \A u \in Checkouts : conn'[u] \in 0 .. generation' \cup {None}
        <4>1. generation \in 0 .. generation
          BY <2>0
        <4>2. \A u \in Checkouts : conn'[u] = conn[u] \/ conn'[u] = generation
          BY <3>1, <3>2
        <4>. QED BY <3>1, <4>1, <4>2 DEF Generations
      <3>. QED BY <3>1, <3>3, <3>4 DEF Generations
    <2>. QED BY <2>1, <2>5, <2>6, <2>7, <2>8
  <1>6. ASSUME NEW t \in Checkouts, ConnectionTimeout(t) PROVE IInv'
    <2>0. pc \in [Checkouts -> Places]
      BY DEF Shape
    <2>1. Shape'
      BY <1>6 DEF Shape, Places, ConnectionTimeout, Goto, TimeOut
    <2>2. Moved(t) /\ Tallies /\ Tallies'
      <3>1. OnlyMoves(t)
        BY <1>6 DEF Shape, OnlyMoves, ConnectionTimeout, Goto, TimeOut
      <3>. QED BY <3>1, MovedHolds, TalliesHold
    <2>3. pc[t] = "conn" /\ pc'[t] = "fail"
      BY <1>6 DEF Shape, ConnectionTimeout, Goto, TimeOut
    <2>4. Delta(0, 0, 0, 0, 0)
      BY <2>2, <2>3, WeightsHold DEF Moved, Tallies, Delta, Weights, Places
    <2>5. CountersAddUp' /\ PermitsAreBounded'
      <3>1. /\ requests' = requests
            /\ active_sockets' = active_sockets
            /\ operation_count' = operation_count
            /\ pending' = pending
            /\ sweep' = sweep
        BY Numbers, <2>0, <1>6 DEF ConnectionTimeout, Goto, TimeOut
      <3>2. /\ SweepHolds' = SweepHolds /\ SweepConnects' = SweepConnects
            /\ SweepHolds \in Int /\ SweepConnects \in Int
        BY <3>1 DEF SweepHolds, SweepConnects
      <3>. QED
        BY <2>2, <2>3, <2>4, <3>1, <3>2 DEF Delta, Tallies, CountersAddUp, PermitsAreBounded
    <2>6. ConnectionsAreBounded'
      <3>1. conns' = conns /\ sweep' = sweep /\ Len(conns) \in Nat /\ Len(conns') \in Nat
        BY <1>6 DEF Shape, ConnectionTimeout, Goto, TimeOut
      <3>2. SweepOpens' = SweepOpens /\ SweepOpens \in Int
        BY <3>1 DEF SweepOpens
      <3>3. /\ Cardinality(At(InUsePlaces))' <= Cardinality(At(InUsePlaces))
            /\ Cardinality(At(InUsePlaces)) \in Nat /\ Cardinality(At(InUsePlaces))' \in Nat
        BY <2>2, <2>3, <2>4 DEF Tallies, Delta
      <3>. QED BY <3>1, <3>2, <3>3 DEF ConnectionsAreBounded
    <2>7. IdleAreFresh'
      BY <1>6 DEF Shape, IdleAreFresh, ConnectionTimeout, Goto, TimeOut
    <2>8. Generations'
      BY <1>6 DEF Shape, Generations, ConnectionTimeout, Goto, TimeOut
    <2>. QED BY <2>1, <2>5, <2>6, <2>7, <2>8
  <1>7. ASSUME NEW t \in Checkouts, CheckPerished(t) PROVE IInv'
    <2>0. pc \in [Checkouts -> Places]
      BY DEF Shape
    <2>1. Shape'
      BY <1>7 DEF Shape, Places, CheckPerished, Goto
    <2>2. Moved(t) /\ Tallies /\ Tallies'
      <3>1. OnlyMoves(t)
        BY <1>7 DEF Shape, OnlyMoves, CheckPerished, Goto
      <3>. QED BY <3>1, MovedHolds, TalliesHold
    <2>3. pc[t] = "got" /\ pc'[t] \in {"using", "conn"}
      BY <1>7 DEF Shape, CheckPerished, Goto
    <2>4. Delta(0, 0, 0, 0, IF pc'[t] = "conn" THEN -1 ELSE 0)
      BY <2>2, <2>3, WeightsHold DEF Moved, Tallies, Delta, Weights, Places
    <2>5. CountersAddUp' /\ PermitsAreBounded'
      <3>1. /\ requests' = requests
            /\ active_sockets' = active_sockets
            /\ operation_count' = operation_count
            /\ pending' = pending
            /\ sweep' = sweep
        BY Numbers, <2>0, <1>7 DEF CheckPerished, Goto
      <3>2. /\ SweepHolds' = SweepHolds /\ SweepConnects' = SweepConnects
            /\ SweepHolds \in Int /\ SweepConnects \in Int
        BY <3>1 DEF SweepHolds, SweepConnects
      <3>. QED
        BY <2>2, <2>3, <2>4, <3>1, <3>2 DEF Delta, Tallies, CountersAddUp, PermitsAreBounded
    <2>6. ConnectionsAreBounded'
      <3>1. conns' = conns /\ sweep' = sweep /\ Len(conns) \in Nat /\ Len(conns') \in Nat
        BY <1>7 DEF Shape, CheckPerished, Goto
      <3>2. SweepOpens' = SweepOpens /\ SweepOpens \in Int
        BY <3>1 DEF SweepOpens
      <3>3. /\ Cardinality(At(InUsePlaces))' <= Cardinality(At(InUsePlaces))
            /\ Cardinality(At(InUsePlaces)) \in Nat /\ Cardinality(At(InUsePlaces))' \in Nat
        BY <2>2, <2>3, <2>4 DEF Tallies, Delta
      <3>. QED BY <3>1, <3>2, <3>3 DEF ConnectionsAreBounded
    <2>7. IdleAreFresh'
      BY <1>7 DEF Shape, IdleAreFresh, CheckPerished, Goto
    <2>8. Generations'
      BY <1>7 DEF Shape, Generations, CheckPerished, Goto
    <2>. QED BY <2>1, <2>5, <2>6, <2>7, <2>8
  <1>8. ASSUME NEW t \in Checkouts, OpenSocket(t) PROVE IInv'
    <2>0. pc \in [Checkouts -> Places]
      BY DEF Shape
    <2>1. Shape'
      BY <1>8 DEF Shape, Places, OpenSocket, Goto, Notify
    <2>2. Moved(t) /\ Tallies /\ Tallies'
      <3>1. OnlyMoves(t)
        BY <1>8 DEF Shape, OnlyMoves, OpenSocket, Goto, Notify
      <3>. QED BY <3>1, MovedHolds, TalliesHold
    <2>3. pc[t] = "open" /\ pc'[t] \in {"handshake", "fail"}
      BY <1>8 DEF Shape, OpenSocket, Goto, Notify
    <2>4. Delta(0, 0, IF pc'[t] = "fail" THEN -1 ELSE 0, 0,
              IF pc'[t] = "fail" THEN -1 ELSE 0)
      BY <2>2, <2>3, WeightsHold DEF Moved, Tallies, Delta, Weights, Places
    <2>5. CountersAddUp' /\ PermitsAreBounded'
      <3>1. /\ requests' = requests
            /\ active_sockets' = active_sockets
            /\ operation_count' = operation_count
            /\ pending' = pending - (IF pc'[t] = "fail" THEN 1 ELSE 0)
            /\ sweep' = sweep
        BY Numbers, <2>0, <1>8 DEF OpenSocket, Goto, Notify
      <3>2. /\ SweepHolds' = SweepHolds /\ SweepConnects' = SweepConnects
            /\ SweepHolds \in Int /\ SweepConnects \in Int
        BY <3>1 DEF SweepHolds, SweepConnects
      <3>. QED
        BY <2>2, <2>3, <2>4, <3>1, <3>2 DEF Delta, Tallies, CountersAddUp, PermitsAreBounded
    <2>6. ConnectionsAreBounded'
      <3>1. conns' = conns /\ sweep' = sweep /\ Len(conns) \in Nat /\ Len(conns') \in Nat
        BY <1>8 DEF Shape, OpenSocket, Goto, Notify
      <3>2. SweepOpens' = SweepOpens /\ SweepOpens \in Int
        BY <3>1 DEF SweepOpens
      <3>3. /\ Cardinality(At(InUsePlaces))' <= Cardinality(At(InUsePlaces))
            /\ Cardinality(At(InUsePlaces)) \in Nat /\ Cardinality(At(InUsePlaces))' \in Nat
        BY <2>2, <2>3, <2>4 DEF Tallies, Delta
      <3>. QED BY <3>1, <3>2, <3>3, SMTT(20), ConstantsAssumption DEF ConnectionsAreBounded
    <2>7. IdleAreFresh'
      BY <1>8 DEF Shape, IdleAreFresh, OpenSocket, Goto, Notify
    <2>8. Generations'
      BY <1>8, SMTT(20) DEF Shape, Generations, OpenSocket, Goto, Notify
    <2>. QED BY <2>1, <2>5, <2>6, <2>7, <2>8
  <1>9. ASSUME NEW t \in Checkouts, Handshake(t) PROVE IInv'
    <2>0. pc \in [Checkouts -> Places]
      BY DEF Shape
    <2>1. Shape'
      BY <1>9 DEF Shape, Places, Handshake, Goto, Notify
    <2>2. Moved(t) /\ Tallies /\ Tallies'
      <3>1. OnlyMoves(t)
        BY <1>9 DEF Shape, OnlyMoves, Handshake, Goto, Notify
      <3>. QED BY <3>1, MovedHolds, TalliesHold
    <2>3. pc[t] = "handshake" /\ pc'[t] \in {"using", "fail"}
      BY <1>9 DEF Shape, Handshake, Goto, Notify
    <2>4. Delta(0, 0, -1, 0, IF pc'[t] = "fail" THEN -1 ELSE 0)
      BY <2>2, <2>3, WeightsHold DEF Moved, Tallies, Delta, Weights, Places
    <2>5. CountersAddUp' /\ PermitsAreBounded'
      <3>1. /\ requests' = requests
            /\ active_sockets' = active_sockets
            /\ operation_count' = operation_count
            /\ pending' = pending - 1
            /\ sweep' = sweep
        BY Numbers, <2>0, <1>9 DEF Handshake, Goto, Notify
      <3>2. /\ SweepHolds' = SweepHolds /\ SweepConnects' = SweepConnects
            /\ SweepHolds \in Int /\ SweepConnects \in Int
        BY <3>1 DEF SweepHolds, SweepConnects
      <3>. QED
        BY <2>2, <2>3, <2>4, <3>1, <3>2 DEF Delta, Tallies, CountersAddUp, PermitsAreBounded
    <2>6. ConnectionsAreBounded'
      <3>1. conns' = conns /\ sweep' = sweep /\ Len(conns) \in Nat /\ Len(conns') \in Nat
        BY <1>9 DEF Shape, Handshake, Goto, Notify
      <3>2. SweepOpens' = SweepOpens /\ SweepOpens \in Int
        BY <3>1 DEF SweepOpens
      <3>3. /\ Cardinality(At(InUsePlaces))' <= Cardinality(At(InUsePlaces))
            /\ Cardinality(At(InUsePlaces)) \in Nat /\ Cardinality(At(InUsePlaces))' \in Nat
        BY <2>2, <2>3, <2>4 DEF Tallies, Delta
      <3>. QED BY <3>1, <3>2, <3>3 DEF ConnectionsAreBounded
    <2>7. IdleAreFresh'
      BY <1>9 DEF Shape, IdleAreFresh, Handshake, Goto, Notify
    <2>8. Generations'
      BY <1>9 DEF Shape, Generations, Handshake, Goto, Notify
    <2>. QED BY <2>1, <2>5, <2>6, <2>7, <2>8
  <1>10. ASSUME NEW t \in Checkouts, GiveUp(t) PROVE IInv'
    <2>0. pc \in [Checkouts -> Places]
      BY DEF Shape
    <2>1. Shape'
      BY <1>10 DEF Shape, Places, GiveUp, Goto, Notify
    <2>2. Moved(t) /\ Tallies /\ Tallies'
      <3>1. OnlyMoves(t)
        BY <1>10 DEF Shape, OnlyMoves, GiveUp, Goto, Notify
      <3>. QED BY <3>1, MovedHolds, TalliesHold
    <2>3. pc[t] = "fail" /\ pc'[t] = "failed"
      BY <1>10 DEF Shape, GiveUp, Goto, Notify
    <2>4. Delta(-1, -1, 0, 0, 0)
      BY <2>2, <2>3, WeightsHold DEF Moved, Tallies, Delta, Weights, Places
    <2>5. CountersAddUp' /\ PermitsAreBounded'
      <3>1. /\ requests' = requests - 1
            /\ active_sockets' = active_sockets - 1
            /\ operation_count' = operation_count
            /\ pending' = pending
            /\ sweep' = sweep
        BY Numbers, <2>0, <1>10 DEF GiveUp, Goto, Notify
      <3>2. /\ SweepHolds' = SweepHolds /\ SweepConnects' = SweepConnects
            /\ SweepHolds \in Int /\ SweepConnects \in Int
        BY <3>1 DEF SweepHolds, SweepConnects
      <3>. QED
        BY <2>2, <2>3, <2>4, <3>1, <3>2 DEF Delta, Tallies, CountersAddUp, PermitsAreBounded
    <2>6. ConnectionsAreBounded'
      <3>1. conns' = conns /\ sweep' = sweep /\ Len(conns) \in Nat /\ Len(conns') \in Nat
        BY <1>10 DEF Shape, GiveUp, Goto, Notify
      <3>2. SweepOpens' = SweepOpens /\ SweepOpens \in Int
        BY <3>1 DEF SweepOpens
      <3>3. /\ Cardinality(At(InUsePlaces))' <= Cardinality(At(InUsePlaces))
            /\ Cardinality(At(InUsePlaces)) \in Nat /\ Cardinality(At(InUsePlaces))' \in Nat
        BY <2>2, <2>3, <2>4 DEF Tallies, Delta
      <3>. QED BY <3>1, <3>2, <3>3 DEF ConnectionsAreBounded
    <2>7. IdleAreFresh'
      BY <1>10 DEF Shape, IdleAreFresh, GiveUp, Goto, Notify
    <2>8. Generations'
      BY <1>10 DEF Shape, Generations, GiveUp, Goto, Notify
    <2>. QED BY <2>1, <2>5, <2>6, <2>7, <2>8
  <1>11. ASSUME NEW t \in Checkouts, Checkin(t) PROVE IInv'
    <2>0. pc \in [Checkouts -> Places]
      BY DEF Shape
    <2>1. Shape'
      BY <1>11 DEF Shape, Places, Checkin, Goto
    <2>2. Moved(t) /\ Tallies /\ Tallies'
      <3>1. OnlyMoves(t)
        BY <1>11 DEF Shape, OnlyMoves, Checkin, Goto
      <3>. QED BY <3>1, MovedHolds, TalliesHold
    <2>3. pc[t] = "using" /\ pc'[t] \in {"release", "return"}
      BY <1>11 DEF Shape, Checkin, Goto
    <2>4. Delta(0, 0, 0, 0, IF pc'[t] = "release" THEN -1 ELSE 0)
      BY <2>2, <2>3, WeightsHold DEF Moved, Tallies, Delta, Weights, Places
    <2>5. CountersAddUp' /\ PermitsAreBounded'
      <3>1. /\ requests' = requests
            /\ active_sockets' = active_sockets
            /\ operation_count' = operation_count
            /\ pending' = pending
            /\ sweep' = sweep
        BY Numbers, <2>0, <1>11 DEF Checkin, Goto
      <3>2. /\ SweepHolds' = SweepHolds /\ SweepConnects' = SweepConnects
            /\ SweepHolds \in Int /\ SweepConnects \in Int
        BY <3>1 DEF SweepHolds, SweepConnects
      <3>. QED
        BY <2>2, <2>3, <2>4, <3>1, <3>2 DEF Delta, Tallies, CountersAddUp, PermitsAreBounded
    <2>6. ConnectionsAreBounded'
      <3>1. conns' = conns /\ sweep' = sweep /\ Len(conns) \in Nat /\ Len(conns') \in Nat
        BY <1>11 DEF Shape, Checkin, Goto
      <3>2. SweepOpens' = SweepOpens /\ SweepOpens \in Int
        BY <3>1 DEF SweepOpens
      <3>3. /\ Cardinality(At(InUsePlaces))' <= Cardinality(At(InUsePlaces))
            /\ Cardinality(At(InUsePlaces)) \in Nat /\ Cardinality(At(InUsePlaces))' \in Nat
        BY <2>2, <2>3, <2>4 DEF Tallies, Delta
      <3>. QED BY <3>1, <3>2, <3>3 DEF ConnectionsAreBounded
    <2>7. IdleAreFresh'
      BY <1>11 DEF Shape, IdleAreFresh, Checkin, Goto
    <2>8. Generations'
      BY <1>11 DEF Shape, Generations, Checkin, Goto
    <2>. QED BY <2>1, <2>5, <2>6, <2>7, <2>8
  <1>12. ASSUME NEW t \in Checkouts, PutBack(t) PROVE IInv'
    <2>0. pc \in [Checkouts -> Places]
      BY DEF Shape
    <2>1. Shape'
      BY AppendLeft, <1>12 DEF Shape, Places, PutBack, Goto, Notify
    <2>2. Moved(t) /\ Tallies /\ Tallies'
      <3>1. OnlyMoves(t)
        BY <1>12 DEF Shape, OnlyMoves, PutBack, Goto, Notify
      <3>. QED BY <3>1, MovedHolds, TalliesHold
    <2>3. pc[t] = "return" /\ pc'[t] = "release"
      BY <1>12 DEF Shape, PutBack, Goto, Notify
    <2>4. Delta(0, 0, 0, 0, -1)
      BY <2>2, <2>3, WeightsHold DEF Moved, Tallies, Delta, Weights, Places
    <2>5. CountersAddUp' /\ PermitsAreBounded'
      <3>1. /\ requests' = requests
            /\ active_sockets' = active_sockets
            /\ operation_count' = operation_count
            /\ pending' = pending
            /\ sweep' = sweep
        BY Numbers, <2>0, <1>12 DEF PutBack, Goto, Notify
      <3>2. /\ SweepHolds' = SweepHolds /\ SweepConnects' = SweepConnects
            /\ SweepHolds \in Int /\ SweepConnects \in Int
        BY <3>1 DEF SweepHolds, SweepConnects
      <3>. QED
        BY <2>2, <2>3, <2>4, <3>1, <3>2 DEF Delta, Tallies, CountersAddUp, PermitsAreBounded
    <2>6. ConnectionsAreBounded'
      <3>1. Len(conns') <= Len(conns) + 1 /\ sweep' = sweep /\ Len(conns) \in Nat /\ Len(conns') \in Nat
        BY AppendLeft, <1>12 DEF Shape, PutBack, Goto, Notify
      <3>2. SweepOpens' = SweepOpens /\ SweepOpens \in Int
        BY <3>1 DEF SweepOpens
      <3>3. /\ Cardinality(At(InUsePlaces))' = Cardinality(At(InUsePlaces)) - 1
            /\ Cardinality(At(InUsePlaces)) \in Nat /\ Cardinality(At(InUsePlaces))' \in Nat
        BY <2>2, <2>3, <2>4 DEF Tallies, Delta
      <3>. QED BY <3>1, <3>2, <3>3 DEF ConnectionsAreBounded
    <2>7. IdleAreFresh'
      <3>1. state' = state /\ generation' = generation
            /\ (conns' = conns \/ (conn[t] = generation /\ conns' = appendleft(generation)))
        BY <1>12 DEF PutBack, Goto, Notify
      <3>2. Len(conns) \in Nat
        BY DEF Shape
      <3>3. ASSUME conns' = appendleft(generation), NEW i \in 1 .. Len(conns')
            PROVE  conns'[i] = generation
        <4>1. conns'[i] = IF i = 1 THEN generation ELSE conns[i - 1]
          BY <3>2, <3>3, AppendLeft
        <4>2. i # 1 => i - 1 \in 1 .. Len(conns)
          BY <3>2, <3>3, AppendLeft
        <4>. QED BY <4>1, <4>2 DEF IdleAreFresh
      <3>. QED BY <2>3, <3>1, <3>3 DEF IdleAreFresh, Generations
    <2>8. Generations'
      BY <1>12 DEF Shape, Generations, PutBack, Goto, Notify
    <2>. QED BY <2>1, <2>5, <2>6, <2>7, <2>8
  <1>13. ASSUME NEW t \in Checkouts, Release(t) PROVE IInv'
    <2>0. pc \in [Checkouts -> Places]
      BY DEF Shape
    <2>1. Shape'
      BY <1>13 DEF Shape, Places, Release, Goto, Notify
    <2>2. Moved(t) /\ Tallies /\ Tallies'
      <3>1. OnlyMoves(t)
        BY <1>13 DEF Shape, OnlyMoves, Release, Goto, Notify
      <3>. QED BY <3>1, MovedHolds, TalliesHold
    <2>3. pc[t] = "release" /\ pc'[t] = "done"
      BY <1>13 DEF Shape, Release, Goto, Notify
    <2>4. Delta(-1, -1, 0, -1, 0)
      BY <2>2, <2>3, WeightsHold DEF Moved, Tallies, Delta, Weights, Places
    <2>5. CountersAddUp' /\ PermitsAreBounded'
      <3>1. /\ requests' = requests - 1
            /\ active_sockets' = active_sockets - 1
            /\ operation_count' = operation_count - 1
            /\ pending' = pending
            /\ sweep' = sweep
        BY Numbers, <2>0, <1>13 DEF Release, Goto, Notify
      <3>2. /\ SweepHolds' = SweepHolds /\ SweepConnects' = SweepConnects
            /\ SweepHolds \in Int /\ SweepConnects \in Int
        BY <3>1 DEF SweepHolds, SweepConnects
      <3>. QED
        BY <2>2, <2>3, <2>4, <3>1, <3>2 DEF Delta, Tallies, CountersAddUp, PermitsAreBounded
    <2>6. ConnectionsAreBounded'
      <3>1. conns' = conns /\ sweep' = sweep /\ Len(conns) \in Nat /\ Len(conns') \in Nat
        BY <1>13 DEF Shape, Release, Goto, Notify
      <3>2. SweepOpens' = SweepOpens /\ SweepOpens \in Int
        BY <3>1 DEF SweepOpens
      <3>3. /\ Cardinality(At(InUsePlaces))' <= Cardinality(At(InUsePlaces))
            /\ Cardinality(At(InUsePlaces)) \in Nat /\ Cardinality(At(InUsePlaces))' \in Nat
        BY <2>2, <2>3, <2>4 DEF Tallies, Delta
      <3>. QED BY <3>1, <3>2, <3>3 DEF ConnectionsAreBounded
    <2>7. IdleAreFresh'
      BY <1>13 DEF Shape, IdleAreFresh, Release, Goto, Notify
    <2>8. Generations'
      BY <1>13 DEF Shape, Generations, Release, Goto, Notify
    <2>. QED BY <2>1, <2>5, <2>6, <2>7, <2>8
  <1>14. ASSUME NEW t \in Checkouts, Expire(t) PROVE IInv'
    <2>1. Shape'
      BY <1>14 DEF Shape, Expire
    <2>2. Delta(0, 0, 0, 0, 0) /\ Tallies
      BY TalliesHold, <1>14 DEF Tallies, Delta, At, Expire
    <2>3. CountersAddUp' /\ PermitsAreBounded'
      BY <2>2, <1>14, Numbers DEF Delta, Tallies, CountersAddUp, PermitsAreBounded,
         SweepHolds, SweepConnects, Expire
    <2>4. ConnectionsAreBounded'
      BY <2>2, <1>14 DEF Shape, Delta, Tallies, ConnectionsAreBounded, SweepOpens, Expire
    <2>5. IdleAreFresh'
      BY <1>14 DEF Shape, IdleAreFresh, Expire
    <2>6. Generations'
      BY <1>14 DEF Shape, Generations, Expire
    <2>. QED BY <2>1, <2>3, <2>4, <2>5, <2>6
  <1>15. ASSUME NEW t \in Checkouts, Break(t) PROVE IInv'
    <2>1. Shape'
      BY <1>15 DEF Shape, Break
    <2>2. Delta(0, 0, 0, 0, 0) /\ Tallies
      BY TalliesHold, <1>15 DEF Tallies, Delta, At, Break
    <2>3. CountersAddUp' /\ PermitsAreBounded'
      BY <2>2, <1>15, Numbers DEF Delta, Tallies, CountersAddUp, PermitsAreBounded,
         SweepHolds, SweepConnects, Break
    <2>4. ConnectionsAreBounded'
      BY <2>2, <1>15 DEF Shape, Delta, Tallies, ConnectionsAreBounded, SweepOpens, Break
    <2>5. IdleAreFresh'
      BY <1>15 DEF Shape, IdleAreFresh, Break
    <2>6. Generations'
      BY <1>15 DEF Shape, Generations, Break
    <2>. QED BY <2>1, <2>3, <2>4, <2>5, <2>6
  <1>16. ASSUME Ready PROVE IInv'
    <2>1. Shape'
      BY <1>16 DEF Shape, Ready
    <2>2. Delta(0, 0, 0, 0, 0) /\ Tallies
      BY TalliesHold, <1>16 DEF Tallies, Delta, At, Ready
    <2>3. CountersAddUp' /\ PermitsAreBounded'
      BY <2>2, <1>16, Numbers DEF Delta, Tallies, CountersAddUp, PermitsAreBounded,
         SweepHolds, SweepConnects, Ready
    <2>4. ConnectionsAreBounded'
      <3>1. Len(conns') <= Len(conns) /\ Len(conns) \in Nat /\ Len(conns') \in Nat
        BY <1>16 DEF Shape, Ready
      <3>2. SweepOpens' = SweepOpens /\ SweepOpens \in Int
        BY <1>16 DEF SweepOpens, Ready
      <3>3. Cardinality(At(InUsePlaces))' = Cardinality(At(InUsePlaces))
            /\ Cardinality(At(InUsePlaces)) \in Nat
        BY <2>2 DEF Delta, Tallies
      <3>. QED BY <3>1, <3>2, <3>3, ConstantsAssumption DEF ConnectionsAreBounded
    <2>5. IdleAreFresh'
      BY <1>16 DEF Shape, IdleAreFresh, Ready
    <2>6. Generations'
      BY <1>16 DEF Shape, Generations, Ready
    <2>. QED BY <2>1, <2>3, <2>4, <2>5, <2>6
  <1>17. ASSUME NEW to \in {"paused", "closed"}, Reset(to) PROVE IInv'
    <2>1. Shape'
      BY <1>17 DEF Shape, Reset
    <2>2. Delta(0, 0, 0, 0, 0) /\ Tallies
      BY TalliesHold, <1>17 DEF Tallies, Delta, At, Reset
    <2>3. CountersAddUp' /\ PermitsAreBounded'
      BY <2>2, <1>17, Numbers DEF Delta, Tallies, CountersAddUp, PermitsAreBounded,
         SweepHolds, SweepConnects, Reset
    <2>4. ConnectionsAreBounded'
      <3>1. Len(conns') <= Len(conns) /\ Len(conns) \in Nat /\ Len(conns') \in Nat
        BY <1>17 DEF Shape, Reset
      <3>2. SweepOpens' = SweepOpens /\ SweepOpens \in Int
        BY <1>17 DEF SweepOpens, Reset
      <3>3. Cardinality(At(InUsePlaces))' = Cardinality(At(InUsePlaces))
            /\ Cardinality(At(InUsePlaces)) \in Nat
        BY <2>2 DEF Delta, Tallies
      <3>. QED BY <3>1, <3>2, <3>3, ConstantsAssumption DEF ConnectionsAreBounded
    <2>5. IdleAreFresh'
      BY <1>17 DEF Shape, IdleAreFresh, Reset
    <2>6. Generations'
      BY <1>17, SMTT(20) DEF Shape, Generations, Reset
    <2>. QED BY <2>1, <2>3, <2>4, <2>5, <2>6
  <1>18. ASSUME StartSweep PROVE IInv'
    <2>1. Shape'
      BY <1>18 DEF Shape, StartSweep, SweepTo
    <2>2. Delta(0, 0, 0, 0, 0) /\ Tallies
      BY TalliesHold, <1>18 DEF Tallies, Delta, At, StartSweep, SweepTo
    <2>3. CountersAddUp' /\ PermitsAreBounded'
      BY <2>2, <1>18, Numbers DEF Delta, Tallies, CountersAddUp, PermitsAreBounded,
         SweepHolds, SweepConnects, StartSweep, SweepTo
    <2>4. ConnectionsAreBounded'
      <3>1. Len(conns') <= Len(conns) /\ Len(conns) \in Nat /\ Len(conns') \in Nat
        BY <1>18 DEF Shape, StartSweep, SweepTo
      <3>2. SweepOpens' = SweepOpens /\ SweepOpens \in Int
        BY <1>18 DEF SweepOpens, StartSweep, SweepTo
      <3>3. Cardinality(At(InUsePlaces))' = Cardinality(At(InUsePlaces))
            /\ Cardinality(At(InUsePlaces)) \in Nat
        BY <2>2 DEF Delta, Tallies
      <3>. QED BY <3>1, <3>2, <3>3, ConstantsAssumption DEF ConnectionsAreBounded
    <2>5. IdleAreFresh'
      BY <1>18 DEF Shape, IdleAreFresh, StartSweep, SweepTo
    <2>6. Generations'
      BY <1>18 DEF Shape, Generations, StartSweep, SweepTo
    <2>. QED BY <2>1, <2>3, <2>4, <2>5, <2>6
  <1>19. ASSUME SweepCheck PROVE IInv'
    <2>1. Shape'
      BY <1>19 DEF Shape, SweepCheck, SweepTo
    <2>2. Delta(0, 0, 0, 0, 0) /\ Tallies
      BY TalliesHold, <1>19 DEF Tallies, Delta, At, SweepCheck, SweepTo
    <2>3. CountersAddUp' /\ PermitsAreBounded'
      BY <2>2, <1>19, Numbers DEF Delta, Tallies, CountersAddUp, PermitsAreBounded,
         SweepHolds, SweepConnects, SweepCheck, SweepTo
    <2>4. ConnectionsAreBounded'
      BY <2>2, <1>19 DEF Shape, Delta, Tallies, ConnectionsAreBounded, SweepOpens,
         SweepCheck, SweepTo
    <2>5. IdleAreFresh'
      BY <1>19 DEF Shape, IdleAreFresh, SweepCheck, SweepTo
    <2>6. Generations'
      BY <1>19 DEF Shape, Generations, SweepCheck, SweepTo
    <2>. QED BY <2>1, <2>3, <2>4, <2>5, <2>6
  <1>20. ASSUME SweepTrim PROVE IInv'
    <2>1. Shape'
      BY Trimmed, <1>20 DEF Shape, SweepTrim, SweepTo
    <2>2. Delta(0, 0, 0, 0, 0) /\ Tallies
      BY TalliesHold, <1>20 DEF Tallies, Delta, At, SweepTrim, SweepTo
    <2>3. CountersAddUp' /\ PermitsAreBounded'
      BY <2>2, <1>20, Numbers DEF Delta, Tallies, CountersAddUp, PermitsAreBounded,
         SweepHolds, SweepConnects, SweepTrim, SweepTo
    <2>4. ConnectionsAreBounded'
      <3>1. Len(conns') <= Len(conns) /\ Len(conns) \in Nat /\ Len(conns') \in Nat
        BY Trimmed, <1>20 DEF Shape, SweepTrim, SweepTo
      <3>2. SweepOpens' = SweepOpens /\ SweepOpens \in Int
        BY <1>20 DEF SweepOpens, SweepTrim, SweepTo
      <3>3. Cardinality(At(InUsePlaces))' = Cardinality(At(InUsePlaces))
            /\ Cardinality(At(InUsePlaces)) \in Nat
        BY <2>2 DEF Delta, Tallies
      <3>. QED BY <3>1, <3>2, <3>3, ConstantsAssumption DEF ConnectionsAreBounded
    <2>5. IdleAreFresh'
      BY Trimmed, <1>20 DEF Shape, IdleAreFresh, SweepTrim, SweepTo
    <2>6. Generations'
      BY <1>20 DEF Shape, Generations, SweepTrim, SweepTo
    <2>. QED BY <2>1, <2>3, <2>4, <2>5, <2>6
  <1>21. ASSUME SweepRoom PROVE IInv'
    <2>1. Shape'
      BY <1>21 DEF Shape, SweepRoom, SweepTo
    <2>2. Delta(0, 0, 0, 0, 0) /\ Tallies
      BY TalliesHold, <1>21 DEF Tallies, Delta, At, SweepRoom, SweepTo
    <2>3. CountersAddUp' /\ PermitsAreBounded'
      <3>1. min_pool_size \in Nat /\ min_pool_size <= MaxPoolSize
        BY DEF Shape
      <3>2. /\ requests' = requests + (IF sweep' = "slot" THEN 1 ELSE 0)
            /\ sweep' = "slot" => requests < min_pool_size
            /\ sweep = "room" /\ sweep' \in {"idle", "slot"}
            /\ UNCHANGED <<active_sockets, operation_count, pending>>
        BY <3>1, <1>21, Numbers DEF SweepRoom, SweepTo
      <3>. QED BY <2>2, <3>1, <3>2, Numbers DEF Delta, Tallies, CountersAddUp,
           PermitsAreBounded, SweepHolds, SweepConnects
    <2>4. ConnectionsAreBounded'
      <3>1. min_pool_size \in Nat /\ min_pool_size <= MaxPoolSize /\ Len(conns) \in Nat
        BY DEF Shape
      <3>2. /\ conns' = conns
            /\ sweep' = "slot" => Len(conns) + active_sockets < min_pool_size
            /\ sweep = "room" /\ sweep' \in {"idle", "slot"}
        BY <3>1, <1>21, Numbers DEF SweepRoom, SweepTo
      <3>3. Cardinality(At(InUsePlaces))' <= active_sockets
        BY <2>2 DEF Delta, Tallies, CountersAddUp
      <3>. QED BY <2>2, <3>1, <3>2, <3>3, Numbers DEF Delta, Tallies, ConnectionsAreBounded,
           SweepOpens
    <2>5. IdleAreFresh'
      BY <1>21 DEF Shape, IdleAreFresh, SweepRoom, SweepTo
    <2>6. Generations'
      BY <1>21 DEF Shape, Generations, SweepRoom, SweepTo
    <2>. QED BY <2>1, <2>3, <2>4, <2>5, <2>6
  <1>22. ASSUME SweepSlot PROVE IInv'
    <2>1. Shape'
      BY <1>22 DEF Shape, SweepSlot, SweepTo
    <2>2. Delta(0, 0, 0, 0, 0) /\ Tallies
      BY TalliesHold, <1>22 DEF Tallies, Delta, At, SweepSlot, SweepTo
    <2>3. CountersAddUp' /\ PermitsAreBounded'
      BY <2>2, <1>22, Numbers DEF Delta, Tallies, CountersAddUp, PermitsAreBounded,
         SweepHolds, SweepConnects, SweepSlot, SweepTo
    <2>4. ConnectionsAreBounded'
      BY <2>2, <1>22 DEF Shape, Delta, Tallies, ConnectionsAreBounded, SweepOpens,
         SweepSlot, SweepTo
    <2>5. IdleAreFresh'
      BY <1>22 DEF Shape, IdleAreFresh, SweepSlot, SweepTo
    <2>6. Generations'
      BY <1>22 DEF Shape, Generations, SweepSlot, SweepTo
    <2>. QED BY <2>1, <2>3, <2>4, <2>5, <2>6
  <1>23. ASSUME SweepOpen PROVE IInv'
    <2>1. Shape'
      BY <1>23 DEF Shape, SweepOpen, SweepTo
    <2>2. Delta(0, 0, 0, 0, 0) /\ Tallies
      BY TalliesHold, <1>23 DEF Tallies, Delta, At, SweepOpen, SweepTo
    <2>3. CountersAddUp' /\ PermitsAreBounded'
      BY <2>2, <1>23, Numbers DEF Delta, Tallies, CountersAddUp, PermitsAreBounded,
         SweepHolds, SweepConnects, SweepOpen, SweepTo
    <2>4. ConnectionsAreBounded'
      BY <2>2, <1>23 DEF Shape, Delta, Tallies, ConnectionsAreBounded, SweepOpens,
         SweepOpen, SweepTo
    <2>5. IdleAreFresh'
      BY <1>23 DEF Shape, IdleAreFresh, SweepOpen, SweepTo
    <2>6. Generations'
      BY <1>23 DEF Shape, Generations, SweepOpen, SweepTo
    <2>. QED BY <2>1, <2>3, <2>4, <2>5, <2>6
  <1>24. ASSUME SweepAdd PROVE IInv'
    <2>1. Shape'
      BY AppendLeft, <1>24 DEF Shape, Generations, SweepAdd, SweepTo
    <2>2. Delta(0, 0, 0, 0, 0) /\ Tallies
      BY TalliesHold, <1>24 DEF Tallies, Delta, At, SweepAdd, SweepTo
    <2>3. CountersAddUp' /\ PermitsAreBounded'
      BY <2>2, <1>24, Numbers DEF Delta, Tallies, CountersAddUp, PermitsAreBounded,
         SweepHolds, SweepConnects, SweepAdd, SweepTo
    <2>4. ConnectionsAreBounded'
      <3>1. Len(conns') <= Len(conns) + 1 /\ Len(conns) \in Nat /\ Len(conns') \in Nat
        BY AppendLeft, <1>24 DEF Shape, Generations, SweepAdd, SweepTo
      <3>. QED BY <2>2, <3>1, <1>24 DEF Delta, Tallies, ConnectionsAreBounded, SweepOpens,
           SweepAdd, SweepTo
    <2>5. IdleAreFresh'
      <3>1. state' = state /\ generation' = generation
            /\ (conns' = conns \/ (reference = generation /\ conns' = appendleft(generation)))
        BY <1>24 DEF Shape, Generations, SweepAdd, SweepTo
      <3>2. Len(conns) \in Nat
        BY DEF Shape
      <3>3. ASSUME conns' = appendleft(generation), NEW i \in 1 .. Len(conns')
            PROVE  conns'[i] = generation
        <4>1. conns'[i] = IF i = 1 THEN generation ELSE conns[i - 1]
          BY <3>2, <3>3, AppendLeft
        <4>2. i # 1 => i - 1 \in 1 .. Len(conns)
          BY <3>2, <3>3, AppendLeft
        <4>. QED BY <4>1, <4>2 DEF IdleAreFresh
      <3>. QED BY <3>1, <3>3, <1>24 DEF IdleAreFresh, Generations, SweepAdd
    <2>6. Generations'
      BY <1>24 DEF Shape, Generations, SweepAdd, SweepTo
    <2>. QED BY <2>1, <2>3, <2>4, <2>5, <2>6
  <1>25. ASSUME SweepOpened PROVE IInv'
    <2>1. Shape'
      BY <1>25 DEF Shape, SweepOpened, SweepTo, Notify
    <2>2. Delta(0, 0, 0, 0, 0) /\ Tallies
      BY TalliesHold, <1>25 DEF Tallies, Delta, At, SweepOpened, SweepTo, Notify
    <2>3. CountersAddUp' /\ PermitsAreBounded'
      BY <2>2, <1>25, Numbers DEF Delta, Tallies, CountersAddUp, PermitsAreBounded,
         SweepHolds, SweepConnects, SweepOpened, SweepTo, Notify
    <2>4. ConnectionsAreBounded'
      BY <2>2, <1>25 DEF Shape, Delta, Tallies, ConnectionsAreBounded, SweepOpens,
         SweepOpened, SweepTo, Notify
    <2>5. IdleAreFresh'
      BY <1>25 DEF Shape, IdleAreFresh, SweepOpened, SweepTo, Notify
    <2>6. Generations'
      BY <1>25 DEF Shape, Generations, SweepOpened, SweepTo, Notify
    <2>. QED BY <2>1, <2>3, <2>4, <2>5, <2>6
  <1>26. ASSUME SweepLeave PROVE IInv'
    <2>1. Shape'
      BY <1>26 DEF Shape, SweepLeave, SweepTo, Notify
    <2>2. Delta(0, 0, 0, 0, 0) /\ Tallies
      BY TalliesHold, <1>26 DEF Tallies, Delta, At, SweepLeave, SweepTo, Notify
    <2>3. CountersAddUp' /\ PermitsAreBounded'
      BY <2>2, <1>26, Numbers DEF Delta, Tallies, CountersAddUp, PermitsAreBounded,
         SweepHolds, SweepConnects, SweepLeave, SweepTo, Notify
    <2>4. ConnectionsAreBounded'
      BY <2>2, <1>26 DEF Shape, Delta, Tallies, ConnectionsAreBounded, SweepOpens,
         SweepLeave, SweepTo, Notify
    <2>5. IdleAreFresh'
      BY <1>26 DEF Shape, IdleAreFresh, SweepLeave, SweepTo, Notify
    <2>6. Generations'
      BY <1>26 DEF Shape, Generations, SweepLeave, SweepTo, Notify
    <2>. QED BY <2>1, <2>3, <2>4, <2>5, <2>6
  <1>27. CASE UNCHANGED vars
    BY <1>27 DEF vars, Shape, At, CountersAddUp, PermitsAreBounded, ConnectionsAreBounded,
       IdleAreFresh, Generations, SweepHolds, SweepOpens, SweepConnects
  <1>. QED
    BY <1>1, <1>2, <1>3, <1>4, <1>5, <1>6, <1>7, <1>8, <1>9,
       <1>10, <1>11, <1>12, <1>13, <1>14, <1>15, <1>16, <1>17, <1>18,
       <1>19, <1>20, <1>21, <1>22, <1>23, <1>24, <1>25, <1>26, <1>27
       DEF Next, Advance, Sweep, Topology

LEMMA TypeHolds == IInv => TypeOK
  <1>. SUFFICES ASSUME IInv PROVE TypeOK
    OBVIOUS
  <1>1. requests \in Nat /\ active_sockets \in Nat /\ pending \in Nat
        /\ active_sockets <= requests /\ operation_count \in 0 .. Cardinality(Checkouts)
    BY TalliesHold DEF IInv, CountersAddUp, Tallies, SweepHolds, SweepConnects
  <1>. QED
    BY <1>1, ConstantsAssumption DEF IInv, Shape, TypeOK, PermitsAreBounded

LEMMA Invariance == Spec => []IInv
  <1>. QED BY InitIInv, StepKeepsIInv, PTL DEF Spec

-----------------------------------------------------------------------------
(* Consequences.                                                               *)

\* The state has its type; requests stays within maxPoolSize and pending within
\* maxConnecting (_get_conn, remove_stale_sockets).
THEOREM PoolTypeCorrect == Spec => []TypeOK
  <1>. QED BY TypeHolds, Invariance, PTL

\* requests, active_sockets and pending are the threads that hold what they count, and
\* operation_count the checkouts in progress and all those that have failed.
THEOREM NothingLeaks == Spec => []CountersAddUp
  <1>1. IInv => CountersAddUp
    BY DEF IInv
  <1>. QED BY <1>1, Invariance, PTL

\* maxPoolSize bounds the connections, idle, in use and being opened.
THEOREM MaxPoolSizeBoundsConnections == Spec => []ConnectionsAreBounded
  <1>1. IInv => ConnectionsAreBounded
    BY DEF IInv
  <1>. QED BY <1>1, Invariance, PTL

\* No idle connection is older than the last reset, and a closed pool keeps none.
THEOREM ResetsLeaveNothingOld == Spec => []IdleAreFresh
  <1>1. IInv => IdleAreFresh
    BY DEF IInv
  <1>. QED BY <1>1, Invariance, PTL

-----------------------------------------------------------------------------
(* Wake-ups.                                                                   *)

LEMMA Awakened ==
  ASSUME NEW A \in SUBSET Checkouts, NEW B \in SUBSET Checkouts, NEW t, NEW w
  PROVE  /\ A \subseteq B => Cardinality(A) <= Cardinality(B)
         /\ A \ {t} \subseteq B => Cardinality(A) - 1 <= Cardinality(B)
         /\ w \notin A /\ w \in B /\ A \subseteq B => Cardinality(A) + 1 <= Cardinality(B)
         /\ w \notin A /\ w \in B /\ A \ {t} \subseteq B => Cardinality(A) <= Cardinality(B)
         /\ Cardinality(A) \in Nat /\ Cardinality(B) \in Nat
  <1>. DEFINE Rest == A \ {t}
  <1>1. /\ Rest \in SUBSET Checkouts /\ B \ {w} \in SUBSET Checkouts
        /\ IsFiniteSet(A) /\ IsFiniteSet(B) /\ IsFiniteSet(Rest) /\ IsFiniteSet(B \ {w})
        /\ Cardinality(A) \in Nat /\ Cardinality(B) \in Nat
        /\ Cardinality(Rest) \in Nat /\ Cardinality(B \ {w}) \in Nat
    BY CountIsNat
  <1>2. Cardinality(Rest) = IF t \in A THEN Cardinality(A) - 1 ELSE Cardinality(A)
    BY <1>1, FS_RemoveElement
  <1>3. Cardinality(B \ {w}) = IF w \in B THEN Cardinality(B) - 1 ELSE Cardinality(B)
    BY <1>1, FS_RemoveElement
  <1>4. A \subseteq B => Cardinality(A) <= Cardinality(B)
    BY <1>1, FS_Subset
  <1>5. Rest \subseteq B => Cardinality(Rest) <= Cardinality(B)
    BY <1>1, FS_Subset
  <1>6. w \notin A /\ A \subseteq B => Cardinality(A) <= Cardinality(B \ {w})
    BY <1>1, FS_Subset
  <1>7. w \notin A /\ Rest \subseteq B => Cardinality(Rest) <= Cardinality(B \ {w})
    BY <1>1, FS_Subset
  <1>. QED BY <1>1, <1>2, <1>3, <1>4, <1>5, <1>6, <1>7

SizeAwake == At({"size"}) \ asleep
ConnAwake == At({"conn"}) \ asleep

PermitsAwaited == size_cond # {} => MaxPoolSize - requests <= Cardinality(SizeAwake)

ConnectionsAwaited ==
    max_connecting_cond # {} /\ min_pool_size = 0 =>
        Len(conns) + MaxConnecting - pending <= Cardinality(ConnAwake)

\* Who sleeps waits for a permit or for a connection, of a pool that is ready; without a
\* minimum remove_stale_sockets opens nothing.
Sleepers ==
    /\ asleep \subseteq At({"size", "conn"})
    /\ asleep # {} => state = "ready"
    /\ min_pool_size = 0 => sweep \in {"idle", "check", "trim", "room"}

WInv == Sleepers /\ PermitsAwaited /\ ConnectionsAwaited

\* A step that takes nothing from those on their way.
LEMMA PermitsUndisturbed ==
  ASSUME TypeOK, TypeOK', PermitsAwaited,
         requests' >= requests, SizeAwake \subseteq SizeAwake', size_cond' \subseteq size_cond
  PROVE  PermitsAwaited'
  <1>1. SizeAwake \in SUBSET Checkouts /\ SizeAwake' \in SUBSET Checkouts
    BY DEF SizeAwake, At
  <1>2. Cardinality(SizeAwake) <= Cardinality(SizeAwake')
        /\ Cardinality(SizeAwake) \in Nat /\ Cardinality(SizeAwake') \in Nat
    BY <1>1, Awakened
  <1>3. requests \in Nat /\ requests' \in Nat
    BY DEF TypeOK
  <1>. QED BY <1>2, <1>3, ConstantsAssumption DEF PermitsAwaited

LEMMA ConnectionsUndisturbed ==
  ASSUME TypeOK, TypeOK', ConnectionsAwaited, min_pool_size' = min_pool_size,
         Len(conns') <= Len(conns), pending' = pending, ConnAwake \subseteq ConnAwake',
         max_connecting_cond' \subseteq max_connecting_cond
  PROVE  ConnectionsAwaited'
  <1>1. ConnAwake \in SUBSET Checkouts /\ ConnAwake' \in SUBSET Checkouts
    BY DEF ConnAwake, At
  <1>2. Cardinality(ConnAwake) <= Cardinality(ConnAwake')
        /\ Cardinality(ConnAwake) \in Nat /\ Cardinality(ConnAwake') \in Nat
    BY <1>1, Awakened
  <1>3. Len(conns) \in Nat /\ Len(conns') \in Nat /\ pending \in Nat
    <2>1. conns \in Seq(0 .. MaxResets) /\ conns' \in Seq(0 .. MaxResets)
      BY DEF TypeOK
    <2>2. pending \in Nat
      BY ConstantsAssumption DEF TypeOK
    <2>. QED BY <2>1, <2>2
  <1>. QED BY <1>2, <1>3, ConstantsAssumption DEF ConnectionsAwaited

\* A step that gives one thing back and notifies one waiter.
LEMMA PermitNotified ==
  ASSUME TypeOK, TypeOK', PermitsAwaited,
         requests' = requests - 1, SizeAwake \subseteq SizeAwake',
         size_cond' = {} \/ \E w \in SizeAwake' : w \notin SizeAwake /\ w \in size_cond
  PROVE  PermitsAwaited'
  <1>. SUFFICES ASSUME size_cond' # {} PROVE PermitsAwaited'
    BY DEF PermitsAwaited
  <1>1. PICK w \in SizeAwake' : w \notin SizeAwake /\ w \in size_cond
    OBVIOUS
  <1>2. SizeAwake \in SUBSET Checkouts /\ SizeAwake' \in SUBSET Checkouts
    BY DEF SizeAwake, At
  <1>3. Cardinality(SizeAwake) + 1 <= Cardinality(SizeAwake')
        /\ Cardinality(SizeAwake) \in Nat /\ Cardinality(SizeAwake') \in Nat
    BY <1>1, <1>2, Awakened
  <1>4. requests \in Nat /\ requests' \in Nat
    BY DEF TypeOK
  <1>. QED BY <1>1, <1>3, <1>4, ConstantsAssumption DEF PermitsAwaited

LEMMA ConnectionNotified ==
  ASSUME TypeOK, TypeOK', ConnectionsAwaited, min_pool_size' = min_pool_size,
         Len(conns') - pending' = Len(conns) - pending + 1, ConnAwake \subseteq ConnAwake',
         \/ max_connecting_cond' = {}
         \/ \E w \in ConnAwake' : w \notin ConnAwake /\ w \in max_connecting_cond
  PROVE  ConnectionsAwaited'
  <1>. SUFFICES ASSUME max_connecting_cond' # {} PROVE ConnectionsAwaited'
    BY DEF ConnectionsAwaited
  <1>1. PICK w \in ConnAwake' : w \notin ConnAwake /\ w \in max_connecting_cond
    OBVIOUS
  <1>2. ConnAwake \in SUBSET Checkouts /\ ConnAwake' \in SUBSET Checkouts
    BY DEF ConnAwake, At
  <1>3. Cardinality(ConnAwake) + 1 <= Cardinality(ConnAwake')
        /\ Cardinality(ConnAwake) \in Nat /\ Cardinality(ConnAwake') \in Nat
    BY <1>1, <1>2, Awakened
  <1>4. Len(conns) \in Nat /\ Len(conns') \in Nat /\ pending \in Nat /\ pending' \in Nat
    <2>1. conns \in Seq(0 .. MaxResets) /\ conns' \in Seq(0 .. MaxResets)
      BY DEF TypeOK
    <2>2. pending \in Nat /\ pending' \in Nat
      BY ConstantsAssumption DEF TypeOK
    <2>. QED BY <2>1, <2>2
  <1>5. max_connecting_cond # {}
    BY <1>1
  <1>. MaxConnecting \in Nat
    BY ConstantsAssumption
  <1>6. Len(conns') + MaxConnecting - pending' = Len(conns) + MaxConnecting - pending + 1
    BY <1>4
  <1>7. min_pool_size = 0 => Len(conns) + MaxConnecting - pending <= Cardinality(ConnAwake)
    BY <1>5 DEF ConnectionsAwaited
  <1>8. min_pool_size = 0 => Len(conns') + MaxConnecting - pending' <= Cardinality(ConnAwake')
    BY <1>3, <1>4, <1>6, <1>7, SMTT(20)
  <1>. QED BY <1>8 DEF ConnectionsAwaited

LEMMA StepKeepsWInv == IInv /\ IInv' /\ WInv /\ [Next]_vars => WInv'
  <1>. SUFFICES ASSUME IInv, IInv', WInv, [Next]_vars PROVE WInv'
    OBVIOUS
  <1>. TypeOK /\ TypeOK'
    BY TypeHolds, PTL
  <1>. USE DEF WInv, pool, counters, threads, sweeper
  <1>1. ASSUME NEW t \in Checkouts, Enter(t) PROVE WInv'
    <2>1. Sleepers'
      BY <1>1 DEF TypeOK, Sleepers, size_cond, max_connecting_cond, At, Enter, Goto
    <2>2. PermitsAwaited'
      <3>1. requests' >= requests /\ SizeAwake \subseteq SizeAwake' /\ size_cond' \subseteq size_cond
        BY <1>1 DEF TypeOK, Sleepers, SizeAwake, size_cond, max_connecting_cond, At, Enter,
           Goto
      <3>. QED BY <3>1, PermitsUndisturbed
    <2>3. ConnectionsAwaited'
      <3>1. /\ min_pool_size' = min_pool_size /\ Len(conns') <= Len(conns) /\ pending' = pending
            /\ ConnAwake \subseteq ConnAwake' /\ max_connecting_cond' \subseteq max_connecting_cond
        BY <1>1 DEF TypeOK, Sleepers, ConnAwake, size_cond, max_connecting_cond, At, Enter,
           Goto
      <3>. QED BY <3>1, ConnectionsUndisturbed
    <2>. QED BY <2>1, <2>2, <2>3
  <1>2. ASSUME NEW t \in Checkouts, TakePermit(t) PROVE WInv'
    <2>1. Sleepers'
      <3>1. \/ asleep' = asleep /\ \E place : pc' = [pc EXCEPT ![t] = place]
            \/ asleep' = asleep \cup {t} /\ pc' = pc /\ state = "ready"
        BY <1>2 DEF TakePermit, Goto
      <3>2. asleep' \subseteq At({"size", "conn"})'
        <4>1. pc \in [Checkouts -> Places] /\ asleep \subseteq Checkouts
          BY DEF TypeOK
        <4>2. CASE asleep' = asleep /\ \E place : pc' = [pc EXCEPT ![t] = place]
          <5>1. t \notin asleep
            BY <1>2 DEF TakePermit, Awake
          <5>2. \A u \in asleep : pc'[u] = pc[u]
            BY <4>1, <4>2, <5>1
          <5>. QED BY <4>1, <4>2, <5>2 DEF Sleepers, At
        <4>3. CASE asleep' = asleep \cup {t} /\ pc' = pc
          <5>1. pc[t] = "size"
            BY <1>2 DEF TakePermit
          <5>. QED BY <4>1, <4>3, <5>1 DEF Sleepers, At
        <4>. QED BY <3>1, <4>2, <4>3
      <3>3. asleep' # {} => state' = "ready"
        BY <1>2, <3>1 DEF TakePermit, Sleepers
      <3>4. sweep' = sweep /\ min_pool_size' = min_pool_size
        BY <1>2 DEF TakePermit
      <3>. QED BY <3>2, <3>3, <3>4 DEF Sleepers
    <2>2. PermitsAwaited'
      <3>1. SizeAwake \in SUBSET Checkouts /\ SizeAwake' \in SUBSET Checkouts
        BY DEF SizeAwake, At
      <3>2. CASE state # "ready"
        BY <1>2, <3>2 DEF TakePermit, Sleepers, PermitsAwaited, size_cond
      <3>3. CASE state = "ready" /\ requests < MaxPoolSize
        <4>1. /\ requests' = requests + 1 /\ asleep' = asleep
              /\ pc' = [pc EXCEPT ![t] = "permit"]
          BY <1>2, <3>3, ConstantsAssumption DEF TakePermit, Goto, TypeOK
        <4>3. SizeAwake \ {t} \subseteq SizeAwake' /\ size_cond' \subseteq size_cond
          BY <4>1 DEF SizeAwake, size_cond, At, TypeOK
        <4>2. /\ Cardinality(SizeAwake) - 1 <= Cardinality(SizeAwake')
              /\ Cardinality(SizeAwake) \in Nat /\ Cardinality(SizeAwake') \in Nat
          BY <3>1, <4>3, Awakened
        <4>4. requests \in Nat
          BY ConstantsAssumption DEF TypeOK
        <4>5. size_cond # {} => MaxPoolSize - requests <= Cardinality(SizeAwake)
          BY DEF PermitsAwaited
        <4>6. size_cond' # {} => size_cond # {}
          BY <4>3
        <4>7. size_cond' # {} => MaxPoolSize - requests' <= Cardinality(SizeAwake')
          BY <4>1, <4>2, <4>4, <4>5, <4>6, ConstantsAssumption
        <4>. QED BY <4>7 DEF PermitsAwaited
      <3>4. CASE state = "ready" /\ requests >= MaxPoolSize
        <4>1. Cardinality(SizeAwake') \in Nat
          BY <3>1, Awakened
        <4>2. requests' = requests
          BY <1>2, <3>4, ConstantsAssumption DEF TakePermit, TypeOK
        <4>. QED BY <4>1, <4>2, <3>4, ConstantsAssumption DEF PermitsAwaited, TypeOK
      <3>. QED BY <3>2, <3>3, <3>4, ConstantsAssumption DEF TypeOK
    <2>3. ConnectionsAwaited'
      <3>1. /\ min_pool_size' = min_pool_size /\ Len(conns') <= Len(conns) /\ pending' = pending
            /\ ConnAwake \subseteq ConnAwake' /\ max_connecting_cond' \subseteq max_connecting_cond
        BY <1>2 DEF TypeOK, Sleepers, ConnAwake, size_cond, max_connecting_cond, At,
           TakePermit, Goto
      <3>. QED BY <3>1, ConnectionsUndisturbed
    <2>. QED BY <2>1, <2>2, <2>3
  <1>3. ASSUME NEW t \in Checkouts, PermitTimeout(t) PROVE WInv'
    <2>1. Sleepers'
      BY <1>3 DEF TypeOK, Sleepers, size_cond, max_connecting_cond, At, PermitTimeout,
         TimeOut, Goto
    <2>2. PermitsAwaited'
      <3>1. SizeAwake \in SUBSET Checkouts /\ SizeAwake' \in SUBSET Checkouts
        BY DEF SizeAwake, At
      <3>2. CASE size_cond' # {} /\ requests < MaxPoolSize
        <4>1. PICK w \in size_cond \ {t} : asleep' = asleep \ {t, w}
          BY <1>3, <3>2 DEF PermitTimeout, TimeOut, Goto, size_cond, TypeOK
        <4>2. w \notin SizeAwake /\ w \in SizeAwake' /\ SizeAwake \ {t} \subseteq SizeAwake'
          BY <1>3, <4>1 DEF PermitTimeout, TimeOut, Goto, size_cond, SizeAwake, At, TypeOK
        <4>3. Cardinality(SizeAwake) <= Cardinality(SizeAwake')
          BY <3>1, <4>2, Awakened
        <4>4. size_cond # {}
          BY <4>1
        <4>5. requests' = requests /\ requests \in Nat
          BY <1>3 DEF PermitTimeout, TimeOut, TypeOK
        <4>6. Cardinality(SizeAwake) \in Nat /\ Cardinality(SizeAwake') \in Nat
          BY <3>1, Awakened
        <4>7. MaxPoolSize - requests <= Cardinality(SizeAwake)
          BY <4>4 DEF PermitsAwaited
        <4>8. MaxPoolSize - requests' <= Cardinality(SizeAwake')
          BY <4>3, <4>5, <4>6, <4>7, ConstantsAssumption
        <4>. QED BY <4>8 DEF PermitsAwaited
      <3>3. CASE ~ (requests < MaxPoolSize)
        <4>1. Cardinality(SizeAwake') \in Nat
          BY <3>1, Awakened
        <4>. QED BY <4>1, <3>3, <1>3, ConstantsAssumption DEF PermitsAwaited, PermitTimeout, TimeOut, TypeOK
      <3>. QED BY <3>2, <3>3 DEF PermitsAwaited
    <2>3. ConnectionsAwaited'
      <3>1. /\ min_pool_size' = min_pool_size /\ Len(conns') <= Len(conns) /\ pending' = pending
            /\ ConnAwake \subseteq ConnAwake' /\ max_connecting_cond' \subseteq max_connecting_cond
        BY <1>3 DEF TypeOK, Sleepers, ConnAwake, size_cond, max_connecting_cond, At,
           PermitTimeout, TimeOut, Goto
      <3>. QED BY <3>1, ConnectionsUndisturbed
    <2>. QED BY <2>1, <2>2, <2>3
  <1>4. ASSUME NEW t \in Checkouts, CountActive(t) PROVE WInv'
    <2>1. Sleepers'
      BY <1>4 DEF TypeOK, Sleepers, size_cond, max_connecting_cond, At, CountActive, Goto
    <2>2. PermitsAwaited'
      <3>1. requests' >= requests /\ SizeAwake \subseteq SizeAwake' /\ size_cond' \subseteq size_cond
        BY <1>4 DEF TypeOK, Sleepers, SizeAwake, size_cond, max_connecting_cond, At,
           CountActive, Goto
      <3>. QED BY <3>1, PermitsUndisturbed
    <2>3. ConnectionsAwaited'
      <3>1. /\ min_pool_size' = min_pool_size /\ Len(conns') <= Len(conns) /\ pending' = pending
            /\ ConnAwake \subseteq ConnAwake' /\ max_connecting_cond' \subseteq max_connecting_cond
        BY <1>4 DEF TypeOK, Sleepers, ConnAwake, size_cond, max_connecting_cond, At,
           CountActive, Goto
      <3>. QED BY <3>1, ConnectionsUndisturbed
    <2>. QED BY <2>1, <2>2, <2>3
  <1>5. ASSUME NEW t \in Checkouts, TakeConnection(t) PROVE WInv'
    <2>1. Sleepers'
      <3>1. \/ asleep' = asleep /\ \E place : pc' = [pc EXCEPT ![t] = place]
            \/ asleep' = asleep \cup {t} /\ pc' = pc /\ state = "ready"
        BY <1>5 DEF TakeConnection, Goto
      <3>2. asleep' \subseteq At({"size", "conn"})'
        <4>1. pc \in [Checkouts -> Places] /\ asleep \subseteq Checkouts
          BY DEF TypeOK
        <4>2. CASE asleep' = asleep /\ \E place : pc' = [pc EXCEPT ![t] = place]
          <5>1. t \notin asleep
            BY <1>5 DEF TakeConnection, Awake
          <5>2. \A u \in asleep : pc'[u] = pc[u]
            BY <4>1, <4>2, <5>1
          <5>. QED BY <4>1, <4>2, <5>2 DEF Sleepers, At
        <4>3. CASE asleep' = asleep \cup {t} /\ pc' = pc
          <5>1. pc[t] = "conn"
            BY <1>5 DEF TakeConnection
          <5>. QED BY <4>1, <4>3, <5>1 DEF Sleepers, At
        <4>. QED BY <3>1, <4>2, <4>3
      <3>3. asleep' # {} => state' = "ready"
        BY <1>5, <3>1 DEF TakeConnection, Sleepers
      <3>4. sweep' = sweep /\ min_pool_size' = min_pool_size
        BY <1>5 DEF TakeConnection
      <3>. QED BY <3>2, <3>3, <3>4 DEF Sleepers
    <2>2. PermitsAwaited'
      <3>1. requests' >= requests /\ SizeAwake \subseteq SizeAwake' /\ size_cond' \subseteq size_cond
        BY <1>5 DEF TypeOK, Sleepers, SizeAwake, size_cond, max_connecting_cond, At,
           TakeConnection, Goto
      <3>. QED BY <3>1, PermitsUndisturbed
    <2>3. ConnectionsAwaited'
      <3>1. ConnAwake \in SUBSET Checkouts /\ ConnAwake' \in SUBSET Checkouts
        BY DEF ConnAwake, At
      <3>2. CASE state # "ready"
        BY <1>5, <3>2 DEF TakeConnection, Sleepers, ConnectionsAwaited, max_connecting_cond
      <3>3. CASE state = "ready" /\ (conns # <<>> \/ pending < MaxConnecting)
        <4>1. /\ min_pool_size' = min_pool_size /\ ConnAwake \ {t} \subseteq ConnAwake'
              /\ max_connecting_cond' \subseteq max_connecting_cond
          BY <1>5, <3>3, ConstantsAssumption
             DEF TakeConnection, Goto, ConnAwake, max_connecting_cond, At, TypeOK
        <4>2. \/ conns # <<>> /\ conns' = Tail(conns) /\ pending' = pending
              \/ conns' = conns /\ pending' = pending + 1
          BY <1>5, <3>3, ConstantsAssumption DEF TakeConnection, TypeOK
        <4>3. conns # <<>> => Len(Tail(conns)) = Len(conns) - 1
          BY PopLeft DEF IInv
        <4>4. /\ Cardinality(ConnAwake) - 1 <= Cardinality(ConnAwake')
              /\ Cardinality(ConnAwake) \in Nat /\ Cardinality(ConnAwake') \in Nat
          BY <3>1, <4>1, Awakened
        <4>5. Len(conns) \in Nat /\ pending \in Nat
          BY DEF TypeOK
        <4>. QED BY <4>1, <4>2, <4>3, <4>4, <4>5, ConstantsAssumption DEF ConnectionsAwaited
      <3>4. CASE state = "ready" /\ conns = <<>> /\ pending >= MaxConnecting
        <4>1. Cardinality(ConnAwake') \in Nat
          BY <3>1, Awakened
        <4>2. conns' = <<>> /\ pending' = pending
          BY <1>5, <3>4, ConstantsAssumption DEF TakeConnection, TypeOK
        <4>. QED BY <4>1, <4>2, <3>4, ConstantsAssumption DEF ConnectionsAwaited, TypeOK
      <3>. QED BY <3>2, <3>3, <3>4, ConstantsAssumption DEF TypeOK
    <2>. QED BY <2>1, <2>2, <2>3
  <1>6. ASSUME NEW t \in Checkouts, ConnectionTimeout(t) PROVE WInv'
    <2>1. Sleepers'
      BY <1>6 DEF TypeOK, Sleepers, size_cond, max_connecting_cond, At, ConnectionTimeout,
         TimeOut, Goto
    <2>2. PermitsAwaited'
      <3>1. requests' >= requests /\ SizeAwake \subseteq SizeAwake' /\ size_cond' \subseteq size_cond
        BY <1>6 DEF TypeOK, Sleepers, SizeAwake, size_cond, max_connecting_cond, At,
           ConnectionTimeout, TimeOut, Goto
      <3>. QED BY <3>1, PermitsUndisturbed
    <2>3. ConnectionsAwaited'
      <3>1. ConnAwake \in SUBSET Checkouts /\ ConnAwake' \in SUBSET Checkouts
        BY DEF ConnAwake, At
      <3>2. CASE max_connecting_cond' # {} /\ (conns # <<>> \/ pending < MaxConnecting)
        <4>1. PICK w \in max_connecting_cond \ {t} : asleep' = asleep \ {t, w}
          BY <1>6, <3>2 DEF ConnectionTimeout, TimeOut, Goto, max_connecting_cond, TypeOK
        <4>2. w \notin ConnAwake /\ w \in ConnAwake' /\ ConnAwake \ {t} \subseteq ConnAwake'
          BY <1>6, <4>1 DEF ConnectionTimeout, TimeOut, Goto, max_connecting_cond, ConnAwake, At, TypeOK
        <4>3. Cardinality(ConnAwake) <= Cardinality(ConnAwake')
          BY <3>1, <4>2, Awakened
        <4>4. max_connecting_cond # {}
          BY <4>1
        <4>5. /\ conns' = conns /\ pending' = pending /\ min_pool_size' = min_pool_size
              /\ Len(conns) \in Nat /\ pending \in Nat
          BY <1>6 DEF ConnectionTimeout, TimeOut, TypeOK
        <4>6. Cardinality(ConnAwake) \in Nat /\ Cardinality(ConnAwake') \in Nat
          BY <3>1, Awakened
        <4>7. min_pool_size = 0
                => Len(conns) + MaxConnecting - pending <= Cardinality(ConnAwake)
          BY <4>4 DEF ConnectionsAwaited
        <4>8. min_pool_size' = 0
                => Len(conns') + MaxConnecting - pending' <= Cardinality(ConnAwake')
          BY <4>3, <4>5, <4>6, <4>7, ConstantsAssumption
        <4>. QED BY <4>8 DEF ConnectionsAwaited
      <3>3. CASE ~ (conns # <<>> \/ pending < MaxConnecting)
        <4>1. Cardinality(ConnAwake') \in Nat
          BY <3>1, Awakened
        <4>. QED BY <4>1, <3>3, <1>6, ConstantsAssumption DEF ConnectionsAwaited, ConnectionTimeout, TimeOut, TypeOK
      <3>. QED BY <3>2, <3>3 DEF ConnectionsAwaited
    <2>. QED BY <2>1, <2>2, <2>3
  <1>7. ASSUME NEW t \in Checkouts, CheckPerished(t) PROVE WInv'
    <2>1. Sleepers'
      BY <1>7 DEF TypeOK, Sleepers, size_cond, max_connecting_cond, At, CheckPerished, Goto
    <2>2. PermitsAwaited'
      <3>1. requests' >= requests /\ SizeAwake \subseteq SizeAwake' /\ size_cond' \subseteq size_cond
        BY <1>7 DEF TypeOK, Sleepers, SizeAwake, size_cond, max_connecting_cond, At,
           CheckPerished, Goto
      <3>. QED BY <3>1, PermitsUndisturbed
    <2>3. ConnectionsAwaited'
      <3>1. /\ min_pool_size' = min_pool_size /\ Len(conns') <= Len(conns) /\ pending' = pending
            /\ ConnAwake \subseteq ConnAwake' /\ max_connecting_cond' \subseteq max_connecting_cond
        BY <1>7 DEF TypeOK, Sleepers, ConnAwake, size_cond, max_connecting_cond, At,
           CheckPerished, Goto
      <3>. QED BY <3>1, ConnectionsUndisturbed
    <2>. QED BY <2>1, <2>2, <2>3
  <1>8. ASSUME NEW t \in Checkouts, OpenSocket(t) PROVE WInv'
    <2>1. Sleepers'
      BY <1>8 DEF TypeOK, Sleepers, size_cond, max_connecting_cond, At, OpenSocket, Notify,
         Goto
    <2>2. PermitsAwaited'
      <3>1. requests' >= requests /\ SizeAwake \subseteq SizeAwake' /\ size_cond' \subseteq size_cond
        BY <1>8 DEF TypeOK, Sleepers, SizeAwake, size_cond, max_connecting_cond, At,
           OpenSocket, Notify, Goto
      <3>. QED BY <3>1, PermitsUndisturbed
    <2>3. ConnectionsAwaited'
      <3>1. CASE pc'[t] = "handshake"
        <4>1. /\ min_pool_size' = min_pool_size /\ Len(conns') <= Len(conns)
              /\ pending' = pending /\ ConnAwake \subseteq ConnAwake'
              /\ max_connecting_cond' \subseteq max_connecting_cond
          BY <1>8, <3>1 DEF TypeOK, ConnAwake, max_connecting_cond, At, OpenSocket, Goto
        <4>. QED BY <4>1, ConnectionsUndisturbed
      <3>2. CASE pc'[t] = "fail"
        <4>1. /\ conns' = conns /\ pending' = pending - 1
              /\ min_pool_size' = min_pool_size /\ ConnAwake \subseteq ConnAwake'
              /\ \/ max_connecting_cond' = {}
                 \/ \E w \in ConnAwake' : w \notin ConnAwake /\ w \in max_connecting_cond
          BY <1>8, <3>2
             DEF TypeOK, Sleepers, ConnAwake, max_connecting_cond, At, OpenSocket, Goto, Notify
        <4>2. Len(conns') - pending' = Len(conns) - pending + 1
          BY <4>1 DEF TypeOK
        <4>. QED BY <4>1, <4>2, ConnectionNotified
      <3>. QED BY <1>8, <3>1, <3>2 DEF OpenSocket, Goto, TypeOK
    <2>. QED BY <2>1, <2>2, <2>3
  <1>9. ASSUME NEW t \in Checkouts, Handshake(t) PROVE WInv'
    <2>1. Sleepers'
      BY <1>9 DEF TypeOK, Sleepers, size_cond, max_connecting_cond, At, Handshake, Notify,
         Goto
    <2>2. PermitsAwaited'
      <3>1. requests' >= requests /\ SizeAwake \subseteq SizeAwake' /\ size_cond' \subseteq size_cond
        BY <1>9 DEF TypeOK, Sleepers, SizeAwake, size_cond, max_connecting_cond, At,
           Handshake, Notify, Goto
      <3>. QED BY <3>1, PermitsUndisturbed
    <2>3. ConnectionsAwaited'
      <3>1. /\ conns' = conns /\ pending' = pending - 1
            /\ min_pool_size' = min_pool_size /\ ConnAwake \subseteq ConnAwake'
            /\ \/ max_connecting_cond' = {}
               \/ \E w \in ConnAwake' : w \notin ConnAwake /\ w \in max_connecting_cond
        BY <1>9 DEF TypeOK, Sleepers, ConnAwake, max_connecting_cond, At, Handshake, Goto,
              Notify
      <3>2. Len(conns') - pending' = Len(conns) - pending + 1
        BY <3>1 DEF TypeOK
      <3>. QED BY <3>1, <3>2, ConnectionNotified
    <2>. QED BY <2>1, <2>2, <2>3
  <1>10. ASSUME NEW t \in Checkouts, GiveUp(t) PROVE WInv'
    <2>1. Sleepers'
      BY <1>10 DEF TypeOK, Sleepers, size_cond, max_connecting_cond, At, GiveUp, Notify,
         Goto
    <2>2. PermitsAwaited'
      <3>1. /\ requests' = requests - 1 /\ SizeAwake \subseteq SizeAwake'
            /\ size_cond' = {} \/ \E w \in SizeAwake' : w \notin SizeAwake /\ w \in size_cond
        BY <1>10 DEF TypeOK, Sleepers, SizeAwake, size_cond, At, GiveUp, Notify, Goto
      <3>. QED BY <3>1, PermitNotified
    <2>3. ConnectionsAwaited'
      <3>1. /\ min_pool_size' = min_pool_size /\ Len(conns') <= Len(conns) /\ pending' = pending
            /\ ConnAwake \subseteq ConnAwake' /\ max_connecting_cond' \subseteq max_connecting_cond
        BY <1>10 DEF TypeOK, Sleepers, ConnAwake, size_cond, max_connecting_cond, At,
           GiveUp, Notify, Goto
      <3>. QED BY <3>1, ConnectionsUndisturbed
    <2>. QED BY <2>1, <2>2, <2>3
  <1>11. ASSUME NEW t \in Checkouts, Checkin(t) PROVE WInv'
    <2>1. Sleepers'
      BY <1>11 DEF TypeOK, Sleepers, size_cond, max_connecting_cond, At, Checkin, Goto
    <2>2. PermitsAwaited'
      <3>1. requests' >= requests /\ SizeAwake \subseteq SizeAwake' /\ size_cond' \subseteq size_cond
        BY <1>11 DEF TypeOK, Sleepers, SizeAwake, size_cond, max_connecting_cond, At,
           Checkin, Goto
      <3>. QED BY <3>1, PermitsUndisturbed
    <2>3. ConnectionsAwaited'
      <3>1. /\ min_pool_size' = min_pool_size /\ Len(conns') <= Len(conns) /\ pending' = pending
            /\ ConnAwake \subseteq ConnAwake' /\ max_connecting_cond' \subseteq max_connecting_cond
        BY <1>11 DEF TypeOK, Sleepers, ConnAwake, size_cond, max_connecting_cond, At,
           Checkin, Goto
      <3>. QED BY <3>1, ConnectionsUndisturbed
    <2>. QED BY <2>1, <2>2, <2>3
  <1>12. ASSUME NEW t \in Checkouts, PutBack(t) PROVE WInv'
    <2>1. Sleepers'
      BY <1>12 DEF TypeOK, Sleepers, size_cond, max_connecting_cond, At, PutBack, Notify,
         Goto
    <2>2. PermitsAwaited'
      <3>1. requests' >= requests /\ SizeAwake \subseteq SizeAwake' /\ size_cond' \subseteq size_cond
        BY <1>12 DEF TypeOK, Sleepers, SizeAwake, size_cond, max_connecting_cond, At,
           PutBack, Notify, Goto
      <3>. QED BY <3>1, PermitsUndisturbed
    <2>3. ConnectionsAwaited'
      <3>1. CASE conn[t] # generation
        <4>1. /\ min_pool_size' = min_pool_size /\ Len(conns') <= Len(conns)
              /\ pending' = pending /\ ConnAwake \subseteq ConnAwake'
              /\ max_connecting_cond' \subseteq max_connecting_cond
          BY <1>12, <3>1 DEF TypeOK, ConnAwake, max_connecting_cond, At, PutBack, Goto
        <4>. QED BY <4>1, ConnectionsUndisturbed
      <3>2. CASE conn[t] = generation
        <4>1. /\ conns' = appendleft(generation) /\ pending' = pending
              /\ min_pool_size' = min_pool_size /\ ConnAwake \subseteq ConnAwake'
              /\ \/ max_connecting_cond' = {}
                 \/ \E w \in ConnAwake' : w \notin ConnAwake /\ w \in max_connecting_cond
          BY <1>12, <3>2
             DEF TypeOK, Sleepers, ConnAwake, max_connecting_cond, At, PutBack, Goto, Notify
        <4>2. Len(conns') - pending' = Len(conns) - pending + 1
          BY <4>1, AppendLeft DEF TypeOK, IInv
        <4>. QED BY <4>1, <4>2, ConnectionNotified
      <3>. QED BY <3>1, <3>2
    <2>. QED BY <2>1, <2>2, <2>3
  <1>13. ASSUME NEW t \in Checkouts, Release(t) PROVE WInv'
    <2>1. Sleepers'
      BY <1>13 DEF TypeOK, Sleepers, size_cond, max_connecting_cond, At, Release, Notify,
         Goto
    <2>2. PermitsAwaited'
      <3>1. /\ requests' = requests - 1 /\ SizeAwake \subseteq SizeAwake'
            /\ size_cond' = {} \/ \E w \in SizeAwake' : w \notin SizeAwake /\ w \in size_cond
        BY <1>13 DEF TypeOK, Sleepers, SizeAwake, size_cond, At, Release, Notify, Goto
      <3>. QED BY <3>1, PermitNotified
    <2>3. ConnectionsAwaited'
      <3>1. /\ min_pool_size' = min_pool_size /\ Len(conns') <= Len(conns) /\ pending' = pending
            /\ ConnAwake \subseteq ConnAwake' /\ max_connecting_cond' \subseteq max_connecting_cond
        BY <1>13 DEF TypeOK, Sleepers, ConnAwake, size_cond, max_connecting_cond, At,
           Release, Notify, Goto
      <3>. QED BY <3>1, ConnectionsUndisturbed
    <2>. QED BY <2>1, <2>2, <2>3
  <1>14. ASSUME NEW t \in Checkouts, Expire(t) PROVE WInv'
    <2>1. Sleepers'
      BY <1>14 DEF TypeOK, Sleepers, size_cond, max_connecting_cond, At, Expire
    <2>2. PermitsAwaited'
      <3>1. requests' >= requests /\ SizeAwake \subseteq SizeAwake' /\ size_cond' \subseteq size_cond
        BY <1>14 DEF TypeOK, Sleepers, SizeAwake, size_cond, max_connecting_cond, At, Expire
      <3>. QED BY <3>1, PermitsUndisturbed
    <2>3. ConnectionsAwaited'
      <3>1. /\ min_pool_size' = min_pool_size /\ Len(conns') <= Len(conns) /\ pending' = pending
            /\ ConnAwake \subseteq ConnAwake' /\ max_connecting_cond' \subseteq max_connecting_cond
        BY <1>14 DEF TypeOK, Sleepers, ConnAwake, size_cond, max_connecting_cond, At, Expire
      <3>. QED BY <3>1, ConnectionsUndisturbed
    <2>. QED BY <2>1, <2>2, <2>3
  <1>15. ASSUME NEW t \in Checkouts, Break(t) PROVE WInv'
    <2>1. Sleepers'
      BY <1>15 DEF TypeOK, Sleepers, size_cond, max_connecting_cond, At, Break
    <2>2. PermitsAwaited'
      <3>1. requests' >= requests /\ SizeAwake \subseteq SizeAwake' /\ size_cond' \subseteq size_cond
        BY <1>15 DEF TypeOK, Sleepers, SizeAwake, size_cond, max_connecting_cond, At, Break
      <3>. QED BY <3>1, PermitsUndisturbed
    <2>3. ConnectionsAwaited'
      <3>1. /\ min_pool_size' = min_pool_size /\ Len(conns') <= Len(conns) /\ pending' = pending
            /\ ConnAwake \subseteq ConnAwake' /\ max_connecting_cond' \subseteq max_connecting_cond
        BY <1>15 DEF TypeOK, Sleepers, ConnAwake, size_cond, max_connecting_cond, At, Break
      <3>. QED BY <3>1, ConnectionsUndisturbed
    <2>. QED BY <2>1, <2>2, <2>3
  <1>16. ASSUME Ready PROVE WInv'
    <2>1. Sleepers'
      BY <1>16 DEF TypeOK, Sleepers, size_cond, max_connecting_cond, At, Ready
    <2>2. PermitsAwaited'
      <3>1. requests' >= requests /\ SizeAwake \subseteq SizeAwake' /\ size_cond' \subseteq size_cond
        BY <1>16 DEF TypeOK, Sleepers, SizeAwake, size_cond, max_connecting_cond, At, Ready
      <3>. QED BY <3>1, PermitsUndisturbed
    <2>3. ConnectionsAwaited'
      <3>1. /\ min_pool_size' = min_pool_size /\ Len(conns') <= Len(conns) /\ pending' = pending
            /\ ConnAwake \subseteq ConnAwake' /\ max_connecting_cond' \subseteq max_connecting_cond
        BY <1>16 DEF TypeOK, Sleepers, ConnAwake, size_cond, max_connecting_cond, At, Ready
      <3>. QED BY <3>1, ConnectionsUndisturbed
    <2>. QED BY <2>1, <2>2, <2>3
  <1>17. ASSUME NEW to \in {"paused", "closed"}, Reset(to) PROVE WInv'
    <2>1. Sleepers'
      BY <1>17 DEF TypeOK, Sleepers, size_cond, max_connecting_cond, At, Reset
    <2>2. PermitsAwaited'
      BY <1>17 DEF PermitsAwaited, size_cond, Reset
    <2>3. ConnectionsAwaited'
      BY <1>17 DEF ConnectionsAwaited, max_connecting_cond, Reset
    <2>. QED BY <2>1, <2>2, <2>3
  <1>18. ASSUME StartSweep PROVE WInv'
    <2>1. Sleepers'
      BY <1>18 DEF TypeOK, Sleepers, size_cond, max_connecting_cond, At, StartSweep, SweepTo
    <2>2. PermitsAwaited'
      <3>1. requests' >= requests /\ SizeAwake \subseteq SizeAwake' /\ size_cond' \subseteq size_cond
        BY <1>18 DEF TypeOK, Sleepers, SizeAwake, size_cond, max_connecting_cond, At,
           StartSweep, SweepTo
      <3>. QED BY <3>1, PermitsUndisturbed
    <2>3. ConnectionsAwaited'
      <3>1. /\ min_pool_size' = min_pool_size /\ Len(conns') <= Len(conns) /\ pending' = pending
            /\ ConnAwake \subseteq ConnAwake' /\ max_connecting_cond' \subseteq max_connecting_cond
        BY <1>18 DEF TypeOK, Sleepers, ConnAwake, size_cond, max_connecting_cond, At,
           StartSweep, SweepTo
      <3>. QED BY <3>1, ConnectionsUndisturbed
    <2>. QED BY <2>1, <2>2, <2>3
  <1>19. ASSUME SweepCheck PROVE WInv'
    <2>1. Sleepers'
      BY <1>19 DEF TypeOK, Sleepers, size_cond, max_connecting_cond, At, SweepCheck, SweepTo
    <2>2. PermitsAwaited'
      <3>1. requests' >= requests /\ SizeAwake \subseteq SizeAwake' /\ size_cond' \subseteq size_cond
        BY <1>19 DEF TypeOK, Sleepers, SizeAwake, size_cond, max_connecting_cond, At,
           SweepCheck, SweepTo
      <3>. QED BY <3>1, PermitsUndisturbed
    <2>3. ConnectionsAwaited'
      <3>1. /\ min_pool_size' = min_pool_size /\ Len(conns') <= Len(conns) /\ pending' = pending
            /\ ConnAwake \subseteq ConnAwake' /\ max_connecting_cond' \subseteq max_connecting_cond
        BY <1>19 DEF TypeOK, Sleepers, ConnAwake, size_cond, max_connecting_cond, At,
           SweepCheck, SweepTo
      <3>. QED BY <3>1, ConnectionsUndisturbed
    <2>. QED BY <2>1, <2>2, <2>3
  <1>20. ASSUME SweepTrim PROVE WInv'
    <2>1. Sleepers'
      BY <1>20 DEF TypeOK, Sleepers, size_cond, max_connecting_cond, At, SweepTrim, SweepTo
    <2>2. PermitsAwaited'
      <3>1. requests' >= requests /\ SizeAwake \subseteq SizeAwake' /\ size_cond' \subseteq size_cond
        BY <1>20 DEF TypeOK, Sleepers, SizeAwake, size_cond, max_connecting_cond, At,
           SweepTrim, SweepTo
      <3>. QED BY <3>1, PermitsUndisturbed
    <2>3. ConnectionsAwaited'
      <3>1. /\ min_pool_size' = min_pool_size /\ Len(conns') <= Len(conns) /\ pending' = pending
            /\ ConnAwake \subseteq ConnAwake' /\ max_connecting_cond' \subseteq max_connecting_cond
        BY Trimmed, <1>20 DEF TypeOK, Sleepers, ConnAwake, size_cond, max_connecting_cond,
           At, SweepTrim, SweepTo
      <3>. QED BY <3>1, ConnectionsUndisturbed
    <2>. QED BY <2>1, <2>2, <2>3
  <1>21. ASSUME SweepRoom PROVE WInv'
    <2>1. Sleepers'
      BY <1>21 DEF TypeOK, Sleepers, size_cond, max_connecting_cond, At, SweepRoom, SweepTo
    <2>2. PermitsAwaited'
      <3>1. requests' >= requests /\ SizeAwake \subseteq SizeAwake' /\ size_cond' \subseteq size_cond
        BY <1>21 DEF TypeOK, Sleepers, SizeAwake, size_cond, max_connecting_cond, At,
           SweepRoom, SweepTo
      <3>. QED BY <3>1, PermitsUndisturbed
    <2>3. ConnectionsAwaited'
      <3>1. /\ min_pool_size' = min_pool_size /\ Len(conns') <= Len(conns) /\ pending' = pending
            /\ ConnAwake \subseteq ConnAwake' /\ max_connecting_cond' \subseteq max_connecting_cond
        BY <1>21 DEF TypeOK, Sleepers, ConnAwake, size_cond, max_connecting_cond, At,
           SweepRoom, SweepTo
      <3>. QED BY <3>1, ConnectionsUndisturbed
    <2>. QED BY <2>1, <2>2, <2>3
  <1>22. ASSUME SweepSlot PROVE WInv'
    <2>1. Sleepers'
      BY <1>22 DEF TypeOK, Sleepers, size_cond, max_connecting_cond, At, SweepSlot, SweepTo
    <2>2. PermitsAwaited'
      <3>1. requests' >= requests /\ SizeAwake \subseteq SizeAwake' /\ size_cond' \subseteq size_cond
        BY <1>22 DEF TypeOK, Sleepers, SizeAwake, size_cond, max_connecting_cond, At,
           SweepSlot, SweepTo
      <3>. QED BY <3>1, PermitsUndisturbed
    <2>3. ConnectionsAwaited'
      BY <1>22 DEF Sleepers, ConnectionsAwaited, SweepSlot, SweepTo
    <2>. QED BY <2>1, <2>2, <2>3
  <1>23. ASSUME SweepOpen PROVE WInv'
    <2>1. Sleepers'
      BY <1>23 DEF TypeOK, Sleepers, size_cond, max_connecting_cond, At, SweepOpen, SweepTo
    <2>2. PermitsAwaited'
      <3>1. requests' >= requests /\ SizeAwake \subseteq SizeAwake' /\ size_cond' \subseteq size_cond
        BY <1>23 DEF TypeOK, Sleepers, SizeAwake, size_cond, max_connecting_cond, At,
           SweepOpen, SweepTo
      <3>. QED BY <3>1, PermitsUndisturbed
    <2>3. ConnectionsAwaited'
      BY <1>23 DEF Sleepers, ConnectionsAwaited, SweepOpen, SweepTo
    <2>. QED BY <2>1, <2>2, <2>3
  <1>24. ASSUME SweepAdd PROVE WInv'
    <2>1. Sleepers'
      BY <1>24 DEF TypeOK, Sleepers, size_cond, max_connecting_cond, At, SweepAdd, SweepTo
    <2>2. PermitsAwaited'
      <3>1. requests' >= requests /\ SizeAwake \subseteq SizeAwake' /\ size_cond' \subseteq size_cond
        BY <1>24 DEF TypeOK, Sleepers, SizeAwake, size_cond, max_connecting_cond, At,
           SweepAdd, SweepTo
      <3>. QED BY <3>1, PermitsUndisturbed
    <2>3. ConnectionsAwaited'
      BY <1>24 DEF Sleepers, ConnectionsAwaited, SweepAdd, SweepTo
    <2>. QED BY <2>1, <2>2, <2>3
  <1>25. ASSUME SweepOpened PROVE WInv'
    <2>1. Sleepers'
      BY <1>25 DEF TypeOK, Sleepers, size_cond, max_connecting_cond, At, SweepOpened,
         Notify, SweepTo
    <2>2. PermitsAwaited'
      <3>1. requests' >= requests /\ SizeAwake \subseteq SizeAwake' /\ size_cond' \subseteq size_cond
        BY <1>25 DEF TypeOK, Sleepers, SizeAwake, size_cond, max_connecting_cond, At,
           SweepOpened, Notify, SweepTo
      <3>. QED BY <3>1, PermitsUndisturbed
    <2>3. ConnectionsAwaited'
      BY <1>25 DEF Sleepers, ConnectionsAwaited, SweepOpened, Notify, SweepTo
    <2>. QED BY <2>1, <2>2, <2>3
  <1>26. ASSUME SweepLeave PROVE WInv'
    <2>1. Sleepers'
      BY <1>26 DEF TypeOK, Sleepers, size_cond, max_connecting_cond, At, SweepLeave,
         Notify, SweepTo
    <2>2. PermitsAwaited'
      <3>1. /\ requests' = requests - 1 /\ SizeAwake \subseteq SizeAwake'
            /\ size_cond' = {} \/ \E w \in SizeAwake' : w \notin SizeAwake /\ w \in size_cond
        BY <1>26 DEF TypeOK, Sleepers, SizeAwake, size_cond, At, SweepLeave, Notify, SweepTo
      <3>. QED BY <3>1, PermitNotified
    <2>3. ConnectionsAwaited'
      BY <1>26 DEF Sleepers, ConnectionsAwaited, SweepLeave, Notify, SweepTo
    <2>. QED BY <2>1, <2>2, <2>3
  <1>27. CASE UNCHANGED vars
    BY <1>27 DEF vars, Sleepers, PermitsAwaited, ConnectionsAwaited, SizeAwake, ConnAwake,
       size_cond, max_connecting_cond, At
  <1>. QED
    BY <1>1, <1>2, <1>3, <1>4, <1>5, <1>6, <1>7, <1>8, <1>9,
       <1>10, <1>11, <1>12, <1>13, <1>14, <1>15, <1>16, <1>17, <1>18,
       <1>19, <1>20, <1>21, <1>22, <1>23, <1>24, <1>25, <1>26, <1>27
       DEF Next, Advance, Sweep, Topology

\* A permit or a connection that comes free wakes a thread that waits for it.
THEOREM WakeUpsAreNotLost == Spec => []NoLostWakeUp
  <1>1. Init => WInv
    BY DEF Init, WInv, Sleepers, PermitsAwaited, ConnectionsAwaited, size_cond,
           max_connecting_cond
  <1>2. WInv => NoLostWakeUp
    BY DEF WInv, Sleepers, PermitsAwaited, ConnectionsAwaited, SizeAwake, ConnAwake,
           NoLostWakeUp
  <1>. QED BY <1>1, <1>2, Invariance, StepKeepsWInv, PTL DEF Spec
=============================================================================
