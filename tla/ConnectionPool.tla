----------------------------- MODULE ConnectionPool -----------------------------
(***************************************************************************)
(* The pool of connections to one server (pymongo/pool.py), through which  *)
(* every storage call of the service and of the Lambda passes.  A checkout *)
(* waits first for a permit (maxPoolSize) and then for a connection that   *)
(* is idle or for the right to open one (maxConnecting).  Meanwhile the    *)
(* topology pauses, readies and closes the pool, and a thread of its own   *)
(* keeps minPoolSize connections open.                                     *)
(*                                                                         *)
(* A connection is known by the generation it was made in.  Each action is *)
(* one stretch of code under the pool's lock, or one without it.           *)
(***************************************************************************)
EXTENDS Integers, Sequences, FiniteSets

CONSTANTS
    Checkouts,      \* the operations that ask for a connection, once each
    MaxPoolSize,
    MaxConnecting,
    MinPoolSizes,   \* the values of minPoolSize to consider
    MaxResets,      \* a bound: the pool is reset or closed this many times
    None

ASSUME ConstantsAssumption ==
    /\ IsFiniteSet(Checkouts)
    /\ MaxPoolSize \in Nat \ {0}
    /\ MaxConnecting \in Nat \ {0}
    /\ MinPoolSizes \subseteq 0 .. MaxPoolSize
    /\ MaxResets \in Nat
    /\ None \notin Nat

VARIABLES
    state,            \* "paused", "ready" or "closed"
    generation,
    conns,            \* the idle connections; the head is the left of the deque
    requests,         \* permits given
    active_sockets,
    pending,          \* connections being opened
    operation_count,  \* by which _select_server compares servers
    min_pool_size,    \* never changes
    pc,               \* where each checkout is
    conn,             \* its connection
    broken,           \* the checkouts whose connection an error has closed
    asleep,           \* the checkouts in the waiters of a condition
    expired,          \* those whose wait has timed out
    sweep,            \* where remove_stale_sockets is
    reference,        \* its reference_generation
    made              \* the connection it has made

counters == <<requests, active_sockets, operation_count>>
pool     == <<state, generation, conns, pending>>
threads  == <<pc, conn, broken, asleep, expired>>
sweeper  == <<sweep, reference, made>>

vars == <<pool, counters, threads, sweeper, min_pool_size>>

Init ==
    /\ state = "paused"
    /\ generation = 0
    /\ conns = <<>>
    /\ requests = 0
    /\ active_sockets = 0
    /\ pending = 0
    /\ operation_count = 0
    /\ min_pool_size \in MinPoolSizes
    /\ pc = [t \in Checkouts |-> "new"]
    /\ conn = [t \in Checkouts |-> None]
    /\ broken = {}
    /\ asleep = {}
    /\ expired = {}
    /\ sweep = "idle"
    /\ reference = 0
    /\ made = None

\* conns is a stack: connections come from and go back to the left.
appendleft(c) == <<c>> \o conns

Goto(t, place) == pc' = [pc EXCEPT ![t] = place]

-----------------------------------------------------------------------------
(* The two conditions.  Both share the lock, and a checkout waits on one of    *)
(* them at a time.                                                             *)

size_cond           == {t \in asleep : pc[t] = "size"}
max_connecting_cond == {t \in asleep : pc[t] = "conn"}

\* Condition.notify takes a waiter off the queue, one that has timed out too if it has
\* not yet been able to take the lock again.
Notify(waiters) ==
    IF waiters = {}
    THEN UNCHANGED asleep
    ELSE \E w \in waiters : asleep' = asleep \ {w}

\* A thread that was not waiting, or was notified in time.
Awake(t) == t \notin asleep \cup expired

Expire(t) ==
    /\ t \in asleep
    /\ expired' = expired \cup {t}
    /\ UNCHANGED <<pool, counters, pc, conn, broken, asleep, sweeper, min_pool_size>>

\* A wait that has timed out leaves the queue and hands a notification on, because it
\* may have used one up.
TimeOut(t, waiters, available, place) ==
    /\ t \in expired
    /\ expired' = expired \ {t}
    /\ IF available /\ waiters \ {t} # {}
       THEN \E w \in waiters \ {t} : asleep' = asleep \ {t, w}
       ELSE asleep' = asleep \ {t}
    /\ Goto(t, place)
    /\ UNCHANGED <<pool, counters, conn, broken, sweeper, min_pool_size>>

-----------------------------------------------------------------------------
(* Pool.checkout, Pool._get_conn.                                              *)

Enter(t) ==
    /\ pc[t] = "new"
    /\ IF state = "closed"
       THEN Goto(t, "refused") /\ UNCHANGED operation_count
       ELSE Goto(t, "size") /\ operation_count' = operation_count + 1
    /\ UNCHANGED <<pool, requests, active_sockets, conn, broken, asleep, expired,
                   sweeper, min_pool_size>>

\* Mutant: one permit too many.
TakeOneTooMany(t) ==
    /\ pc[t] = "size"
    /\ Awake(t)
    /\ Goto(t, "permit")
    /\ requests <= MaxPoolSize
    /\ requests' = requests + 1
    /\ UNCHANGED <<pool, active_sockets, operation_count, conn, broken, asleep, expired,
                   sweeper, min_pool_size>>

TakePermit(t) ==
    /\ pc[t] = "size"
    /\ Awake(t)
    /\ \/ /\ state # "ready"
          /\ Goto(t, "failed")
          /\ UNCHANGED <<requests, asleep>>
       \/ /\ state = "ready"
          /\ requests < MaxPoolSize
          /\ Goto(t, "permit")
          /\ requests' = requests + 1
          /\ UNCHANGED asleep
       \/ /\ state = "ready"
          /\ requests >= MaxPoolSize
          /\ asleep' = asleep \cup {t}
          /\ UNCHANGED <<pc, requests>>
    /\ UNCHANGED <<pool, active_sockets, operation_count, conn, broken, expired,
                   sweeper, min_pool_size>>

\* Mutant: a wait that timed out tells nobody.
TimeOutInSilence(t) ==
    pc[t] = "size" /\ TimeOut(t, size_cond, FALSE, "failed")

PermitTimeout(t) ==
    pc[t] = "size" /\ TimeOut(t, size_cond, requests < MaxPoolSize, "failed")

CountActive(t) ==
    /\ pc[t] = "permit"
    /\ Goto(t, "conn")
    /\ active_sockets' = active_sockets + 1
    /\ UNCHANGED <<pool, requests, operation_count, conn, broken, asleep, expired,
                   sweeper, min_pool_size>>

\* An idle connection, or the right to open one.
TakeConnection(t) ==
    /\ pc[t] = "conn"
    /\ Awake(t)
    /\ \/ /\ state # "ready"
          /\ Goto(t, "fail")
          /\ UNCHANGED <<conns, pending, conn, asleep>>
       \/ /\ state = "ready"
          /\ conns # <<>>
          /\ Goto(t, "got")
          /\ conn' = [conn EXCEPT ![t] = Head(conns)]
          /\ conns' = Tail(conns)
          /\ UNCHANGED <<pending, asleep>>
       \/ /\ state = "ready"
          /\ conns = <<>>
          /\ pending < MaxConnecting
          /\ Goto(t, "open")
          /\ pending' = pending + 1
          /\ UNCHANGED <<conns, conn, asleep>>
       \/ /\ state = "ready"
          /\ conns = <<>>
          /\ pending >= MaxConnecting
          /\ asleep' = asleep \cup {t}
          /\ UNCHANGED <<pc, conns, pending, conn>>
    /\ UNCHANGED <<state, generation, counters, broken, expired, sweeper, min_pool_size>>

ConnectionTimeout(t) ==
    /\ pc[t] = "conn"
    /\ TimeOut(t, max_connecting_cond, conns # <<>> \/ pending < MaxConnecting, "fail")

\* _perished: the connection is of an older generation, or has been idle too long, or
\* the server has closed it.
CheckPerished(t) ==
    /\ pc[t] = "got"
    /\ \/ /\ conn[t] = generation
          /\ Goto(t, "using")
          /\ UNCHANGED conn
       \/ /\ Goto(t, "conn")
          /\ conn' = [conn EXCEPT ![t] = None]
    /\ UNCHANGED <<pool, counters, broken, asleep, expired, sweeper, min_pool_size>>

\* connect: the socket, and the Connection around it.
OpenSocket(t) ==
    /\ pc[t] = "open"
    /\ \/ /\ Goto(t, "handshake")
          /\ conn' = [conn EXCEPT ![t] = generation]
          /\ UNCHANGED <<pending, asleep>>
       \/ /\ Goto(t, "fail")
          /\ pending' = pending - 1
          /\ Notify(max_connecting_cond)
          /\ UNCHANGED conn
    /\ UNCHANGED <<state, generation, conns, counters, broken, expired, sweeper,
                   min_pool_size>>

\* hello and authenticate.
Handshake(t) ==
    /\ pc[t] = "handshake"
    /\ \/ Goto(t, "using") /\ UNCHANGED conn
       \/ Goto(t, "fail") /\ conn' = [conn EXCEPT ![t] = None]
    /\ pending' = pending - 1
    /\ Notify(max_connecting_cond)
    /\ UNCHANGED <<state, generation, conns, counters, broken, expired, sweeper,
                   min_pool_size>>

\* Mutant: the connection was not counted among the active ones.
GiveUpInactive(t) ==
    /\ pc[t] = "fail"
    /\ Goto(t, "failed")
    /\ requests' = requests - 1
    /\ Notify(size_cond)
    /\ UNCHANGED <<pool, active_sockets, operation_count, conn, broken, expired, sweeper,
                   min_pool_size>>

\* operation_count is not decremented.
GiveUp(t) ==
    /\ pc[t] = "fail"
    /\ Goto(t, "failed")
    /\ requests' = requests - 1
    /\ active_sockets' = active_sockets - 1
    /\ Notify(size_cond)
    /\ UNCHANGED <<pool, operation_count, conn, broken, expired, sweeper, min_pool_size>>

\* An error that closes the connection: socketTimeoutMS, a reset with
\* interrupt_connections, a server that has gone.
Break(t) ==
    /\ pc[t] = "using"
    /\ broken' = broken \cup {t}
    /\ UNCHANGED <<pool, counters, pc, conn, asleep, expired, sweeper, min_pool_size>>

-----------------------------------------------------------------------------
(* Pool.checkin.                                                               *)

\* self.closed and conn.closed are read without the lock.
Checkin(t) ==
    /\ pc[t] = "using"
    /\ IF state = "closed" \/ t \in broken
       THEN Goto(t, "release") /\ conn' = [conn EXCEPT ![t] = None]
       ELSE Goto(t, "return") /\ UNCHANGED conn
    /\ broken' = broken \ {t}
    /\ UNCHANGED <<pool, counters, asleep, expired, sweeper, min_pool_size>>

\* Mutant: what was read before the lock was taken is good enough.
PutBackUnseen(t) ==
    /\ pc[t] = "return"
    /\ Goto(t, "release")
    /\ conn' = [conn EXCEPT ![t] = None]
    /\ conns' = appendleft(conn[t])
    /\ Notify(max_connecting_cond)
    /\ UNCHANGED <<state, generation, pending, counters, broken, expired, sweeper,
                   min_pool_size>>

PutBack(t) ==
    /\ pc[t] = "return"
    /\ Goto(t, "release")
    /\ conn' = [conn EXCEPT ![t] = None]
    /\ IF conn[t] = generation
       THEN conns' = appendleft(conn[t]) /\ Notify(max_connecting_cond)
       ELSE UNCHANGED <<conns, asleep>>
    /\ UNCHANGED <<state, generation, pending, counters, broken, expired, sweeper,
                   min_pool_size>>

\* Mutant: the next in the queue is not told.
ReleaseInSilence(t) ==
    /\ pc[t] = "release"
    /\ Goto(t, "done")
    /\ requests' = requests - 1
    /\ active_sockets' = active_sockets - 1
    /\ operation_count' = operation_count - 1
    /\ UNCHANGED <<pool, conn, broken, asleep, expired, sweeper, min_pool_size>>

Release(t) ==
    /\ pc[t] = "release"
    /\ Goto(t, "done")
    /\ requests' = requests - 1
    /\ active_sockets' = active_sockets - 1
    /\ operation_count' = operation_count - 1
    /\ Notify(size_cond)
    /\ UNCHANGED <<pool, conn, broken, expired, sweeper, min_pool_size>>

-----------------------------------------------------------------------------
(* The topology.                                                               *)

\* Pool.ready; _process_change calls it for the servers it has, whose pools are open.
Ready ==
    /\ state = "paused"
    /\ state' = "ready"
    /\ UNCHANGED <<generation, conns, pending, counters, threads, sweeper, min_pool_size>>

\* Pool._reset, with close or without.
Reset(to) ==
    /\ state # "closed"
    /\ generation < MaxResets
    /\ state' = to
    /\ generation' = generation + 1
    /\ conns' = <<>>
    /\ asleep' = {}
    /\ UNCHANGED <<pending, counters, pc, conn, broken, expired, sweeper, min_pool_size>>

-----------------------------------------------------------------------------
(* Topology.update_pool, Pool.remove_stale_sockets.                            *)

SweepTo(place) == sweep' = place

StartSweep ==
    /\ sweep = "idle"
    /\ SweepTo("check")
    /\ reference' = generation
    /\ UNCHANGED <<pool, counters, threads, made, min_pool_size>>

SweepCheck ==
    /\ sweep = "check"
    /\ SweepTo(IF state = "ready" THEN "trim" ELSE "idle")
    /\ UNCHANGED <<pool, counters, threads, reference, made, min_pool_size>>

\* The connections idle for longer than maxIdleTimeMS, if it is set, are at the right.
SweepTrim ==
    /\ sweep = "trim"
    /\ SweepTo("room")
    /\ \E kept \in 0 .. Len(conns) : conns' = SubSeq(conns, 1, kept)
    /\ UNCHANGED <<state, generation, pending, counters, threads, reference, made,
                   min_pool_size>>

\* Mutant: the idle connections are not counted.
SweepRoomForActive ==
    /\ sweep = "room"
    /\ IF active_sockets >= min_pool_size \/ requests >= min_pool_size
       THEN SweepTo("idle") /\ UNCHANGED requests
       ELSE SweepTo("slot") /\ requests' = requests + 1
    /\ UNCHANGED <<pool, active_sockets, operation_count, threads, reference, made,
                   min_pool_size>>

SweepRoom ==
    /\ sweep = "room"
    /\ IF Len(conns) + active_sockets >= min_pool_size \/ requests >= min_pool_size
       THEN SweepTo("idle") /\ UNCHANGED requests
       ELSE SweepTo("slot") /\ requests' = requests + 1
    /\ UNCHANGED <<pool, active_sockets, operation_count, threads, reference, made,
                   min_pool_size>>

SweepSlot ==
    /\ sweep = "slot"
    /\ IF pending >= MaxConnecting
       THEN SweepTo("leave") /\ UNCHANGED pending
       ELSE SweepTo("open") /\ pending' = pending + 1
    /\ UNCHANGED <<state, generation, conns, counters, threads, reference, made,
                   min_pool_size>>

\* connect fails, or makes a connection.
SweepOpen ==
    /\ sweep = "open"
    /\ \/ SweepTo("opened") /\ UNCHANGED made
       \/ SweepTo("add") /\ made' = generation
    /\ UNCHANGED <<pool, counters, threads, reference, min_pool_size>>

\* No notification goes with the connection.
SweepAdd ==
    /\ sweep = "add"
    /\ SweepTo("opened")
    /\ IF generation = reference
       THEN conns' = appendleft(made) /\ UNCHANGED made
       ELSE made' = None /\ UNCHANGED conns
    /\ UNCHANGED <<state, generation, pending, counters, threads, reference,
                   min_pool_size>>

SweepOpened ==
    /\ sweep = "opened"
    /\ SweepTo("leave")
    /\ pending' = pending - 1
    /\ Notify(max_connecting_cond)
    /\ UNCHANGED <<state, generation, conns, counters, pc, conn, broken, expired,
                   reference, made, min_pool_size>>

\* Around the loop after a connection was added, and out of it otherwise.
SweepLeave ==
    /\ sweep = "leave"
    /\ SweepTo(IF made # None THEN "room" ELSE "idle")
    /\ made' = None
    /\ requests' = requests - 1
    /\ Notify(size_cond)
    /\ UNCHANGED <<pool, active_sockets, operation_count, pc, conn, broken, expired,
                   reference, min_pool_size>>

-----------------------------------------------------------------------------
\* What a thread does without being prevented; every wait on the network is bounded
\* (connectTimeoutMS, socketTimeoutMS).
Advance(t) ==
    \/ Enter(t) \/ TakePermit(t) \/ PermitTimeout(t) \/ CountActive(t)
    \/ TakeConnection(t) \/ ConnectionTimeout(t) \/ CheckPerished(t)
    \/ OpenSocket(t) \/ Handshake(t) \/ GiveUp(t)
    \/ Checkin(t) \/ PutBack(t) \/ Release(t)

Sweep ==
    \/ StartSweep \/ SweepCheck \/ SweepTrim \/ SweepRoom \/ SweepSlot
    \/ SweepOpen \/ SweepAdd \/ SweepOpened \/ SweepLeave

Topology == Ready \/ Reset("paused") \/ Reset("closed")

Next ==
    \/ \E t \in Checkouts : Advance(t) \/ Expire(t) \/ Break(t)
    \/ Sweep
    \/ Topology

Spec == Init /\ [][Next]_vars

\* The threads are scheduled; no wait needs to time out, and the topology may never
\* change its mind.
FairSpec == Spec /\ WF_vars(Sweep) /\ \A t \in Checkouts : WF_vars(Advance(t))

-----------------------------------------------------------------------------
(* Properties.                                                                 *)

Places == {"new", "size", "permit", "conn", "got", "open", "handshake", "using",
           "return", "release", "fail", "done", "refused", "failed"}

\* The state is of the shape the code gives it, and the permits and the connections
\* being opened are within maxPoolSize and maxConnecting.
TypeOK ==
    /\ state \in {"paused", "ready", "closed"}
    /\ generation \in 0 .. MaxResets
    /\ conns \in Seq(0 .. MaxResets)
    /\ requests \in 0 .. MaxPoolSize
    /\ active_sockets \in 0 .. MaxPoolSize
    /\ pending \in 0 .. MaxConnecting
    /\ operation_count \in 0 .. Cardinality(Checkouts)
    /\ min_pool_size \in MinPoolSizes
    /\ pc \in [Checkouts -> Places]
    /\ conn \in [Checkouts -> 0 .. MaxResets \cup {None}]
    /\ broken \subseteq Checkouts
    /\ asleep \subseteq Checkouts
    /\ expired \subseteq Checkouts
    /\ sweep \in {"idle", "check", "trim", "room", "slot", "open", "add", "opened", "leave"}
    /\ reference \in 0 .. MaxResets
    /\ made \in 0 .. MaxResets \cup {None}

At(places) == {t \in Checkouts : pc[t] \in places}

ConnectingPlaces == {"open", "handshake"}
InUsePlaces      == ConnectingPlaces \cup {"got", "using", "return"}
ActivePlaces     == InUsePlaces \cup {"conn", "release", "fail"}
PermitPlaces     == ActivePlaces \cup {"permit"}
CountedPlaces    == Places \ {"new", "done", "refused"}

SweepHolds    == IF sweep \in {"slot", "open", "add", "opened", "leave"} THEN 1 ELSE 0
SweepOpens    == IF sweep \in {"slot", "open", "add"} THEN 1 ELSE 0
SweepConnects == IF sweep \in {"open", "add", "opened"} THEN 1 ELSE 0

\* Each counter is the number of threads it stands for, whatever way a checkout ended:
\* nothing is given back twice or kept.  operation_count is the exception, and counts a
\* checkout that failed for ever (pool.py:1866 adds it, and only checkin takes it off).
CountersAddUp ==
    /\ requests = Cardinality(At(PermitPlaces)) + SweepHolds
    /\ active_sockets = Cardinality(At(ActivePlaces))
    /\ pending = Cardinality(At(ConnectingPlaces)) + SweepConnects
    /\ operation_count = Cardinality(At(CountedPlaces))

\* maxPoolSize bounds the connections to the server, those that are idle or being opened
\* included, although what the code bounds is the threads that have a permit.
ConnectionsAreBounded ==
    Len(conns) + Cardinality(At(InUsePlaces)) + SweepOpens <= MaxPoolSize

\* An idle connection is younger than the last reset, and a closed pool has none: a
\* connection that comes back during a reset is not kept (the lock in checkin, the
\* reference_generation of remove_stale_sockets).
IdleAreFresh ==
    /\ \A i \in 1 .. Len(conns) : conns[i] = generation
    /\ state = "closed" => conns = <<>>

\* No wake-up is lost: while a thread sleeps, as many others are on their way to a permit
\* (or to a connection) as there are permits (connections, or rights to open one) left,
\* and none sleeps while the pool is paused.  The second part does not hold if
\* remove_stale_sockets opens connections, because SweepAdd and SweepOpened give two
\* things away and notify once.
NoLostWakeUp ==
    /\ size_cond # {} =>
           MaxPoolSize - requests <= Cardinality(At({"size"}) \ asleep)
    /\ max_connecting_cond # {} /\ min_pool_size = 0 =>
           Len(conns) + MaxConnecting - pending <= Cardinality(At({"conn"}) \ asleep)
    /\ asleep # {} => state = "ready"

\* Every checkout ends, with a connection given back or an error, even if no wait has a
\* time limit (waitQueueTimeoutMS is not set); with minPoolSize 0, as in this repository.
EveryCheckoutEnds ==
    min_pool_size = 0 =>
        \A t \in Checkouts : <>(pc[t] \in {"done", "refused", "failed"})
=============================================================================
