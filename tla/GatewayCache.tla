----------------------------- MODULE GatewayCache -----------------------------
(***************************************************************************)
(* The observation cache of the GitHub gateway (src/github/gateway-        *)
(* owner.ts, gateway-cache.ts) with the write leases that order it         *)
(* against writes (gateway-write-leases.ts, writes.ts).                    *)
(*                                                                         *)
(* A read waits until no lease covers its key, then joins a forced load,   *)
(* is answered from the cache, joins a load in flight or starts one.  The  *)
(* loader of a key with a part reads that part through the cache again,    *)
(* as the panel reads the issue: a second frame of the same reader.        *)
(*                                                                         *)
(* GitHub is "truth", the number of changes made there: an observation is  *)
(* the number it was made at.  Admission, pacing and close() are not       *)
(* modelled here: a request may take any time and may fail.                *)
(***************************************************************************)
EXTENDS Integers, Sequences

CONSTANTS
    Readers,    \* callers of cachedResource and cachedAggregate
    Asks,       \* the keys a reader asks for, and whether it forces them
    Writers,    \* callers of runWriteTransaction
    Resources,  \* keys read by cachedResource
    Aggregates, \* keys read by cachedAggregate
    Roots,      \* lease keys
    Root,       \* the lease key that covers a read key
    Part,       \* the resource a loader reads in turn, None for most
    Lease,      \* the lease keys of a writer
    MaxVersion, \* bound: changes made on GitHub
    MaxWrites,  \* bound: transactions of one writer
    None

Keys == Resources \cup Aggregates
Frames == Readers \X {"call", "part"}
Versions == 0..MaxVersion

ASSUME GatewayAssumption ==
    /\ Resources \cap Aggregates = {}
    /\ Asks \in [Readers -> SUBSET (Keys \X BOOLEAN)]
    /\ Root \in [Keys -> Roots]
    /\ Part \in [Keys -> Resources \cup {None}]
    /\ \A k \in Keys : Part[k] # None => Part[Part[k]] = None
    /\ Lease \in [Writers -> SUBSET Roots]
    /\ MaxVersion \in Nat
    /\ MaxWrites \in Nat
    /\ None \notin Nat \cup Keys \cup Frames

VARIABLES
    truth,           \* changes made on GitHub so far
    resources,       \* cache.resources, None when absent; a value tells its version
    versions,        \* cache.versions of the resources named by a lease key
    aggregates,      \* cache.aggregates: the value and whether it is live
    publisher,       \* the load under way whose sequence (generation) is current
    forcedResources, \* the forced load an ordinary read joins
    inFlight,        \* the ordinary load of a key
    heldWriteLeases,
    writeQueue,
    reader,
    writer,
    writes,          \* transactions a writer has begun
    floor            \* history: truth when a lease key was last invalidated

cache == <<resources, versions, aggregates, publisher>>
flights == <<forcedResources, inFlight>>
leases == <<heldWriteLeases, writeQueue>>
vars == <<truth, cache, flights, leases, reader, writer, writes, floor>>

Idle == [pc |-> "idle", key |-> None, force |-> FALSE, known |-> None,
         since |-> 0, seen |-> None, leader |-> None]

ReaderPc == {"idle", "called", "parked", "readable", "joined", "loading",
             "answered", "done"}
WriterPc == {"idle", "queued", "granted", "dispatching", "executed", "ending"}

TypeOK ==
    /\ truth \in Versions
    /\ resources \in [Resources -> Versions \cup {None}]
    /\ versions \in [Roots -> Versions \cup {None}]
    /\ aggregates \in [Aggregates -> [value : Versions, live : BOOLEAN] \cup {None}]
    /\ publisher \in [Keys -> Frames \cup {None}]
    /\ forcedResources \in [Resources -> Frames \cup {None}]
    /\ inFlight \in [Keys -> Frames \cup {None}]
    /\ heldWriteLeases \in SUBSET Roots
    /\ writeQueue \in Seq(Writers)
    /\ reader \in [Frames -> [pc : ReaderPc, key : Keys \cup {None}, force : BOOLEAN,
                              known : Versions \cup {None}, since : Versions,
                              seen : Versions \cup {None}, leader : Frames \cup {None}]]
    /\ writer \in [Writers -> WriterPc]
    /\ writes \in [Writers -> 0..MaxWrites]
    /\ floor \in [Roots -> Versions]

Init ==
    /\ truth = 0
    /\ resources = [k \in Resources |-> None]
    /\ versions = [r \in Roots |-> None]
    /\ aggregates = [k \in Aggregates |-> None]
    /\ publisher = [k \in Keys |-> None]
    /\ forcedResources = [k \in Resources |-> None]
    /\ inFlight = [k \in Keys |-> None]
    /\ heldWriteLeases = {}
    /\ writeQueue = <<>>
    /\ reader = [f \in Frames |-> Idle]
    /\ writer = [w \in Writers |-> "idle"]
    /\ writes = [w \in Writers |-> 0]
    /\ floor = [r \in Roots |-> 0]

-----------------------------------------------------------------------------
(* Reads *)

At(f, label) == reader[f].pc = label
Key(f) == reader[f].key
PartFrame(f) == <<f[1], "part">>

\* What the caller of k passes as the version it knows.
KnownVersion(k) == IF k \in Resources THEN versions[Root[k]] ELSE None

\* A read as its caller makes it; "since" is the oldest answer a forced one
\* may get, what GitHub holds when it is asked.
Called(k, force) ==
    [Idle EXCEPT !.pc = "called", !.key = k, !.force = force,
                 !.known = KnownVersion(k), !.since = IF force THEN truth ELSE 0]

Move(f, label) == reader' = [reader EXCEPT ![f].pc = label]
Done(value) == [Idle EXCEPT !.pc = "done", !.seen = value]
Return(f, value) == reader' = [reader EXCEPT ![f] = Done(value)]
Join(f, leader) ==
    reader' = [reader EXCEPT ![f] = [@ EXCEPT !.pc = "joined", !.known = None,
                                              !.leader = leader]]

Call(f, k, force) ==
    /\ f[2] = "call"
    /\ <<k, force>> \in Asks[f[1]]
    /\ reader[f].pc \in {"idle", "done"}
    /\ reader' = [reader EXCEPT ![f] = Called(k, force)]
    /\ UNCHANGED <<truth, cache, flights, leases, writer, writes, floor>>

Covered(f) == Root[Key(f)] \in heldWriteLeases

\* waitReadable finds no lease; the read goes on in a later microtask
PassLease(f) ==
    /\ At(f, "called")
    /\ ~Covered(f)
    /\ Move(f, "readable")
    /\ UNCHANGED <<truth, cache, flights, leases, writer, writes, floor>>

ParkOnLease(f) ==
    /\ At(f, "called")
    /\ Covered(f)
    /\ Move(f, "parked")
    /\ UNCHANGED <<truth, cache, flights, leases, writer, writes, floor>>

\* a rate limit pauses the credential; which one is not modelled here
RefuseLimited(f) ==
    /\ At(f, "readable")
    /\ Return(f, None)
    /\ UNCHANGED <<truth, cache, flights, leases, writer, writes, floor>>

ForcedPending(f) ==
    /\ Key(f) \in Resources
    /\ ~reader[f].force
    /\ forcedResources[Key(f)] # None

ResourceHit(f) ==
    LET cached == resources[Key(f)] IN
    /\ Key(f) \in Resources
    /\ cached # None
    /\ reader[f].known \in {None, cached}

AggregateHit(f) ==
    /\ Key(f) \in Aggregates
    /\ aggregates[Key(f)] # None
    /\ aggregates[Key(f)].live

CacheHit(f) == ~reader[f].force /\ (ResourceHit(f) \/ AggregateHit(f))

\* Only a forced read of a resource goes past the single flight.
Exclusive(f) == Key(f) \in Resources /\ reader[f].force

JoinForced(f) ==
    /\ At(f, "readable")
    /\ ForcedPending(f)
    /\ Join(f, forcedResources[Key(f)])
    /\ UNCHANGED <<truth, cache, flights, leases, writer, writes, floor>>

AnswerFromCache(f) ==
    /\ At(f, "readable")
    /\ ~ForcedPending(f)
    /\ CacheHit(f)
    /\ Return(f, IF Key(f) \in Resources THEN resources[Key(f)]
                                         ELSE aggregates[Key(f)].value)
    /\ UNCHANGED <<truth, cache, flights, leases, writer, writes, floor>>

MustLoad(f) ==
    /\ At(f, "readable")
    /\ ~ForcedPending(f)
    /\ ~CacheHit(f)

\* Mutant: a forced read joins the ordinary load in flight.
JoinInFlightForced(f) ==
    /\ MustLoad(f)
    /\ inFlight[Key(f)] # None
    /\ Join(f, inFlight[Key(f)])
    /\ UNCHANGED <<truth, cache, flights, leases, writer, writes, floor>>

JoinInFlight(f) ==
    /\ MustLoad(f)
    /\ ~Exclusive(f)
    /\ inFlight[Key(f)] # None
    /\ Join(f, inFlight[Key(f)])
    /\ UNCHANGED <<truth, cache, flights, leases, writer, writes, floor>>

\* The loader of a key with a part begins by reading the part, as forced as
\* its own caller asked.
Loading(f) ==
    LET here == [reader EXCEPT ![f].pc = "loading"] IN
    IF Part[Key(f)] = None THEN here
    ELSE [here EXCEPT ![PartFrame(f)] = Called(Part[Key(f)], reader[f].force)]

StartLoad(f) ==
    /\ MustLoad(f)
    /\ Exclusive(f) \/ inFlight[Key(f)] = None
    /\ reader' = Loading(f)
    /\ publisher' = [publisher EXCEPT ![Key(f)] = f]
    /\ IF Exclusive(f)
         THEN /\ forcedResources' = [forcedResources EXCEPT ![Key(f)] = f]
              /\ UNCHANGED inFlight
         ELSE /\ inFlight' = [inFlight EXCEPT ![Key(f)] = f]
              /\ UNCHANGED forcedResources
    /\ UNCHANGED <<truth, resources, versions, aggregates, leases, writer,
                   writes, floor>>

\* GitHub answers the request of a loader
Observe(f) ==
    /\ At(f, "loading")
    /\ Part[Key(f)] = None
    /\ reader' = [reader EXCEPT ![f] = [@ EXCEPT !.pc = "answered", !.seen = truth]]
    /\ UNCHANGED <<truth, cache, flights, leases, writer, writes, floor>>

\* the rest of a loader ends after its part; the value is as old as the part
ObservePart(f) ==
    LET part == reader[PartFrame(f)] IN
    /\ At(f, "loading")
    /\ Part[Key(f)] # None
    /\ part.pc = "done"
    /\ part.seen # None
    /\ reader' = [reader EXCEPT ![f] = [@ EXCEPT !.pc = "answered", !.seen = part.seen],
                                ![PartFrame(f)] = Idle]
    /\ UNCHANGED <<truth, cache, flights, leases, writer, writes, floor>>

\* The load is over: its entry goes, and its caller and all who joined it
\* have their answer, None for an error.
Follows(g, f) == g = f \/ (At(g, "joined") /\ reader[g].leader = f)
Settle(f, value) ==
    /\ inFlight' = [k \in Keys |-> IF inFlight[k] = f THEN None ELSE inFlight[k]]
    /\ publisher' = [k \in Keys |-> IF publisher[k] = f THEN None ELSE publisher[k]]
    /\ forcedResources' = [k \in Resources |->
                             IF forcedResources[k] = f THEN None ELSE forcedResources[k]]
    /\ reader' = [g \in Frames |->
                    IF Follows(g, f) THEN Done(value)
                    ELSE IF g = PartFrame(f) THEN Idle ELSE reader[g]]

\* a loader throws, as it does when its part did
LoadFails(f) ==
    /\ At(f, "loading")
    /\ Part[Key(f)] # None => reader[PartFrame(f)].pc = "done"
    /\ Settle(f, None)
    /\ UNCHANGED <<truth, resources, versions, aggregates, leases, writer, writes, floor>>

PublishResource(f) ==
    LET k == Key(f) IN
    /\ At(f, "answered")
    /\ k \in Resources
    /\ IF publisher[k] = f
         THEN /\ resources' = [resources EXCEPT ![k] = reader[f].seen]
              /\ versions' = IF Part[k] = None
                               THEN [versions EXCEPT ![Root[k]] = reader[f].seen]
                               ELSE versions
         ELSE UNCHANGED <<resources, versions>>
    /\ Settle(f, reader[f].seen)
    /\ UNCHANGED <<truth, aggregates, leases, writer, writes, floor>>

\* The lease keys that name a resource, whose versions a list tells.
Children == {Root[k] : k \in Resources}

PublishAggregate(f) ==
    LET k == Key(f) IN
    /\ At(f, "answered")
    /\ k \in Aggregates
    /\ IF publisher[k] = f
         THEN /\ aggregates' = [aggregates EXCEPT ![k] =
                                  [value |-> reader[f].seen, live |-> TRUE]]
              /\ versions' = [r \in Roots |-> IF r \in Children THEN reader[f].seen
                                                                ELSE versions[r]]
         ELSE UNCHANGED <<aggregates, versions>>
    /\ Settle(f, reader[f].seen)
    /\ UNCHANGED <<truth, resources, leases, writer, writes, floor>>

Expire(k) ==
    /\ \/ /\ k \in Resources
          /\ resources[k] # None
          /\ resources' = [resources EXCEPT ![k] = None]
          /\ UNCHANGED aggregates
       \/ /\ k \in Aggregates
          /\ aggregates[k] # None
          /\ aggregates' = [aggregates EXCEPT ![k].live = FALSE]
          /\ UNCHANGED resources
    /\ UNCHANGED <<truth, versions, publisher, flights, leases, reader, writer,
                   writes, floor>>

-----------------------------------------------------------------------------
(* Writes *)

\* How many of the queued transactions can be granted, from the head on.
Grantable(queue, held) ==
    {n \in 0..Len(queue) :
        \A i \in 1..n :
            Lease[queue[i]] \cap (held \cup UNION {Lease[queue[j]] : j \in 1..(i - 1)}) = {}}

\* pumpWriteQueue: the head of the queue is granted all its leases, and the
\* next one, until one must wait
Pump(queue, held, others) ==
    \E n \in Grantable(queue, held) :
        LET first == {queue[i] : i \in 1..n} IN
        /\ n + 1 \notin Grantable(queue, held)
        /\ writeQueue' = SubSeq(queue, n + 1, Len(queue))
        /\ heldWriteLeases' = held \cup UNION {Lease[w] : w \in first}
        /\ writer' = [w \in Writers |-> IF w \in first THEN "granted" ELSE others[w]]

Submit(w) ==
    /\ writer[w] = "idle"
    /\ writes[w] < MaxWrites
    /\ writes' = [writes EXCEPT ![w] = @ + 1]
    /\ Pump(Append(writeQueue, w), heldWriteLeases, [writer EXCEPT ![w] = "queued"])
    /\ UNCHANGED <<truth, cache, flights, reader, floor>>

Step(w, from, to) ==
    /\ writer[w] = from
    /\ writer' = [writer EXCEPT ![w] = to]
    /\ UNCHANGED <<cache, flights, leases, reader, writes, floor>>

PersistMarker(w) == Step(w, "granted", "dispatching") /\ UNCHANGED truth
MarkerFails(w) == Step(w, "granted", "ending") /\ UNCHANGED truth

\* GitHub performs the write; its answer is on the way
Execute(w) ==
    /\ truth < MaxVersion
    /\ Step(w, "dispatching", "executed")
    /\ truth' = truth + 1

\* a provable rejection: nothing happened, nothing is invalidated
Reject(w) == Step(w, "dispatching", "ending") /\ UNCHANGED truth

\* Mutant: the load sequences are left alone.
InvalidateKeepsLoads(w) ==
    LET Hit(k) == Root[k] \in Lease[w] IN
    /\ writer[w] \in {"dispatching", "executed"}
    /\ writer' = [writer EXCEPT ![w] = "ending"]
    /\ resources' = [k \in Resources |-> IF Hit(k) THEN None ELSE resources[k]]
    /\ aggregates' = [k \in Aggregates |-> IF Hit(k) THEN None ELSE aggregates[k]]
    /\ versions' = [r \in Roots |-> IF r \in Lease[w] THEN None ELSE versions[r]]
    /\ forcedResources' = [k \in Resources |-> IF Hit(k) THEN None ELSE forcedResources[k]]
    /\ floor' = [r \in Roots |-> IF r \in Lease[w] THEN truth ELSE floor[r]]
    /\ UNCHANGED <<truth, publisher, inFlight, leases, reader, writes>>

\* settleUncertain, whether the answer came or the request failed
Invalidate(w) ==
    LET Hit(k) == Root[k] \in Lease[w] IN
    /\ writer[w] \in {"dispatching", "executed"}
    /\ writer' = [writer EXCEPT ![w] = "ending"]
    /\ resources' = [k \in Resources |-> IF Hit(k) THEN None ELSE resources[k]]
    /\ aggregates' = [k \in Aggregates |-> IF Hit(k) THEN None ELSE aggregates[k]]
    /\ publisher' = [k \in Keys |->
                       IF Hit(k) /\ (k \in Aggregates => aggregates[k] # None)
                         THEN None ELSE publisher[k]]
    /\ versions' = [r \in Roots |-> IF r \in Lease[w] THEN None ELSE versions[r]]
    /\ forcedResources' = [k \in Resources |-> IF Hit(k) THEN None ELSE forcedResources[k]]
    /\ floor' = [r \in Roots |-> IF r \in Lease[w] THEN truth ELSE floor[r]]
    /\ UNCHANGED <<truth, inFlight, leases, reader, writes>>

\* Mutant: the queue is pumped, parked reads are not woken.
ReleaseSilently(w) ==
    /\ writer[w] = "ending"
    /\ Pump(writeQueue, heldWriteLeases \ Lease[w], [writer EXCEPT ![w] = "idle"])
    /\ UNCHANGED <<truth, cache, flights, reader, writes, floor>>

\* the transaction ends, after its readback if it was dispatched, which asks
\* GitHub itself, waits for no lease and touches no cache: the leases go, the
\* queue is pumped, and parked reads check again
Release(w) ==
    /\ writer[w] = "ending"
    /\ Pump(writeQueue, heldWriteLeases \ Lease[w], [writer EXCEPT ![w] = "idle"])
    /\ reader' = [f \in Frames |-> IF At(f, "parked") THEN [reader[f] EXCEPT !.pc = "called"]
                                                      ELSE reader[f]]
    /\ UNCHANGED <<truth, cache, flights, writes, floor>>

\* somebody else changes GitHub
Elsewhere ==
    /\ truth < MaxVersion
    /\ truth' = truth + 1
    /\ UNCHANGED <<cache, flights, leases, reader, writer, writes, floor>>

-----------------------------------------------------------------------------
ReadStep(f) ==
    \/ PassLease(f) \/ ParkOnLease(f) \/ RefuseLimited(f)
    \/ JoinForced(f) \/ AnswerFromCache(f) \/ JoinInFlight(f) \/ StartLoad(f)
    \/ Observe(f) \/ ObservePart(f) \/ LoadFails(f)
    \/ PublishResource(f) \/ PublishAggregate(f)

WriteStep(w) ==
    \/ PersistMarker(w) \/ MarkerFails(w) \/ Execute(w) \/ Reject(w)
    \/ Invalidate(w) \/ Release(w)

Next ==
    \/ \E f \in Frames : ReadStep(f)
    \/ \E f \in Frames, k \in Keys, force \in BOOLEAN : Call(f, k, force)
    \/ \E w \in Writers : WriteStep(w) \/ Submit(w)
    \/ \E k \in Keys : Expire(k)
    \/ Elsewhere

Spec == Init /\ [][Next]_vars

-----------------------------------------------------------------------------
\* A cached resource is never older than the last invalidation of its key: a
\* load on its way when a write invalidates the key does not bring the old
\* value back (the load sequence of cachedResource).  A value with a part is
\* left out: its loader may join an older load of the part.
NoStaleResource ==
    \A k \in Resources :
        resources[k] # None /\ Part[k] = None => resources[k] >= floor[Root[k]]

\* The same for everything the cache holds, as the design document and the
\* comment in cachedAggregate ask.
NoStaleCache ==
    /\ \A k \in Resources : resources[k] # None => resources[k] >= floor[Root[k]]
    /\ \A k \in Aggregates : aggregates[k] # None => aggregates[k].value >= floor[Root[k]]

\* The step that answers a read, with a value and not an error.
Answered(f) == ~At(f, "done") /\ reader'[f].pc = "done" /\ reader'[f].seen # None

\* A forced read of a resource is answered with what GitHub held when it was
\* asked or later, also when its loader reads another resource: it joins no
\* load that was begun before it, and neither does its part.
ForcedIsFresh ==
    [][\A f \in Frames :
          Answered(f) /\ Exclusive(f) => reader'[f].seen >= reader[f].since]_vars

\* Who joined a load waits for a load that is still under way, and of the
\* key it asked for: the entry of a load that is over would never answer it.
JoinsLiveLoad ==
    \A f \in Frames :
        At(f, "joined") =>
            LET leader == reader[f].leader IN
            /\ reader[leader].pc \in {"loading", "answered"}
            /\ Key(leader) = Key(f)

Busy(w) == writer[w] \notin {"idle", "queued"}

\* Two transactions that share a lease key are never both past the queue, and
\* no lease outlives its transaction.
LeasesExclusive ==
    /\ \A v, w \in Writers :
          v # w /\ Busy(v) /\ Busy(w) => Lease[v] \cap Lease[w] = {}
    /\ heldWriteLeases = UNION {Lease[w] : w \in {v \in Writers : Busy(v)}}

\* No wake-up is lost: a parked read waits for a lease that is held, whose
\* release will wake it, and the queue waits for one at its head.
NobodyForgotten ==
    /\ \A f \in Frames : At(f, "parked") => Covered(f)
    /\ writeQueue # <<>> => Lease[Head(writeQueue)] \cap heldWriteLeases # {}
    /\ \A w \in Writers :
          writer[w] = "queued" <=> \E i \in 1..Len(writeQueue) : writeQueue[i] = w
=============================================================================
