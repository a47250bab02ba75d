-------------------------- MODULE GatewayCacheProofs --------------------------
(***************************************************************************)
(* Theorems about GatewayCache, for any readers, writers and keys.  The    *)
(* argument about the cache follows the loads: each entry of the cache's   *)
(* maps names a load under way of its own key, and what a current load has *)
(* seen is no older than the last invalidation.  The argument about the    *)
(* leases follows the queue, which is granted from its head on.            *)
(***************************************************************************)
EXTENDS GatewayCache, SequenceTheorems, TLAPS

ReaderRecord == [pc : ReaderPc, key : Keys \cup {None}, force : BOOLEAN,
                 known : Versions \cup {None}, since : Versions,
                 seen : Versions \cup {None}, leader : Frames \cup {None}]

ReadersTyped == reader \in [Frames -> ReaderRecord]

Live(f) == reader[f].pc \in {"loading", "answered"}
Active(f) == reader[f].pc \notin {"idle", "done"}
CallFrame(f) == <<f[1], "call">>

\* The two frames of a reader.
LEMMA FrameFacts ==
    ASSUME NEW f \in Frames
    PROVE  /\ PartFrame(f) \in Frames
           /\ CallFrame(f) \in Frames
           /\ PartFrame(f)[2] = "part"
           /\ CallFrame(f)[2] = "call"
           /\ CallFrame(PartFrame(f)) = CallFrame(f)
           /\ f[2] = "part" => f = PartFrame(f)
           /\ f[2] # "part" => f = CallFrame(f)
           /\ PartFrame(f) # CallFrame(f)
BY DEF Frames, PartFrame, CallFrame

\* What the assumption says of the constants.
LEMMA ConstantFacts ==
    /\ \A k \in Keys : Root[k] \in Roots
    /\ \A k \in Keys : Part[k] = None \/ (Part[k] \in Resources /\ Part[k] \in Keys /\ Part[Part[k]] = None)
    /\ Resources \subseteq Keys /\ Aggregates \subseteq Keys /\ Resources \cap Aggregates = {}
    /\ \A k \in Keys : k \in Resources \/ k \in Aggregates
    /\ \A w \in Writers : Lease[w] \subseteq Roots
    /\ 0 \in Versions
    /\ MaxVersion \in Nat
    /\ None \notin Keys /\ None \notin Frames /\ None \notin Versions
BY GatewayAssumption DEF GatewayAssumption, Keys, Versions

-----------------------------------------------------------------------------
(* What each way of setting "reader" does to the fields *)

LEMMA IdleFacts == Idle \in ReaderRecord /\ Idle.pc = "idle" /\ Idle.seen = None /\ Idle.since = 0
BY ConstantFacts DEF Idle, ReaderRecord, ReaderPc

LEMMA DoneFacts ==
    ASSUME NEW v \in Versions \cup {None}
    PROVE  /\ Done(v) \in ReaderRecord
           /\ Done(v).pc = "done" /\ Done(v).seen = v /\ Done(v).since = 0
<1>1. Idle \in ReaderRecord
  BY IdleFacts
<1>2. Idle.since = 0
  BY IdleFacts
<1>3. QED
  BY <1>1, <1>2 DEF Done, ReaderRecord, ReaderPc

LEMMA CalledFacts ==
    ASSUME NEW k \in Keys, NEW b \in BOOLEAN,
           truth \in Versions, versions \in [Roots -> Versions \cup {None}]
    PROVE  /\ Called(k, b) \in ReaderRecord
           /\ Called(k, b).pc = "called" /\ Called(k, b).key = k /\ Called(k, b).force = b
           /\ Called(k, b).since = IF b THEN truth ELSE 0
<1>1. KnownVersion(k) \in Versions \cup {None}
  BY ConstantFacts DEF KnownVersion
<1>2. (IF b THEN truth ELSE 0) \in Versions
  BY ConstantFacts
<1>3. Idle \in ReaderRecord
  BY IdleFacts
<1>4. QED
  BY <1>1, <1>2, <1>3 DEF Called, ReaderRecord, ReaderPc

LEMMA MoveFacts ==
    ASSUME ReadersTyped, NEW f \in Frames, NEW label \in ReaderPc, Move(f, label)
    PROVE  /\ ReadersTyped'
           /\ \A g \in Frames \ {f} : reader'[g] = reader[g]
           /\ reader'[f].pc = label /\ reader'[f].key = reader[f].key
           /\ reader'[f].force = reader[f].force /\ reader'[f].since = reader[f].since
           /\ reader'[f].seen = reader[f].seen /\ reader'[f].leader = reader[f].leader
BY DEF ReadersTyped, ReaderRecord, Move

LEMMA ReturnFacts ==
    ASSUME ReadersTyped, NEW f \in Frames, NEW v \in Versions \cup {None}, Return(f, v)
    PROVE  /\ ReadersTyped'
           /\ \A g \in Frames \ {f} : reader'[g] = reader[g]
           /\ reader'[f].pc = "done" /\ reader'[f].seen = v /\ reader'[f].since = 0
<1>1. reader' = [reader EXCEPT ![f] = Done(v)]
  BY DEF Return
<1>2. QED
  BY <1>1, DoneFacts DEF ReadersTyped

LEMMA JoinFacts ==
    ASSUME ReadersTyped, NEW f \in Frames, NEW leader \in Frames, Join(f, leader)
    PROVE  /\ ReadersTyped'
           /\ \A g \in Frames \ {f} : reader'[g] = reader[g]
           /\ reader'[f].pc = "joined" /\ reader'[f].key = reader[f].key
           /\ reader'[f].force = reader[f].force /\ reader'[f].since = reader[f].since
           /\ reader'[f].leader = leader
<1>1. DEFINE joined == [reader[f] EXCEPT !.pc = "joined", !.known = None, !.leader = leader]
<1>2. reader' = [reader EXCEPT ![f] = joined]
  BY DEF Join
<1>3. /\ joined \in ReaderRecord
      /\ joined.pc = "joined" /\ joined.key = reader[f].key
      /\ joined.force = reader[f].force /\ joined.since = reader[f].since
      /\ joined.leader = leader
  BY DEF ReadersTyped, ReaderRecord, ReaderPc
<1> HIDE DEF joined
<1>4. QED
  BY <1>2, <1>3 DEF ReadersTyped

LEMMA SeeFacts ==
    ASSUME ReadersTyped, NEW f \in Frames, NEW v \in Versions
    PROVE  LET r == [reader[f] EXCEPT !.pc = "answered", !.seen = v] IN
           /\ r \in ReaderRecord
           /\ r.pc = "answered" /\ r.key = reader[f].key
           /\ r.force = reader[f].force /\ r.since = reader[f].since /\ r.seen = v
BY DEF ReadersTyped, ReaderRecord, ReaderPc

LEMMA ObserveFacts ==
    ASSUME ReadersTyped, truth \in Versions, NEW f \in Frames, Observe(f)
    PROVE  /\ ReadersTyped'
           /\ \A g \in Frames \ {f} : reader'[g] = reader[g]
           /\ reader'[f].pc = "answered" /\ reader'[f].key = reader[f].key
           /\ reader'[f].force = reader[f].force /\ reader'[f].since = reader[f].since
           /\ reader'[f].seen = truth
<1> DEFINE r == [reader[f] EXCEPT !.pc = "answered", !.seen = truth]
<1>1. reader' = [reader EXCEPT ![f] = r]
  BY DEF Observe
<1>2. /\ r \in ReaderRecord
      /\ r.pc = "answered" /\ r.key = reader[f].key
      /\ r.force = reader[f].force /\ r.since = reader[f].since /\ r.seen = truth
  BY SeeFacts
<1> HIDE DEF r
<1>3. QED
  BY <1>1, <1>2 DEF ReadersTyped

\* The loader of f goes on after its part.
LEMMA ObservePartFacts ==
    ASSUME ReadersTyped, NEW f \in Frames, ObservePart(f)
    PROVE  LET p == PartFrame(f) IN
           /\ ReadersTyped'
           /\ f # p
           /\ \A g \in Frames \ {f, p} : reader'[g] = reader[g]
           /\ reader'[p].pc = "idle"
           /\ reader'[p].since = 0
           /\ reader'[f].pc = "answered" /\ reader'[f].key = reader[f].key
           /\ reader'[f].force = reader[f].force /\ reader'[f].since = reader[f].since
           /\ reader'[f].seen = reader[p].seen /\ reader[p].seen \in Versions
<1> DEFINE p == PartFrame(f)
           r == [reader[f] EXCEPT !.pc = "answered", !.seen = reader[p].seen]
<1>1. reader' = [reader EXCEPT ![f] = r, ![p] = Idle]
  BY DEF ObservePart
<1>2. p \in Frames /\ reader[p].pc = "done" /\ reader[f].pc = "loading" /\ f # p
  BY FrameFacts DEF ObservePart, At
<1>3. reader[p] \in ReaderRecord /\ reader[p].seen # None
  BY <1>2 DEF ObservePart, ReadersTyped
<1>4. reader[p].seen \in Versions
  BY <1>3 DEF ReaderRecord
<1>5. /\ r \in ReaderRecord
      /\ r.pc = "answered" /\ r.key = reader[f].key
      /\ r.force = reader[f].force /\ r.since = reader[f].since /\ r.seen = reader[p].seen
  BY <1>4, SeeFacts
<1> HIDE DEF r, p
<1>6. QED
  BY <1>1, <1>2, <1>4, <1>5, IdleFacts DEF ReadersTyped, p

\* A load begins, and the read of its part.
LEMMA LoadingFacts ==
    ASSUME ReadersTyped, NEW f \in Frames, Key(f) \in Keys, reader' = Loading(f),
           truth \in Versions, versions \in [Roots -> Versions \cup {None}],
           Part[Key(f)] # None => f # PartFrame(f)
    PROVE  LET p == PartFrame(f) IN
           /\ ReadersTyped'
           /\ reader'[f].pc = "loading" /\ reader'[f].key = reader[f].key
           /\ reader'[f].force = reader[f].force /\ reader'[f].since = reader[f].since
           /\ reader'[f].seen = reader[f].seen
           /\ \A g \in Frames \ {f, p} : reader'[g] = reader[g]
           /\ Part[Key(f)] = None /\ f # p => reader'[p] = reader[p]
           /\ Part[Key(f)] # None =>
                 /\ reader'[p].pc = "called" /\ reader'[p].key = Part[Key(f)]
                 /\ reader'[p].force = reader[f].force
                 /\ reader'[p].since = IF reader[f].force THEN truth ELSE 0
<1> DEFINE p == PartFrame(f)
           here == [reader EXCEPT ![f].pc = "loading"]
           part == Called(Part[Key(f)], reader[f].force)
<1>1. /\ here \in [Frames -> ReaderRecord]
      /\ \A g \in Frames \ {f} : here[g] = reader[g]
      /\ here[f].pc = "loading" /\ here[f].key = reader[f].key
      /\ here[f].force = reader[f].force /\ here[f].since = reader[f].since
      /\ here[f].seen = reader[f].seen
  BY DEF ReadersTyped, ReaderRecord, ReaderPc
<1>2. p \in Frames
  BY FrameFacts
<1>3. CASE Part[Key(f)] = None
  <2>1. reader' = here
    BY <1>3 DEF Loading
  <2> HIDE DEF here
  <2>2. QED
    BY <1>1, <1>2, <1>3, <2>1 DEF ReadersTyped
<1>4. CASE Part[Key(f)] # None
  <2>1. reader' = [here EXCEPT ![p] = part]
    BY <1>4 DEF Loading
  <2>2. Part[Key(f)] \in Keys /\ reader[f].force \in BOOLEAN
    BY <1>4, ConstantFacts DEF ReadersTyped, ReaderRecord
  <2>3. /\ part \in ReaderRecord
        /\ part.pc = "called" /\ part.key = Part[Key(f)]
        /\ part.force = reader[f].force /\ part.since = IF reader[f].force THEN truth ELSE 0
    BY <2>2, CalledFacts
  <2>4. f # p
    BY <1>4
  <2> HIDE DEF here, part, p
  <2>5. QED
    BY <1>1, <1>2, <1>4, <2>1, <2>3, <2>4 DEF ReadersTyped, p
<1>5. QED
  BY <1>3, <1>4

\* A load ends, for its caller and for all who joined it.
LEMMA SettleFacts ==
    ASSUME ReadersTyped, NEW f \in Frames, NEW v \in Versions \cup {None}, Settle(f, v)
    PROVE  /\ ReadersTyped'
           /\ \A g \in Frames :
                IF Follows(g, f) THEN reader'[g] = Done(v)
                ELSE IF g = PartFrame(f) THEN reader'[g] = Idle
                ELSE reader'[g] = reader[g]
           /\ \A g \in Frames :
                Follows(g, f) => reader'[g].pc = "done" /\ reader'[g].seen = v /\ reader'[g].since = 0
           /\ \A g \in Frames :
                ~Follows(g, f) /\ g = PartFrame(f) => reader'[g].pc = "idle" /\ reader'[g].since = 0
<1>1. reader' = [g \in Frames |->
                    IF Follows(g, f) THEN Done(v)
                    ELSE IF g = PartFrame(f) THEN Idle ELSE reader[g]]
  BY DEF Settle
<1>2. QED
  BY <1>1, DoneFacts, IdleFacts DEF ReadersTyped

\* The entries of a load that is over go.
LEMMA SettleMaps ==
    ASSUME NEW f \in Frames, NEW v, Settle(f, v)
    PROVE  /\ \A k \in Keys : inFlight'[k] = IF inFlight[k] = f THEN None ELSE inFlight[k]
           /\ \A k \in Keys : publisher'[k] = IF publisher[k] = f THEN None ELSE publisher[k]
           /\ \A k \in Resources :
                forcedResources'[k] = IF forcedResources[k] = f THEN None ELSE forcedResources[k]
BY DEF Settle

LEMMA CallFacts ==
    ASSUME ReadersTyped, NEW f \in Frames, NEW k \in Keys, NEW b \in BOOLEAN, Call(f, k, b),
           truth \in Versions, versions \in [Roots -> Versions \cup {None}]
    PROVE  /\ ReadersTyped'
           /\ \A g \in Frames \ {f} : reader'[g] = reader[g]
           /\ reader'[f].pc = "called" /\ reader'[f].key = k /\ reader'[f].force = b
           /\ reader'[f].since = IF b THEN truth ELSE 0
<1>1. reader' = [reader EXCEPT ![f] = Called(k, b)]
  BY DEF Call
<1>2. QED
  BY <1>1, CalledFacts DEF ReadersTyped

\* Parked reads check again.
LEMMA WakeFacts ==
    ASSUME ReadersTyped, NEW w \in Writers, Release(w)
    PROVE  /\ ReadersTyped'
           /\ \A f \in Frames :
                /\ reader'[f].pc = IF At(f, "parked") THEN "called" ELSE reader[f].pc
                /\ reader'[f].key = reader[f].key /\ reader'[f].force = reader[f].force
                /\ reader'[f].since = reader[f].since /\ reader'[f].seen = reader[f].seen
                /\ reader'[f].leader = reader[f].leader
<1>1. reader' = [f \in Frames |-> IF At(f, "parked") THEN [reader[f] EXCEPT !.pc = "called"]
                                                     ELSE reader[f]]
  BY DEF Release
<1>2. ASSUME NEW f \in Frames
      PROVE  LET r == [reader[f] EXCEPT !.pc = "called"] IN
             /\ r \in ReaderRecord
             /\ r.pc = "called" /\ r.key = reader[f].key /\ r.force = reader[f].force
             /\ r.since = reader[f].since /\ r.seen = reader[f].seen
             /\ r.leader = reader[f].leader
  BY DEF ReadersTyped, ReaderRecord, ReaderPc
<1>3. QED
  BY <1>1, <1>2 DEF ReadersTyped

-----------------------------------------------------------------------------
(* Types and loads *)

\* TypeOK, the readers left aside.
OtherTypes ==
    /\ truth \in Versions
    /\ resources \in [Resources -> Versions \cup {None}]
    /\ versions \in [Roots -> Versions \cup {None}]
    /\ aggregates \in [Aggregates -> [value : Versions, live : BOOLEAN] \cup {None}]
    /\ publisher \in [Keys -> Frames \cup {None}]
    /\ forcedResources \in [Resources -> Frames \cup {None}]
    /\ inFlight \in [Keys -> Frames \cup {None}]
    /\ heldWriteLeases \in SUBSET Roots
    /\ writeQueue \in Seq(Writers)
    /\ writer \in [Writers -> WriterPc]
    /\ writes \in [Writers -> 0..MaxWrites]
    /\ floor \in [Roots -> Versions]

\* The entries of the maps name loads under way of their own key.
EntriesLive ==
    /\ \A k \in Keys : publisher[k] # None => Live(publisher[k]) /\ Key(publisher[k]) = k
    /\ \A k \in Keys : inFlight[k] # None => Live(inFlight[k]) /\ Key(inFlight[k]) = k
    /\ \A k \in Resources :
          forcedResources[k] # None
            => Live(forcedResources[k]) /\ Key(forcedResources[k]) = k

\* A part is read for its call, which waits for it.
FramesWell ==
    \A f \in Frames :
        /\ Active(f) => Key(f) \in Keys
        /\ At(f, "joined") => ~Exclusive(f) /\ reader[f].leader \in Frames
        /\ At(f, "answered") => reader[f].seen \in Versions
        /\ f[2] = "part" /\ Active(f)
             => At(CallFrame(f), "loading") /\ Part[Key(CallFrame(f))] = Key(f)

Loads == OtherTypes /\ ReadersTyped /\ EntriesLive /\ JoinsLiveLoad /\ FramesWell

LEMMA LoadsTyped == Loads => TypeOK
BY DEF Loads, OtherTypes, ReadersTyped, ReaderRecord, TypeOK

\* A frame whose read is not under way has no active part, and a load without
\* a part, or with one that is done, has none either.
LEMMA PartFacts ==
    ASSUME Loads, NEW f \in Frames
    PROVE  /\ ~At(f, "loading") /\ f[2] = "call" => ~Active(PartFrame(f))
           /\ At(f, "loading") /\ f[2] = "call" /\ Active(PartFrame(f))
                => Part[Key(f)] = Key(PartFrame(f)) /\ Part[Key(f)] # None
           /\ Active(f) /\ f[2] = "part" => Part[Key(f)] = None
           /\ f[2] \in {"call", "part"}
<1>1. PartFrame(f) \in Frames /\ PartFrame(f)[2] = "part" /\ CallFrame(PartFrame(f)) = CallFrame(f)
  BY FrameFacts
<1>2. f[2] = "call" => CallFrame(f) = f
  BY FrameFacts
<1>3. Active(PartFrame(f)) => Key(PartFrame(f)) \in Keys
  BY <1>1 DEF Loads, FramesWell
<1>4. f[2] \in {"call", "part"}
  BY DEF Frames
<1>5. ASSUME Active(f), f[2] = "part" PROVE Part[Key(f)] = None
  <2>1. CallFrame(f) \in Frames
    BY FrameFacts
  <2>2. At(CallFrame(f), "loading") /\ Part[Key(CallFrame(f))] = Key(f) /\ Key(f) \in Keys
    BY <1>5 DEF Loads, FramesWell
  <2>3. Key(CallFrame(f)) \in Keys
    BY <2>1, <2>2 DEF Loads, FramesWell, Active, At
  <2>4. QED
    BY <2>2, <2>3, ConstantFacts
<1>6. QED
  BY <1>1, <1>2, <1>3, <1>4, <1>5, ConstantFacts DEF Loads, FramesWell

\* A step that changes one frame, which carries no load before or after.
LEMMA QuietStep ==
    ASSUME Loads, NEW f \in Frames, ~Live(f),
           \A g \in Frames \ {f} : reader'[g] = reader[g],
           Active(f)' => \/ Active(f) /\ reader'[f].key = reader[f].key
                         \/ f[2] = "call" /\ reader'[f].key \in Keys,
           ~Live(f)',
           At(f, "joined")' =>
              LET l == reader'[f].leader IN
              ~Exclusive(f)' /\ l \in Frames /\ Live(l) /\ Key(l) = reader'[f].key,
           \A k \in Keys : publisher'[k] \in {publisher[k], None},
           \A k \in Keys : inFlight'[k] \in {inFlight[k], None},
           \A k \in Resources : forcedResources'[k] \in {forcedResources[k], None}
    PROVE  EntriesLive' /\ JoinsLiveLoad' /\ FramesWell'
<1>1. \A g \in Frames : Live(g) => g # f /\ reader'[g] = reader[g]
  OBVIOUS
<1>2. EntriesLive'
  <2>1. \A k \in Keys : publisher[k] \in Frames \cup {None} /\ inFlight[k] \in Frames \cup {None}
    BY DEF Loads, OtherTypes
  <2>2. \A k \in Resources : forcedResources[k] \in Frames \cup {None}
    BY DEF Loads, OtherTypes
  <2>3. QED
    BY <1>1, <2>1, <2>2, ConstantFacts DEF Loads, EntriesLive, Live, Key
<1>3. JoinsLiveLoad'
  <2>1. ASSUME NEW g \in Frames, At(g, "joined")'
        PROVE  LET l == reader'[g].leader IN
               reader'[l].pc \in {"loading", "answered"} /\ reader'[l].key = reader'[g].key
    <3>1. CASE g = f
      BY <1>1, <2>1, <3>1 DEF Live, Key, At
    <3>2. CASE g # f
      <4>1. reader'[g] = reader[g] /\ At(g, "joined")
        BY <2>1, <3>2 DEF At
      <4>2. reader[g].leader \in Frames /\ Live(reader[g].leader)
            /\ Key(reader[g].leader) = Key(g)
        BY <4>1 DEF Loads, JoinsLiveLoad, FramesWell, Live
      <4>3. QED
        BY <1>1, <4>1, <4>2 DEF Live, Key
    <3>3. QED
      BY <3>1, <3>2
  <2>2. QED
    BY <2>1 DEF JoinsLiveLoad, Key, At
<1>4. FramesWell'
  <2>1. ASSUME NEW g \in Frames
        PROVE  /\ Active(g)' => Key(g)' \in Keys
               /\ At(g, "joined")' => ~Exclusive(g)' /\ reader'[g].leader \in Frames
               /\ At(g, "answered")' => reader'[g].seen \in Versions
               /\ g[2] = "part" /\ Active(g)'
                    => At(CallFrame(g), "loading")' /\ Part[Key(CallFrame(g))'] = Key(g)'
    <3>1. CallFrame(g) \in Frames /\ CallFrame(g) # PartFrame(g) /\ (g[2] = "part" => g = PartFrame(g))
      BY FrameFacts
    <3>2. CASE g = f
      <4>1. Active(f)' => reader'[f].key \in Keys
        BY DEF Loads, FramesWell, Key
      <4>2. ASSUME f[2] = "part", Active(f)'
            PROVE  At(CallFrame(f), "loading")' /\ Part[Key(CallFrame(f))'] = Key(f)'
        <5>1. Active(f) /\ reader'[f].key = reader[f].key
          BY <4>2
        <5>2. At(CallFrame(f), "loading") /\ Part[Key(CallFrame(f))] = Key(f)
          BY <4>2, <5>1 DEF Loads, FramesWell
        <5>3. reader'[CallFrame(f)] = reader[CallFrame(f)]
          BY <3>1, <3>2, <4>2
        <5>4. QED
          BY <5>1, <5>2, <5>3 DEF At, Key
      <4>3. QED
        BY <3>2, <4>1, <4>2 DEF Key, At, Live
    <3>3. CASE g # f
      <4>1. reader'[g] = reader[g]
        BY <3>3
      <4>2. /\ Active(g) => Key(g) \in Keys
            /\ At(g, "joined") => ~Exclusive(g) /\ reader[g].leader \in Frames
            /\ At(g, "answered") => reader[g].seen \in Versions
            /\ g[2] = "part" /\ Active(g)
                 => At(CallFrame(g), "loading") /\ Part[Key(CallFrame(g))] = Key(g)
        BY DEF Loads, FramesWell
      <4>3. At(CallFrame(g), "loading") => reader'[CallFrame(g)] = reader[CallFrame(g)]
        BY <1>1, <3>1 DEF At, Live
      <4>4. QED
        BY <4>1, <4>2, <4>3 DEF Key, At, Active, Exclusive
    <3>4. QED
      BY <3>2, <3>3
  <2>2. QED
    BY <2>1 DEF FramesWell, Key, At, Active, Exclusive, CallFrame
<1>5. QED
  BY <1>2, <1>3, <1>4

\* A load begins.
LEMMA StartStep ==
    ASSUME Loads, NEW f \in Frames, StartLoad(f)
    PROVE  ReadersTyped' /\ EntriesLive' /\ JoinsLiveLoad' /\ FramesWell'
<1> DEFINE p == PartFrame(f)
           k == Key(f)
<1>1. /\ p \in Frames /\ p[2] = "part" /\ CallFrame(p) = CallFrame(f)
      /\ (f[2] = "call" => CallFrame(f) = f /\ f # p)
  BY FrameFacts
<1>2. At(f, "readable") /\ k \in Keys /\ ~Live(f) /\ ~At(f, "joined")
  BY DEF StartLoad, MustLoad, Loads, FramesWell, At, Active, Live
<1>3. f[2] \in {"call", "part"}
  BY PartFacts
<1>4. Active(f)
  BY <1>2 DEF At, Active
<1>5. f[2] = "part" => Part[k] = None
  BY <1>4, PartFacts
<1>6. f[2] = "call" => ~Active(p)
  BY <1>2, PartFacts DEF At
<1>7. Part[k] # None => f[2] = "call" /\ f # p /\ ~Active(p)
  BY <1>1, <1>3, <1>5, <1>6
<1>8. reader' = Loading(f) /\ truth \in Versions /\ versions \in [Roots -> Versions \cup {None}]
      /\ ReadersTyped
  BY DEF StartLoad, Loads, OtherTypes
<1>9. /\ ReadersTyped'
      /\ reader'[f].pc = "loading" /\ reader'[f].key = reader[f].key
      /\ reader'[f].force = reader[f].force
      /\ \A g \in Frames \ {f, p} : reader'[g] = reader[g]
      /\ Part[k] = None /\ f # p => reader'[p] = reader[p]
      /\ Part[k] # None => reader'[p].pc = "called" /\ reader'[p].key = Part[k]
  BY <1>2, <1>7, <1>8, LoadingFacts
<1>10. \A g \in Frames : Live(g) => g # f /\ reader'[g] = reader[g]
  BY <1>2, <1>7, <1>9 DEF Live, Active
<1>11. /\ publisher' = [publisher EXCEPT ![k] = f]
       /\ inFlight' = [inFlight EXCEPT ![k] = f] \/ inFlight' = inFlight
       /\ \/ k \in Resources /\ forcedResources' = [forcedResources EXCEPT ![k] = f]
          \/ forcedResources' = forcedResources
  BY DEF StartLoad, Exclusive
<1>12. EntriesLive'
  <2>1. /\ publisher \in [Keys -> Frames \cup {None}] /\ inFlight \in [Keys -> Frames \cup {None}]
        /\ forcedResources \in [Resources -> Frames \cup {None}]
    BY DEF Loads, OtherTypes
  <2>2. reader'[f].pc \in {"loading", "answered"} /\ reader'[f].key = k
    BY <1>9 DEF Key
  <2>3. ASSUME NEW j \in Keys, publisher'[j] # None
        PROVE  Live(publisher[j])' /\ Key(publisher[j])' = j
    BY <1>2, <1>10, <1>11, <2>1, <2>2, <2>3, ConstantFacts DEF Loads, EntriesLive, Live, Key
  <2>4. ASSUME NEW j \in Keys, inFlight'[j] # None
        PROVE  Live(inFlight[j])' /\ Key(inFlight[j])' = j
    BY <1>2, <1>10, <1>11, <2>1, <2>2, <2>4, ConstantFacts DEF Loads, EntriesLive, Live, Key
  <2>5. ASSUME NEW j \in Resources, forcedResources'[j] # None
        PROVE  Live(forcedResources[j])' /\ Key(forcedResources[j])' = j
    BY <1>2, <1>10, <1>11, <2>1, <2>2, <2>5, ConstantFacts DEF Loads, EntriesLive, Live, Key
  <2>6. QED
    BY <2>3, <2>4, <2>5 DEF EntriesLive
<1>13. \A g \in Frames : reader'[g].pc \in {"joined", "answered"} => reader'[g] = reader[g]
  BY <1>7, <1>9
<1>14. JoinsLiveLoad'
  <2>1. ASSUME NEW g \in Frames, At(g, "joined")'
        PROVE  LET l == reader'[g].leader IN
               reader'[l].pc \in {"loading", "answered"} /\ reader'[l].key = reader'[g].key
    <3>1. reader'[g] = reader[g] /\ At(g, "joined")
      BY <1>13, <2>1 DEF At
    <3>2. /\ reader[g].leader \in Frames /\ Live(reader[g].leader)
          /\ Key(reader[g].leader) = Key(g)
      BY <3>1 DEF Loads, JoinsLiveLoad, FramesWell, Live
    <3>3. QED
      BY <1>10, <3>1, <3>2 DEF Live, Key
  <2>2. QED
    BY <2>1 DEF JoinsLiveLoad, Key, At
<1>15. FramesWell'
  <2>1. ASSUME NEW g \in Frames
        PROVE  /\ Active(g)' => Key(g)' \in Keys
               /\ At(g, "joined")' => ~Exclusive(g)' /\ reader'[g].leader \in Frames
               /\ At(g, "answered")' => reader'[g].seen \in Versions
               /\ g[2] = "part" /\ Active(g)'
                    => At(CallFrame(g), "loading")' /\ Part[Key(CallFrame(g))'] = Key(g)'
    <3>1. /\ CallFrame(g) \in Frames /\ CallFrame(g) # PartFrame(g)
          /\ (g[2] = "part" => g = PartFrame(g)) /\ CallFrame(g)[2] = "call"
          /\ PartFrame(g) \in Frames
      BY FrameFacts
    <3>2. /\ Active(g) => Key(g) \in Keys
          /\ At(g, "joined") => ~Exclusive(g) /\ reader[g].leader \in Frames
          /\ At(g, "answered") => reader[g].seen \in Versions
          /\ g[2] = "part" /\ Active(g)
               => At(CallFrame(g), "loading") /\ Part[Key(CallFrame(g))] = Key(g)
      BY DEF Loads, FramesWell
    <3>3. At(CallFrame(g), "loading") => reader'[CallFrame(g)] = reader[CallFrame(g)]
      BY <1>10, <3>1 DEF At, Live
    <3>4. CASE g = f
      BY <1>2, <1>4, <1>9, <3>2, <3>3, <3>4 DEF Key, At, Active
    <3>5. CASE g = p /\ Part[k] # None
      <4>1. reader'[g].pc = "called" /\ reader'[g].key = Part[k] /\ CallFrame(g) = f
        BY <1>1, <1>7, <1>9, <3>5
      <4>2. Part[k] \in Keys
        BY <1>2, <3>5, ConstantFacts
      <4>3. QED
        BY <1>9, <4>1, <4>2 DEF Key, At
    <3>6. CASE g # f /\ ~(g = p /\ Part[k] # None)
      <4>1. reader'[g] = reader[g]
        BY <1>9, <3>6
      <4>2. QED
        BY <3>2, <3>3, <4>1 DEF Key, At, Active, Exclusive
    <3>7. QED
      BY <3>4, <3>5, <3>6
  <2>2. QED
    BY <2>1 DEF FramesWell, Key, At, Active, Exclusive, CallFrame
<1>16. QED
  BY <1>9, <1>12, <1>14, <1>15

\* A loader learns what GitHub holds: its load stays under way, and its part,
\* which is over, is forgotten.
LEMMA AnsweredStep ==
    ASSUME Loads, NEW f \in Frames, At(f, "loading"),
           f[2] = "call" => ~Active(PartFrame(f)),
           \A g \in Frames \ {f, PartFrame(f)} : reader'[g] = reader[g],
           PartFrame(f) # f => reader'[PartFrame(f)] = reader[PartFrame(f)] \/ ~Active(PartFrame(f))',
           reader'[f].pc = "answered", reader'[f].key = reader[f].key,
           reader'[f].seen \in Versions,
           publisher' = publisher, inFlight' = inFlight, forcedResources' = forcedResources
    PROVE  EntriesLive' /\ JoinsLiveLoad' /\ FramesWell'
<1> DEFINE p == PartFrame(f)
<1>1. p \in Frames /\ (f # p => ~Active(p))
  BY FrameFacts, PartFacts
<1>2. \A g \in Frames : Live(g) => Live(g)' /\ Key(g)' = Key(g)
  BY <1>1 DEF Live, Key, Active, At
<1>3. EntriesLive'
  <2>1. \A k \in Keys : publisher[k] \in Frames \cup {None} /\ inFlight[k] \in Frames \cup {None}
    BY DEF Loads, OtherTypes
  <2>2. \A k \in Resources : forcedResources[k] \in Frames \cup {None}
    BY DEF Loads, OtherTypes
  <2>3. QED
    BY <1>2, <2>1, <2>2, ConstantFacts DEF Loads, EntriesLive, Live, Key
<1>4. \A g \in Frames : Active(g)' /\ g # f => reader'[g] = reader[g]
  BY <1>1 DEF Active
<1>5. JoinsLiveLoad'
  <2>1. ASSUME NEW g \in Frames, At(g, "joined")'
        PROVE  LET l == reader'[g].leader IN
               reader'[l].pc \in {"loading", "answered"} /\ reader'[l].key = reader'[g].key
    <3>1. reader'[g] = reader[g] /\ At(g, "joined")
      BY <1>4, <2>1 DEF At, Active
    <3>2. /\ reader[g].leader \in Frames /\ Live(reader[g].leader)
          /\ Key(reader[g].leader) = Key(g)
      BY <3>1 DEF Loads, JoinsLiveLoad, FramesWell, Live
    <3>3. QED
      BY <1>2, <3>1, <3>2 DEF Live, Key
  <2>2. QED
    BY <2>1 DEF JoinsLiveLoad, Key, At
<1>6. FramesWell'
  <2>1. ASSUME NEW g \in Frames
        PROVE  /\ Active(g)' => Key(g)' \in Keys
               /\ At(g, "joined")' => ~Exclusive(g)' /\ reader'[g].leader \in Frames
               /\ At(g, "answered")' => reader'[g].seen \in Versions
               /\ g[2] = "part" /\ Active(g)'
                    => At(CallFrame(g), "loading")' /\ Part[Key(CallFrame(g))'] = Key(g)'
    <3>1. /\ CallFrame(g) \in Frames /\ (g[2] = "part" => g = PartFrame(g))
          /\ CallFrame(g)[2] = "call" /\ PartFrame(CallFrame(g)) = PartFrame(g)
          /\ PartFrame(f)[2] = "part"
      BY FrameFacts DEF PartFrame, CallFrame
    <3>2. /\ Active(g) => Key(g) \in Keys
          /\ At(g, "joined") => ~Exclusive(g) /\ reader[g].leader \in Frames
          /\ At(g, "answered") => reader[g].seen \in Versions
          /\ g[2] = "part" /\ Active(g)
               => At(CallFrame(g), "loading") /\ Part[Key(CallFrame(g))] = Key(g)
      BY DEF Loads, FramesWell
    <3>3. g[2] = "part" /\ Active(g) => CallFrame(g) # f
      BY <1>1, <3>1
    <3>4. CallFrame(g) # f /\ At(CallFrame(g), "loading") => reader'[CallFrame(g)] = reader[CallFrame(g)]
      BY <1>1, <3>1 DEF At, Active
    <3>5. CASE g = f
      BY <3>2, <3>3, <3>4, <3>5, <1>1 DEF Key, At, Active
    <3>6. CASE g # f /\ Active(g)'
      <4>1. reader'[g] = reader[g]
        BY <1>4, <3>6
      <4>2. QED
        BY <3>2, <3>3, <3>4, <4>1 DEF Key, At, Active, Exclusive
    <3>7. CASE ~Active(g)'
      BY <3>7 DEF At, Active
    <3>8. QED
      BY <3>5, <3>6, <3>7
  <2>2. QED
    BY <2>1 DEF FramesWell, Key, At, Active, Exclusive, CallFrame
<1>7. QED
  BY <1>3, <1>5, <1>6

\* A load ends, with a value or an error.
LEMMA SettleStep ==
    ASSUME Loads, NEW f \in Frames, NEW v \in Versions \cup {None}, Settle(f, v),
           Live(f), f[2] = "call" => ~Active(PartFrame(f))
    PROVE  ReadersTyped' /\ EntriesLive' /\ JoinsLiveLoad' /\ FramesWell'
<1> DEFINE p == PartFrame(f)
<1>1. /\ p \in Frames /\ f[2] \in {"call", "part"}
      /\ (f[2] = "part" => f = p)
  BY FrameFacts, PartFacts
<1>2. /\ ReadersTyped'
      /\ \A g \in Frames : ~Follows(g, f) /\ g # p => reader'[g] = reader[g]
      /\ \A g \in Frames : Follows(g, f) => reader'[g].pc = "done"
      /\ \A g \in Frames : ~Follows(g, f) /\ g = p => reader'[g].pc = "idle"
  BY SettleFacts DEF Loads
<1>3. Follows(f, f) /\ (p # f => ~Active(p))
  BY <1>1 DEF Follows
<1>4. \A g \in Frames : Active(g)' => reader'[g] = reader[g] /\ g # f /\ ~Follows(g, f)
  BY <1>2, <1>3 DEF Active
<1>5. \A g \in Frames : Live(g) /\ g # f => reader'[g] = reader[g]
  BY <1>2, <1>3 DEF Live, Follows, At, Active
<1>6. EntriesLive'
  <2>1. \A k \in Keys : publisher[k] \in Frames \cup {None} /\ inFlight[k] \in Frames \cup {None}
    BY DEF Loads, OtherTypes
  <2>2. \A k \in Resources : forcedResources[k] \in Frames \cup {None}
    BY DEF Loads, OtherTypes
  <2>3. /\ \A k \in Keys : inFlight'[k] = IF inFlight[k] = f THEN None ELSE inFlight[k]
        /\ \A k \in Keys : publisher'[k] = IF publisher[k] = f THEN None ELSE publisher[k]
        /\ \A k \in Resources :
             forcedResources'[k] = IF forcedResources[k] = f THEN None ELSE forcedResources[k]
    BY SettleMaps
  <2>4. QED
    BY <1>5, <2>1, <2>2, <2>3 DEF Loads, EntriesLive, Live, Key
<1>7. JoinsLiveLoad'
  <2>1. ASSUME NEW g \in Frames, At(g, "joined")'
        PROVE  LET l == reader'[g].leader IN
               reader'[l].pc \in {"loading", "answered"} /\ reader'[l].key = reader'[g].key
    <3>1. reader'[g] = reader[g] /\ At(g, "joined") /\ ~Follows(g, f)
      BY <1>4, <2>1 DEF At, Active
    <3>2. /\ reader[g].leader \in Frames /\ Live(reader[g].leader)
          /\ Key(reader[g].leader) = Key(g)
      BY <3>1 DEF Loads, JoinsLiveLoad, FramesWell, Live
    <3>3. reader[g].leader # f
      BY <3>1 DEF Follows
    <3>4. QED
      BY <1>5, <3>1, <3>2, <3>3 DEF Live, Key
  <2>2. QED
    BY <2>1 DEF JoinsLiveLoad, Key, At
<1>8. FramesWell'
  <2>1. ASSUME NEW g \in Frames, Active(g)'
        PROVE  /\ Key(g)' \in Keys
               /\ At(g, "joined")' => ~Exclusive(g)' /\ reader'[g].leader \in Frames
               /\ At(g, "answered")' => reader'[g].seen \in Versions
               /\ g[2] = "part"
                    => At(CallFrame(g), "loading")' /\ Part[Key(CallFrame(g))'] = Key(g)'
    <3>1. /\ CallFrame(g) \in Frames /\ (g[2] = "part" => g = PartFrame(g))
          /\ CallFrame(g)[2] = "call" /\ PartFrame(CallFrame(g)) = PartFrame(g)
      BY FrameFacts DEF PartFrame, CallFrame
    <3>2. reader'[g] = reader[g] /\ g # f /\ Active(g)
      BY <1>4, <2>1 DEF Active
    <3>3. /\ Key(g) \in Keys
          /\ At(g, "joined") => ~Exclusive(g) /\ reader[g].leader \in Frames
          /\ At(g, "answered") => reader[g].seen \in Versions
          /\ g[2] = "part" => At(CallFrame(g), "loading") /\ Part[Key(CallFrame(g))] = Key(g)
      BY <3>2 DEF Loads, FramesWell
    <3>4. g[2] = "part" => CallFrame(g) # f
      BY <3>1, <3>2
    <3>5. g[2] = "part" => reader'[CallFrame(g)] = reader[CallFrame(g)]
      BY <1>5, <3>1, <3>3, <3>4 DEF At, Live
    <3>6. QED
      BY <3>2, <3>3, <3>5 DEF Key, At, Exclusive
  <2>2. QED
    BY <2>1 DEF FramesWell, Key, At, Active, Exclusive, CallFrame
<1>9. QED
  BY <1>2, <1>6, <1>7, <1>8

\* The readers stay, and the maps lose entries at most.
LEMMA StillStep ==
    ASSUME Loads, reader' = reader,
           \A k \in Keys : publisher'[k] \in {publisher[k], None},
           \A k \in Keys : inFlight'[k] \in {inFlight[k], None},
           \A k \in Resources : forcedResources'[k] \in {forcedResources[k], None}
    PROVE  ReadersTyped' /\ EntriesLive' /\ JoinsLiveLoad' /\ FramesWell'
BY DEF Loads, ReadersTyped, EntriesLive, JoinsLiveLoad, FramesWell, Live, Key, At, Active,
       Exclusive, CallFrame

\* A release wakes the parked reads, which carry no load.
LEMMA WakeStep ==
    ASSUME Loads, NEW w \in Writers, Release(w)
    PROVE  ReadersTyped' /\ EntriesLive' /\ JoinsLiveLoad' /\ FramesWell'
<1>1. /\ ReadersTyped'
      /\ \A f \in Frames :
           /\ reader'[f].pc = IF At(f, "parked") THEN "called" ELSE reader[f].pc
           /\ reader'[f].key = reader[f].key /\ reader'[f].force = reader[f].force
           /\ reader'[f].since = reader[f].since /\ reader'[f].seen = reader[f].seen
           /\ reader'[f].leader = reader[f].leader
  BY WakeFacts DEF Loads
<1>2. /\ \A f \in Frames : Live(f)' = Live(f) /\ Key(f)' = Key(f) /\ Active(f)' = Active(f)
      /\ \A f \in Frames : At(f, "joined")' = At(f, "joined")
      /\ \A f \in Frames : At(f, "loading")' = At(f, "loading")
      /\ \A f \in Frames : At(f, "answered")' = At(f, "answered")
      /\ \A f \in Frames : Exclusive(f)' = Exclusive(f)
  BY <1>1 DEF Live, Key, Active, At, Exclusive
<1>3. publisher' = publisher /\ inFlight' = inFlight /\ forcedResources' = forcedResources
  BY DEF Release, cache, flights
<1>4. EntriesLive'
  <2>1. \A k \in Keys : publisher[k] \in Frames \cup {None} /\ inFlight[k] \in Frames \cup {None}
    BY DEF Loads, OtherTypes
  <2>2. \A k \in Resources : forcedResources[k] \in Frames \cup {None}
    BY DEF Loads, OtherTypes
  <2>3. QED
    BY <1>1, <1>3, <2>1, <2>2, ConstantFacts DEF Loads, EntriesLive, Live, Key, At
<1>5. JoinsLiveLoad'
  BY <1>1 DEF Loads, JoinsLiveLoad, FramesWell, At, Key
<1>6. FramesWell'
  <2>1. \A g \in Frames : CallFrame(g) \in Frames
    BY FrameFacts
  <2>2. \A g \in Frames :
          /\ Active(g)' => Key(g)' \in Keys
          /\ At(g, "joined")' => ~Exclusive(g)' /\ reader'[g].leader \in Frames
          /\ At(g, "answered")' => reader'[g].seen \in Versions
    BY <1>1, <1>2 DEF Loads, FramesWell
  <2>3. \A g \in Frames :
          g[2] = "part" /\ Active(g)'
            => At(CallFrame(g), "loading")' /\ Part[Key(CallFrame(g))'] = Key(g)'
    BY <1>2, <2>1 DEF Loads, FramesWell
  <2>4. QED
    BY <2>2, <2>3 DEF FramesWell, Key
<1>7. QED
  BY <1>1, <1>4, <1>5, <1>6

LEMMA InitLoads == Init => Loads
<1> SUFFICES ASSUME Init PROVE Loads
  OBVIOUS
<1>1. \A f \in Frames : reader[f] = Idle
  BY DEF Init
<1>2. OtherTypes
  BY ConstantFacts, GatewayAssumption DEF Init, OtherTypes, WriterPc, GatewayAssumption
<1>3. ReadersTyped
  BY IdleFacts DEF Init, ReadersTyped
<1>4. EntriesLive
  BY DEF Init, EntriesLive
<1>5. JoinsLiveLoad /\ FramesWell
  BY <1>1, IdleFacts DEF JoinsLiveLoad, FramesWell, At, Active
<1>6. QED
  BY <1>2, <1>3, <1>4, <1>5 DEF Loads

-----------------------------------------------------------------------------
(* The queue of the leases *)

\* What a pump grants: the first n of the queue, as no two of them clash, and
\* no more, as the next one does.
Grants(queue, held, others, n) ==
    LET first == {queue[i] : i \in 1..n} IN
    /\ first \subseteq Writers
    /\ \A i, j \in 1..n : j < i => Lease[queue[i]] \cap Lease[queue[j]] = {}
    /\ \A i \in 1..n : Lease[queue[i]] \cap held = {}
    /\ heldWriteLeases' = held \cup UNION {Lease[w] : w \in first}
    /\ heldWriteLeases' \in SUBSET Roots
    /\ writer' = [w \in Writers |-> IF w \in first THEN "granted" ELSE others[w]]
    /\ writer' \in [Writers -> WriterPc]
    /\ writeQueue' \in Seq(Writers)
    /\ Len(writeQueue') = Len(queue) - n
    /\ \A i \in 1..(Len(queue) - n) : writeQueue'[i] = queue[n + i]
    /\ n < Len(queue) => Lease[queue[n + 1]] \cap heldWriteLeases' # {}

LEMMA PumpFacts ==
    ASSUME NEW queue \in Seq(Writers), NEW held \in SUBSET Roots,
           NEW others \in [Writers -> WriterPc], Pump(queue, held, others)
    PROVE  \E n \in 0..Len(queue) : Grants(queue, held, others, n)
<1>1. PICK n \in Grantable(queue, held) :
        /\ n + 1 \notin Grantable(queue, held)
        /\ writeQueue' = SubSeq(queue, n + 1, Len(queue))
        /\ heldWriteLeases' = held \cup UNION {Lease[w] : w \in {queue[i] : i \in 1..n}}
        /\ writer' = [w \in Writers |->
                        IF w \in {queue[i] : i \in 1..n} THEN "granted" ELSE others[w]]
  BY DEF Pump
<1> DEFINE first == {queue[i] : i \in 1..n}
<1>2. /\ n \in 0..Len(queue)
      /\ \A i \in 1..n :
           Lease[queue[i]] \cap (held \cup UNION {Lease[queue[j]] : j \in 1..(i - 1)}) = {}
  BY <1>1 DEF Grantable
<1>3. Len(queue) \in Nat /\ \A i \in 1..Len(queue) : queue[i] \in Writers
  BY ElementOfSeq, LenProperties
<1>4. first \subseteq Writers
  BY <1>2, <1>3
<1>5. UNION {Lease[w] : w \in first} \subseteq Roots
  BY <1>4, ConstantFacts
<1>6. writer' \in [Writers -> WriterPc]
  BY <1>1 DEF WriterPc
<1>7. /\ writeQueue' \in Seq(Writers)
      /\ Len(writeQueue') = Len(queue) - n
      /\ \A i \in 1..(Len(queue) - n) : writeQueue'[i] = queue[n + i]
  <2>1. \A i \in (n + 1)..Len(queue) : queue[i] \in Writers
    BY <1>2, <1>3
  <2>2. n + 1 \in Int /\ Len(queue) \in Int
    BY <1>2, <1>3
  <2>3. /\ SubSeq(queue, n + 1, Len(queue)) \in Seq(Writers)
        /\ Len(SubSeq(queue, n + 1, Len(queue)))
             = IF n + 1 <= Len(queue) THEN Len(queue) - (n + 1) + 1 ELSE 0
        /\ \A i \in 1..(Len(queue) - (n + 1) + 1) :
             SubSeq(queue, n + 1, Len(queue))[i] = queue[(n + 1) + i - 1]
    BY <2>1, <2>2, SubSeqProperties
  <2>4. QED
    BY <1>1, <1>2, <1>3, <2>3
<1>8. ASSUME n < Len(queue)
      PROVE  Lease[queue[n + 1]] \cap heldWriteLeases' # {}
  <2>1. n + 1 \in 0..Len(queue)
    BY <1>2, <1>3, <1>8
  <2>2. PICK i \in 1..(n + 1) :
          Lease[queue[i]] \cap (held \cup UNION {Lease[queue[j]] : j \in 1..(i - 1)}) # {}
    BY <1>1, <2>1 DEF Grantable
  <2>3. i = n + 1
    BY <1>2, <2>2
  <2>4. \A j \in 1..n : Lease[queue[j]] \subseteq UNION {Lease[w] : w \in first}
    OBVIOUS
  <2>5. UNION {Lease[queue[j]] : j \in 1..n} \subseteq heldWriteLeases'
    BY <1>1, <2>4
  <2>6. i - 1 = n
    BY <1>2, <2>3
  <2>7. QED
    BY <1>1, <2>2, <2>3, <2>5, <2>6
<1>9. \A i, j \in 1..n : j < i => Lease[queue[i]] \cap Lease[queue[j]] = {}
  <2> SUFFICES ASSUME NEW i \in 1..n, NEW j \in 1..n, j < i
               PROVE  Lease[queue[i]] \cap Lease[queue[j]] = {}
    OBVIOUS
  <2>1. j \in 1..(i - 1)
    BY <1>2
  <2>2. Lease[queue[j]] \subseteq UNION {Lease[queue[m]] : m \in 1..(i - 1)}
    BY <2>1
  <2>3. QED
    BY <1>2, <2>2
<1>10. \A i \in 1..n : Lease[queue[i]] \cap held = {}
  BY <1>2
<1>11. heldWriteLeases' \in SUBSET Roots
  BY <1>1, <1>5
<1> HIDE DEF first
<1>12. QED
  BY <1>1, <1>2, <1>4, <1>6, <1>7, <1>8, <1>9, <1>10, <1>11 DEF first, Grants

-----------------------------------------------------------------------------
(* Every step keeps Loads *)

\* Reads that begin, wait, join or are answered from the cache.
LEMMA QuietReads ==
    ASSUME Loads, NEW f \in Frames,
           \/ PassLease(f) \/ ParkOnLease(f) \/ RefuseLimited(f) \/ JoinForced(f)
           \/ AnswerFromCache(f) \/ JoinInFlight(f)
    PROVE  Loads'
<1> DEFINE Same == /\ UNCHANGED <<truth, cache, flights, leases, writer, writes, floor>>
<1>0. ReadersTyped /\ OtherTypes
  BY DEF Loads
<1>1. ASSUME Same PROVE OtherTypes'
  BY <1>0, <1>1 DEF OtherTypes, cache, flights, leases
<1>2. ASSUME Same
      PROVE  /\ \A k \in Keys : publisher'[k] \in {publisher[k], None}
             /\ \A k \in Keys : inFlight'[k] \in {inFlight[k], None}
             /\ \A k \in Resources : forcedResources'[k] \in {forcedResources[k], None}
  BY <1>2 DEF cache, flights
<1> HIDE DEF Same
<1>3. ASSUME NEW label \in {"readable", "parked"}, At(f, "called"), Move(f, label), Same
      PROVE  Loads'
  <2>1. label \in ReaderPc
    BY DEF ReaderPc
  <2>2. /\ ReadersTyped'
        /\ \A g \in Frames \ {f} : reader'[g] = reader[g]
        /\ reader'[f].pc = label /\ reader'[f].key = reader[f].key
    BY <1>0, <1>3, <2>1, MoveFacts
  <2>3. ~Live(f) /\ ~Live(f)' /\ ~At(f, "joined")' /\ Active(f)
    BY <1>3, <2>2 DEF Live, At, Active
  <2>4. EntriesLive' /\ JoinsLiveLoad' /\ FramesWell'
    BY <1>2, <1>3, <2>2, <2>3, QuietStep
  <2>5. QED
    BY <1>1, <1>3, <2>2, <2>4 DEF Loads
<1>4. ASSUME NEW v \in Versions \cup {None}, At(f, "readable"), Return(f, v), Same
      PROVE  Loads'
  <2>1. /\ ReadersTyped'
        /\ \A g \in Frames \ {f} : reader'[g] = reader[g]
        /\ reader'[f].pc = "done"
    BY <1>0, <1>4, ReturnFacts
  <2>2. ~Live(f) /\ ~Live(f)' /\ ~At(f, "joined")' /\ ~Active(f)'
    BY <1>4, <2>1 DEF Live, At, Active
  <2>3. EntriesLive' /\ JoinsLiveLoad' /\ FramesWell'
    BY <1>2, <1>4, <2>1, <2>2, QuietStep
  <2>4. QED
    BY <1>1, <1>4, <2>1, <2>3 DEF Loads
<1>5. ASSUME NEW l \in Frames, At(f, "readable"), Join(f, l), Same,
             Live(l), Key(l) = Key(f), ~Exclusive(f)
      PROVE  Loads'
  <2>1. /\ ReadersTyped'
        /\ \A g \in Frames \ {f} : reader'[g] = reader[g]
        /\ reader'[f].pc = "joined" /\ reader'[f].key = reader[f].key
        /\ reader'[f].force = reader[f].force /\ reader'[f].leader = l
    BY <1>0, <1>5, JoinFacts
  <2>2. ~Live(f) /\ ~Live(f)' /\ Active(f) /\ ~Exclusive(f)' /\ Key(l) = reader'[f].key
    BY <1>5, <2>1 DEF Live, At, Active, Exclusive, Key
  <2>3. EntriesLive' /\ JoinsLiveLoad' /\ FramesWell'
    BY <1>2, <1>5, <2>1, <2>2, QuietStep
  <2>4. QED
    BY <1>1, <1>5, <2>1, <2>3 DEF Loads
<1>6. At(f, "readable") => Key(f) \in Keys
  BY DEF Loads, FramesWell, At, Active
<1>7. CASE PassLease(f)
  BY <1>3, <1>7 DEF PassLease, Same
<1>8. CASE ParkOnLease(f)
  BY <1>3, <1>8 DEF ParkOnLease, Same
<1>9. CASE RefuseLimited(f)
  BY <1>4, <1>9 DEF RefuseLimited, Same
<1>10. CASE JoinForced(f)
  <2>1. /\ At(f, "readable") /\ Same /\ Key(f) \in Resources /\ ~reader[f].force
        /\ forcedResources[Key(f)] # None /\ Join(f, forcedResources[Key(f)])
    BY <1>10 DEF JoinForced, ForcedPending, Same
  <2>2. forcedResources[Key(f)] \in Frames
    BY <1>0, <2>1 DEF OtherTypes
  <2>3. Live(forcedResources[Key(f)]) /\ Key(forcedResources[Key(f)]) = Key(f)
    BY <2>1 DEF Loads, EntriesLive
  <2>4. QED
    BY <1>5, <2>1, <2>2, <2>3 DEF Exclusive
<1>11. CASE JoinInFlight(f)
  <2>1. /\ At(f, "readable") /\ Same /\ ~Exclusive(f)
        /\ inFlight[Key(f)] # None /\ Join(f, inFlight[Key(f)])
    BY <1>11 DEF JoinInFlight, MustLoad, Same
  <2>2. inFlight[Key(f)] \in Frames
    BY <1>0, <1>6, <2>1 DEF OtherTypes
  <2>3. Live(inFlight[Key(f)]) /\ Key(inFlight[Key(f)]) = Key(f)
    BY <1>6, <2>1 DEF Loads, EntriesLive
  <2>4. QED
    BY <1>5, <2>1, <2>2, <2>3
<1>12. CASE AnswerFromCache(f)
  <2> DEFINE v == IF Key(f) \in Resources THEN resources[Key(f)] ELSE aggregates[Key(f)].value
  <2>1. At(f, "readable") /\ Same /\ CacheHit(f) /\ Return(f, v)
    BY <1>12 DEF AnswerFromCache, Same
  <2>2. v \in Versions \cup {None}
    BY <1>0, <1>6, <2>1, ConstantFacts DEF OtherTypes, CacheHit, ResourceHit, AggregateHit
  <2> HIDE DEF v
  <2>3. QED
    BY <1>4, <2>1, <2>2
<1>13. QED
  BY <1>7, <1>8, <1>9, <1>10, <1>11, <1>12

\* Loads that begin, are answered and end.
LEMMA LoadReads ==
    ASSUME Loads, NEW f \in Frames,
           \/ StartLoad(f) \/ Observe(f) \/ ObservePart(f) \/ LoadFails(f)
           \/ PublishResource(f) \/ PublishAggregate(f)
    PROVE  Loads'
<1>0. ReadersTyped /\ OtherTypes
  BY DEF Loads
<1>1. CASE StartLoad(f)
  <2>1. At(f, "readable") /\ Key(f) \in Keys
    BY <1>1 DEF StartLoad, MustLoad, Loads, FramesWell, At, Active
  <2>2. OtherTypes'
    BY <1>0, <1>1, <2>1 DEF StartLoad, OtherTypes, leases, Exclusive
  <2>3. QED
    BY <1>1, <2>2, StartStep DEF Loads
<1>2. CASE Observe(f)
  <2>1. /\ ReadersTyped'
        /\ \A g \in Frames \ {f} : reader'[g] = reader[g]
        /\ reader'[f].pc = "answered" /\ reader'[f].key = reader[f].key
        /\ reader'[f].seen = truth /\ truth \in Versions
    BY <1>0, <1>2, ObserveFacts DEF OtherTypes
  <2>2. At(f, "loading") /\ Part[Key(f)] = None
    BY <1>2 DEF Observe
  <2>3. f[2] = "call" => ~Active(PartFrame(f))
    BY <2>2, PartFacts
  <2>4. EntriesLive' /\ JoinsLiveLoad' /\ FramesWell'
    <3>1. publisher' = publisher /\ inFlight' = inFlight /\ forcedResources' = forcedResources
      BY <1>2 DEF Observe, cache, flights
    <3>2. PartFrame(f) # f => reader'[PartFrame(f)] = reader[PartFrame(f)]
      BY <2>1, FrameFacts
    <3>3. \A g \in Frames \ {f, PartFrame(f)} : reader'[g] = reader[g]
      BY <2>1
    <3>4. QED
      BY <2>1, <2>2, <2>3, <3>1, <3>2, <3>3, AnsweredStep
  <2>5. OtherTypes'
    BY <1>0, <1>2 DEF Observe, OtherTypes, cache, flights, leases
  <2>6. QED
    BY <2>1, <2>4, <2>5 DEF Loads
<1>3. CASE ObservePart(f)
  <2>1. LET p == PartFrame(f) IN
        /\ ReadersTyped'
        /\ f # p
        /\ \A g \in Frames \ {f, p} : reader'[g] = reader[g]
        /\ reader'[p].pc = "idle"
        /\ reader'[f].pc = "answered" /\ reader'[f].key = reader[f].key
        /\ reader'[f].seen = reader[p].seen /\ reader[p].seen \in Versions
    BY <1>0, <1>3, ObservePartFacts
  <2>2. At(f, "loading") /\ ~Active(PartFrame(f)) /\ ~Active(PartFrame(f))'
    BY <1>3, <2>1 DEF ObservePart, Active
  <2>3. EntriesLive' /\ JoinsLiveLoad' /\ FramesWell'
    <3>1. publisher' = publisher /\ inFlight' = inFlight /\ forcedResources' = forcedResources
      BY <1>3 DEF ObservePart, cache, flights
    <3>2. QED
      BY <2>1, <2>2, <3>1, AnsweredStep
  <2>4. OtherTypes'
    BY <1>0, <1>3 DEF ObservePart, OtherTypes, cache, flights, leases
  <2>5. QED
    BY <2>1, <2>3, <2>4 DEF Loads
<1>4. ASSUME NEW v \in Versions \cup {None}, Settle(f, v)
      PROVE  /\ publisher' \in [Keys -> Frames \cup {None}]
             /\ forcedResources' \in [Resources -> Frames \cup {None}]
             /\ inFlight' \in [Keys -> Frames \cup {None}]
  BY <1>0, <1>4 DEF Settle, OtherTypes
<1>5. ASSUME At(f, "answered") PROVE f[2] = "call" => ~Active(PartFrame(f))
  BY <1>5, PartFacts DEF At
<1>6. At(f, "answered") => Live(f) /\ reader[f].seen \in Versions /\ Key(f) \in Keys
  BY DEF Loads, FramesWell, At, Live, Active
<1>7. CASE LoadFails(f)
  <2>1. At(f, "loading") /\ Settle(f, None) /\ Live(f) /\ Active(f)
    BY <1>7 DEF LoadFails, At, Live, Active
  <2>2. f[2] = "call" => ~Active(PartFrame(f))
    BY <1>7, <2>1, PartFacts DEF LoadFails, Active
  <2>3. ReadersTyped' /\ EntriesLive' /\ JoinsLiveLoad' /\ FramesWell'
    BY <2>1, <2>2, SettleStep
  <2>4. OtherTypes'
    BY <1>0, <1>4, <1>7, <2>1 DEF LoadFails, OtherTypes, leases
  <2>5. QED
    BY <2>3, <2>4 DEF Loads
<1>8. CASE PublishResource(f)
  <2>1. At(f, "answered") /\ Settle(f, reader[f].seen) /\ Key(f) \in Resources
    BY <1>8 DEF PublishResource
  <2>2. ReadersTyped' /\ EntriesLive' /\ JoinsLiveLoad' /\ FramesWell'
    BY <1>5, <1>6, <2>1, SettleStep
  <2>3. /\ resources' \in [Resources -> Versions \cup {None}]
        /\ versions' \in [Roots -> Versions \cup {None}]
    BY <1>0, <1>6, <1>8, <2>1 DEF PublishResource, OtherTypes
  <2>4. OtherTypes'
    BY <1>0, <1>4, <1>6, <1>8, <2>1, <2>3 DEF PublishResource, OtherTypes, leases
  <2>5. QED
    BY <2>2, <2>4 DEF Loads
<1>9. CASE PublishAggregate(f)
  <2>1. At(f, "answered") /\ Settle(f, reader[f].seen) /\ Key(f) \in Aggregates
    BY <1>9 DEF PublishAggregate
  <2>2. ReadersTyped' /\ EntriesLive' /\ JoinsLiveLoad' /\ FramesWell'
    BY <1>5, <1>6, <2>1, SettleStep
  <2>3. versions' \in [Roots -> Versions \cup {None}]
    BY <1>0, <1>6, <1>9, <2>1 DEF PublishAggregate, OtherTypes
  <2>4. aggregates' \in [Aggregates -> [value : Versions, live : BOOLEAN] \cup {None}]
    <3>1. [value |-> reader[f].seen, live |-> TRUE] \in [value : Versions, live : BOOLEAN]
      BY <1>6, <2>1
    <3>2. QED
      BY <1>0, <1>9, <2>1, <3>1 DEF PublishAggregate, OtherTypes
  <2>5. OtherTypes'
    BY <1>0, <1>4, <1>6, <1>9, <2>1, <2>3, <2>4 DEF PublishAggregate, OtherTypes, leases
  <2>6. QED
    BY <2>2, <2>5 DEF Loads
<1>10. QED
  BY <1>1, <1>2, <1>3, <1>7, <1>8, <1>9

\* Writes, and what happens outside.
LEMMA WriteLoads ==
    ASSUME Loads, NEW w \in Writers, WriteStep(w) \/ Submit(w)
    PROVE  Loads'
<1>0. /\ ReadersTyped /\ OtherTypes /\ writeQueue \in Seq(Writers)
      /\ writer \in [Writers -> WriterPc] /\ heldWriteLeases \in SUBSET Roots
  BY DEF Loads, OtherTypes
<1>1. ASSUME NEW to \in WriterPc, NEW from, Step(w, from, to), truth' \in Versions PROVE Loads'
  <2>1. OtherTypes'
    BY <1>0, <1>1 DEF Step, OtherTypes, cache, flights, leases
  <2>2. ReadersTyped' /\ EntriesLive' /\ JoinsLiveLoad' /\ FramesWell'
    BY <1>1, StillStep DEF Step, cache, flights
  <2>3. QED
    BY <2>1, <2>2 DEF Loads
<1>2. CASE PersistMarker(w) \/ MarkerFails(w) \/ Reject(w)
  BY <1>0, <1>1, <1>2 DEF PersistMarker, MarkerFails, Reject, OtherTypes, WriterPc
<1>3. CASE Execute(w)
  <2>1. truth' \in Versions
    BY <1>0, <1>3, ConstantFacts DEF Execute, OtherTypes, Versions
  <2>2. QED
    BY <1>1, <1>3, <2>1 DEF Execute, WriterPc
<1>4. CASE Invalidate(w)
  <2>1. OtherTypes'
    BY <1>0, <1>4 DEF Invalidate, OtherTypes, leases, WriterPc
  <2>2. /\ \A k \in Keys : publisher'[k] \in {publisher[k], None}
        /\ \A k \in Keys : inFlight'[k] \in {inFlight[k], None}
        /\ \A k \in Resources : forcedResources'[k] \in {forcedResources[k], None}
        /\ reader' = reader
    BY <1>4 DEF Invalidate
  <2>3. QED
    BY <2>1, <2>2, StillStep DEF Loads
<1>5. CASE Release(w)
  <2>1. [writer EXCEPT ![w] = "idle"] \in [Writers -> WriterPc]
    BY <1>0 DEF WriterPc
  <2>2. Pump(writeQueue, heldWriteLeases \ Lease[w], [writer EXCEPT ![w] = "idle"])
    BY <1>5 DEF Release
  <2>3. heldWriteLeases' \in SUBSET Roots /\ writer' \in [Writers -> WriterPc]
        /\ writeQueue' \in Seq(Writers)
    BY <1>0, <2>1, <2>2, PumpFacts DEF Grants
  <2>4. OtherTypes'
    BY <1>0, <1>5, <2>3 DEF Release, OtherTypes, cache, flights
  <2>5. QED
    BY <1>5, <2>4, WakeStep DEF Loads
<1>6. CASE Submit(w)
  <2>1. [writer EXCEPT ![w] = "queued"] \in [Writers -> WriterPc]
    BY <1>0 DEF WriterPc
  <2>2. Append(writeQueue, w) \in Seq(Writers)
    BY <1>0
  <2>3. Pump(Append(writeQueue, w), heldWriteLeases, [writer EXCEPT ![w] = "queued"])
    BY <1>6 DEF Submit
  <2>4. heldWriteLeases' \in SUBSET Roots /\ writer' \in [Writers -> WriterPc]
        /\ writeQueue' \in Seq(Writers)
    BY <1>0, <2>1, <2>2, <2>3, PumpFacts DEF Grants
  <2>5. writes' \in [Writers -> 0..MaxWrites]
    <3>1. MaxWrites \in Nat
      BY GatewayAssumption DEF GatewayAssumption
    <3>2. QED
      BY <1>0, <1>6, <3>1 DEF Submit, OtherTypes
  <2>6. OtherTypes'
    BY <1>0, <1>6, <2>4, <2>5 DEF Submit, OtherTypes, cache, flights
  <2>7. ReadersTyped' /\ EntriesLive' /\ JoinsLiveLoad' /\ FramesWell'
    BY <1>6, StillStep DEF Submit, cache, flights
  <2>8. QED
    BY <2>6, <2>7 DEF Loads
<1>7. QED
  BY <1>2, <1>3, <1>4, <1>5, <1>6 DEF WriteStep

LEMMA LoadsStep == Loads /\ [Next]_vars => Loads'
<1> SUFFICES ASSUME Loads, [Next]_vars PROVE Loads'
  OBVIOUS
<1>0. ReadersTyped /\ OtherTypes
  BY DEF Loads
<1>1. ASSUME NEW f \in Frames, ReadStep(f) PROVE Loads'
  BY <1>1, QuietReads, LoadReads DEF ReadStep
<1>2. ASSUME NEW f \in Frames, NEW k \in Keys, NEW b \in BOOLEAN, Call(f, k, b) PROVE Loads'
  <2>1. /\ ReadersTyped'
        /\ \A g \in Frames \ {f} : reader'[g] = reader[g]
        /\ reader'[f].pc = "called" /\ reader'[f].key = k
    BY <1>0, <1>2, CallFacts DEF OtherTypes
  <2>2. f[2] = "call" /\ ~Live(f) /\ ~Live(f)' /\ ~At(f, "joined")'
    BY <1>2, <2>1 DEF Call, Live, At
  <2>3. publisher' = publisher /\ inFlight' = inFlight /\ forcedResources' = forcedResources
    BY <1>2 DEF Call, cache, flights
  <2>4. EntriesLive' /\ JoinsLiveLoad' /\ FramesWell'
    BY <2>1, <2>2, <2>3, QuietStep
  <2>5. OtherTypes'
    BY <1>0, <1>2 DEF Call, OtherTypes, cache, flights, leases
  <2>6. QED
    BY <2>1, <2>4, <2>5 DEF Loads
<1>3. ASSUME NEW k \in Keys, Expire(k) PROVE Loads'
  <2>1. resources' \in [Resources -> Versions \cup {None}]
    BY <1>0, <1>3 DEF Expire, OtherTypes
  <2>2. aggregates' \in [Aggregates -> [value : Versions, live : BOOLEAN] \cup {None}]
    BY <1>0, <1>3 DEF Expire, OtherTypes
  <2>3. OtherTypes'
    BY <1>0, <1>3, <2>1, <2>2 DEF Expire, OtherTypes, flights, leases
  <2>4. ReadersTyped' /\ EntriesLive' /\ JoinsLiveLoad' /\ FramesWell'
    BY <1>3, StillStep DEF Expire, flights
  <2>5. QED
    BY <2>3, <2>4 DEF Loads
<1>4. CASE Elsewhere
  <2>1. OtherTypes'
    BY <1>0, <1>4, ConstantFacts DEF Elsewhere, OtherTypes, Versions, cache, flights, leases
  <2>2. ReadersTyped' /\ EntriesLive' /\ JoinsLiveLoad' /\ FramesWell'
    BY <1>4, StillStep DEF Elsewhere, cache, flights
  <2>3. QED
    BY <2>1, <2>2 DEF Loads
<1>5. CASE UNCHANGED vars
  <2>1. OtherTypes'
    BY <1>0, <1>5 DEF vars, OtherTypes, cache, flights, leases
  <2>2. ReadersTyped' /\ EntriesLive' /\ JoinsLiveLoad' /\ FramesWell'
    BY <1>5, StillStep DEF vars, cache, flights
  <2>3. QED
    BY <2>1, <2>2 DEF Loads
<1>6. QED
  BY <1>1, <1>2, <1>3, <1>4, <1>5, WriteLoads DEF Next

\* The inductive invariant of the reads: types, and that maps and followers
\* name loads under way.
THEOREM GatewayLoads == Spec => []Loads
BY InitLoads, LoadsStep, PTL DEF Spec

\* TypeOK: what the caches, maps, readers and writers hold.
THEOREM GatewayTypes == Spec => []TypeOK
BY GatewayLoads, LoadsTyped, PTL

\* JoinsLiveLoad: deduplicate and cachedResource hand a follower the promise
\* of a load that is under way, of the follower's own key.
THEOREM FollowersAreAnswered == Spec => []JoinsLiveLoad
<1>1. Loads => JoinsLiveLoad
  BY DEF Loads
<1>2. QED
  BY <1>1, GatewayLoads, PTL

-----------------------------------------------------------------------------
(* Freshness *)

\* What a read that begins, waits, joins or is answered from the cache does.
LEMMA QuietEffect ==
    ASSUME Loads, NEW f \in Frames,
           \/ PassLease(f) \/ ParkOnLease(f) \/ RefuseLimited(f) \/ JoinForced(f)
           \/ AnswerFromCache(f) \/ JoinInFlight(f)
    PROVE  /\ \A g \in Frames \ {f} : reader'[g] = reader[g]
           /\ reader[f].pc \in {"called", "readable"}
           /\ \/ /\ reader'[f].pc \in {"readable", "parked", "joined"}
                 /\ reader'[f].key = reader[f].key /\ reader'[f].force = reader[f].force
                 /\ reader'[f].since = reader[f].since
              \/ /\ reader'[f].pc = "done" /\ reader'[f].since = 0
                 /\ reader'[f].seen = None \/ ~reader[f].force
           /\ UNCHANGED <<truth, resources, publisher, floor>>
<1>0. ReadersTyped /\ OtherTypes
  BY DEF Loads
<1>1. At(f, "readable") => Key(f) \in Keys
  BY DEF Loads, FramesWell, At, Active
<1>2. UNCHANGED <<truth, resources, publisher, floor>>
  BY DEF PassLease, ParkOnLease, RefuseLimited, JoinForced, AnswerFromCache, JoinInFlight, cache
<1>3. CASE PassLease(f) \/ ParkOnLease(f)
  <2>1. PICK label \in {"readable", "parked"} : At(f, "called") /\ Move(f, label)
    BY <1>3 DEF PassLease, ParkOnLease
  <2>2. label \in ReaderPc
    BY DEF ReaderPc
  <2>3. QED
    BY <1>0, <1>2, <2>1, <2>2, MoveFacts DEF At
<1>4. CASE RefuseLimited(f)
  BY <1>0, <1>2, <1>4, ReturnFacts DEF RefuseLimited, At
<1>5. CASE AnswerFromCache(f)
  <2> DEFINE v == IF Key(f) \in Resources THEN resources[Key(f)] ELSE aggregates[Key(f)].value
  <2>1. At(f, "readable") /\ CacheHit(f) /\ Return(f, v) /\ ~reader[f].force
    BY <1>5 DEF AnswerFromCache, CacheHit
  <2>2. v \in Versions \cup {None}
    BY <1>0, <1>1, <2>1, ConstantFacts DEF OtherTypes, CacheHit, ResourceHit, AggregateHit
  <2> HIDE DEF v
  <2>3. QED
    BY <1>0, <1>2, <2>1, <2>2, ReturnFacts DEF At
<1>6. CASE JoinForced(f) \/ JoinInFlight(f)
  <2>1. PICK l \in {forcedResources[Key(f)], inFlight[Key(f)]} :
          /\ At(f, "readable") /\ Join(f, l) /\ l # None
          /\ l = forcedResources[Key(f)] => Key(f) \in Resources \/ l = inFlight[Key(f)]
    BY <1>6 DEF JoinForced, ForcedPending, JoinInFlight, MustLoad
  <2>2. l \in Frames
    BY <1>0, <1>1, <2>1 DEF OtherTypes
  <2>3. QED
    BY <1>0, <1>2, <2>1, <2>2, JoinFacts DEF At
<1>7. QED
  BY <1>3, <1>4, <1>5, <1>6

\* What the current load of a resource has seen, and what is cached of it, is
\* no older than the last invalidation.
FreshInv ==
    /\ \A r \in Roots : floor[r] <= truth
    /\ \A k \in Resources :
          publisher[k] # None /\ Part[k] = None /\ At(publisher[k], "answered")
            => reader[publisher[k]].seen >= floor[Root[k]]
    /\ NoStaleResource

\* A step that keeps the floor and what is cached, and leaves the current
\* loads that have an answer as they are.
LEMMA FreshKept ==
    ASSUME Loads, Loads', FreshInv, truth' >= truth, floor' = floor,
           \A k \in Resources : resources'[k] \in {resources[k], None},
           \A k \in Resources :
              publisher'[k] # None /\ Part[k] = None /\ reader'[publisher'[k]].pc = "answered"
                => \/ /\ publisher[k] = publisher'[k] /\ At(publisher[k], "answered")
                      /\ reader'[publisher[k]].seen = reader[publisher[k]].seen
                   \/ reader'[publisher'[k]].seen = truth
    PROVE  FreshInv'
<1>1. truth \in Int /\ truth' \in Int /\ \A r \in Roots : floor[r] \in Int
  BY DEF Loads, OtherTypes, Versions
<1>2. \A r \in Roots : floor'[r] <= truth'
  BY <1>1 DEF FreshInv
<1>3. \A k \in Resources : k \in Keys /\ Root[k] \in Roots
  BY ConstantFacts
<1>4. ASSUME NEW k \in Resources, publisher'[k] # None, Part[k] = None, reader'[publisher'[k]].pc = "answered"
      PROVE  reader'[publisher'[k]].seen >= floor'[Root[k]]
  BY <1>1, <1>3, <1>4 DEF FreshInv, At
<1>5. NoStaleResource'
  BY DEF FreshInv, NoStaleResource
<1>6. QED
  BY <1>2, <1>4, <1>5 DEF FreshInv, At

LEMMA FreshStep == Loads /\ Loads' /\ FreshInv /\ [Next]_vars => FreshInv'
<1> SUFFICES ASSUME Loads, Loads', FreshInv, [Next]_vars PROVE FreshInv'
  OBVIOUS
<1>0. /\ ReadersTyped /\ OtherTypes /\ truth \in Int
      /\ \A k \in Resources : k \in Keys /\ Root[k] \in Roots
      /\ \A k \in Keys : publisher[k] \in Frames \cup {None}
  BY ConstantFacts DEF Loads, OtherTypes, Versions
<1>1. ASSUME NEW f \in Frames,
             \A g \in Frames \ {f} : reader'[g] = reader[g], ~At(f, "answered")',
             truth' = truth, resources' = resources, publisher' = publisher, floor' = floor
      PROVE  FreshInv'
  BY <1>0, <1>1, FreshKept DEF At
<1>2. ASSUME NEW f \in Frames,
             \/ PassLease(f) \/ ParkOnLease(f) \/ RefuseLimited(f) \/ JoinForced(f)
             \/ AnswerFromCache(f) \/ JoinInFlight(f)
      PROVE  FreshInv'
  BY <1>1, <1>2, QuietEffect DEF At
<1>3. ASSUME NEW f \in Frames, NEW k \in Keys, NEW b \in BOOLEAN, Call(f, k, b) PROVE FreshInv'
  <2>1. \A g \in Frames \ {f} : reader'[g] = reader[g] /\ reader'[f].pc = "called"
    BY <1>0, <1>3, CallFacts DEF OtherTypes
  <2>2. ~At(f, "answered")'
    BY <1>0, <1>3, CallFacts DEF OtherTypes, At
  <2>3. QED
    BY <1>1, <1>3, <2>1, <2>2 DEF Call, cache
<1>4. ASSUME NEW f \in Frames, StartLoad(f) PROVE FreshInv'
  <2> DEFINE p == PartFrame(f)
             k == Key(f)
  <2>1. At(f, "readable") /\ k \in Keys /\ Active(f)
    BY <1>4 DEF StartLoad, MustLoad, Loads, FramesWell, At, Active
  <2>2. Part[k] # None => f # p
    BY <2>1, PartFacts, FrameFacts
  <2>3. reader' = Loading(f) /\ truth \in Versions /\ versions \in [Roots -> Versions \cup {None}]
    BY <1>0, <1>4 DEF StartLoad, OtherTypes
  <2>4. /\ reader'[f].pc = "loading"
        /\ \A g \in Frames \ {f, p} : reader'[g] = reader[g]
        /\ Part[k] = None /\ f # p => reader'[p] = reader[p]
        /\ Part[k] # None => reader'[p].pc = "called"
    BY <1>0, <2>1, <2>2, <2>3, LoadingFacts
  <2>5. \A g \in Frames : reader'[g].pc = "answered" => reader'[g] = reader[g] /\ g # f
    BY <2>4
  <2>6. \A j \in Keys : publisher'[j] \in {publisher[j], f}
    BY <1>0, <1>4 DEF StartLoad, OtherTypes
  <2>7. QED
    BY <1>0, <1>4, <2>5, <2>6, FreshKept DEF StartLoad, At
<1>5. ASSUME NEW f \in Frames, Observe(f) PROVE FreshInv'
  <2>1. /\ \A g \in Frames \ {f} : reader'[g] = reader[g]
        /\ reader'[f].seen = truth
    BY <1>0, <1>5, ObserveFacts DEF OtherTypes
  <2>2. QED
    BY <1>0, <1>5, <2>1, FreshKept DEF Observe, cache, At
<1>6. ASSUME NEW f \in Frames, ObservePart(f) PROVE FreshInv'
  <2>1. LET p == PartFrame(f) IN
        /\ \A g \in Frames \ {f, p} : reader'[g] = reader[g]
        /\ reader'[p].pc = "idle"
    BY <1>0, <1>6, ObservePartFacts
  <2>2. Part[Key(f)] # None
    BY <1>6 DEF ObservePart
  <2>3. \A k \in Resources : Part[k] = None => publisher[k] # f
    BY <1>0, <2>2, ConstantFacts DEF Loads, EntriesLive
  <2>4. \A g \in Frames : reader'[g].pc = "answered" => g = f \/ reader'[g] = reader[g]
    BY <2>1
  <2>5. publisher' = publisher /\ truth' = truth /\ floor' = floor /\ resources' = resources
    BY <1>6 DEF ObservePart, cache
  <2>6. QED
    BY <1>0, <2>3, <2>4, <2>5, FreshKept DEF At
<1>7. ASSUME NEW f \in Frames, LoadFails(f) \/ PublishResource(f) \/ PublishAggregate(f)
      PROVE  FreshInv'
  <2>1. PICK v \in Versions \cup {None} : Settle(f, v)
    <3>1. At(f, "answered") => reader[f].seen \in Versions
      BY DEF Loads, FramesWell
    <3>2. QED
      BY <1>7, <3>1 DEF LoadFails, PublishResource, PublishAggregate
  <2>2. \A g \in Frames : reader'[g].pc = "answered" => reader'[g] = reader[g]
    BY <1>0, <2>1, SettleFacts, DoneFacts, IdleFacts
  <2>3. \A j \in Keys : publisher'[j] \in {publisher[j], None}
    BY <2>1, SettleMaps
  <2>4. truth' = truth /\ floor' = floor
    BY <1>7 DEF LoadFails, PublishResource, PublishAggregate
  <2>5. \A k \in Resources :
          publisher'[k] # None /\ Part[k] = None /\ reader'[publisher'[k]].pc = "answered"
            => /\ publisher[k] = publisher'[k] /\ At(publisher[k], "answered")
               /\ reader'[publisher[k]].seen = reader[publisher[k]].seen
    BY <1>0, <2>2, <2>3 DEF At
  <2>6. CASE LoadFails(f) \/ PublishAggregate(f)
    <3>1. resources' = resources
      BY <2>6 DEF LoadFails, PublishAggregate
    <3>2. QED
      BY <1>0, <2>4, <2>5, <3>1, FreshKept
  <2>7. CASE PublishResource(f)
    <3>1. /\ At(f, "answered") /\ Key(f) \in Resources
          /\ resources' = IF publisher[Key(f)] = f
                            THEN [resources EXCEPT ![Key(f)] = reader[f].seen] ELSE resources
      BY <2>7 DEF PublishResource
    <3>2. /\ floor' = floor /\ truth' = truth
      BY <2>4
    <3>3. NoStaleResource'
      <4>1. ASSUME NEW k \in Resources, resources'[k] # None, Part[k] = None
            PROVE  resources'[k] >= floor[Root[k]]
        <5>1. CASE k = Key(f) /\ publisher[k] = f
          <6>1. resources'[k] = reader[f].seen
            BY <1>0, <3>1, <5>1 DEF OtherTypes
          <6>2. f # None
            BY ConstantFacts
          <6>3. reader[f].seen >= floor[Root[k]]
            BY <3>1, <4>1, <5>1, <6>2 DEF FreshInv
          <6>4. QED
            BY <6>1, <6>3
        <5>2. CASE ~(k = Key(f) /\ publisher[k] = f)
          <6>1. resources'[k] = resources[k]
            BY <1>0, <3>1, <5>2 DEF OtherTypes
          <6>2. QED
            BY <4>1, <6>1 DEF FreshInv, NoStaleResource
        <5>3. QED
          BY <5>1, <5>2
      <4>2. QED
        BY <3>2, <4>1 DEF NoStaleResource
    <3>4. ASSUME NEW k \in Resources, publisher'[k] # None, Part[k] = None, reader'[publisher'[k]].pc = "answered"
          PROVE  reader'[publisher'[k]].seen >= floor'[Root[k]]
      BY <2>5, <3>2, <3>4 DEF FreshInv
    <3>5. QED
      BY <3>2, <3>3, <3>4 DEF FreshInv, At
  <2>8. QED
    BY <1>7, <2>6, <2>7
<1>8. ASSUME NEW w \in Writers, WriteStep(w) \/ Submit(w), ~Invalidate(w) PROVE FreshInv'
  <2>1. /\ truth' \in Int /\ truth' >= truth
        /\ floor' = floor /\ resources' = resources /\ publisher' = publisher
    BY <1>0, <1>8 DEF WriteStep, Submit, PersistMarker, MarkerFails, Execute, Reject, Release,
                      Step, cache
  <2>2. \A g \in Frames : reader'[g].pc = "answered" =>
            reader[g].pc = "answered" /\ reader'[g].seen = reader[g].seen
    <3>1. CASE Release(w)
      BY <1>0, <3>1, WakeFacts
    <3>2. CASE ~Release(w)
      BY <1>8, <3>2 DEF WriteStep, Submit, PersistMarker, MarkerFails, Execute, Reject, Step
    <3>3. QED
      BY <3>1, <3>2
  <2>3. QED
    BY <1>0, <2>1, <2>2, FreshKept DEF At
<1>9. ASSUME NEW w \in Writers, Invalidate(w) PROVE FreshInv'
  <2>1. /\ truth' = truth /\ reader' = reader
        /\ resources' = [k \in Resources |-> IF Root[k] \in Lease[w] THEN None ELSE resources[k]]
        /\ \A k \in Resources : Root[k] \in Lease[w] => publisher'[k] = None
        /\ \A k \in Resources : publisher'[k] \in {publisher[k], None}
        /\ floor' = [r \in Roots |-> IF r \in Lease[w] THEN truth ELSE floor[r]]
    BY <1>0, <1>9, ConstantFacts DEF Invalidate
  <2>2. \A r \in Roots : floor'[r] <= truth'
    BY <1>0, <2>1 DEF FreshInv
  <2>3. NoStaleResource'
    BY <1>0, <2>1 DEF FreshInv, NoStaleResource
  <2>4. ASSUME NEW k \in Resources, publisher'[k] # None, Part[k] = None, reader'[publisher'[k]].pc = "answered"
        PROVE  reader'[publisher'[k]].seen >= floor'[Root[k]]
    BY <1>0, <2>1, <2>4 DEF FreshInv, At
  <2>5. QED
    BY <2>2, <2>3, <2>4 DEF FreshInv, At
<1>10. ASSUME NEW k \in Keys, Expire(k) PROVE FreshInv'
  <2>1. \A j \in Resources : resources'[j] \in {resources[j], None}
    BY <1>0, <1>10 DEF Expire, OtherTypes
  <2>2. reader' = reader /\ publisher' = publisher /\ truth' = truth /\ floor' = floor
    BY <1>10 DEF Expire
  <2>3. QED
    BY <1>0, <2>1, <2>2, FreshKept DEF At
<1>11. CASE Elsewhere
  BY <1>0, <1>11, FreshKept DEF Elsewhere, cache, At
<1>12. CASE UNCHANGED vars
  BY <1>0, <1>12, FreshKept DEF vars, cache, At
<1>13. QED
  BY <1>2, <1>3, <1>4, <1>5, <1>6, <1>7, <1>8, <1>9, <1>10, <1>11, <1>12 DEF Next, ReadStep

LEMMA InitFresh == Init => FreshInv
BY ConstantFacts DEF Init, FreshInv, NoStaleResource

\* NoStaleResource: the load sequence of cachedResource, which invalidate
\* advances, keeps what was read before an invalidation out of the cache.
THEOREM CachedResourcesAreFresh == Spec => []NoStaleResource
<1>1. FreshInv => NoStaleResource
  BY DEF FreshInv
<1>2. QED
  BY <1>1, InitFresh, FreshStep, GatewayLoads, PTL DEF Spec

-----------------------------------------------------------------------------
(* Forced reads *)

\* The part of a forced load is forced, and asked for no earlier.
PartIsFresh(f) ==
    LET p == PartFrame(f) IN
    /\ Active(p) => Exclusive(p) /\ reader[p].since >= reader[f].since
    /\ At(p, "done") /\ reader[p].seen # None => reader[p].seen >= reader[f].since

ForcedInv ==
    \A f \in Frames :
        /\ reader[f].since <= truth
        /\ At(f, "answered") /\ Exclusive(f) => reader[f].seen >= reader[f].since
        /\ At(f, "loading") /\ Exclusive(f) /\ Part[Key(f)] # None => PartIsFresh(f)

\* What the step must answer to forced reads.
ForcedStep ==
    \A f \in Frames : Answered(f) /\ Exclusive(f) => reader'[f].seen >= reader[f].since

\* A frame that stays as it is, part included, or is not loading any more.
LEMMA ForcedKept ==
    ASSUME Loads, Loads', ForcedInv, truth' >= truth, NEW g \in Frames,
           reader'[g].since \in {reader[g].since, 0},
           At(g, "answered")' => reader'[g] = reader[g],
           At(g, "loading")' =>
              /\ reader'[g] = reader[g]
              /\ LET p == PartFrame(g) IN
                 \/ reader'[p] = reader[p]
                 \/ /\ reader'[p].pc \notin {"idle", "done"} /\ Active(p)
                    /\ reader'[p].key = reader[p].key
                    /\ reader'[p].force = reader[p].force /\ reader'[p].since = reader[p].since
                 \/ reader'[p].pc = "idle"
                 \/ /\ reader'[p].pc = "done"
                    /\ \/ reader'[p].seen = None
                       \/ Active(p) /\ ~Exclusive(p)
                       \/ Active(p) /\ Exclusive(p) /\ reader'[p].seen \in Int
                            /\ reader'[p].seen >= reader[p].since
    PROVE  /\ reader'[g].since <= truth'
           /\ At(g, "answered")' /\ Exclusive(g)' => reader'[g].seen >= reader'[g].since
           /\ At(g, "loading")' /\ Exclusive(g)' /\ Part[Key(g)'] # None => PartIsFresh(g)'
<1>1. truth \in Int /\ truth' \in Int /\ truth >= 0 /\ reader[g].since \in Int
  BY DEF Loads, OtherTypes, ReadersTyped, ReaderRecord, Versions
<1>2. /\ reader[g].since <= truth
      /\ At(g, "answered") /\ Exclusive(g) => reader[g].seen >= reader[g].since
      /\ At(g, "loading") /\ Exclusive(g) /\ Part[Key(g)] # None => PartIsFresh(g)
  BY DEF ForcedInv
<1>3. PartFrame(g) \in Frames
  BY FrameFacts
<1>4. reader[PartFrame(g)].since \in Int
  BY <1>3 DEF Loads, ReadersTyped, ReaderRecord, Versions
<1>5. ASSUME At(g, "loading")', Exclusive(g)', Part[Key(g)'] # None PROVE PartIsFresh(g)'
  <2> DEFINE p == PartFrame(g)
  <2>1. reader'[g] = reader[g] /\ PartIsFresh(g)
    BY <1>2, <1>5 DEF At, Exclusive, Key
  <2>2. \/ reader'[p] = reader[p]
        \/ /\ reader'[p].pc \notin {"idle", "done"} /\ Active(p)
           /\ reader'[p].key = reader[p].key
           /\ reader'[p].force = reader[p].force /\ reader'[p].since = reader[p].since
        \/ reader'[p].pc = "idle"
        \/ /\ reader'[p].pc = "done"
           /\ \/ reader'[p].seen = None
              \/ Active(p) /\ ~Exclusive(p)
              \/ Active(p) /\ Exclusive(p) /\ reader'[p].seen \in Int
                   /\ reader'[p].seen >= reader[p].since
    BY <1>5
  <2> HIDE DEF p
  <2>3. /\ Active(p) => Exclusive(p) /\ reader[p].since >= reader[g].since
        /\ At(p, "done") /\ reader[p].seen # None => reader[p].seen >= reader[g].since
    BY <2>1 DEF PartIsFresh, p
  <2>4. /\ Active(p)' => Exclusive(p)' /\ reader'[p].since >= reader'[g].since
        /\ At(p, "done")' /\ reader'[p].seen # None => reader'[p].seen >= reader'[g].since
    BY <1>1, <1>4, <2>1, <2>2, <2>3 DEF Active, At, Exclusive, Key, p
  <2>5. QED
    BY <2>4 DEF PartIsFresh, p, PartFrame
<1>6. QED
  BY <1>1, <1>2, <1>5 DEF At, Exclusive, Key

\* A step that keeps every frame as ForcedKept asks keeps the invariant.
LEMMA ForcedReads ==
    ASSUME Loads, Loads', ForcedInv, NEW f \in Frames, ReadStep(f)
    PROVE  ForcedInv' /\ ForcedStep
<1>0. ReadersTyped /\ OtherTypes /\ truth \in Int
  BY DEF Loads, OtherTypes, Versions
<1>1. \A g \in Frames :
        PartFrame(g) \in Frames /\ PartFrame(g)[2] = "part" /\ g[2] \in {"call", "part"}
        /\ reader[g].since \in Int
  BY <1>0, FrameFacts DEF Frames, ReadersTyped, ReaderRecord, Versions
<1>2. CASE \/ PassLease(f) \/ ParkOnLease(f) \/ RefuseLimited(f) \/ JoinForced(f)
           \/ AnswerFromCache(f) \/ JoinInFlight(f)
  <2>1. /\ \A g \in Frames \ {f} : reader'[g] = reader[g]
        /\ reader[f].pc \in {"called", "readable"}
        /\ \/ /\ reader'[f].pc \in {"readable", "parked", "joined"}
              /\ reader'[f].key = reader[f].key /\ reader'[f].force = reader[f].force
              /\ reader'[f].since = reader[f].since
           \/ /\ reader'[f].pc = "done" /\ reader'[f].since = 0
              /\ reader'[f].seen = None \/ ~reader[f].force
        /\ truth' = truth
    BY <1>2, QuietEffect
  <2>2. Active(f)
    BY <2>1 DEF Active
  <2>3. ForcedStep
    BY <2>1 DEF ForcedStep, Answered, Exclusive, At
  <2>4. ASSUME NEW g \in Frames
        PROVE  /\ reader'[g].since \in {reader[g].since, 0}
               /\ At(g, "answered")' => reader'[g] = reader[g]
               /\ At(g, "loading")' =>
                    /\ reader'[g] = reader[g]
                    /\ LET p == PartFrame(g) IN
                       \/ reader'[p] = reader[p]
                       \/ /\ reader'[p].pc \notin {"idle", "done"} /\ Active(p)
                          /\ reader'[p].key = reader[p].key
                          /\ reader'[p].force = reader[p].force
                          /\ reader'[p].since = reader[p].since
                       \/ /\ reader'[p].pc = "done"
                          /\ reader'[p].seen = None \/ (Active(p) /\ ~Exclusive(p))
    BY <1>1, <2>1, <2>2 DEF At, Exclusive
  <2>5. ForcedInv'
    BY <1>0, <2>1, <2>4, ForcedKept DEF ForcedInv, PartIsFresh, At, Exclusive, Key
  <2>6. QED
    BY <2>3, <2>5
<1>3. CASE StartLoad(f)
  <2> DEFINE p == PartFrame(f)
             k == Key(f)
  <2>1. At(f, "readable") /\ k \in Keys /\ Active(f)
    BY <1>3 DEF StartLoad, MustLoad, Loads, FramesWell, At, Active
  <2>2. Part[k] # None => f # p /\ f[2] = "call"
    BY <1>1, <2>1, PartFacts, FrameFacts
  <2>3. reader' = Loading(f) /\ truth \in Versions /\ versions \in [Roots -> Versions \cup {None}]
        /\ truth' = truth
    BY <1>0, <1>3 DEF StartLoad, OtherTypes
  <2>4. /\ reader'[f].pc = "loading" /\ reader'[f].key = reader[f].key
        /\ reader'[f].force = reader[f].force /\ reader'[f].since = reader[f].since
        /\ \A g \in Frames \ {f, p} : reader'[g] = reader[g]
        /\ Part[k] = None /\ f # p => reader'[p] = reader[p]
        /\ Part[k] # None =>
              /\ reader'[p].pc = "called" /\ reader'[p].key = Part[k]
              /\ reader'[p].force = reader[f].force
              /\ reader'[p].since = IF reader[f].force THEN truth ELSE 0
    BY <1>0, <2>1, <2>2, <2>3, LoadingFacts
  <2>5. ForcedStep
    <3>1. \A g \in Frames : reader'[g].pc = "done" => reader'[g] = reader[g]
      BY <2>4
    <3>2. QED
      BY <3>1 DEF ForcedStep, Answered, At
  <2>6. reader[f].since <= truth
    BY DEF ForcedInv
  <2>7. ASSUME NEW g \in Frames, g # f, g # p
        PROVE  /\ reader'[g].since <= truth'
               /\ At(g, "answered")' /\ Exclusive(g)' => reader'[g].seen >= reader'[g].since
               /\ At(g, "loading")' /\ Exclusive(g)' /\ Part[Key(g)'] # None => PartIsFresh(g)'
    <3>1. reader'[g] = reader[g]
      BY <2>4, <2>7
    <3>2. LET q == PartFrame(g) IN
          \/ reader'[q] = reader[q]
          \/ /\ reader'[q].pc \notin {"idle", "done"} /\ Active(q)
             /\ reader'[q].key = reader[q].key
             /\ reader'[q].force = reader[q].force /\ reader'[q].since = reader[q].since
          \/ At(g, "loading") => FALSE
      <4>1. CASE PartFrame(g) = f
        BY <2>1, <2>4, <4>1
      <4>2. CASE PartFrame(g) # f
        <5>1. PartFrame(g) = p /\ Part[k] # None => g \in {f, p}
          BY <1>1, <2>2 DEF Frames, PartFrame
        <5>2. QED
          BY <1>1, <2>4, <2>7, <4>2, <5>1
      <4>3. QED
        BY <4>1, <4>2
    <3>3. QED
      BY <1>0, <2>3, <3>1, <3>2, ForcedKept DEF At
  <2>8. ASSUME Part[k] # None, Exclusive(f)' PROVE PartIsFresh(f)'
    <3>1. reader[f].force /\ Part[k] \in Resources
      BY <2>1, <2>4, <2>8, ConstantFacts DEF Exclusive
    <3>2. reader'[p].pc = "called" /\ reader'[p].key \in Resources /\ reader'[p].force
          /\ reader'[p].since >= reader'[f].since
      BY <1>0, <1>1, <2>4, <2>6, <2>8, <3>1
    <3>3. QED
      BY <3>2 DEF PartIsFresh, PartFrame, Active, At, Exclusive, Key
  <2>9. /\ reader'[f].since <= truth'
        /\ At(f, "answered")' /\ Exclusive(f)' => reader'[f].seen >= reader'[f].since
        /\ At(f, "loading")' /\ Exclusive(f)' /\ Part[Key(f)'] # None => PartIsFresh(f)'
    BY <2>3, <2>4, <2>6, <2>8 DEF At, Key
  <2>10. ASSUME p # f
         PROVE  /\ reader'[p].since <= truth'
                /\ At(p, "answered")' /\ Exclusive(p)' => reader'[p].seen >= reader'[p].since
                /\ At(p, "loading")' /\ Exclusive(p)' /\ Part[Key(p)'] # None => PartIsFresh(p)'
    <3>1. CASE Part[k] # None
      <4>1. 0 <= truth
        BY <2>3 DEF Versions
      <4>2. QED
        BY <1>0, <2>3, <2>4, <3>1, <4>1 DEF At
    <3>2. CASE Part[k] = None
      <4>1. reader'[p] = reader[p] /\ PartFrame(p) = p /\ p \in Frames
        BY <1>1, <2>4, <2>10, <3>2 DEF PartFrame
      <4>2. QED
        BY <1>0, <2>3, <4>1, ForcedKept DEF At
    <3>3. QED
      BY <3>1, <3>2
  <2>11. ForcedInv'
    BY <2>7, <2>9, <2>10 DEF ForcedInv, PartIsFresh, At, Exclusive, Key
  <2>12. QED
    BY <2>5, <2>11
<1>4. CASE Observe(f)
  <2>1. /\ \A g \in Frames \ {f} : reader'[g] = reader[g]
        /\ reader'[f].pc = "answered" /\ reader'[f].key = reader[f].key
        /\ reader'[f].force = reader[f].force /\ reader'[f].since = reader[f].since
        /\ reader'[f].seen = truth /\ truth' = truth
    BY <1>0, <1>4, ObserveFacts DEF Observe, OtherTypes
  <2>2. Active(f) /\ reader[f].since <= truth
    BY <1>4 DEF Observe, At, Active, ForcedInv
  <2>3. ForcedStep
    BY <2>1 DEF ForcedStep, Answered, At
  <2>4. ASSUME NEW g \in Frames, g # f
        PROVE  /\ reader'[g].since <= truth'
               /\ At(g, "answered")' /\ Exclusive(g)' => reader'[g].seen >= reader'[g].since
               /\ At(g, "loading")' /\ Exclusive(g)' /\ Part[Key(g)'] # None => PartIsFresh(g)'
    <3>1. reader'[g] = reader[g]
      BY <2>1, <2>4
    <3>2. LET q == PartFrame(g) IN
          \/ reader'[q] = reader[q]
          \/ /\ reader'[q].pc \notin {"idle", "done"} /\ Active(q)
             /\ reader'[q].key = reader[q].key
             /\ reader'[q].force = reader[q].force /\ reader'[q].since = reader[q].since
      BY <1>1, <2>1, <2>2
    <3>3. QED
      BY <1>0, <2>1, <3>1, <3>2, ForcedKept DEF At
  <2>5. ForcedInv'
    BY <2>1, <2>2, <2>4 DEF ForcedInv, PartIsFresh, At, Exclusive, Key
  <2>6. QED
    BY <2>3, <2>5
<1>5. CASE ObservePart(f)
  <2> DEFINE p == PartFrame(f)
  <2>1. /\ f # p
        /\ \A g \in Frames \ {f, p} : reader'[g] = reader[g]
        /\ reader'[p].pc = "idle" /\ reader'[p].since = 0
        /\ reader'[f].pc = "answered" /\ reader'[f].key = reader[f].key
        /\ reader'[f].force = reader[f].force /\ reader'[f].since = reader[f].since
        /\ reader'[f].seen = reader[p].seen
    BY <1>0, <1>5, ObservePartFacts
  <2>2. /\ At(f, "loading") /\ Part[Key(f)] # None /\ At(p, "done") /\ reader[p].seen # None
        /\ truth' = truth
    BY <1>5 DEF ObservePart, At
  <2>3. f[2] = "call"
    BY <2>2, PartFacts DEF At, Active
  <2>4. reader[f].since <= truth /\ (Exclusive(f) => reader[p].seen >= reader[f].since)
    BY <2>2 DEF ForcedInv, PartIsFresh
  <2>5. ForcedStep
    BY <2>1 DEF ForcedStep, Answered, At
  <2>6. ASSUME NEW g \in Frames, g # f
        PROVE  /\ reader'[g].since <= truth'
               /\ At(g, "answered")' /\ Exclusive(g)' => reader'[g].seen >= reader'[g].since
               /\ At(g, "loading")' /\ Exclusive(g)' /\ Part[Key(g)'] # None => PartIsFresh(g)'
    <3>1. reader'[g].since \in {reader[g].since, 0}
          /\ (At(g, "answered")' => reader'[g] = reader[g])
      BY <2>1, <2>6 DEF At
    <3>2. At(g, "loading")' =>
            /\ reader'[g] = reader[g]
            /\ reader'[PartFrame(g)] = reader[PartFrame(g)] \/ reader'[PartFrame(g)].pc = "idle"
      <4>1. PartFrame(g) # f
        BY <1>1, <2>3
      <4>2. QED
        BY <1>1, <2>1, <2>6, <4>1 DEF At
    <3>3. QED
      BY <1>0, <2>2, <3>1, <3>2, ForcedKept
  <2>7. ForcedInv'
    BY <2>1, <2>2, <2>4, <2>6 DEF ForcedInv, PartIsFresh, At, Exclusive, Key
  <2>8. QED
    BY <2>5, <2>7
<1>6. CASE LoadFails(f) \/ PublishResource(f) \/ PublishAggregate(f)
  <2> DEFINE p == PartFrame(f)
  <2>1. PICK v \in Versions \cup {None} :
          /\ Settle(f, v)
          /\ v = None \/ (At(f, "answered") /\ v = reader[f].seen)
    <3>1. At(f, "answered") => reader[f].seen \in Versions
      BY DEF Loads, FramesWell
    <3>2. QED
      BY <1>6, <3>1 DEF LoadFails, PublishResource, PublishAggregate
  <2>2. /\ \A g \in Frames : ~Follows(g, f) /\ g # p => reader'[g] = reader[g]
        /\ \A g \in Frames : Follows(g, f) =>
              reader'[g].pc = "done" /\ reader'[g].seen = v /\ reader'[g].since = 0
        /\ \A g \in Frames : ~Follows(g, f) /\ g = p => reader'[g].pc = "idle" /\ reader'[g].since = 0
        /\ truth' = truth
    BY <1>0, <1>6, <2>1, SettleFacts DEF LoadFails, PublishResource, PublishAggregate
  <2>3. At(f, "answered") /\ Exclusive(f) => reader[f].seen >= reader[f].since
    BY DEF ForcedInv
  <2>4. \A g \in Frames : Follows(g, f) =>
          \/ v = None
          \/ ~Exclusive(g)
          \/ Exclusive(g) /\ v \in Int /\ v >= reader[g].since
    <3>1. \A g \in Frames : At(g, "joined") => ~Exclusive(g)
      BY DEF Loads, FramesWell
    <3>2. v = None \/ v \in Int
      BY <2>1 DEF Versions
    <3>3. QED
      BY <2>1, <2>3, <3>1, <3>2 DEF Follows
  <2>5. \A g \in Frames : Follows(g, f) => Active(g)
    BY <1>6 DEF Follows, At, Active, LoadFails, PublishResource, PublishAggregate
  <2>6. ForcedStep
    <3>1. ASSUME NEW g \in Frames, Answered(g), Exclusive(g)
          PROVE  reader'[g].seen >= reader[g].since
      <4>1. Follows(g, f)
        BY <2>2, <3>1 DEF Answered, At
      <4>2. QED
        BY <2>2, <2>4, <3>1, <4>1 DEF Answered
    <3>2. QED
      BY <3>1 DEF ForcedStep
  <2>7. ASSUME NEW g \in Frames
        PROVE  /\ reader'[g].since \in {reader[g].since, 0}
               /\ At(g, "answered")' => reader'[g] = reader[g]
               /\ At(g, "loading")' =>
                    /\ reader'[g] = reader[g]
                    /\ LET q == PartFrame(g) IN
                       \/ reader'[q] = reader[q]
                       \/ reader'[q].pc = "idle"
                       \/ /\ reader'[q].pc = "done"
                          /\ \/ reader'[q].seen = None
                             \/ Active(q) /\ ~Exclusive(q)
                             \/ Active(q) /\ Exclusive(q) /\ reader'[q].seen \in Int
                                  /\ reader'[q].seen >= reader[q].since
    <3>1. reader'[g] = reader[g] \/ reader'[g].pc \in {"done", "idle"}
      BY <2>2
    <3>2. LET q == PartFrame(g) IN
          \/ reader'[q] = reader[q]
          \/ reader'[q].pc = "idle"
          \/ Follows(q, f) /\ reader'[q].pc = "done" /\ reader'[q].seen = v
      BY <1>1, <2>2
    <3>3. QED
      BY <1>1, <2>2, <2>4, <2>5, <3>1, <3>2 DEF At
  <2>8. ForcedInv'
    <3>1. ASSUME NEW g \in Frames
          PROVE  /\ reader'[g].since <= truth'
                 /\ At(g, "answered")' /\ Exclusive(g)' => reader'[g].seen >= reader'[g].since
                 /\ At(g, "loading")' /\ Exclusive(g)' /\ Part[Key(g)'] # None => PartIsFresh(g)'
      BY <1>0, <2>2, <2>7, ForcedKept
    <3>2. QED
      BY <3>1 DEF ForcedInv, PartIsFresh, At, Exclusive, Key
  <2>9. QED
    BY <2>6, <2>8
<1>7. QED
  BY <1>2, <1>3, <1>4, <1>5, <1>6 DEF ReadStep

LEMMA ForcedNext == Loads /\ Loads' /\ ForcedInv /\ [Next]_vars => ForcedInv' /\ ForcedStep
<1> SUFFICES ASSUME Loads, Loads', ForcedInv, [Next]_vars PROVE ForcedInv' /\ ForcedStep
  OBVIOUS
<1>0. /\ ReadersTyped /\ OtherTypes /\ truth \in Int
      /\ \A g \in Frames : PartFrame(g) \in Frames /\ PartFrame(g)[2] = "part"
  BY FrameFacts DEF Loads, OtherTypes, Versions
<1>1. ASSUME reader' = reader, truth' \in Int, truth' >= truth PROVE ForcedInv' /\ ForcedStep
  <2>1. ForcedStep
    BY <1>1 DEF ForcedStep, Answered, At
  <2>2. \A g \in Frames :
          /\ reader'[g].since <= truth'
          /\ At(g, "answered")' /\ Exclusive(g)' => reader'[g].seen >= reader'[g].since
          /\ At(g, "loading")' /\ Exclusive(g)' /\ Part[Key(g)'] # None => PartIsFresh(g)'
    BY <1>1, ForcedKept
  <2>3. QED
    BY <2>1, <2>2 DEF ForcedInv, PartIsFresh, At, Exclusive, Key
<1>2. ASSUME NEW f \in Frames, NEW k \in Keys, NEW b \in BOOLEAN, Call(f, k, b)
      PROVE  ForcedInv' /\ ForcedStep
  <2>1. /\ \A g \in Frames \ {f} : reader'[g] = reader[g]
        /\ reader'[f].pc = "called" /\ reader'[f].since = IF b THEN truth ELSE 0
        /\ truth' = truth /\ f[2] = "call"
    BY <1>0, <1>2, CallFacts DEF OtherTypes, Call
  <2>2. ForcedStep
    BY <2>1 DEF ForcedStep, Answered, At
  <2>3. ASSUME NEW g \in Frames, g # f
        PROVE  /\ reader'[g].since <= truth'
               /\ At(g, "answered")' /\ Exclusive(g)' => reader'[g].seen >= reader'[g].since
               /\ At(g, "loading")' /\ Exclusive(g)' /\ Part[Key(g)'] # None => PartIsFresh(g)'
    <3>1. reader'[g] = reader[g] /\ reader'[PartFrame(g)] = reader[PartFrame(g)]
      BY <1>0, <2>1, <2>3
    <3>2. QED
      BY <1>0, <2>1, <3>1, ForcedKept
  <2>4. 0 <= truth
    BY <1>0 DEF OtherTypes, Versions
  <2>5. ForcedInv'
    BY <1>0, <2>1, <2>3, <2>4 DEF ForcedInv, PartIsFresh, At, Exclusive, Key
  <2>6. QED
    BY <2>2, <2>5
<1>3. ASSUME NEW w \in Writers, Release(w) PROVE ForcedInv' /\ ForcedStep
  <2>1. \A f \in Frames :
          /\ reader'[f].pc = IF At(f, "parked") THEN "called" ELSE reader[f].pc
          /\ reader'[f].key = reader[f].key /\ reader'[f].force = reader[f].force
          /\ reader'[f].since = reader[f].since /\ reader'[f].seen = reader[f].seen
    BY <1>0, <1>3, WakeFacts
  <2>2. truth' = truth
    BY <1>3 DEF Release
  <2>3. ForcedStep
    BY <2>1 DEF ForcedStep, Answered, At
  <2>4. \A f \in Frames :
          /\ At(f, "answered")' = At(f, "answered") /\ At(f, "loading")' = At(f, "loading")
          /\ Exclusive(f)' = Exclusive(f) /\ Key(f)' = Key(f)
    BY <2>1 DEF At, Exclusive, Key
  <2>5. \A f \in Frames : PartIsFresh(f)' = PartIsFresh(f)
    BY <1>0, <2>1 DEF PartIsFresh, PartFrame, At, Active, Exclusive, Key
  <2>6. QED
    BY <2>1, <2>2, <2>3, <2>4, <2>5 DEF ForcedInv
<1>4. ASSUME NEW w \in Writers, WriteStep(w) \/ Submit(w), ~Release(w)
      PROVE  ForcedInv' /\ ForcedStep
  BY <1>0, <1>1, <1>4 DEF WriteStep, Submit, PersistMarker, MarkerFails, Execute, Reject, Step,
                          Invalidate
<1>5. ASSUME NEW k \in Keys, Expire(k) PROVE ForcedInv' /\ ForcedStep
  BY <1>0, <1>1, <1>5 DEF Expire
<1>6. CASE Elsewhere
  BY <1>0, <1>1, <1>6 DEF Elsewhere
<1>7. CASE UNCHANGED vars
  BY <1>0, <1>1, <1>7 DEF vars
<1>8. QED
  BY <1>2, <1>3, <1>4, <1>5, <1>6, <1>7, ForcedReads DEF Next

LEMMA InitForced == Init => ForcedInv
<1> SUFFICES ASSUME Init PROVE ForcedInv
  OBVIOUS
<1>1. \A f \in Frames : reader[f] = Idle
  BY DEF Init
<1>2. QED
  BY <1>1, IdleFacts DEF Init, ForcedInv, At

\* ForcedIsFresh: "force means fresh from this invocation point"; a forced
\* read of a resource is answered by a load begun after it, and so is its part.
THEOREM ForcedReadsAreFresh == Spec => ForcedIsFresh
<1>1. Loads /\ Loads' /\ ForcedInv /\ [Next]_vars =>
        [\A f \in Frames :
            Answered(f) /\ Exclusive(f) => reader'[f].seen >= reader[f].since]_vars
  BY ForcedNext DEF ForcedStep
<1>2. QED
  BY <1>1, InitForced, ForcedNext, GatewayLoads, PTL DEF Spec, ForcedIsFresh

-----------------------------------------------------------------------------
(* The leases.  What the queue holds is what waits, each once; nothing that  *)
(* was granted clashes; what was not granted clashes at its head.            *)

QueueOnce == \A i, j \in 1..Len(writeQueue) : i # j => writeQueue[i] # writeQueue[j]
QueueIsWhoWaits ==
    \A w \in Writers :
        writer[w] = "queued" <=> \E i \in 1..Len(writeQueue) : writeQueue[i] = w
HeadClashes == writeQueue # <<>> => Lease[Head(writeQueue)] \cap heldWriteLeases # {}
QueueInv == LeasesExclusive /\ QueueOnce /\ QueueIsWhoWaits /\ HeadClashes
ParkedCovered == \A f \in Frames : At(f, "parked") => Covered(f)
LeaseInv == QueueInv /\ ParkedCovered

\* A pump restores the invariant of the queue, whatever was in it.
LEMMA PumpStep ==
    ASSUME NEW queue \in Seq(Writers), NEW held \in SUBSET Roots,
           NEW others \in [Writers -> WriterPc], Pump(queue, held, others),
           \A v, w \in Writers :
              v # w /\ others[v] \notin {"idle", "queued"} /\ others[w] \notin {"idle", "queued"}
                => Lease[v] \cap Lease[w] = {},
           held = UNION {Lease[w] : w \in {v \in Writers : others[v] \notin {"idle", "queued"}}},
           \A w \in Writers :
              others[w] = "queued" <=> \E i \in 1..Len(queue) : queue[i] = w,
           \A i, j \in 1..Len(queue) : i # j => queue[i] # queue[j]
    PROVE  QueueInv'
<1> DEFINE busy(w) == others[w] \notin {"idle", "queued"}
<1>1. PICK n \in 0..Len(queue) : Grants(queue, held, others, n)
  BY PumpFacts
<1> DEFINE first == {queue[i] : i \in 1..n}
<1>2. Len(queue) \in Nat /\ n \in Nat /\ n <= Len(queue)
  BY LenProperties
<1>3. /\ \A w \in first : \E i \in 1..n : w = queue[i]
      /\ \A i \in 1..n : queue[i] \in first
      /\ first \subseteq Writers
  BY <1>1 DEF Grants
<1>4. \A w \in Writers : writer'[w] = IF w \in first THEN "granted" ELSE others[w]
  BY <1>1 DEF Grants
<1>5. \A w \in Writers : Busy(w)' <=> w \in first \/ busy(w)
  BY <1>4 DEF Busy
<1>6. heldWriteLeases' = held \cup UNION {Lease[w] : w \in first}
  BY <1>1 DEF Grants
<1>7. \A w \in Writers : busy(w) => Lease[w] \subseteq held
  OBVIOUS
<1>8. \A v, w \in first : v # w => Lease[v] \cap Lease[w] = {}
  <2> SUFFICES ASSUME NEW v \in first, NEW w \in first, v # w
               PROVE  Lease[v] \cap Lease[w] = {}
    OBVIOUS
  <2>1. PICK i \in 1..n : v = queue[i]
    BY <1>3
  <2>2. PICK j \in 1..n : w = queue[j]
    BY <1>3
  <2>3. j < i \/ i < j
    BY <2>1, <2>2
  <2>4. QED
    BY <1>1, <2>1, <2>2, <2>3 DEF Grants
<1>9. \A v \in first : Lease[v] \cap held = {}
  BY <1>1, <1>3 DEF Grants
<1> HIDE DEF first
<1>10. \A v, w \in Writers : v # w /\ Busy(v)' /\ Busy(w)' => Lease[v] \cap Lease[w] = {}
  BY <1>5, <1>7, <1>8, <1>9
<1>11. heldWriteLeases' = UNION {Lease[w] : w \in {v \in Writers : Busy(v)'}}
  BY <1>3, <1>5, <1>6
<1>12. LeasesExclusive'
  BY <1>10, <1>11 DEF LeasesExclusive
<1>13. /\ Len(writeQueue') = Len(queue) - n
       /\ \A i \in 1..(Len(queue) - n) : writeQueue'[i] = queue[n + i]
       /\ writeQueue' \in Seq(Writers)
       /\ n < Len(queue) => Lease[queue[n + 1]] \cap heldWriteLeases' # {}
  BY <1>1 DEF Grants
<1>14. QueueOnce'
  <2> SUFFICES ASSUME NEW i \in 1..(Len(queue) - n), NEW j \in 1..(Len(queue) - n), i # j
               PROVE  writeQueue'[i] # writeQueue'[j]
    BY <1>13 DEF QueueOnce
  <2>1. /\ n + i \in 1..Len(queue) /\ n + j \in 1..Len(queue) /\ n + i # n + j
    BY <1>2
  <2>2. writeQueue'[i] = queue[n + i] /\ writeQueue'[j] = queue[n + j]
    BY <1>13
  <2>3. \A k, l \in 1..Len(queue) : k # l => queue[k] # queue[l]
    OBVIOUS
  <2>4. queue[n + i] # queue[n + j]
    BY <2>1, <2>3
  <2>5. QED
    BY <2>2, <2>4
<1>15. QueueIsWhoWaits'
  <2> SUFFICES ASSUME NEW w \in Writers
               PROVE  writer'[w] = "queued"
                        <=> \E i \in 1..(Len(queue) - n) : writeQueue'[i] = w
    BY <1>13 DEF QueueIsWhoWaits
  <2>1. writer'[w] = "queued" <=> w \notin first /\ \E i \in 1..Len(queue) : queue[i] = w
    BY <1>4
  <2>2. ASSUME NEW i \in 1..Len(queue), queue[i] = w, w \notin first
        PROVE  \E j \in 1..(Len(queue) - n) : writeQueue'[j] = w
    <3>1. i \notin 1..n
      BY <1>3, <2>2
    <3>2. i - n \in 1..(Len(queue) - n) /\ n + (i - n) = i
      BY <1>2, <3>1
    <3>3. QED
      BY <1>13, <2>2, <3>2
  <2>3. ASSUME NEW j \in 1..(Len(queue) - n), writeQueue'[j] = w
        PROVE  w \notin first /\ \E i \in 1..Len(queue) : queue[i] = w
    <3>1. n + j \in 1..Len(queue) /\ queue[n + j] = w
      BY <1>2, <1>13, <2>3
    <3>2. \A i \in 1..n : i \in 1..Len(queue) /\ i # n + j
      BY <1>2
    <3>3. QED
      BY <1>3, <3>1, <3>2
  <2>4. QED
    BY <2>1, <2>2, <2>3
<1>16. HeadClashes'
  <2> SUFFICES ASSUME writeQueue' # <<>>
               PROVE  Lease[Head(writeQueue')] \cap heldWriteLeases' # {}
    BY DEF HeadClashes
  <2>1. Len(writeQueue') \in Nat /\ Len(writeQueue') # 0
    BY <1>13, LenProperties, EmptySeq
  <2>2. n < Len(queue) /\ 1 \in 1..(Len(queue) - n)
    BY <1>2, <1>13, <2>1
  <2>3. Head(writeQueue') = queue[n + 1]
    BY <1>13, <2>2, HeadTailProperties
  <2>4. QED
    BY <1>13, <2>2, <2>3
<1>17. QED
  BY <1>12, <1>14, <1>15, <1>16 DEF QueueInv

LEMMA SubmitQueue ==
    ASSUME QueueInv, OtherTypes, NEW w \in Writers, Submit(w)
    PROVE  QueueInv'
<1> DEFINE queue == Append(writeQueue, w)
           others == [writer EXCEPT ![w] = "queued"]
<1>1. /\ writer \in [Writers -> WriterPc] /\ writeQueue \in Seq(Writers)
      /\ heldWriteLeases \in SUBSET Roots
  BY DEF OtherTypes
<1>2. writer[w] = "idle" /\ Pump(queue, heldWriteLeases, others)
  BY DEF Submit
<1>3. /\ queue \in Seq(Writers) /\ Len(queue) = Len(writeQueue) + 1
      /\ \A i \in 1..Len(writeQueue) : queue[i] = writeQueue[i]
      /\ queue[Len(writeQueue) + 1] = w
      /\ Len(writeQueue) \in Nat
  BY <1>1, AppendProperties, LenProperties
<1>4. /\ others \in [Writers -> WriterPc]
      /\ others[w] = "queued"
      /\ \A v \in Writers \ {w} : others[v] = writer[v]
  BY <1>1 DEF WriterPc
<1>5. \A v \in Writers : others[v] \notin {"idle", "queued"} <=> Busy(v)
  BY <1>2, <1>4 DEF Busy
<1> HIDE DEF queue, others
<1>6. \A u, v \in Writers :
         u # v /\ others[u] \notin {"idle", "queued"} /\ others[v] \notin {"idle", "queued"}
           => Lease[u] \cap Lease[v] = {}
  BY <1>5 DEF QueueInv, LeasesExclusive
<1>7. heldWriteLeases
        = UNION {Lease[u] : u \in {v \in Writers : others[v] \notin {"idle", "queued"}}}
  BY <1>5 DEF QueueInv, LeasesExclusive
<1>8. \A i \in 1..Len(writeQueue) : writeQueue[i] # w
  BY <1>2 DEF QueueInv, QueueIsWhoWaits
<1>9. \A i \in 1..Len(queue) : i \in 1..Len(writeQueue) \/ i = Len(writeQueue) + 1
  BY <1>3
<1>10. 1..Len(writeQueue) \subseteq 1..Len(queue) /\ Len(writeQueue) + 1 \in 1..Len(queue)
  BY <1>3
<1>11. \A v \in Writers :
          others[v] = "queued" <=> \E i \in 1..Len(queue) : queue[i] = v
  BY <1>3, <1>4, <1>8, <1>9, <1>10 DEF QueueInv, QueueIsWhoWaits
<1>12. \A i, j \in 1..Len(queue) : i # j => queue[i] # queue[j]
  BY <1>3, <1>8, <1>9 DEF QueueInv, QueueOnce
<1>13. QED
  BY <1>1, <1>2, <1>3, <1>4, <1>6, <1>7, <1>11, <1>12, PumpStep

LEMMA ReleaseQueue ==
    ASSUME QueueInv, OtherTypes, NEW w \in Writers, Release(w)
    PROVE  QueueInv'
<1> DEFINE others == [writer EXCEPT ![w] = "idle"]
           held == heldWriteLeases \ Lease[w]
<1>1. /\ writer \in [Writers -> WriterPc] /\ writeQueue \in Seq(Writers)
      /\ heldWriteLeases \in SUBSET Roots
  BY DEF OtherTypes
<1>2. writer[w] = "ending" /\ Pump(writeQueue, held, others)
  BY DEF Release
<1>3. /\ others \in [Writers -> WriterPc]
      /\ others[w] = "idle"
      /\ \A v \in Writers \ {w} : others[v] = writer[v]
  BY <1>1 DEF WriterPc
<1>4. held \in SUBSET Roots
  BY <1>1
<1>5. /\ Busy(w)
      /\ \A v \in Writers : others[v] \notin {"idle", "queued"} <=> Busy(v) /\ v # w
  BY <1>2, <1>3 DEF Busy
<1>6. \A v \in Writers : others[v] = "queued" <=> writer[v] = "queued"
  BY <1>2, <1>3
<1> HIDE DEF others
<1>7. \A u, v \in Writers :
         u # v /\ others[u] \notin {"idle", "queued"} /\ others[v] \notin {"idle", "queued"}
           => Lease[u] \cap Lease[v] = {}
  BY <1>5 DEF QueueInv, LeasesExclusive
<1>8. \A v \in Writers : Busy(v) /\ v # w => Lease[v] \cap Lease[w] = {}
  BY <1>5 DEF QueueInv, LeasesExclusive
<1>9. heldWriteLeases = UNION {Lease[u] : u \in {v \in Writers : Busy(v)}}
  BY DEF QueueInv, LeasesExclusive
<1>10. held = UNION {Lease[u] : u \in {v \in Writers : others[v] \notin {"idle", "queued"}}}
  BY <1>5, <1>8, <1>9
<1> HIDE DEF held
<1>11. /\ \A v \in Writers :
            others[v] = "queued" <=> \E i \in 1..Len(writeQueue) : writeQueue[i] = v
       /\ \A i, j \in 1..Len(writeQueue) : i # j => writeQueue[i] # writeQueue[j]
  BY <1>6 DEF QueueInv, QueueIsWhoWaits, QueueOnce
<1>12. QED
  BY <1>1, <1>2, <1>3, <1>4, <1>7, <1>10, <1>11, PumpStep

\* A step that neither takes nor gives a lease.
LEMMA SameLeases ==
    ASSUME QueueInv, leases' = leases,
           \A w \in Writers : Busy(w)' <=> Busy(w),
           \A w \in Writers : writer'[w] = "queued" <=> writer[w] = "queued"
    PROVE  QueueInv'
<1>1. writeQueue' = writeQueue /\ heldWriteLeases' = heldWriteLeases
  BY DEF leases
<1>2. LeasesExclusive'
  <2>1. {v \in Writers : Busy(v)'} = {v \in Writers : Busy(v)}
    OBVIOUS
  <2>2. QED
    BY <1>1, <2>1 DEF QueueInv, LeasesExclusive
<1>3. QueueOnce' /\ HeadClashes'
  BY <1>1 DEF QueueInv, QueueOnce, HeadClashes
<1>4. QueueIsWhoWaits'
  BY <1>1 DEF QueueInv, QueueIsWhoWaits
<1>5. QED
  BY <1>2, <1>3, <1>4 DEF QueueInv

LEMMA WriterQueue ==
    ASSUME QueueInv, OtherTypes, NEW w \in Writers, WriteStep(w), ~Release(w)
    PROVE  QueueInv' /\ leases' = leases /\ reader' = reader
<1>1. writer \in [Writers -> WriterPc]
  BY DEF OtherTypes
<1>2. /\ leases' = leases /\ reader' = reader
      /\ writer[w] \in {"granted", "dispatching", "executed"}
      /\ \E to \in {"dispatching", "executed", "ending"} : writer' = [writer EXCEPT ![w] = to]
  BY DEF WriteStep, PersistMarker, MarkerFails, Execute, Reject, Invalidate, Step
<1>3. PICK to \in {"dispatching", "executed", "ending"} : writer' = [writer EXCEPT ![w] = to]
  BY <1>2
<1>4. writer'[w] = to /\ \A v \in Writers \ {w} : writer'[v] = writer[v]
  BY <1>1, <1>3
<1>5. /\ \A v \in Writers : Busy(v)' <=> Busy(v)
      /\ \A v \in Writers : writer'[v] = "queued" <=> writer[v] = "queued"
  BY <1>2, <1>3, <1>4 DEF Busy
<1>6. QED
  BY <1>2, <1>5, SameLeases

\* Only a read that finds a lease parks, and it stays at its key.
LEMMA ReadParks ==
    ASSUME Loads, NEW f \in Frames, ReadStep(f)
    PROVE  /\ leases' = leases /\ writer' = writer
           /\ \A g \in Frames :
                reader'[g].pc = "parked"
                  => /\ reader'[g].key = reader[g].key
                     /\ reader[g].pc = "parked" \/ Covered(g)
<1>0. /\ ReadersTyped /\ truth \in Versions /\ versions \in [Roots -> Versions \cup {None}]
      /\ PartFrame(f) \in Frames
  BY FrameFacts DEF Loads, OtherTypes
<1>1. CASE PassLease(f)
  <2>1. "readable" \in ReaderPc /\ Move(f, "readable")
    BY <1>1 DEF PassLease, ReaderPc
  <2>2. QED
    BY <1>0, <1>1, <2>1, MoveFacts DEF PassLease
<1>2. CASE ParkOnLease(f)
  <2>1. "parked" \in ReaderPc /\ Move(f, "parked") /\ Covered(f)
    BY <1>2 DEF ParkOnLease, ReaderPc
  <2>2. QED
    BY <1>0, <1>2, <2>1, MoveFacts DEF ParkOnLease
<1>3. ASSUME NEW v \in Versions \cup {None}, Return(f, v)
      PROVE  \A g \in Frames : reader'[g].pc = "parked" => reader'[g] = reader[g]
  BY <1>0, <1>3, ReturnFacts
<1>4. CASE RefuseLimited(f)
  BY <1>3, <1>4 DEF RefuseLimited
<1>5. CASE AnswerFromCache(f)
  <2>1. PICK v : Return(f, v) /\ v = IF Key(f) \in Resources THEN resources[Key(f)]
                                     ELSE aggregates[Key(f)].value
    BY <1>5 DEF AnswerFromCache
  <2>2. \A g \in Frames \ {f} : reader'[g] = reader[g]
    BY <1>0, <2>1 DEF Return, ReadersTyped
  <2>3. reader'[f].pc = "done"
    <3>1. reader' = [reader EXCEPT ![f] = Done(v)]
      BY <2>1 DEF Return
    <3>2. Done(v).pc = "done"
      BY IdleFacts DEF Done, ReaderRecord
    <3>3. QED
      BY <1>0, <3>1, <3>2 DEF ReadersTyped
  <2>4. QED
    BY <1>5, <2>2, <2>3 DEF AnswerFromCache
<1>6. ASSUME NEW leader, Join(f, leader)
      PROVE  \A g \in Frames : reader'[g].pc = "parked" => reader'[g] = reader[g]
  <2>1. reader' = [reader EXCEPT ![f] = [reader[f] EXCEPT !.pc = "joined", !.known = None,
                                                          !.leader = leader]]
    BY <1>6 DEF Join
  <2>2. [reader[f] EXCEPT !.pc = "joined", !.known = None, !.leader = leader].pc = "joined"
    BY <1>0 DEF ReadersTyped, ReaderRecord
  <2>3. QED
    BY <1>0, <2>1, <2>2 DEF ReadersTyped
<1>7. CASE JoinForced(f) \/ JoinInFlight(f)
  BY <1>6, <1>7 DEF JoinForced, JoinInFlight
<1>8. CASE StartLoad(f)
  <2>1. Key(f) \in Keys /\ reader' = Loading(f)
    BY <1>8 DEF StartLoad, MustLoad, At, Loads, FramesWell, Active
  <2>2. Part[Key(f)] # None => f # PartFrame(f)
    <3>1. Active(f)
      BY <1>8 DEF StartLoad, MustLoad, At, Active
    <3>2. f[2] = "part" => Part[Key(f)] = None
      BY <3>1, PartFacts
    <3>3. QED
      BY <3>2, FrameFacts
  <2>3. /\ reader'[f].pc = "loading"
        /\ \A g \in Frames \ {f, PartFrame(f)} : reader'[g] = reader[g]
        /\ Part[Key(f)] = None /\ f # PartFrame(f) => reader'[PartFrame(f)] = reader[PartFrame(f)]
        /\ Part[Key(f)] # None => reader'[PartFrame(f)].pc = "called"
    BY <1>0, <2>1, <2>2, LoadingFacts
  <2>4. \A g \in Frames : reader'[g].pc = "parked" => reader'[g] = reader[g]
    BY <1>0, <2>3
  <2>5. QED
    BY <1>8, <2>4 DEF StartLoad
<1>9. CASE Observe(f)
  <2>1. /\ \A g \in Frames \ {f} : reader'[g] = reader[g]
        /\ reader'[f].pc = "answered"
    BY <1>0, <1>9, ObserveFacts
  <2>2. QED
    BY <1>9, <2>1 DEF Observe
<1>10. CASE ObservePart(f)
  <2>1. /\ \A g \in Frames \ {f, PartFrame(f)} : reader'[g] = reader[g]
        /\ reader'[f].pc = "answered" /\ reader'[PartFrame(f)].pc = "idle"
    BY <1>0, <1>10, ObservePartFacts
  <2>2. \A g \in Frames : reader'[g].pc = "parked" => reader'[g] = reader[g]
    BY <1>0, <2>1
  <2>3. QED
    BY <1>10, <2>2 DEF ObservePart
<1>11. ASSUME NEW v \in Versions \cup {None}, Settle(f, v)
       PROVE  \A g \in Frames : reader'[g].pc = "parked" => reader'[g] = reader[g]
  BY <1>0, <1>11, SettleFacts
<1>12. CASE LoadFails(f)
  BY <1>11, <1>12 DEF LoadFails
<1>13. CASE PublishResource(f) \/ PublishAggregate(f)
  <2>1. reader[f].seen \in Versions
    BY <1>13 DEF PublishResource, PublishAggregate, Loads, FramesWell
  <2>2. QED
    BY <1>11, <1>13, <2>1 DEF PublishResource, PublishAggregate
<1>14. QED
  BY <1>1, <1>2, <1>4, <1>5, <1>7, <1>8, <1>9, <1>10, <1>12, <1>13 DEF ReadStep

LEMMA LeaseNext == Loads /\ LeaseInv /\ [Next]_vars => LeaseInv'
<1> SUFFICES ASSUME Loads, LeaseInv, [Next]_vars PROVE LeaseInv'
  OBVIOUS
<1>0. ReadersTyped /\ OtherTypes /\ QueueInv /\ ParkedCovered
  BY DEF Loads, LeaseInv
\* Held leases only grow, and who is parked was, at the same key, or is covered.
<1>1. ASSUME heldWriteLeases \subseteq heldWriteLeases',
             \A g \in Frames : reader'[g].pc = "parked"
                                 => /\ reader'[g].key = reader[g].key
                                    /\ reader[g].pc = "parked" \/ Covered(g)
      PROVE  ParkedCovered'
  BY <1>0, <1>1 DEF ParkedCovered, At, Covered, Key
<1>2. ASSUME NEW f \in Frames, ReadStep(f) PROVE LeaseInv'
  <2>1. leases' = leases /\ writer' = writer
    BY <1>2, ReadParks
  <2>2. QueueInv'
    BY <1>0, <2>1, SameLeases DEF Busy
  <2>3. heldWriteLeases \subseteq heldWriteLeases'
    BY <2>1 DEF leases
  <2>4. ParkedCovered'
    BY <1>1, <1>2, <2>3, ReadParks
  <2>5. QED
    BY <2>2, <2>4 DEF LeaseInv
<1>3. ASSUME leases' = leases, writer' = writer,
             \A g \in Frames : reader'[g].pc = "parked" => reader'[g] = reader[g]
      PROVE  LeaseInv'
  <2>1. QueueInv'
    BY <1>0, <1>3, SameLeases DEF Busy
  <2>2. heldWriteLeases \subseteq heldWriteLeases'
    BY <1>3 DEF leases
  <2>3. ParkedCovered'
    BY <1>1, <1>3, <2>2
  <2>4. QED
    BY <2>1, <2>3 DEF LeaseInv
<1>4. ASSUME NEW f \in Frames, NEW k \in Keys, NEW b \in BOOLEAN, Call(f, k, b)
      PROVE  LeaseInv'
  <2>1. \A g \in Frames : reader'[g].pc = "parked" => reader'[g] = reader[g]
    BY <1>0, <1>4, CallFacts DEF OtherTypes
  <2>2. QED
    BY <1>3, <1>4, <2>1 DEF Call
<1>5. ASSUME NEW w \in Writers, WriteStep(w), ~Release(w) PROVE LeaseInv'
  <2>1. QueueInv' /\ leases' = leases /\ reader' = reader
    BY <1>0, <1>5, WriterQueue
  <2>2. heldWriteLeases \subseteq heldWriteLeases'
    BY <2>1 DEF leases
  <2>3. ParkedCovered'
    BY <1>1, <2>1, <2>2
  <2>4. QED
    BY <2>1, <2>3 DEF LeaseInv
<1>6. ASSUME NEW w \in Writers, Release(w) PROVE LeaseInv'
  <2>1. QueueInv'
    BY <1>0, <1>6, ReleaseQueue
  <2>2. \A f \in Frames : reader'[f].pc # "parked"
    BY <1>0, <1>6, WakeFacts DEF At
  <2>3. QED
    BY <2>1, <2>2 DEF LeaseInv, ParkedCovered, At
<1>7. ASSUME NEW w \in Writers, Submit(w) PROVE LeaseInv'
  <2>1. QueueInv'
    BY <1>0, <1>7, SubmitQueue
  <2>2. reader' = reader /\ heldWriteLeases \subseteq heldWriteLeases'
    BY <1>7 DEF Submit, Pump
  <2>3. ParkedCovered'
    BY <1>1, <2>2
  <2>4. QED
    BY <2>1, <2>3 DEF LeaseInv
<1>8. ASSUME NEW k \in Keys, Expire(k) PROVE LeaseInv'
  BY <1>3, <1>8 DEF Expire
<1>9. CASE Elsewhere
  BY <1>3, <1>9 DEF Elsewhere
<1>10. CASE UNCHANGED vars
  BY <1>3, <1>10 DEF vars, leases
<1>11. QED
  BY <1>2, <1>4, <1>5, <1>6, <1>7, <1>8, <1>9, <1>10 DEF Next

LEMMA InitLeases == Init => LeaseInv
<1> SUFFICES ASSUME Init PROVE LeaseInv
  OBVIOUS
<1>1. /\ heldWriteLeases = {} /\ writeQueue = <<>>
      /\ \A w \in Writers : writer[w] = "idle"
      /\ \A f \in Frames : reader[f] = Idle
  BY DEF Init
<1>2. LeasesExclusive
  BY <1>1 DEF LeasesExclusive, Busy
<1>3. Len(writeQueue) = 0
  BY <1>1
<1>4. QueueOnce /\ HeadClashes
  BY <1>1, <1>3 DEF QueueOnce, HeadClashes
<1>5. QueueIsWhoWaits
  BY <1>1, <1>3 DEF QueueIsWhoWaits
<1>6. ParkedCovered
  BY <1>1, IdleFacts DEF ParkedCovered, At
<1>7. QED
  BY <1>2, <1>4, <1>5, <1>6 DEF LeaseInv, QueueInv

\* LeasesExclusive: two transactions that share a lease key are never both
\* granted, and the held leases are those of the granted transactions.
THEOREM LeasesAreExclusive == Spec => []LeasesExclusive
<1>1. LeaseInv => LeasesExclusive
  BY DEF LeaseInv, QueueInv
<1>2. QED
  BY <1>1, InitLeases, LeaseNext, GatewayLoads, PTL DEF Spec

\* NobodyForgotten: a parked read is covered by a held lease and the head of
\* the queue clashes with one, so the release that must wake them is to come.
THEOREM NobodyIsForgotten == Spec => []NobodyForgotten
<1>1. LeaseInv => NobodyForgotten
  BY DEF LeaseInv, QueueInv, ParkedCovered, HeadClashes, QueueIsWhoWaits, NobodyForgotten
<1>2. QED
  BY <1>1, InitLeases, LeaseNext, GatewayLoads, PTL DEF Spec
=============================================================================
