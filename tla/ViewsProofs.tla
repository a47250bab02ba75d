------------------------------- MODULE ViewsProofs -------------------------------
(***************************************************************************)
(* Theorems about what the panel and the agents it starts rest on: the     *)
(* contract of a work item, the authorization of a start, the snapshots of *)
(* the local Git state, the facts read from one sample, the preparation of *)
(* a worktree, the lanes of the gateway, and the log of a task with the    *)
(* stream that follows it.  They share no state.                           *)
(***************************************************************************)
EXTENDS ContractCapture, Authorization, LocalGit, LocalGitFacts, Preparation, GatewayLanes,
        Streams, FiniteSetTheorems, SequenceTheorems, WellFoundedInduction, TLAPS

(***************************************************************************)
(* ContractCapture, for any observers and any number of versions, crashes  *)
(* and damages.  The argument is what the holder of the lock still knows   *)
(* when it writes the pointer: nobody has moved it since it compared it    *)
(* with the version it fetched, and its capture is there.                  *)
(***************************************************************************)

Holding == {"locked", "staged", "captured", "pointed"}

\* What an observer that is at work may rely on.
WorkIsSound ==
    \A o \in Observers :
        /\ cstep[o] # "idle" => fetched[o] \in Captures
        /\ cstep[o] \in {"staged", "captured"} => Newer(fetched[o])
        /\ cstep[o] = "captured" => fetched[o] \in captures
        /\ cstep[o] = "pointed" => current = fetched[o]

CaptureInv == ContractIsWhole /\ WorkIsSound

\* At the start there is no capture, and no observer has been answered.
LEMMA CaptureInitial == ContractInit => CaptureInv
<1> SUFFICES ASSUME ContractInit PROVE CaptureInv
  OBVIOUS
<1> USE DEF ContractInit
<1>1. issue \in Captures
  BY ContractAssumption DEF Captures
<1>2. losses \in 0..MaxLosses
  BY ContractAssumption
<1>3. ContractTypeOK
  BY <1>1, <1>2, ContractAssumption DEF ContractTypeOK
<1>4. PointerIsWhole /\ AnswerIsFresh /\ WorkIsSound
  BY DEF PointerIsWhole, AnswerIsFresh, WorkIsSound
<1>5. QED
  BY <1>3, <1>4 DEF CaptureInv, ContractIsWhole

\* A step that only an observer's own fields see: the others rely on the same.
LEMMA OnlyOneHolds ==
    ASSUME ContractTypeOK, NEW o \in Observers, NEW p \in Observers,
           cstep[o] \in Holding, cstep[p] \in Holding
    PROVE  o = p
BY DEF ContractTypeOK, Holding

-----------------------------------------------------------------------------
(* What each action does to the invariant *)

LEMMA IssueChangesKeeps == ASSUME CaptureInv, IssueChanges PROVE CaptureInv'
<1> USE DEF CaptureInv, ContractIsWhole
<1>1. issue' \in Captures
  <2>1. /\ issue \in Captures /\ issue.version \in 1..MaxEdits
        /\ issue.contract \in 1..MaxEdits /\ issue.evidence \in 1..MaxEvidence
    BY DEF ContractTypeOK, Captures
  <2>2. ASSUME NEW version \in {issue.version, issue.version + 1},
               issue.contract < MaxEdits, version <= MaxEdits,
               issue' = [issue EXCEPT !.version = version, !.contract = @ + 1]
        PROVE  issue' \in Captures
    <3>1. version \in 1..MaxEdits /\ issue.contract + 1 \in 1..MaxEdits
      BY <2>1, <2>2, ContractAssumption
    <3>2. issue' = [version |-> version, contract |-> issue.contract + 1,
                    evidence |-> issue.evidence]
      BY <2>1, <2>2, Zenon DEF Captures
    <3>3. QED
      BY <2>1, <3>1, <3>2 DEF Captures
  <2>3. ASSUME issue.evidence < MaxEvidence, issue' = [issue EXCEPT !.evidence = @ + 1]
        PROVE  issue' \in Captures
    BY <2>1, <2>3, ContractAssumption DEF Captures
  <2>4. QED
    BY <2>2, <2>3 DEF IssueChanges
<1>2. ContractTypeOK'
  BY <1>1 DEF IssueChanges, ContractTypeOK
<1>3. PointerIsWhole' /\ AnswerIsFresh' /\ WorkIsSound'
  BY DEF IssueChanges, PointerIsWhole, AnswerIsFresh, WorkIsSound, Newer
<1>4. QED
  BY <1>2, <1>3

LEMMA DamageKeeps == ASSUME CaptureInv, Damage PROVE CaptureInv'
<1> USE DEF CaptureInv, ContractIsWhole
<1>1. ContractTypeOK'
  BY ContractAssumption DEF Damage, ContractTypeOK
<1>2. PointerIsWhole' /\ AnswerIsFresh' /\ WorkIsSound'
  BY DEF Damage, PointerIsWhole, AnswerIsFresh, WorkIsSound, Newer
<1>3. QED
  BY <1>1, <1>2

LEMMA FetchKeeps == ASSUME CaptureInv, NEW o \in Observers, Fetch(o) PROVE CaptureInv'
<1> USE DEF CaptureInv, ContractIsWhole, Fetch, Proceeds
<1>1. ContractTypeOK'
  BY ContractAssumption DEF ContractTypeOK
<1>2. PointerIsWhole'
  BY DEF PointerIsWhole
<1>3. AnswerIsFresh'
  BY DEF AnswerIsFresh, ContractTypeOK
<1>4. WorkIsSound'
  BY DEF WorkIsSound, Newer, ContractTypeOK
<1>5. QED
  BY <1>1, <1>2, <1>3, <1>4

LEMMA AcquireKeeps == ASSUME CaptureInv, NEW o \in Observers, Acquire(o) PROVE CaptureInv'
<1> USE DEF CaptureInv, ContractIsWhole, Acquire, Proceeds
<1>1. ContractTypeOK'
  BY ContractAssumption DEF ContractTypeOK
<1>2. PointerIsWhole' /\ AnswerIsFresh'
  BY DEF PointerIsWhole, AnswerIsFresh, ContractTypeOK
<1>3. WorkIsSound'
  BY DEF WorkIsSound, Newer, ContractTypeOK
<1>4. QED
  BY <1>2, <1>1, <1>3

\* A publication that ends with an answer no older than what was fetched.
LEMMA ConcludesKeeps ==
    ASSUME CaptureInv, NEW o \in Observers, NEW known \in Captures \cup {None},
           locked = o, Concludes(o, known),
           UNCHANGED <<issue, captures, current, damaged, fetched, losses>>,
           known # None => \/ known.version > fetched[o].version
                           \/ /\ known.version = fetched[o].version
                              /\ known.contract = fetched[o].contract
    PROVE  CaptureInv'
<1> USE DEF CaptureInv, ContractIsWhole, Concludes, Proceeds
<1>1. ContractTypeOK'
  BY ContractAssumption DEF ContractTypeOK
<1>2. PointerIsWhole' /\ AnswerIsFresh'
  BY DEF PointerIsWhole, AnswerIsFresh, ContractTypeOK
<1>3. WorkIsSound'
  BY DEF WorkIsSound, Newer, ContractTypeOK
<1>4. QED
  BY <1>1, <1>2, <1>3

LEMMA RefuseKeeps == ASSUME CaptureInv, NEW o \in Observers, Refuse(o) PROVE CaptureInv'
<1> USE DEF CaptureInv, ContractIsWhole
<1>1. locked = o /\ fetched[o] \in Captures /\ current \in Captures \cup {None}
  BY DEF Refuse, ContractTypeOK, WorkIsSound
<1>2. UNCHANGED <<issue, captures, current, damaged, fetched, losses>>
  BY DEF Refuse
<1>3. CASE Concludes(o, None)
  BY <1>1, <1>2, <1>3, ConcludesKeeps
<1>4. CASE ~Newer(fetched[o]) /\ Concludes(o, Known(fetched[o]))
  <2>1. current \in Captures
    BY <1>1, <1>4 DEF Newer
  <2>2. Known(fetched[o]) \in Captures \cup {None}
    BY <2>1 DEF Known
  <2>3. Known(fetched[o]) # None => Known(fetched[o]).version > fetched[o].version
    BY DEF Known
  <2>4. QED
    BY <1>1, <1>2, <1>4, <2>2, <2>3, ConcludesKeeps
<1>5. CASE current = fetched[o] /\ Concludes(o, current)
  BY <1>1, <1>2, <1>5, ConcludesKeeps
<1>6. QED
  BY <1>3, <1>4, <1>5 DEF Refuse

LEMMA StageKeeps == ASSUME CaptureInv, NEW o \in Observers, Stage(o) PROVE CaptureInv'
<1> USE DEF CaptureInv, ContractIsWhole, Stage, Proceeds
<1>1. ContractTypeOK'
  BY ContractAssumption DEF ContractTypeOK
<1>2. PointerIsWhole' /\ AnswerIsFresh'
  BY DEF PointerIsWhole, AnswerIsFresh, ContractTypeOK
<1>3. WorkIsSound'
  BY DEF WorkIsSound, Newer, ContractTypeOK
<1>4. QED
  BY <1>1, <1>2, <1>3

LEMMA CaptureKeeps == ASSUME CaptureInv, NEW o \in Observers, Capture(o) PROVE CaptureInv'
<1> USE DEF CaptureInv, ContractIsWhole, Capture, Proceeds
<1>1. ContractTypeOK'
  BY ContractAssumption DEF ContractTypeOK, WorkIsSound
<1>2. PointerIsWhole' /\ AnswerIsFresh'
  BY DEF PointerIsWhole, AnswerIsFresh, ContractTypeOK
<1>3. WorkIsSound'
  BY DEF WorkIsSound, Newer, ContractTypeOK
<1>4. QED
  BY <1>1, <1>2, <1>3

\* The pointer moves while nobody else holds the lock, so nobody else relies on it.
LEMMA PointKeeps == ASSUME CaptureInv, NEW o \in Observers, Point(o) PROVE CaptureInv'
<1> USE DEF CaptureInv, ContractIsWhole, Point, Proceeds
<1>1. ContractTypeOK'
  BY ContractAssumption DEF ContractTypeOK
<1>2. PointerIsWhole' /\ AnswerIsFresh'
  BY DEF PointerIsWhole, AnswerIsFresh, ContractTypeOK
<1>3. \A p \in Observers : p # o => cstep[p] \notin Holding
  BY OnlyOneHolds DEF Holding
<1>4. WorkIsSound'
  BY <1>3 DEF WorkIsSound, Newer, ContractTypeOK, Holding
<1>5. QED
  BY <1>1, <1>2, <1>4

LEMMA AnswerCurrentKeeps ==
    ASSUME CaptureInv, NEW o \in Observers, AnswerCurrent(o) PROVE CaptureInv'
<1>1. locked = o /\ current = fetched[o] /\ current \in Captures
  BY DEF CaptureInv, ContractIsWhole, AnswerCurrent, ContractTypeOK, WorkIsSound
<1>2. QED
  BY <1>1, ConcludesKeeps DEF AnswerCurrent, CaptureInv

LEMMA ReadCurrentKeeps ==
    ASSUME CaptureInv, NEW o \in Observers, ReadCurrent(o) PROVE CaptureInv'
<1> USE DEF CaptureInv, ContractIsWhole, ReadCurrent, Readable
<1>1. ContractTypeOK'
  BY ContractAssumption DEF ContractTypeOK
<1>2. PointerIsWhole' /\ AnswerIsFresh'
  BY DEF PointerIsWhole, AnswerIsFresh, ContractTypeOK
<1>3. WorkIsSound'
  BY DEF WorkIsSound, Newer, ContractTypeOK
<1>4. QED
  BY <1>1, <1>2, <1>3

LEMMA LosesKeeps == ASSUME CaptureInv, NEW o \in Observers, Loses(o) PROVE CaptureInv'
<1> USE DEF CaptureInv, ContractIsWhole, Loses, Proceeds
<1>1. ContractTypeOK'
  BY ContractAssumption DEF ContractTypeOK
<1>2. PointerIsWhole' /\ AnswerIsFresh'
  BY DEF PointerIsWhole, AnswerIsFresh, ContractTypeOK
<1>3. WorkIsSound'
  BY DEF WorkIsSound, Newer, ContractTypeOK
<1>4. QED
  BY <1>1, <1>2, <1>3

LEMMA CaptureStep == CaptureInv /\ [ContractNext]_cvars => CaptureInv'
<1> SUFFICES ASSUME CaptureInv, [ContractNext]_cvars PROVE CaptureInv'
  OBVIOUS
<1>1. CASE UNCHANGED cvars
  BY <1>1 DEF cvars, CaptureInv, ContractIsWhole, ContractTypeOK, PointerIsWhole,
              AnswerIsFresh, WorkIsSound, Newer
<1>2. CASE ContractNext
  BY <1>2, IssueChangesKeeps, DamageKeeps, FetchKeeps, AcquireKeeps, RefuseKeeps,
     StageKeeps, CaptureKeeps, PointKeeps, AnswerCurrentKeeps, ReadCurrentKeeps, LosesKeeps
     DEF ContractNext
<1>3. QED
  BY <1>1, <1>2

-----------------------------------------------------------------------------

\* The pointer only moves to what its writer found to be newer under the lock.
LEMMA OnlyForward == CaptureInv /\ [ContractNext]_cvars => CurrentAdvances
<1> SUFFICES ASSUME CaptureInv, [ContractNext]_cvars PROVE CurrentAdvances
  OBVIOUS
<1>1. CASE current' = current
  BY <1>1 DEF CurrentAdvances
<1>2. CASE \E o \in Observers : Point(o)
  <2>1. PICK o \in Observers : Point(o)
    BY <1>2
  <2>2. Newer(fetched[o]) /\ current' = fetched[o]
    BY <2>1 DEF Point, CaptureInv, WorkIsSound
  <2>3. CASE current = None
    BY <2>3 DEF CurrentAdvances
  <2>4. CASE current # None
    <3>1. current \in Captures /\ fetched[o] \in Captures
      BY <2>1, <2>4 DEF Point, CaptureInv, ContractIsWhole, ContractTypeOK, WorkIsSound
    <3>2. QED
      BY <2>2, <2>4, <3>1 DEF Newer, CurrentAdvances, Captures
  <2>5. QED
    BY <2>3, <2>4
<1>3. QED
  BY <1>1, <1>2
     DEF ContractNext, cvars, IssueChanges, Damage, Fetch, Acquire, Refuse, Stage, Capture,
         AnswerCurrent, ReadCurrent, Loses

\* The invariant of the captures: whatever has been cut off or damaged, the pointer
\* names a complete capture, every answer is no older than what was fetched, and the
\* holder of the lock may write what it decided to.
THEOREM CaptureInvariant == ContractSpec => []CaptureInv
<1>1. QED
  BY CaptureInitial, CaptureStep, PTL DEF ContractSpec

\* In every state the contract that is kept and answered is whole.
THEOREM ContractAlwaysWhole == ContractSpec => []ContractIsWhole
<1>1. CaptureInv => ContractIsWhole
  BY DEF CaptureInv
<1>2. QED
  BY <1>1, CaptureInvariant, PTL

\* Every step leaves the contract whole and moves the pointer only forward, however
\* slow an observer is and wherever one dies.
THEOREM ContractAlwaysHolds == ContractSpec => ContractHolds
<1>1. CaptureInv /\ [ContractNext]_cvars => [ContractIsWhole' /\ CurrentAdvances]_cvars
  BY CaptureStep, OnlyForward DEF CaptureInv
<1>2. QED
  BY <1>1, CaptureInvariant, PTL DEF ContractSpec, ContractHolds


(***************************************************************************)
(* Authorization, for any number of requests, consents and any limit of    *)
(* the store.  A consent is in the store, in the hands of one request, or  *)
(* spent by one start, and moves only forward between the three; whoever   *)
(* holds it carries what was shown.                                        *)
(***************************************************************************)

Bounds == [contract : Nat \cup {None}, taskState : Nat] \cup {None}
Consents == [input : Inputs, bound : Bounds, expires : Nat]
Asks == [step : {"contract", "issue"}, input : Inputs, shown : Nat, seen : Nat \cup {None}]
Goings == [step : {"confirmed", "prepare", "launch"}, id : Nat, input : Inputs, bound : Bounds]

ConsentTypes ==
    /\ AuthorizationTypeOK
    /\ consents \in Seq(Consents)
    /\ request \in [Requests -> Asks \cup Goings \cup {AtRest}]

\* A request that was confirmed, but has not started anything yet.
Underway(r) == request[r].step \in {"confirmed", "prepare", "launch"}

\* What was spent or is in hand carries what was shown, and cannot be consumed again.
Carries(x) ==
    /\ x.id \in DOMAIN consents /\ x.id \notin store
    /\ x.input = consents[x.id].input /\ x.bound = consents[x.id].bound

GoingIsRight ==
    \A r \in Requests : Underway(r) =>
        /\ Carries(request[r])
        /\ \A s \in starts : s.id # request[r].id
        /\ \A q \in Requests : Underway(q) /\ request[q].id = request[r].id => q = r
        /\ request[r].step # "confirmed" /\ request[r].input.action = "develop" =>
              request[r].bound # None

StartedIsRight ==
    \A s \in starts :
        /\ Carries(s)
        /\ s.input.action = "develop" => s.state = s.bound.taskState
        /\ \A t \in starts : s.id = t.id => s = t

ConsentInv == ConsentTypes /\ GoingIsRight /\ StartedIsRight

\* The invariant says what was promised.
LEMMA ConsentInvImplies == ConsentInv => ConsentIsKept
<1> SUFFICES ASSUME ConsentInv PROVE ConsentIsKept
  OBVIOUS
<1>1. AuthorizationTypeOK
  BY DEF ConsentInv, ConsentTypes
<1>2. OneStartPerConsent
  BY DEF ConsentInv, StartedIsRight, Carries, OneStartPerConsent
<1>3. StopWithdrawsConsent
  BY DEF ConsentInv, StartedIsRight, Carries, StopWithdrawsConsent
<1>4. QED
  BY <1>1, <1>2, <1>3 DEF ConsentIsKept

\* At the start nothing was asked.
LEMMA ConsentInitial == AuthorizationInit => ConsentInv
<1> SUFFICES ASSUME AuthorizationInit PROVE ConsentInv
  OBVIOUS
<1> USE DEF AuthorizationInit
<1>1. Cardinality(store) <= Limit
  BY FS_EmptySet, LimitAssumption
<1>2. \A r \in Requests : request[r] = AtRest /\ request[r].step = "idle"
  BY DEF AtRest
<1>3. AuthorizationTypeOK
  BY <1>1, <1>2, ConsentBounds DEF AuthorizationTypeOK, Agents
<1>4. consents \in Seq(Consents)
  OBVIOUS
<1>5. request \in [Requests -> Asks \cup Goings \cup {AtRest}]
  OBVIOUS
<1>6. GoingIsRight /\ StartedIsRight
  BY <1>2 DEF GoingIsRight, StartedIsRight, Underway
<1>7. QED
  BY <1>3, <1>4, <1>5, <1>6 DEF ConsentInv, ConsentTypes

\* A nonempty set of numbers has a least one.
LEMMA LeastElement ==
    ASSUME NEW T, T \subseteq Nat, T # {}
    PROVE  \E x \in T : \A y \in T : x <= y
<1> DEFINE R == OpToRel(<, Nat)
<1>1. IsWellFoundedOn(R, Nat)
  BY NatLessThanWellFounded
<1>2. \A x, y \in Nat : y < x => <<y, x>> \in R
  BY DEF OpToRel
<1> HIDE DEF R
<1>3. PICK x \in T : \A y \in T : ~(<<y, x>> \in R)
  BY <1>1, WFMin
<1>4. ASSUME NEW y \in T PROVE x <= y
  <2>1. x \in Nat /\ y \in Nat
    OBVIOUS
  <2>2. y < x => <<y, x>> \in R
    BY <1>2, <2>1
  <2>3. ~(<<y, x>> \in R)
    BY <1>3
  <2>4. QED
    BY <2>1, <2>2, <2>3
<1>5. QED
  BY <1>4

\* The store forgets the oldest in time: there is room for one more.
LEMMA BoundedHasRoom ==
    ASSUME NEW S, S \subseteq Nat, IsFiniteSet(S), Cardinality(S) <= Limit
    PROVE  /\ Bounded(S) \subseteq S /\ IsFiniteSet(Bounded(S))
           /\ Cardinality(Bounded(S)) < Limit
<1>1. Cardinality(S) \in Nat
  BY FS_CardinalityType
<1>2. CASE Cardinality(S) >= Limit
  <2>1. S # {}
    BY <1>2, FS_EmptySet, LimitAssumption
  <2>2. PICK oldest \in S : \A y \in S : oldest <= y
    BY <2>1, LeastElement
  <2>3. Bounded(S) = S \ {oldest}
    <3>1. Bounded(S) = {id \in S : \E older \in S : older < id}
      BY <1>2 DEF Bounded
    <3>2. \A id \in S : (\E older \in S : older < id) <=> id # oldest
      BY <2>2
    <3>3. QED
      BY <3>1, <3>2
  <2>4. IsFiniteSet(S \ {oldest}) /\ Cardinality(S \ {oldest}) = Cardinality(S) - 1
    BY FS_RemoveElement
  <2>5. QED
    BY <1>1, <2>3, <2>4, LimitAssumption
<1>3. CASE ~(Cardinality(S) >= Limit)
  BY <1>1, <1>3, LimitAssumption DEF Bounded
<1>4. QED
  BY <1>2, <1>3


\* What a request is tells where it is.
LEMMA RequestStates ==
    ASSUME ConsentTypes, NEW r \in Requests
    PROVE  /\ request[r] \in Asks \cup Goings \cup {AtRest}
           /\ Underway(r) => request[r] \in Goings
           /\ request[r].step \in {"contract", "issue"} => request[r] \in Asks
<1>1. request[r] \in Asks \cup Goings \cup {AtRest}
  BY DEF ConsentTypes
<1>2. request[r] \in Asks => request[r].step \in {"contract", "issue"}
  BY DEF Asks
<1>3. request[r] \in Goings => request[r].step \in {"confirmed", "prepare", "launch"}
  BY DEF Goings
<1>4. request[r] = AtRest => request[r].step = "idle"
  BY DEF AtRest
<1>5. QED
  BY <1>1, <1>2, <1>3, <1>4 DEF Underway

\* What changes around the requests withdraws nothing from the invariant.
LEMMA WorldMoves ==
    ASSUME ConsentInv, UNCHANGED <<store, consents, request, starts>>,
           time' \in 0..MaxTime, contract' \in 1..MaxContract,
           taskState' \in 0..MaxTaskState, devAgent' \in Agents
    PROVE  ConsentInv'
<1>1. ConsentTypes'
  BY DEF ConsentInv, ConsentTypes, AuthorizationTypeOK
<1>2. GoingIsRight'
  BY DEF ConsentInv, GoingIsRight, Underway, Carries
<1>3. StartedIsRight'
  BY DEF ConsentInv, StartedIsRight, Carries
<1>4. QED
  BY <1>1, <1>2, <1>3 DEF ConsentInv

\* One request goes on asking, or rests.
LEMMA RequestAsks ==
    ASSUME ConsentInv, NEW r \in Requests, NEW state \in Asks \cup {AtRest},
           Proceed(r, state),
           UNCHANGED <<time, contract, taskState, devAgent, store, consents, starts>>
    PROVE  ConsentInv'
<1>1. request' = [request EXCEPT ![r] = state]
  BY DEF Proceed
<1>2. state.step \in {"idle", "contract", "issue"}
  BY DEF Asks, AtRest
<1>3. \A q \in Requests : request'[q] = IF q = r THEN state ELSE request[q]
  BY <1>1 DEF ConsentInv, ConsentTypes
<1>4. \A q \in Requests : Underway(q)' => Underway(q) /\ request'[q] = request[q]
  BY <1>2, <1>3 DEF Underway
<1>5. AuthorizationTypeOK'
  BY <1>2, <1>3 DEF ConsentInv, ConsentTypes, AuthorizationTypeOK
<1>6. request' \in [Requests -> Asks \cup Goings \cup {AtRest}]
  BY <1>1 DEF ConsentInv, ConsentTypes
<1>7. GoingIsRight'
  BY <1>4 DEF ConsentInv, GoingIsRight, Carries
<1>8. StartedIsRight'
  BY DEF ConsentInv, StartedIsRight, Carries
<1>9. QED
  BY <1>5, <1>6, <1>7, <1>8 DEF ConsentInv, ConsentTypes

\* A request that was confirmed goes on with what it carries.
LEMMA RequestGoesOn ==
    ASSUME ConsentInv, NEW r \in Requests, Underway(r),
           NEW next \in {"prepare", "launch"},
           request[r].input.action = "develop" => request[r].bound # None,
           Proceed(r, [request[r] EXCEPT !.step = next]),
           UNCHANGED <<time, contract, taskState, devAgent, store, consents, starts>>
    PROVE  ConsentInv'
<1> DEFINE state == [request[r] EXCEPT !.step = next]
<1>1. request' = [request EXCEPT ![r] = state]
  BY DEF Proceed
<1>2. request[r] \in Goings
  BY RequestStates DEF ConsentInv
<1>3. /\ state \in Goings /\ state.step = next
      /\ state.id = request[r].id /\ state.input = request[r].input
      /\ state.bound = request[r].bound
  BY <1>2 DEF Goings
<1> HIDE DEF state
<1>4. \A q \in Requests : request'[q] = IF q = r THEN state ELSE request[q]
  BY <1>1 DEF ConsentInv, ConsentTypes
<1>5. \A q \in Requests : /\ Underway(q)' => Underway(q)
                          /\ Underway(q) => request'[q].id = request[q].id
  BY <1>3, <1>4 DEF Underway
<1>6. AuthorizationTypeOK'
  BY <1>3, <1>4 DEF ConsentInv, ConsentTypes, AuthorizationTypeOK
<1>7. request' \in [Requests -> Asks \cup Goings \cup {AtRest}]
  BY <1>1, <1>3 DEF ConsentInv, ConsentTypes
<1>8. GoingIsRight'
  <2> SUFFICES ASSUME NEW q \in Requests, Underway(q)'
               PROVE  /\ Carries(request[q])'
                      /\ \A s \in starts' : s.id # request'[q].id
                      /\ \A p \in Requests : Underway(p)' /\ request'[p].id = request'[q].id => p = q
                      /\ request'[q].step # "confirmed" /\ request'[q].input.action = "develop" =>
                            request'[q].bound # None
    BY DEF GoingIsRight
  <2>1. Underway(q) /\ request'[q].id = request[q].id
    BY <1>5
  <2>2. /\ request'[q].input = request[q].input /\ request'[q].bound = request[q].bound
        /\ request'[q] = request[q] \/ q = r
    BY <1>3, <1>4
  <2>3. Carries(request[q]) /\ \A s \in starts : s.id # request[q].id
    BY <2>1 DEF ConsentInv, GoingIsRight
  <2>4. Carries(request[q])'
    BY <2>1, <2>2, <2>3 DEF Carries
  <2>5. \A p \in Requests : Underway(p)' /\ request'[p].id = request'[q].id => p = q
    BY <1>5, <2>1 DEF ConsentInv, GoingIsRight
  <2>6. request'[q].step # "confirmed" /\ request'[q].input.action = "develop" =>
            request'[q].bound # None
    BY <2>1, <2>2 DEF ConsentInv, GoingIsRight
  <2>7. QED
    BY <2>1, <2>3, <2>4, <2>5, <2>6
<1>9. StartedIsRight'
  BY DEF ConsentInv, StartedIsRight, Carries
<1>10. QED
  BY <1>6, <1>7, <1>8, <1>9 DEF ConsentInv, ConsentTypes

\* A restart takes the store and every request away.
LEMMA RestartKeepsConsents == ConsentInv /\ RestartServer => ConsentInv'
<1> SUFFICES ASSUME ConsentInv, RestartServer PROVE ConsentInv'
  OBVIOUS
<1> USE DEF RestartServer
<1>1. Cardinality(store') <= Limit
  BY FS_EmptySet, LimitAssumption
<1>2. \A r \in Requests : request'[r] = AtRest /\ request'[r].step = "idle"
  BY DEF AtRest
<1>3. AuthorizationTypeOK'
  BY <1>1, <1>2 DEF ConsentInv, ConsentTypes, AuthorizationTypeOK
<1>4. ConsentTypes'
  BY <1>3 DEF ConsentInv, ConsentTypes
<1>5. GoingIsRight'
  BY <1>2 DEF GoingIsRight, Underway
<1>6. StartedIsRight'
  BY DEF ConsentInv, StartedIsRight, Carries
<1>7. QED
  BY <1>4, <1>5, <1>6 DEF ConsentInv

\* A new consent gets a number of its own.
LEMMA IssueKeepsConsents ==
    ASSUME ConsentInv, NEW r \in Requests, IssueAuthorization(r)
    PROVE  ConsentInv'
<1> DEFINE bound == IF request[r].input.action = "develop"
                    THEN [contract |-> request[r].seen, taskState |-> taskState] ELSE None
           issued == [input |-> request[r].input, bound |-> bound, expires |-> time + Ttl]
           new == Len(consents) + 1
<1>1. /\ request[r].step = "issue" /\ Len(consents) < MaxConsents
      /\ store' = Bounded(Live) \cup {new}
      /\ consents' = Append(consents, issued)
      /\ Proceed(r, AtRest)
      /\ UNCHANGED <<time, contract, taskState, devAgent, starts>>
  BY DEF IssueAuthorization
<1>2. request[r] \in Asks
  BY <1>1, RequestStates DEF ConsentInv
<1>3. AuthorizationTypeOK /\ consents \in Seq(Consents)
  BY DEF ConsentInv, ConsentTypes
<1>4. issued \in Consents
  <2>1. request[r].input \in Inputs /\ request[r].seen \in Nat \cup {None}
    BY <1>2 DEF Asks
  <2>2. taskState \in Nat /\ time + Ttl \in Nat
    BY <1>3, LimitAssumption, ConsentBounds DEF AuthorizationTypeOK
  <2>3. bound \in Bounds
    BY <2>1, <2>2 DEF Bounds
  <2>4. QED
    BY <2>1, <2>2, <2>3 DEF Consents
<1> HIDE DEF bound, issued
<1>5. /\ consents' \in Seq(Consents) /\ Len(consents') = new
      /\ DOMAIN consents' = 1..new /\ DOMAIN consents = 1..Len(consents)
      /\ \A id \in DOMAIN consents : id # new /\ consents'[id] = consents[id]
  BY <1>1, <1>3, <1>4
<1>6. Live \subseteq store /\ store \subseteq DOMAIN consents
  BY <1>3 DEF Live, AuthorizationTypeOK
<1>7. IsFiniteSet(store) /\ IsFiniteSet(Live) /\ Cardinality(Live) <= Limit
  <2>1. IsFiniteSet(DOMAIN consents)
    <3>1. DOMAIN consents = 1..Len(consents) /\ Len(consents) \in Int
      BY <1>3, <1>5
    <3>2. QED
      BY <3>1, FS_Interval
  <2>2. IsFiniteSet(store)
    BY <1>6, <2>1, FS_Subset
  <2>3. IsFiniteSet(Live) /\ Cardinality(Live) <= Cardinality(store)
    BY <1>6, <2>2, FS_Subset
  <2>4. Cardinality(store) \in Nat /\ Cardinality(Live) \in Nat
    BY <2>2, <2>3, FS_CardinalityType
  <2>5. Cardinality(store) <= Limit
    BY <1>3 DEF AuthorizationTypeOK
  <2>6. QED
    BY <2>2, <2>3, <2>4, <2>5, LimitAssumption
<1>8. /\ Bounded(Live) \subseteq Live /\ IsFiniteSet(Bounded(Live))
      /\ Cardinality(Bounded(Live)) < Limit
  <2>1. Live \subseteq Nat
    BY <1>3, <1>5, <1>6
  <2>2. QED
    BY <1>7, <2>1, BoundedHasRoom
<1>9. store' \subseteq DOMAIN consents' /\ Cardinality(store') <= Limit
  <2>1. new \notin Bounded(Live)
    BY <1>5, <1>6, <1>8
  <2>2. Cardinality(store') = Cardinality(Bounded(Live)) + 1
    BY <1>1, <1>8, <2>1, FS_AddElement
  <2>3. Cardinality(Bounded(Live)) \in Nat
    BY <1>8, FS_CardinalityType
  <2>4. store' \subseteq DOMAIN consents'
    BY <1>1, <1>3, <1>5, <1>6, <1>8
  <2>5. QED
    BY <1>8, <2>2, <2>3, <2>4, LimitAssumption
<1>10. \A q \in Requests : request'[q] = IF q = r THEN AtRest ELSE request[q]
  BY <1>1 DEF Proceed, ConsentInv, ConsentTypes
<1>11. \A q \in Requests : Underway(q)' => Underway(q) /\ request'[q] = request[q]
  BY <1>10 DEF Underway, AtRest
<1>12. ConsentTypes'
  <2>1. Len(consents') <= MaxConsents
    BY <1>1, <1>3, <1>5, ConsentBounds
  <2>2. \A q \in Requests :
            request'[q].step \in {"idle", "contract", "issue", "confirmed", "prepare", "launch"}
    BY <1>3, <1>10 DEF AuthorizationTypeOK, AtRest
  <2>3. request' \in [Requests -> Asks \cup Goings \cup {AtRest}]
    BY <1>1 DEF Proceed, ConsentInv, ConsentTypes
  <2>4. AuthorizationTypeOK'
    BY <1>1, <1>3, <1>9, <2>1, <2>2 DEF AuthorizationTypeOK
  <2>5. QED
    BY <1>5, <2>3, <2>4 DEF ConsentTypes
<1>13. \A x : Carries(x) => /\ x.id \in DOMAIN consents' /\ x.id \notin store'
                            /\ x.input = consents'[x.id].input /\ x.bound = consents'[x.id].bound
  BY <1>1, <1>3, <1>5, <1>6, <1>8 DEF Carries
<1>14. GoingIsRight'
  BY <1>1, <1>11, <1>13 DEF ConsentInv, GoingIsRight, Carries
<1>15. StartedIsRight'
  BY <1>1, <1>13 DEF ConsentInv, StartedIsRight, Carries
<1>16. QED
  BY <1>12, <1>14, <1>15 DEF ConsentInv


\* A consent that is named leaves the store, into the hands of the request or for good.
LEMMA ConfirmKeepsConsents ==
    ASSUME ConsentInv, NEW r \in Requests, NEW c \in DOMAIN consents, NEW input \in Inputs,
           Confirm(r, c, input)
    PROVE  ConsentInv'
<1> DEFINE taken == c \in Live /\ Matching(DigestOf(consents[c].input, consents[c]), input, consents[c])
           next == IF input.action = "develop" THEN "confirmed" ELSE "launch"
           state == [step |-> next, id |-> c, input |-> input, bound |-> consents[c].bound]
<1>1. /\ request[r] = AtRest /\ store' = Live \ {c}
      /\ IF taken THEN Proceed(r, state) ELSE UNCHANGED request
      /\ UNCHANGED <<time, contract, taskState, devAgent, consents, starts>>
  BY DEF Confirm, Consumed
<1>2. AuthorizationTypeOK /\ consents \in Seq(Consents)
  BY DEF ConsentInv, ConsentTypes
<1>3. consents[c] \in Consents /\ c \in Nat
  BY <1>2
<1>4. store' \subseteq store /\ c \notin store' /\ Cardinality(store') <= Limit
  <2>1. Live \subseteq store /\ store \subseteq DOMAIN consents
    BY <1>2 DEF Live, AuthorizationTypeOK
  <2>2. IsFiniteSet(store)
    <3>1. IsFiniteSet(1..Len(consents)) /\ DOMAIN consents = 1..Len(consents)
      BY <1>2, FS_Interval
    <3>2. QED
      BY <2>1, <3>1, FS_Subset
  <2>3. store' \subseteq store
    BY <1>1, <2>1
  <2>4. IsFiniteSet(store') /\ Cardinality(store') <= Cardinality(store)
    BY <2>2, <2>3, FS_Subset
  <2>5. Cardinality(store) \in Nat /\ Cardinality(store') \in Nat
    BY <2>2, <2>4, FS_CardinalityType
  <2>6. Cardinality(store) <= Limit
    BY <1>2 DEF AuthorizationTypeOK
  <2>7. QED
    BY <1>1, <2>3, <2>4, <2>5, <2>6, LimitAssumption
<1>5. \A x : Carries(x) => /\ x.id \in DOMAIN consents' /\ x.id \notin store'
                           /\ x.input = consents'[x.id].input /\ x.bound = consents'[x.id].bound
  BY <1>1, <1>4 DEF Carries
<1>6. StartedIsRight'
  BY <1>1, <1>5 DEF ConsentInv, StartedIsRight, Carries
<1>7. CASE ~taken
  <2>1. request' = request
    BY <1>1, <1>7
  <2>2. ConsentTypes'
    BY <1>1, <1>4, <2>1 DEF ConsentInv, ConsentTypes, AuthorizationTypeOK
  <2>3. \A q \in Requests : Underway(q)' <=> Underway(q)
    BY <2>1 DEF Underway
  <2>4. GoingIsRight'
    BY <1>1, <1>5, <2>1, <2>3 DEF ConsentInv, GoingIsRight, Carries
  <2>5. QED
    BY <1>6, <2>2, <2>4 DEF ConsentInv
<1>8. CASE taken
  <2>1. input = consents[c].input /\ c \in store
    BY <1>8 DEF Matching, DigestOf, Live
  <2>2. /\ state \in Goings /\ state.step = next /\ state.id = c /\ state.input = input
        /\ state.bound = consents[c].bound
    BY <1>3 DEF Goings, Consents
  <2>3. next \in {"confirmed", "launch"} /\ (next # "confirmed" => input.action # "develop")
    OBVIOUS
  <2> HIDE DEF state, next, taken
  <2>4. \A q \in Requests : request'[q] = IF q = r THEN state ELSE request[q]
    BY <1>1, <1>8 DEF Proceed, ConsentInv, ConsentTypes
  <2>5. \A q \in Requests : q # r /\ Underway(q)' => Underway(q) /\ request[q].id # c /\ request'[q] = request[q]
    BY <2>1, <2>4 DEF Underway, ConsentInv, GoingIsRight, Carries
  <2>6. \A s \in starts : s.id # c
    BY <2>1 DEF ConsentInv, StartedIsRight, Carries
  <2>7. ConsentTypes'
    <3>1. \A q \in Requests :
              request'[q].step \in {"idle", "contract", "issue", "confirmed", "prepare", "launch"}
      BY <1>2, <2>2, <2>3, <2>4 DEF AuthorizationTypeOK
    <3>2. request' \in [Requests -> Asks \cup Goings \cup {AtRest}]
      BY <1>1, <1>8, <2>2 DEF Proceed, ConsentInv, ConsentTypes
    <3>3. AuthorizationTypeOK'
      BY <1>1, <1>2, <1>4, <3>1 DEF AuthorizationTypeOK
    <3>4. QED
      BY <1>1, <1>2, <3>2, <3>3 DEF ConsentTypes
  <2>8. Carries(request[r])'
    BY <1>1, <1>4, <2>1, <2>2, <2>4 DEF Carries
  <2>9. GoingIsRight'
    <3> SUFFICES ASSUME NEW q \in Requests, Underway(q)'
                 PROVE  /\ Carries(request[q])'
                        /\ \A s \in starts' : s.id # request'[q].id
                        /\ \A p \in Requests : Underway(p)' /\ request'[p].id = request'[q].id => p = q
                        /\ request'[q].step # "confirmed" /\ request'[q].input.action = "develop" =>
                              request'[q].bound # None
      BY DEF GoingIsRight
    <3>1. CASE q = r
      <4>1. request'[q] = state
        BY <2>4, <3>1
      <4>2. \A p \in Requests : Underway(p)' /\ request'[p].id = request'[q].id => p = q
        BY <2>2, <2>5, <3>1, <4>1
      <4>3. \A s \in starts' : s.id # request'[q].id
        BY <1>1, <2>2, <2>6, <4>1
      <4>4. QED
        BY <2>2, <2>3, <2>8, <3>1, <4>1, <4>2, <4>3
    <3>2. CASE q # r
      <4>1. Underway(q) /\ request[q].id # c /\ request'[q] = request[q]
        BY <2>5, <3>2
      <4>2. Carries(request[q])'
        BY <1>5, <4>1 DEF ConsentInv, GoingIsRight, Carries
      <4>3. \A p \in Requests : Underway(p)' /\ request'[p].id = request'[q].id => p = q
        BY <2>2, <2>4, <2>5, <4>1 DEF ConsentInv, GoingIsRight
      <4>4. QED
        BY <1>1, <4>1, <4>2, <4>3 DEF ConsentInv, GoingIsRight
    <3>3. QED
      BY <3>1, <3>2
  <2>10. QED
    BY <1>6, <2>7, <2>9 DEF ConsentInv
<1>9. QED
  BY <1>7, <1>8

\* What is started carries what was shown; a development is started in the state that its
\* consent is bound to.
LEMMA LaunchKeepsConsents ==
    ASSUME ConsentInv, NEW r \in Requests, Launch(r)
    PROVE  ConsentInv'
<1> DEFINE same == request[r].bound # None => SameTaskState(request[r].bound)
           start == [id |-> request[r].id, by |-> r, input |-> request[r].input,
                     bound |-> request[r].bound, state |-> taskState]
<1>1. /\ request[r].step = "launch" /\ taskState < MaxTaskState
      /\ same => /\ starts' = starts \cup {start}
                 /\ taskState' = IF request[r].input.action = "create-pr" THEN taskState
                                 ELSE taskState + 1
                 /\ devAgent' = IF request[r].input.action = "develop" THEN request[r].input.agent
                                ELSE devAgent
      /\ ~same => UNCHANGED <<starts, taskState, devAgent>>
      /\ Proceed(r, AtRest)
      /\ UNCHANGED <<time, contract, store, consents>>
  BY DEF Launch
<1>2. Underway(r) /\ request[r] \in Goings
  BY <1>1, RequestStates DEF Underway, ConsentInv
<1>3. request[r].input \in Inputs
  BY <1>2 DEF Goings
<1>4. \A q \in Requests : request'[q] = IF q = r THEN AtRest ELSE request[q]
  BY <1>1 DEF Proceed, ConsentInv, ConsentTypes
<1>5. \A q \in Requests : Underway(q)' => q # r /\ Underway(q) /\ request'[q] = request[q]
  BY <1>4 DEF Underway, AtRest
<1>6. AuthorizationTypeOK /\ consents \in Seq(Consents)
  BY DEF ConsentInv, ConsentTypes
<1>7. ConsentTypes'
  <2>1. taskState' \in 0..MaxTaskState
    BY <1>1, <1>6, ConsentBounds DEF AuthorizationTypeOK
  <2>2. request[r].input.action = "develop" => request[r].input.agent \in Agents
    BY <1>3 DEF Inputs
  <2>3. devAgent' \in Agents
    BY <1>1, <1>6, <2>2 DEF AuthorizationTypeOK
  <2>4. \A q \in Requests :
            request'[q].step \in {"idle", "contract", "issue", "confirmed", "prepare", "launch"}
    BY <1>4, <1>6 DEF AuthorizationTypeOK, AtRest
  <2>5. request' \in [Requests -> Asks \cup Goings \cup {AtRest}]
    BY <1>1 DEF Proceed, ConsentInv, ConsentTypes
  <2>6. AuthorizationTypeOK'
    BY <1>1, <1>6, <2>1, <2>3, <2>4 DEF AuthorizationTypeOK
  <2>7. QED
    BY <1>1, <1>6, <2>5, <2>6 DEF ConsentTypes
<1>8. \A x : Carries(x) => /\ x.id \in DOMAIN consents' /\ x.id \notin store'
                           /\ x.input = consents'[x.id].input /\ x.bound = consents'[x.id].bound
  BY <1>1 DEF Carries
<1>9. /\ Carries(request[r])
      /\ \A s \in starts : s.id # request[r].id
      /\ request[r].input.action = "develop" => request[r].bound # None
  BY <1>1, <1>2 DEF ConsentInv, GoingIsRight
<1>10. /\ start.id = request[r].id /\ start.input = request[r].input
       /\ start.bound = request[r].bound /\ start.state = taskState
  OBVIOUS
<1>11. same /\ request[r].input.action = "develop" => taskState = request[r].bound.taskState
  BY <1>9 DEF SameTaskState
<1> HIDE DEF same, start
<1>12. \A s \in starts' : s \in starts \/ (s = start /\ same)
  BY <1>1
<1>13. GoingIsRight'
  <2> SUFFICES ASSUME NEW q \in Requests, Underway(q)'
               PROVE  /\ Carries(request[q])'
                      /\ \A s \in starts' : s.id # request'[q].id
                      /\ \A p \in Requests : Underway(p)' /\ request'[p].id = request'[q].id => p = q
                      /\ request'[q].step # "confirmed" /\ request'[q].input.action = "develop" =>
                            request'[q].bound # None
    BY DEF GoingIsRight
  <2>1. q # r /\ Underway(q) /\ request'[q] = request[q]
    BY <1>5
  <2>2. request[q].id # request[r].id
    BY <1>2, <2>1 DEF ConsentInv, GoingIsRight
  <2>3. \A s \in starts' : s.id # request'[q].id
    BY <1>10, <1>12, <2>1, <2>2 DEF ConsentInv, GoingIsRight
  <2>4. Carries(request[q])'
    BY <1>8, <2>1 DEF ConsentInv, GoingIsRight, Carries
  <2>5. \A p \in Requests : Underway(p)' /\ request'[p].id = request'[q].id => p = q
    BY <1>5, <2>1 DEF ConsentInv, GoingIsRight
  <2>6. QED
    BY <2>1, <2>3, <2>4, <2>5 DEF ConsentInv, GoingIsRight
<1>14. StartedIsRight'
  <2>1. \A s \in starts : Carries(s) /\ (s.input.action = "develop" => s.state = s.bound.taskState)
    BY DEF ConsentInv, StartedIsRight
  <2>2. Carries(start)
    BY <1>9, <1>10 DEF Carries
  <2>3. \A s \in starts' : Carries(s) /\ (s.input.action = "develop" => s.state = s.bound.taskState)
    BY <1>10, <1>11, <1>12, <2>1, <2>2
  <2>4. \A s, t \in starts : s.id = t.id => s = t
    BY DEF ConsentInv, StartedIsRight
  <2>5. \A s, t \in starts' : s.id = t.id => s = t
    BY <1>9, <1>10, <1>12, <2>4
  <2>6. QED
    BY <1>8, <2>3, <2>5 DEF StartedIsRight, Carries
<1>15. QED
  BY <1>7, <1>13, <1>14 DEF ConsentInv

\* Whatever happens, the invariant stays.
LEMMA ConsentStep == ConsentInv /\ [AuthorizationNext]_authvars => ConsentInv'
<1> SUFFICES ASSUME ConsentInv, [AuthorizationNext]_authvars PROVE ConsentInv'
  OBVIOUS
<1>1. AuthorizationTypeOK
  BY DEF ConsentInv, ConsentTypes
<1>2. CASE UNCHANGED authvars
  BY <1>1, <1>2, WorldMoves DEF authvars, AuthorizationTypeOK
<1>3. CASE TimePasses
  <2>1. time' \in 0..MaxTime
    BY <1>1, <1>3, ConsentBounds DEF TimePasses, AuthorizationTypeOK
  <2>2. QED
    BY <1>1, <1>3, <2>1, WorldMoves DEF TimePasses, AuthorizationTypeOK
<1>4. CASE EditContract
  <2>1. contract' \in 1..MaxContract
    BY <1>1, <1>4, ConsentBounds DEF EditContract, AuthorizationTypeOK
  <2>2. QED
    BY <1>1, <1>4, <2>1, WorldMoves DEF EditContract, AuthorizationTypeOK
<1>5. CASE RestartServer
  BY <1>5, RestartKeepsConsents
<1>6. ASSUME NEW agent \in Agents, MoveTaskState(agent) PROVE ConsentInv'
  <2>1. taskState' \in 0..MaxTaskState
    BY <1>1, <1>6, ConsentBounds DEF MoveTaskState, AuthorizationTypeOK
  <2>2. QED
    BY <1>1, <1>6, <2>1, WorldMoves DEF MoveTaskState, AuthorizationTypeOK
<1>7. ASSUME NEW r \in Requests, NEW input \in Inputs, AskPreview(r, input) PROVE ConsentInv'
  <2>1. PICK state : /\ state = [step |-> IF input.action = "develop" THEN "contract" ELSE "issue",
                                 input |-> input, shown |-> contract, seen |-> None]
                     /\ Proceed(r, state)
    BY <1>7 DEF AskPreview
  <2>2. state \in Asks
    BY <1>1, <2>1, ConsentBounds DEF Asks, AuthorizationTypeOK
  <2>3. QED
    BY <1>7, <2>1, <2>2, RequestAsks DEF AskPreview
<1>8. ASSUME NEW r \in Requests, FreezeContract(r) PROVE ConsentInv'
  <2>1. request[r] \in Asks
    BY <1>8, RequestStates DEF FreezeContract, ConsentInv
  <2>2. PICK state : /\ state = IF request[r].shown = contract
                                THEN [request[r] EXCEPT !.step = "issue", !.seen = contract]
                                ELSE AtRest
                     /\ Proceed(r, state)
    BY <1>8 DEF FreezeContract
  <2>3. contract \in Nat
    BY <1>1, ConsentBounds DEF AuthorizationTypeOK
  <2>4. state \in Asks \cup {AtRest}
    BY <2>1, <2>2, <2>3 DEF Asks
  <2>5. QED
    BY <1>8, <2>2, <2>4, RequestAsks DEF FreezeContract
<1>9. ASSUME NEW r \in Requests, NEW id \in DOMAIN consents, NEW input \in Inputs,
             Confirm(r, id, input)
      PROVE  ConsentInv'
  BY <1>9, ConfirmKeepsConsents
<1>10. ASSUME NEW r \in Requests, CheckContract(r) PROVE ConsentInv'
  <2>1. Underway(r)
    BY <1>10 DEF CheckContract, Underway
  <2>2. CASE request[r].bound # None /\ request[r].bound.contract = contract
    <3>1. Proceed(r, [request[r] EXCEPT !.step = "prepare"])
      BY <1>10, <2>2 DEF CheckContract
    <3>2. QED
      BY <1>10, <2>1, <2>2, <3>1, RequestGoesOn DEF CheckContract
  <2>3. CASE ~(request[r].bound # None /\ request[r].bound.contract = contract)
    <3>1. Proceed(r, AtRest)
      BY <1>10, <2>3 DEF CheckContract
    <3>2. QED
      BY <1>10, <3>1, RequestAsks DEF CheckContract
  <2>4. QED
    BY <2>2, <2>3
<1>11. ASSUME NEW r \in Requests, EnsurePrepared(r) PROVE ConsentInv'
  <2>1. Underway(r) /\ request[r].step = "prepare"
    BY <1>11 DEF EnsurePrepared, Underway
  <2>2. request[r].input.action = "develop" => request[r].bound # None
    BY <2>1 DEF ConsentInv, GoingIsRight
  <2>3. CASE SameTaskState(request[r].bound)
    <3>1. Proceed(r, [request[r] EXCEPT !.step = "launch"])
      BY <1>11, <2>3 DEF EnsurePrepared
    <3>2. QED
      BY <1>11, <2>1, <2>2, <3>1, RequestGoesOn DEF EnsurePrepared
  <2>4. CASE ~SameTaskState(request[r].bound)
    <3>1. Proceed(r, AtRest)
      BY <1>11, <2>4 DEF EnsurePrepared
    <3>2. QED
      BY <1>11, <3>1, RequestAsks DEF EnsurePrepared
  <2>5. QED
    BY <2>3, <2>4
<1>12. QED
  BY <1>2, <1>3, <1>4, <1>5, <1>6, <1>7, <1>8, <1>9, <1>10, <1>11,
     IssueKeepsConsents, LaunchKeepsConsents DEF AuthorizationNext

\* Of AuthorizationStore and the start of a development: a consent is in the store, in the
\* hands of one request or spent, whatever is asked, edited, stopped or restarted meanwhile.
THEOREM ConsentInvariant == AuthorizationSpec => []ConsentInv
<1>1. AuthorizationInit => ConsentInv
  BY ConsentInitial
<1>2. ConsentInv /\ [AuthorizationNext]_authvars => ConsentInv'
  BY ConsentStep
<1>3. QED
  BY <1>1, <1>2, PTL DEF AuthorizationSpec

\* One consent starts one action at most, the one that was shown, and a development only in
\* the task state the consent was given in (handleApiPost, startDevelop).
THEOREM ConsentAlwaysKept == AuthorizationSpec => []ConsentIsKept
  BY ConsentInvariant, ConsentInvImplies, PTL

(***************************************************************************)
(* LocalGit, for any worktrees, viewers and number of mutations.  The      *)
(* argument follows the executions: one of the current generation began    *)
(* after the last notification of its scope and is the one that may be     *)
(* joined; a caller waits for one execution, and that one is under way     *)
(* until it answers all who wait for it.                                   *)
(***************************************************************************)

\* An execution of the current generation is young enough and can be joined.
ExecutionsSound ==
    \A e \in executions :
        /\ e.generation <= entries[e.scope].generation
        /\ e.generation = entries[e.scope].generation =>
              e.seen >= told[e.scope] /\ inflight[e.scope] = e.generation

\* A generation of a scope has one execution.
ExecutionsApart ==
    \A e, f \in executions : e.scope = f.scope /\ e.generation = f.generation => e = f

InflightSound ==
    \A s \in Scopes :
        inflight[s] # None => \E e \in executions : e.scope = s /\ e.generation = inflight[s]

\* What a caller may rely on, in each state it can be in.
Served(x) ==
    /\ x.step = "answered" => x.seen >= x.after
    /\ x.step = "retry" => x.after <= told[x.scope]
    /\ x.step = "waiting" =>
          /\ x.after <= told[x.scope]
          /\ \E e \in executions : /\ e.scope = x.scope /\ e.generation = x.generation
                                   /\ e.seen >= x.after

AllServed == \A v \in Viewers : Served(viewer[v])

SnapshotInv ==
    /\ LocalGitTypeOK /\ KeptSinceNotified
    /\ ExecutionsSound /\ ExecutionsApart /\ InflightSound /\ AllServed

-----------------------------------------------------------------------------
(* What the types say *)

\* Every scope has an entry of its own and a last notification.
LEMMA EntryFacts ==
    ASSUME LocalGitTypeOK, NEW s \in Scopes
    PROVE  /\ entries[s].generation \in Nat
           /\ entries[s].sample \in (0..MaxMutations) \cup {None}
           /\ told[s] \in 0..mutations /\ mutations \in 0..MaxMutations
           /\ told[s] \in Nat /\ mutations \in Nat /\ told[s] <= mutations
           /\ told[s] \in 0..MaxMutations
           /\ inflight[s] \in Nat \cup {None}
BY LocalGitAssumption DEF LocalGitTypeOK

LEMMA ExecutionFacts ==
    ASSUME LocalGitTypeOK, NEW e \in executions
    PROVE  e.scope \in Scopes /\ e.generation \in Nat /\ e.seen \in 0..MaxMutations
               /\ e.seen \in Nat
BY LocalGitAssumption DEF LocalGitTypeOK

\* The fields a caller has in each of its states.
LEMMA ViewerFacts ==
    ASSUME NEW x \in ViewerStates
    PROVE  /\ x.step = "waiting" =>
                 /\ x.scope \in Scopes /\ x.after \in 0..MaxMutations
                 /\ x.attempt \in 1..2 /\ x.generation \in Nat
           /\ x.step = "retry" => x.scope \in Scopes /\ x.after \in 0..MaxMutations
           /\ x.step = "answered" => x.after \in 0..MaxMutations /\ x.seen \in 0..MaxMutations
BY DEF ViewerStates, Idle

\* Initially nobody has asked, and nothing is sampled.
LEMMA SnapshotInitial == LocalGitInit => SnapshotInv
<1> SUFFICES ASSUME LocalGitInit PROVE SnapshotInv
  OBVIOUS
<1> USE LocalGitAssumption DEF LocalGitInit
<1>1. viewer \in [Viewers -> ViewerStates]
  BY DEF ViewerStates
<1>2. LocalGitTypeOK
  BY <1>1 DEF LocalGitTypeOK
<1>3. KeptSinceNotified /\ ExecutionsSound /\ ExecutionsApart /\ InflightSound
  BY DEF KeptSinceNotified, ExecutionsSound, ExecutionsApart, InflightSound
<1>4. AllServed
  BY DEF AllServed, Served, Idle
<1>5. QED
  BY <1>2, <1>3, <1>4 DEF SnapshotInv

-----------------------------------------------------------------------------
(* What each action does to the invariant *)

LEMMA MutateKeeps ==
    ASSUME SnapshotInv, NEW t \in Targets, MutateGit(t) PROVE SnapshotInv'
<1> USE LocalGitAssumption DEF SnapshotInv, MutateGit
<1>1. LocalGitTypeOK'
  <2>1. /\ mutations \in Nat /\ mutations' \in 0..MaxMutations
        /\ 0..mutations \subseteq 0..mutations' /\ mutations' \in 0..mutations'
    BY DEF LocalGitTypeOK
  <2>2. unnotified' \in [Targets -> 0..mutations']
    BY <2>1 DEF LocalGitTypeOK
  <2>3. told' \in [Scopes -> 0..mutations']
    BY <2>1 DEF LocalGitTypeOK
  <2>4. QED
    BY <2>1, <2>2, <2>3 DEF LocalGitTypeOK
<1>2. KeptSinceNotified' /\ ExecutionsSound' /\ ExecutionsApart' /\ InflightSound'
  BY DEF KeptSinceNotified, ExecutionsSound, ExecutionsApart, InflightSound
<1>3. AllServed'
  BY DEF AllServed, Served
<1>4. QED
  BY <1>1, <1>2, <1>3

\* The executions of the scopes it reaches are of an earlier generation from now on.
LEMMA NotifyKeeps ==
    ASSUME SnapshotInv, NEW t \in Targets, NotifyMutation(t) PROVE SnapshotInv'
<1> USE LocalGitAssumption DEF SnapshotInv
<1>1. ASSUME NEW s \in Scopes
      PROVE  /\ told'[s] \in 0..mutations /\ told[s] <= told'[s]
             /\ s \in Reached(t) => /\ entries'[s].generation = entries[s].generation + 1
                                    /\ entries'[s].sample = None
             /\ s \notin Reached(t) => entries'[s] = entries[s] /\ told'[s] = told[s]
  <2>1. told[s] \in 0..mutations /\ unnotified[t] \in 0..mutations /\ mutations \in Nat
    BY DEF LocalGitTypeOK
  <2>2. told'[s] = IF s \in Reached(t) /\ unnotified[t] > told[s] THEN unnotified[t] ELSE told[s]
    BY DEF NotifyMutation
  <2>3. entries'[s] = IF s \in Reached(t)
                      THEN [generation |-> entries[s].generation + 1, sample |-> None]
                      ELSE entries[s]
    BY DEF NotifyMutation, Invalidated
  <2>4. QED
    BY <2>1, <2>2, <2>3
<1>2. LocalGitTypeOK'
  <2>1. told' \in [Scopes -> 0..mutations]
    BY <1>1 DEF NotifyMutation
  <2>2. entries' \in [Scopes -> [generation : Nat, sample : (0..MaxMutations) \cup {None}]]
    BY EntryFacts DEF NotifyMutation, Invalidated, LocalGitTypeOK
  <2>3. unnotified' \in [Targets -> 0..mutations]
    BY DEF NotifyMutation, LocalGitTypeOK
  <2>4. QED
    BY <2>1, <2>2, <2>3 DEF NotifyMutation, LocalGitTypeOK
<1>3. KeptSinceNotified'
  BY <1>1 DEF KeptSinceNotified
<1>4. ExecutionsSound'
  <2> SUFFICES ASSUME NEW e \in executions
               PROVE  /\ e.generation <= entries'[e.scope].generation
                      /\ e.generation = entries'[e.scope].generation =>
                            e.seen >= told'[e.scope] /\ inflight[e.scope] = e.generation
    BY DEF NotifyMutation, ExecutionsSound
  <2>1. e.scope \in Scopes /\ e.generation \in Nat /\ entries[e.scope].generation \in Nat
    BY ExecutionFacts, EntryFacts
  <2>2. QED
    BY <1>1, <2>1 DEF ExecutionsSound
<1>5. ExecutionsApart' /\ InflightSound'
  BY DEF NotifyMutation, ExecutionsApart, InflightSound
<1>6. AllServed'
  <2> SUFFICES ASSUME NEW v \in Viewers PROVE Served(viewer[v])'
    BY DEF AllServed
  <2>1. viewer'[v] = viewer[v] /\ executions' = executions /\ viewer[v] \in ViewerStates
    BY DEF NotifyMutation, LocalGitTypeOK
  <2>2. ASSUME viewer[v].step \in {"waiting", "retry"}
        PROVE  viewer[v].after <= told'[viewer[v].scope]
    <3>1. viewer[v].scope \in Scopes /\ viewer[v].after \in Nat
      BY <2>1, <2>2, ViewerFacts
    <3>2. viewer[v].after <= told[viewer[v].scope]
      BY <2>2 DEF AllServed, Served
    <3>3. told[viewer[v].scope] \in Nat /\ told'[viewer[v].scope] \in Nat
      BY <1>1, <3>1, EntryFacts
    <3>4. QED
      BY <1>1, <3>1, <3>2, <3>3
  <2>3. QED
    BY <2>1, <2>2 DEF AllServed, Served
<1>7. QED
  BY <1>2, <1>3, <1>4, <1>5, <1>6

\* A caller is set to x, and nothing that the others rely on changes.
LEMMA OnlyViewerMoves ==
    ASSUME SnapshotInv, NEW v \in Viewers, NEW x \in ViewerStates, Served(x),
           viewer' = [viewer EXCEPT ![v] = x],
           UNCHANGED <<mutations, unnotified, told, entries, inflight, executions>>
    PROVE  SnapshotInv'
<1> USE DEF SnapshotInv
<1>1. LocalGitTypeOK'
  BY DEF LocalGitTypeOK
<1>2. KeptSinceNotified' /\ ExecutionsSound' /\ ExecutionsApart' /\ InflightSound'
  BY DEF KeptSinceNotified, ExecutionsSound, ExecutionsApart, InflightSound
<1>3. AllServed'
  <2>1. \A u \in Viewers : viewer'[u] = IF u = v THEN x ELSE viewer[u]
    BY DEF LocalGitTypeOK
  <2>2. QED
    BY <2>1 DEF AllServed, Served
<1>4. QED
  BY <1>1, <1>2, <1>3

\* A request that asks for no more than the last notification is served by each of
\* the three: the sample that is kept, the execution of this generation, a new one.
LEMMA RequestKeeps ==
    ASSUME SnapshotInv, NEW v \in Viewers, NEW s \in Scopes, NEW after \in 0..MaxMutations,
           NEW attempt \in 1..2, after <= told[s], Request(v, s, after, attempt)
    PROVE  SnapshotInv'
<1> DEFINE kept == [step |-> "answered", scope |-> s, after |-> after,
                    seen |-> entries[s].sample]
           waiting == [step |-> "waiting", scope |-> s, after |-> after,
                       attempt |-> attempt, generation |-> entries[s].generation]
           begun == [scope |-> s, generation |-> entries[s].generation, seen |-> mutations]
<1> USE LocalGitAssumption
<1>1. /\ entries[s].generation \in Nat /\ told[s] \in Nat /\ mutations \in Nat
      /\ told[s] <= mutations /\ mutations \in 0..MaxMutations /\ after \in Nat
      /\ entries[s].sample \in (0..MaxMutations) \cup {None}
  BY EntryFacts DEF SnapshotInv
<1>2. waiting \in ViewerStates
  BY <1>1 DEF ViewerStates
<1>3. CASE entries[s].sample # None /\ viewer' = [viewer EXCEPT ![v] = kept]
           /\ UNCHANGED <<inflight, executions>>
  <2>1. entries[s].sample \in 0..MaxMutations /\ entries[s].sample >= told[s]
    BY <1>1, <1>3 DEF SnapshotInv, KeptSinceNotified
  <2>2. kept \in ViewerStates
    BY <2>1 DEF ViewerStates
  <2>3. Served(kept)
    BY <1>1, <2>1 DEF Served
  <2>4. UNCHANGED <<mutations, unnotified, told, entries, inflight, executions>>
    BY <1>3 DEF Request
  <2>5. QED
    BY <1>3, <2>2, <2>3, <2>4, OnlyViewerMoves
<1>4. CASE MayJoin(s) /\ UNCHANGED <<inflight, executions>> /\ Await(v, s, after, attempt)
  <2>1. viewer' = [viewer EXCEPT ![v] = waiting]
    BY <1>4 DEF MayJoin, Await
  <2>2. PICK e \in executions : e.scope = s /\ e.generation = entries[s].generation
    BY <1>1, <1>4 DEF MayJoin, SnapshotInv, InflightSound
  <2>3. e.seen >= told[s] /\ e.seen \in Nat
    BY <2>2, ExecutionFacts DEF SnapshotInv, ExecutionsSound
  <2>4. Served(waiting)
    BY <1>1, <2>2, <2>3 DEF Served
  <2>5. UNCHANGED <<mutations, unnotified, told, entries, inflight, executions>>
    BY <1>4 DEF Request
  <2>6. QED
    BY <1>2, <2>1, <2>4, <2>5, OnlyViewerMoves
<1>5. CASE ~MayJoin(s) /\ executions' = executions \cup {begun}
           /\ inflight' = [inflight EXCEPT ![s] = entries[s].generation]
           /\ Await(v, s, after, attempt)
  <2> USE DEF SnapshotInv
  <2>1. UNCHANGED <<mutations, unnotified, told, entries>>
    BY DEF Request
  <2>2. /\ inflight'[s] = entries[s].generation
        /\ \A r \in Scopes : r # s => inflight'[r] = inflight[r]
        /\ inflight' \in [Scopes -> Nat \cup {None}]
    BY <1>1, <1>5 DEF LocalGitTypeOK
  <2>3. viewer' = [viewer EXCEPT ![v] = waiting]
    BY <1>5, <2>2 DEF Await
  <2>4. begun \in [scope : Scopes, generation : Nat, seen : 0..MaxMutations]
    BY <1>1
  <2>5. LocalGitTypeOK'
    BY <1>2, <1>5, <2>1, <2>2, <2>3, <2>4 DEF LocalGitTypeOK
  <2>6. \A e \in executions : e.scope = s => e.generation # entries[s].generation
    BY <1>5 DEF ExecutionsSound, MayJoin
  <2>7. ExecutionsSound'
    <3> SUFFICES ASSUME NEW e \in executions'
                 PROVE  /\ e.generation <= entries[e.scope].generation
                        /\ e.generation = entries[e.scope].generation =>
                              e.seen >= told[e.scope] /\ inflight'[e.scope] = e.generation
      BY <2>1 DEF ExecutionsSound
    <3>1. CASE e = begun
      BY <1>1, <2>2, <3>1
    <3>2. CASE e \in executions
      <4>1. e.scope \in Scopes
        BY <3>2, ExecutionFacts
      <4>2. QED
        BY <2>2, <2>6, <3>2, <4>1 DEF ExecutionsSound
    <3>3. QED
      BY <1>5, <3>1, <3>2
  <2>8. ExecutionsApart'
    BY <1>5, <2>6 DEF ExecutionsApart
  <2>9. InflightSound'
    BY <1>5, <2>2 DEF InflightSound
  <2>10. KeptSinceNotified'
    BY <2>1 DEF KeptSinceNotified
  <2>11. AllServed'
    <3>1. \A u \in Viewers : viewer'[u] = IF u = v THEN waiting ELSE viewer[u]
      BY <2>3 DEF LocalGitTypeOK
    <3>2. begun \in executions' /\ executions \subseteq executions' /\ begun.seen >= after
      BY <1>1, <1>5
    <3>3. Served(waiting)'
      BY <1>1, <2>1, <3>2 DEF Served
    <3>4. ASSUME NEW u \in Viewers, u # v PROVE Served(viewer[u])'
      <4>1. Served(viewer[u]) /\ viewer'[u] = viewer[u]
        BY <3>1, <3>4 DEF AllServed
      <4>2. QED
        BY <2>1, <3>2, <4>1 DEF Served
    <3>5. Served(viewer[v])'
      BY <2>1, <3>1, <3>3 DEF Served
    <3>6. QED
      BY <3>4, <3>5 DEF AllServed
  <2>12. QED
    BY <2>5, <2>7, <2>8, <2>9, <2>10, <2>11
<1>6. QED
  BY <1>3, <1>4, <1>5 DEF Request

\* What the end of an execution takes away: itself, and its own entry of inflight.
LEMMA LeftKeeps ==
    ASSUME SnapshotInv, NEW e \in executions,
           executions' = executions \ {e}, inflight' = Left(e), told' = told,
           \A s \in Scopes : entries'[s].generation = entries[s].generation
    PROVE  /\ inflight' \in [Scopes -> Nat \cup {None}]
           /\ ExecutionsSound' /\ ExecutionsApart' /\ InflightSound'
<1> USE LocalGitAssumption DEF SnapshotInv
<1>1. e.scope \in Scopes /\ e.generation \in Nat
  BY ExecutionFacts
<1>2. \A s \in Scopes : inflight'[s] = IF s = e.scope /\ inflight[s] = e.generation
                                       THEN None ELSE inflight[s]
  BY <1>1 DEF Left, LocalGitTypeOK
<1>3. inflight' \in [Scopes -> Nat \cup {None}]
  BY <1>1 DEF Left, LocalGitTypeOK
<1>4. ExecutionsSound'
  <2> SUFFICES ASSUME NEW f \in executions, f # e
               PROVE  /\ f.generation <= entries'[f.scope].generation
                      /\ f.generation = entries'[f.scope].generation =>
                            f.seen >= told[f.scope] /\ inflight'[f.scope] = f.generation
    BY DEF ExecutionsSound
  <2>1. f.scope \in Scopes
    BY ExecutionFacts
  <2>2. f.scope = e.scope => f.generation # e.generation
    BY DEF ExecutionsApart
  <2>3. QED
    BY <1>2, <2>1, <2>2 DEF ExecutionsSound
<1>5. ExecutionsApart'
  BY DEF ExecutionsApart
<1>6. InflightSound'
  BY <1>2 DEF InflightSound
<1>7. QED
  BY <1>3, <1>4, <1>5, <1>6

\* A caller whose execution has not ended still waits for it.
LEMMA OthersServed ==
    ASSUME SnapshotInv, NEW e \in executions, executions' = executions \ {e}, told' = told,
           NEW v \in Viewers, ~WaitsFor(v, e), viewer'[v] = viewer[v]
    PROVE  Served(viewer[v])'
BY DEF SnapshotInv, AllServed, Served, WaitsFor

\* The execution that a caller waited for is young enough for it.
LEMMA AwaitedIsFresh ==
    ASSUME SnapshotInv, NEW e \in executions, NEW v \in Viewers, WaitsFor(v, e)
    PROVE  /\ e.seen >= viewer[v].after /\ viewer[v].after <= told[e.scope]
           /\ viewer[v].after \in 0..MaxMutations /\ viewer[v].attempt \in 1..2
<1>1. PICK f \in executions : f.scope = e.scope /\ f.generation = e.generation
                              /\ f.seen >= viewer[v].after
  BY DEF SnapshotInv, AllServed, Served, WaitsFor
<1>2. f = e
  BY <1>1 DEF SnapshotInv, ExecutionsApart
<1>3. viewer[v] \in ViewerStates
  BY DEF SnapshotInv, LocalGitTypeOK
<1>4. QED
  BY <1>1, <1>2, <1>3, ViewerFacts DEF SnapshotInv, AllServed, Served, WaitsFor

\* A sample is kept when its generation is current: it is no older than the last
\* notification.  All who waited for it are answered.
LEMMA ArrivesKeeps ==
    ASSUME SnapshotInv, NEW e \in executions, SampleArrives(e) PROVE SnapshotInv'
<1> DEFINE answered(v) == [step |-> "answered", scope |-> e.scope,
                           after |-> viewer[v].after, seen |-> e.seen]
<1> USE LocalGitAssumption
<1>1. e.scope \in Scopes /\ e.generation \in Nat /\ e.seen \in 0..MaxMutations /\ e.seen \in Nat
  BY ExecutionFacts DEF SnapshotInv
<1>2. \A s \in Scopes :
        entries'[s] = IF s = e.scope /\ entries[s].generation = e.generation
                      THEN [entries[s] EXCEPT !.sample = e.seen] ELSE entries[s]
  BY <1>1 DEF SampleArrives, Kept, Published, SnapshotInv, LocalGitTypeOK
<1>3. entries' \in [Scopes -> [generation : Nat, sample : (0..MaxMutations) \cup {None}]]
  BY <1>1 DEF SampleArrives, Kept, Published, SnapshotInv, LocalGitTypeOK
<1>4. \A s \in Scopes : entries'[s].generation = entries[s].generation
  BY <1>2 DEF SnapshotInv, LocalGitTypeOK
<1>5. inflight' \in [Scopes -> Nat \cup {None}]
      /\ ExecutionsSound' /\ ExecutionsApart' /\ InflightSound'
  BY <1>4, LeftKeeps DEF SampleArrives
<1>6. \A v \in Viewers : viewer'[v] = IF WaitsFor(v, e) THEN answered(v) ELSE viewer[v]
  BY DEF SampleArrives
<1>7. ASSUME NEW v \in Viewers, WaitsFor(v, e) PROVE answered(v) \in ViewerStates
  BY <1>1, <1>7, AwaitedIsFresh DEF ViewerStates
<1>8. viewer' \in [Viewers -> ViewerStates]
  BY <1>7 DEF SampleArrives, SnapshotInv, LocalGitTypeOK
<1>9. LocalGitTypeOK'
  BY <1>3, <1>5, <1>8 DEF SampleArrives, SnapshotInv, LocalGitTypeOK
<1>10. KeptSinceNotified'
  <2> SUFFICES ASSUME NEW s \in Scopes, entries'[s].sample # None
               PROVE  entries'[s].sample >= told[s]
    BY DEF SampleArrives, KeptSinceNotified
  <2>1. CASE s = e.scope /\ entries[s].generation = e.generation
    <3>1. entries'[s].sample = e.seen
      BY <1>2, <2>1 DEF SnapshotInv, LocalGitTypeOK
    <3>2. QED
      BY <2>1, <3>1 DEF SnapshotInv, ExecutionsSound
  <2>2. CASE ~(s = e.scope /\ entries[s].generation = e.generation)
    BY <1>2, <2>2 DEF SnapshotInv, KeptSinceNotified
  <2>3. QED
    BY <2>1, <2>2
<1>11. AllServed'
  <2> SUFFICES ASSUME NEW v \in Viewers PROVE Served(viewer[v])'
    BY DEF AllServed
  <2>1. CASE WaitsFor(v, e)
    <3>1. viewer'[v] = answered(v) /\ e.seen >= viewer[v].after
      BY <1>6, <2>1, AwaitedIsFresh
    <3>2. QED
      BY <3>1 DEF Served
  <2>2. CASE ~WaitsFor(v, e)
    BY <1>6, <2>2, OthersServed DEF SampleArrives
  <2>3. QED
    BY <2>1, <2>2
<1>12. QED
  BY <1>5, <1>9, <1>10, <1>11 DEF SnapshotInv

\* The first failure of an execution lets its callers ask once more.
LEMMA FailsKeeps ==
    ASSUME SnapshotInv, NEW e \in executions, SampleFails(e) PROVE SnapshotInv'
<1> DEFINE retry(v) == [step |-> "retry", scope |-> e.scope, after |-> viewer[v].after]
           unknown == [step |-> "unknown"]
<1> USE LocalGitAssumption
<1>1. e.scope \in Scopes
  BY ExecutionFacts DEF SnapshotInv
<1>2. inflight' \in [Scopes -> Nat \cup {None}]
      /\ ExecutionsSound' /\ ExecutionsApart' /\ InflightSound'
  BY LeftKeeps DEF SampleFails
<1>3. ASSUME NEW v \in Viewers
      PROVE  /\ ~WaitsFor(v, e) => viewer'[v] = viewer[v]
             /\ WaitsFor(v, e) => viewer'[v] = retry(v) \/ viewer'[v] = unknown
  <2>1. WaitsFor(v, e) => viewer[v].attempt \in {1, 2}
    BY AwaitedIsFresh
  <2>2. QED
    BY <2>1 DEF SampleFails
<1>4. ASSUME NEW v \in Viewers, WaitsFor(v, e) PROVE retry(v) \in ViewerStates
  BY <1>1, <1>4, AwaitedIsFresh DEF ViewerStates
<1>5. unknown \in ViewerStates
  BY DEF ViewerStates
<1>6. viewer' \in [Viewers -> ViewerStates]
  <2>1. \A v \in Viewers : viewer'[v] \in ViewerStates
    BY <1>3, <1>4, <1>5 DEF SnapshotInv, LocalGitTypeOK
  <2>2. DOMAIN viewer' = Viewers /\ viewer' = [v \in Viewers |-> viewer'[v]]
    BY DEF SampleFails
  <2>3. QED
    BY <2>1, <2>2
<1>7. LocalGitTypeOK'
  BY <1>2, <1>6 DEF SampleFails, SnapshotInv, LocalGitTypeOK
<1>8. KeptSinceNotified'
  BY DEF SampleFails, SnapshotInv, KeptSinceNotified
<1>9. AllServed'
  <2> SUFFICES ASSUME NEW v \in Viewers PROVE Served(viewer[v])'
    BY DEF AllServed
  <2>1. CASE WaitsFor(v, e)
    <3>1. told' = told /\ viewer[v].after <= told[e.scope]
      BY <2>1, AwaitedIsFresh DEF SampleFails
    <3>2. CASE viewer'[v] = unknown
      BY <3>2 DEF Served
    <3>3. CASE viewer'[v] = retry(v)
      BY <3>1, <3>3 DEF Served
    <3>4. QED
      BY <1>3, <2>1, <3>2, <3>3
  <2>2. CASE ~WaitsFor(v, e)
    BY <1>3, <2>2, OthersServed DEF SampleFails
  <2>3. QED
    BY <2>1, <2>2
<1>10. QED
  BY <1>2, <1>7, <1>8, <1>9 DEF SnapshotInv

LEMMA ShownKeeps ==
    ASSUME SnapshotInv, NEW v \in Viewers, ViewShown(v) PROVE SnapshotInv'
<1>1. Idle \in ViewerStates /\ Served(Idle)
  BY DEF ViewerStates, Served, Idle
<1>2. QED
  BY <1>1, OnlyViewerMoves DEF ViewShown

LEMMA SnapshotStep == SnapshotInv /\ [LocalGitNext]_lgvars => SnapshotInv'
<1> SUFFICES ASSUME SnapshotInv, [LocalGitNext]_lgvars PROVE SnapshotInv'
  OBVIOUS
<1>1. CASE UNCHANGED lgvars
  BY <1>1 DEF lgvars, SnapshotInv, LocalGitTypeOK, KeptSinceNotified, ExecutionsSound,
              ExecutionsApart, InflightSound, AllServed, Served
<1>2. ASSUME NEW v \in Viewers, NEW s \in Scopes, Request(v, s, told[s], 1)
      PROVE  SnapshotInv'
  <2>1. told[s] \in 0..MaxMutations /\ told[s] <= told[s]
    BY EntryFacts DEF SnapshotInv
  <2>2. QED
    BY <1>2, <2>1, RequestKeeps
<1>3. ASSUME NEW v \in Viewers, ObserveWithRetry(v) PROVE SnapshotInv'
  <2>1. viewer[v] \in ViewerStates /\ viewer[v].step = "retry"
    BY <1>3 DEF ObserveWithRetry, SnapshotInv, LocalGitTypeOK
  <2>2. viewer[v].scope \in Scopes /\ viewer[v].after \in 0..MaxMutations
    BY <2>1, ViewerFacts
  <2>3. viewer[v].after <= told[viewer[v].scope]
    BY <2>1 DEF SnapshotInv, AllServed, Served
  <2>4. QED
    BY <1>3, <2>2, <2>3, RequestKeeps DEF ObserveWithRetry
<1>4. CASE LocalGitNext
  BY <1>2, <1>3, <1>4, MutateKeeps, NotifyKeeps, ArrivesKeeps, FailsKeeps, ShownKeeps
     DEF LocalGitNext, ObserveWorktree, ObserveRepository, ObserveEnumeration, Scopes
<1>5. QED
  BY <1>1, <1>4

-----------------------------------------------------------------------------

\* The invariant of the snapshots: an execution of the current generation is younger
\* than the last notification of its scope, and every caller waits for one that is
\* young enough for it.
THEOREM SnapshotInvariant == LocalGitSpec => []SnapshotInv
BY SnapshotInitial, SnapshotStep, PTL DEF LocalGitSpec

\* A caller that waits has one execution that will answer it.
LEMMA AwaitsOne == SnapshotInv => OneExecutionAwaited
<1> SUFFICES ASSUME SnapshotInv, NEW v \in Viewers, viewer[v].step = "waiting"
             PROVE  Cardinality({e \in executions : WaitsFor(v, e)}) = 1
  BY DEF OneExecutionAwaited
<1>1. PICK e \in executions : e.scope = viewer[v].scope /\ e.generation = viewer[v].generation
  BY DEF SnapshotInv, AllServed, Served
<1>2. {f \in executions : WaitsFor(v, f)} = {e}
  BY <1>1 DEF WaitsFor, SnapshotInv, ExecutionsApart
<1>3. QED
  BY <1>2, FS_Singleton

\* No caller is shown, and no scope keeps, a sample from before a mutation that was
\* notified in time; and every caller that waits is answered by one execution.
THEOREM SnapshotsStayFresh == LocalGitSpec => []SnapshotsAreFresh
<1>1. SnapshotInv => NotShownStale
  BY DEF SnapshotInv, AllServed, Served, NotShownStale
<1>2. SnapshotInv => SnapshotsAreFresh
  BY <1>1, AwaitsOne DEF SnapshotInv, SnapshotsAreFresh
<1>3. QED
  BY <1>2, SnapshotInvariant, PTL

(***************************************************************************)
(* Preparation, for any number of commits, attempts and troubles.  The     *)
(* argument is the order of the intent and the command: what was sent is   *)
(* of the record on disk, which says so until its end was seen, and every  *)
(* way on from there asks for that end.                                    *)
(***************************************************************************)

\* A checkout that is ours is on its branch, and a detached one is at a commit.
CheckoutSound ==
    /\ checkout.registered = "ours" => checkout.branch = checkout.head
    /\ checkout.registered = "detached" => checkout.head # 0

\* What was sent is of the record, which says so, and its end has not been seen.
SentSound ==
    /\ \A c, d \in sent : c = d
    /\ \A c \in sent :
          /\ preparation \in Records /\ preparation.status = "dispatched"
          /\ preparation.attempt \notin ended
          /\ c.base = preparation.base
          /\ tx # None => tx.at \in Awaits /\ c.call = attempts

\* A transaction that is about to write has its record on disk.
TxSound ==
    tx # None =>
        /\ tx.record.base = tx.base
        /\ tx.at \in {"hooks", "remove", "write"} =>
              /\ preparation = tx.record /\ tx.record.status \in {"prepared", "settled"}
              /\ tx.recovery \notin {"conflict", "reuse"}
        /\ tx.at \in Awaits => /\ preparation = tx.record /\ tx.record.status = "dispatched"
                               /\ tx.recovery \notin {"conflict", "reuse"}
        /\ tx.at = "verify" => /\ checkout.registered = "ours" /\ checkout.path = "full"
                               /\ checkout.head = tx.record.expected

\* The base that is or will be frozen is one, and it is the root of the branch.
BaseSound ==
    /\ preparation # None /\ baseRef # None => preparation.base = baseRef
    /\ tx # None /\ baseRef # None => tx.base = baseRef
    /\ root # 0 /\ baseRef # None => baseRef = root
    /\ root # 0 /\ baseRef = None => preparation # None /\ preparation.base = root
    /\ root # 0 /\ baseRef = None /\ tx # None => tx.base = root
    /\ preparation # None /\ preparation.status = "verified" =>
          baseRef # None /\ checkout.registered = "ours" /\ checkout.path = "full"
          /\ checkout.head = preparation.expected

\* What the operator has looked at stays as it is until it is settled: it was left by
\* an instance that is gone.
SettlementSound ==
    /\ host # None => host <= troubles + 1
    /\ preparation # None => preparation.instance <= troubles + 1
    /\ preparation # None /\ host = None => preparation.instance <= troubles
    /\ tx # None => host # None /\ tx.record.instance <= troubles + 1
    /\ settlement # None =>
          /\ preparation # None /\ preparation.status \in {"dispatched", "blocked"}
          /\ settlement.record = preparation /\ settlement.revision < MaxRevision
          /\ sent = {} /\ tx = None /\ (host # None => host # preparation.instance)

PrepInv ==
    /\ PreparationTypeOK /\ CheckoutSound /\ SentSound /\ TxSound /\ BaseSound /\ SettlementSound


\* A record is a record whatever its status.
LEMMA RecordKept ==
    \A r \in Records, s \in Statuses :
        /\ [r EXCEPT !.status = s] \in Records /\ [r EXCEPT !.status = s].status = s
        /\ [r EXCEPT !.status = s].attempt = r.attempt /\ [r EXCEPT !.status = s].base = r.base
        /\ [r EXCEPT !.status = s].expected = r.expected
        /\ [r EXCEPT !.status = s].instance = r.instance
  BY DEF Records, Statuses

LEMMA TransactionKept ==
    \A t \in Transactions, at \in Stands \cup Awaits :
        /\ [t EXCEPT !.at = at] \in Transactions /\ [t EXCEPT !.at = at].at = at
        /\ [t EXCEPT !.at = at].record = t.record /\ [t EXCEPT !.at = at].base = t.base
        /\ [t EXCEPT !.at = at].recovery = t.recovery
  BY DEF Transactions

\* None is no record, no transaction and no instance.
LEMMA NoneIsNothing ==
    /\ None \notin Records /\ None \notin Transactions
    /\ \A t \in Transactions : t.record \in Records /\ t.at \in Stands \cup Awaits /\ t # None
    /\ \A r \in Records : r # None /\ r.instance \in Nat /\ r.base \in Commits /\ r.expected \in Commits
    /\ \A n \in 1..(MaxTroubles + 1) : n # None /\ n \in Nat
    /\ \A n \in 1..MaxCommit : n # None /\ n # 0 /\ n \in 0..MaxCommit
    /\ Stands \cap Awaits = {}
  BY PreparationAssumption DEF Records, Transactions, Commits, Stands, Awaits

LEMMA PrepInitial == PreparationInit => PrepInv
<1> SUFFICES ASSUME PreparationInit PROVE PrepInv
  OBVIOUS
<1> USE DEF PreparationInit
<1>1. PreparationTypeOK
  <2>1. 1 \in Commits /\ 0 \in 0..MaxCommit /\ 0 \in 0..MaxRevision /\ 1 \in 1..(MaxTroubles + 1)
        /\ 0 \in 0..MaxAttempts /\ 0 \in 0..MaxTroubles
    BY PreparationAssumption DEF Commits
  <2>2. checkout \in Checkouts
    BY <2>1 DEF Checkouts
  <2>3. QED
    BY <2>1, <2>2 DEF PreparationTypeOK
<1>2. CheckoutSound /\ SentSound /\ TxSound /\ BaseSound
  BY DEF CheckoutSound, SentSound, TxSound, BaseSound
<1>3. SettlementSound
  BY PreparationAssumption DEF SettlementSound
<1>4. QED
  BY <1>1, <1>2, <1>3 DEF PrepInv

\* The invariant says what was promised.
LEMMA PrepInvImplies == PrepInv => PreparationIsTrue
<1> SUFFICES ASSUME PrepInv PROVE PreparationIsTrue
  OBVIOUS
<1>1. Cardinality(sent) <= 1
  <2>1. CASE sent = {}
    BY <2>1, FS_EmptySet
  <2>2. CASE sent # {}
    <3>1. PICK c \in sent : sent = {c}
      BY <2>2 DEF PrepInv, SentSound
    <3>2. QED
      BY <3>1, FS_Singleton
  <2>3. QED
    BY <2>1, <2>2
<1>2. NothingOnUnknownEnd
  BY <1>1, NoneIsNothing DEF PrepInv, SentSound, NothingOnUnknownEnd
<1>3. VerifiedIsTrue /\ FrozenBaseIsRoot
  BY DEF PrepInv, BaseSound, VerifiedIsTrue, FrozenBaseIsRoot
<1>4. QED
  BY <1>2, <1>3 DEF PreparationIsTrue, PrepInv

(***************************************************************************)
(* Who else is there                                                       *)
(***************************************************************************)

LEMMA FindCheckoutKeeps == ASSUME PrepInv, FindCheckout PROVE PrepInv'
<1>1. /\ tx = None /\ preparation = None /\ baseRef = None /\ sent = {}
      /\ checkout' \in Checkouts /\ Found(checkout')
      /\ UNCHANGED <<tip, root, sent, recvars, host, ended, tx, settlement, attempts, troubles>>
  BY DEF FindCheckout
<1> USE DEF recvars
<1>2. PreparationTypeOK'
  BY <1>1 DEF PrepInv, PreparationTypeOK
<1>3. CheckoutSound'
  BY <1>1 DEF CheckoutSound, Found
<1>4. SentSound' /\ TxSound' /\ BaseSound' /\ SettlementSound'
  BY <1>1 DEF PrepInv, SentSound, TxSound, BaseSound, SettlementSound
<1>5. QED
  BY <1>2, <1>3, <1>4 DEF PrepInv

LEMMA RemoteBaseKeeps == ASSUME PrepInv, RemoteBaseMoves PROVE PrepInv'
<1>1. /\ tip < MaxCommit - 1 /\ tip' = tip + 1
      /\ UNCHANGED <<checkout, root, sent, recvars, host, ended, tx, settlement, attempts, troubles>>
  BY DEF RemoteBaseMoves
<1> USE DEF recvars
<1>2. PreparationTypeOK'
  BY <1>1, PreparationAssumption DEF PrepInv, PreparationTypeOK, Commits
<1>3. CheckoutSound' /\ SentSound' /\ TxSound' /\ BaseSound' /\ SettlementSound'
  BY <1>1 DEF PrepInv, CheckoutSound, SentSound, TxSound, BaseSound, SettlementSound
<1>4. QED
  BY <1>2, <1>3 DEF PrepInv

(***************************************************************************)
(* The transaction                                                         *)
(***************************************************************************)

\* What a start goes on with is the record, but for its revision.
LEMMA AdoptedIs ==
    ASSUME PrepInv, NEW authorized
    PROVE  /\ (preparation = None) <=> (Adopted(authorized) = None)
           /\ preparation # None =>
                 /\ preparation \in Records /\ Adopted(authorized) \in Records
                 /\ Adopted(authorized).status = preparation.status
                 /\ Adopted(authorized).base = preparation.base
                 /\ Adopted(authorized).instance = preparation.instance
                 /\ Adopted(authorized).attempt = preparation.attempt
                 /\ Adopted(authorized).expected = preparation.expected
<1>1. CASE preparation = None
  BY <1>1 DEF Adopted
<1>2. CASE preparation # None
  <2>1. preparation \in Records /\ revision \in 0..MaxRevision
    BY <1>2 DEF PrepInv, PreparationTypeOK
  <2>2. [preparation EXCEPT !.revision = revision] \in Records
    BY <2>1 DEF Records
  <2>3. QED
    BY <1>2, <2>1, <2>2, NoneIsNothing DEF Adopted, Records
<1>3. QED
  BY <1>1, <1>2

\* A write of the record that fails ends the transaction and changes nothing.
LEMMA DiskFailsKeeps ==
    ASSUME PrepInv, DiskFails, CheckoutSound', checkout' \in Checkouts,
           checkout' = checkout \/ preparation = None \/ preparation.status # "verified",
           ended' \subseteq ended,
           UNCHANGED <<tip, root, sent, revision, interrupted, host, settlement>>,
           attempts' \in 0..MaxAttempts,
           sent = {} \/ attempts' = attempts
    PROVE  PrepInv'
<1>1. troubles' = troubles + 1 /\ troubles < MaxTroubles /\ tx' = None
      /\ UNCHANGED <<preparation, baseRef>>
  BY DEF DiskFails, TransactionEnds
<1>2. PreparationTypeOK'
  BY <1>1, PreparationAssumption DEF PrepInv, PreparationTypeOK
<1>3. SentSound' /\ TxSound'
  BY <1>1 DEF PrepInv, SentSound, TxSound
<1>4. BaseSound'
  BY <1>1 DEF PrepInv, BaseSound
<1>5. SettlementSound'
  BY <1>1, PreparationAssumption, NoneIsNothing DEF PrepInv, SettlementSound, PreparationTypeOK
<1>6. QED
  BY <1>2, <1>3, <1>4, <1>5 DEF PrepInv

\* A start goes on only with what has ended: nothing is under way when it begins.
LEMMA PrepareKeeps ==
    ASSUME PrepInv, NEW authorized, Prepare(authorized)
    PROVE  PrepInv'
<1> DEFINE prior == Adopted(authorized)
           recovery == DecideWorktreeRecovery
           base == BaseOf(prior)
           record == IF Going(prior) THEN prior
                     ELSE [attempt |-> attempts + 1, instance |-> host, revision |-> revision,
                           base |-> base, expected |-> OldHead(base), status |-> "prepared"]
           next(at) == [at |-> at, record |-> record, recovery |-> recovery, base |-> base,
                        strict |-> Going(prior)]
<1>1. /\ host # None /\ tx = None /\ attempts < MaxAttempts /\ MayGoOn(prior)
      /\ attempts' = attempts + 1
      /\ \/ tx' = next("block") /\ UNCHANGED <<preparation, baseRef, troubles>>
         \/ /\ Going(prior) /\ prior.status # "prepared"
            /\ tx' = next("readback") /\ UNCHANGED <<preparation, baseRef, troubles>>
         \/ /\ recovery # "conflict" /\ ~(Going(prior) /\ prior.status # "prepared")
            /\ Commit(record, next(IF recovery = "reuse" THEN "readback" ELSE "hooks"))
      /\ UNCHANGED <<gitvars, revision, interrupted, host, ended, settlement>>
  BY DEF Prepare
<1> USE DEF gitvars
<1>2. /\ PreparationTypeOK /\ CheckoutSound /\ SentSound /\ BaseSound /\ SettlementSound
  BY DEF PrepInv
<1>3. /\ (preparation = None) <=> (prior = None)
      /\ prior # None => /\ preparation \in Records /\ prior \in Records
                         /\ prior.status = preparation.status /\ prior.base = preparation.base
                         /\ prior.instance = preparation.instance /\ prior.attempt = preparation.attempt
  BY AdoptedIs, NoneIsNothing
<1>4. sent = {} /\ settlement = None
  <2>1. prior # None => /\ prior.status # "blocked"
                        /\ prior.status = "dispatched" => prior.instance = host /\ prior.attempt \in ended
    BY <1>1 DEF MayGoOn, EndSeen
  <2>2. sent = {}
    <3> SUFFICES ASSUME NEW c \in sent PROVE FALSE
      OBVIOUS
    <3>1. preparation # None /\ preparation.status = "dispatched" /\ preparation.attempt \notin ended
      BY <1>2, NoneIsNothing DEF SentSound
    <3>2. QED
      BY <1>3, <2>1, <3>1
  <2>3. settlement = None
    BY <1>1, <1>2, <1>3, <2>1 DEF SettlementSound
  <2>4. QED
    BY <2>2, <2>3
<1>5. /\ base \in Commits
      /\ prior # None => base = prior.base
      /\ baseRef # None => base = baseRef
      /\ root # 0 /\ baseRef = None => base = root
  BY <1>2, <1>3 DEF BaseOf, PreparationTypeOK, BaseSound, Records
<1>6. recovery \in Recoveries
  BY <1>2 DEF DecideWorktreeRecovery, Recoveries, PreparationTypeOK, Checkouts
<1>7. OldHead(base) \in Commits
  BY <1>2, <1>5, PreparationAssumption DEF OldHead, Commits, PreparationTypeOK, Checkouts, CheckoutSound
<1>8. /\ record \in Records /\ record.base = base /\ record.instance <= troubles + 1
      /\ ~(Going(prior) /\ prior.status # "prepared") => record.status = "prepared"
      /\ record.status # "verified"
  <2>1. CASE Going(prior)
    <3>1. record = prior /\ prior # None /\ prior.status # "verified"
      BY <2>1 DEF Going
    <3>2. QED
      BY <1>2, <1>3, <1>5, <2>1, <3>1 DEF SettlementSound
  <2>2. CASE ~Going(prior)
    <3>1. record = [attempt |-> attempts + 1, instance |-> host, revision |-> revision,
                    base |-> base, expected |-> OldHead(base), status |-> "prepared"]
      BY <2>2
    <3>2. attempts + 1 \in 1..MaxAttempts /\ host \in 1..(MaxTroubles + 1) /\ revision \in 0..MaxRevision
          /\ host <= troubles + 1
      BY <1>1, <1>2, PreparationAssumption DEF PreparationTypeOK, SettlementSound
    <3>3. QED
      BY <1>5, <1>7, <3>1, <3>2 DEF Records, Statuses
  <2>3. QED
    BY <2>1, <2>2
<1> HIDE DEF record, base, recovery, prior
<1>9. ASSUME NEW at \in Stands
      PROVE  /\ next(at) \in Transactions /\ next(at).at = at /\ next(at).record = record
             /\ next(at).base = base /\ next(at).recovery = recovery
  <2>1. Going(prior) \in BOOLEAN
    BY DEF Going
  <2>2. QED
    BY <1>5, <1>6, <1>8, <2>1 DEF Transactions
<1>10. attempts' \in 0..MaxAttempts
  BY <1>1, <1>2, PreparationAssumption DEF PreparationTypeOK
<1> HIDE DEF next
<1>11. CASE DiskFails
  <2>1. CheckoutSound' /\ checkout' \in Checkouts /\ checkout' = checkout
    BY <1>1, <1>2 DEF CheckoutSound, PreparationTypeOK
  <2>2. QED
    BY <1>1, <1>4, <1>10, <1>11, <2>1, DiskFailsKeeps
<1>12. CASE ~DiskFails
  <2>1. PICK at \in {"block", "readback", "hooks"} :
           /\ tx' = next(at) /\ UNCHANGED <<baseRef, troubles>>
           /\ preparation' = preparation \/ preparation' = record
           /\ at = "hooks" => /\ preparation' = record /\ record.status = "prepared"
                              /\ recovery \notin {"conflict", "reuse"}
    BY <1>1, <1>8, <1>12 DEF Commit, Keep
  <2>2. at \in Stands
    BY DEF Stands
  <2>3. /\ tx' \in Transactions /\ tx'.at = at /\ tx'.record = record /\ tx'.base = base
        /\ tx'.recovery = recovery
    BY <1>9, <2>1, <2>2
  <2>4. PreparationTypeOK'
    BY <1>1, <1>2, <1>8, <1>10, <2>1, <2>3 DEF PreparationTypeOK
  <2>5. CheckoutSound' /\ SentSound'
    BY <1>1, <1>2, <1>4 DEF CheckoutSound, SentSound
  <2>6. TxSound'
    BY <1>8, <2>1, <2>3 DEF TxSound, Awaits
  <2>7. BaseSound'
    BY <1>1, <1>2, <1>3, <1>5, <1>8, <2>1, <2>3, NoneIsNothing DEF BaseSound
  <2>8. SettlementSound'
    BY <1>1, <1>2, <1>4, <1>8, <2>1, <2>3 DEF SettlementSound
  <2>9. QED
    BY <2>4, <2>5, <2>6, <2>7, <2>8 DEF PrepInv
<1>13. QED
  BY <1>11, <1>12


\* A transaction takes a step that writes nothing.
LEMMA TransactionMoves ==
    ASSUME PrepInv, tx # None, NEW at \in Stands, tx.at \in Stands,
           tx' = [tx EXCEPT !.at = at],
           UNCHANGED <<gitvars, recvars, host, ended, settlement, attempts, troubles>>,
           at \in {"hooks", "remove", "write"} => tx.at = "hooks",
           at = "verify" => /\ checkout.registered = "ours" /\ checkout.path = "full"
                            /\ checkout.head = tx.record.expected
    PROVE  PrepInv'
<1> USE DEF gitvars, recvars
<1>1. tx \in Transactions
  BY DEF PrepInv, PreparationTypeOK
<1>2. tx' \in Transactions /\ tx'.at = at /\ tx'.record = tx.record /\ tx'.base = tx.base
      /\ tx'.recovery = tx.recovery
  BY <1>1, TransactionKept
<1>3. PreparationTypeOK'
  BY <1>2 DEF PrepInv, PreparationTypeOK
<1>4. CheckoutSound' /\ SentSound'
  BY NoneIsNothing DEF PrepInv, CheckoutSound, SentSound
<1>5. TxSound'
  BY <1>2, NoneIsNothing DEF PrepInv, TxSound
<1>6. BaseSound'
  BY <1>2 DEF PrepInv, BaseSound
<1>7. SettlementSound'
  BY <1>2 DEF PrepInv, SettlementSound
<1>8. QED
  BY <1>3, <1>4, <1>5, <1>6, <1>7 DEF PrepInv

LEMMA CheckHooksKeeps == ASSUME PrepInv, CheckHooks PROVE PrepInv'
<1>1. /\ tx # None /\ tx.at = "hooks"
      /\ UNCHANGED <<gitvars, recvars, host, ended, settlement, attempts, troubles>>
  BY DEF CheckHooks
<1>2. PICK at \in {"block", "remove", "write"} : tx' = [tx EXCEPT !.at = at]
  <2>1. CASE checkout.hooks # "none"
    BY <2>1 DEF CheckHooks
  <2>2. CASE checkout.hooks = "none" /\ tx.recovery = "repair"
    BY <2>2 DEF CheckHooks
  <2>3. CASE checkout.hooks = "none" /\ tx.recovery # "repair"
    BY <2>3 DEF CheckHooks
  <2>4. QED
    BY <2>1, <2>2, <2>3
<1>3. at \in Stands /\ tx.at \in Stands
  BY <1>1 DEF Stands
<1>4. QED
  BY <1>1, <1>2, <1>3, TransactionMoves

LEMMA ReadBackKeeps == ASSUME PrepInv, ReadBack PROVE PrepInv'
<1>1. /\ tx # None /\ tx.at = "readback"
      /\ tx' = [tx EXCEPT !.at = IF Matches(tx) THEN "verify" ELSE "block"]
      /\ UNCHANGED <<gitvars, recvars, host, ended, settlement, attempts, troubles>>
  BY DEF ReadBack
<1>2. tx.at \in Stands /\ "verify" \in Stands /\ "block" \in Stands
  BY <1>1 DEF Stands
<1>3. CASE Matches(tx)
  <2>1. tx' = [tx EXCEPT !.at = "verify"]
    BY <1>1, <1>3
  <2>2. QED
    BY <1>1, <1>2, <1>3, <2>1, TransactionMoves DEF Matches
<1>4. CASE ~Matches(tx)
  <2>1. tx' = [tx EXCEPT !.at = "block"]
    BY <1>1, <1>4
  <2>2. QED
    BY <1>1, <1>2, <2>1, TransactionMoves
<1>5. QED
  BY <1>3, <1>4

\* The intent is on disk before the command is sent, and nothing else is under way.
LEMMA DispatchKeeps == ASSUME PrepInv, Dispatch PROVE PrepInv'
<1> DEFINE record == [tx.record EXCEPT !.status = "dispatched"]
           at == IF tx.at = "remove" THEN "removing" ELSE "writing"
<1>1. /\ tx # None /\ tx.at \in {"remove", "write"}
      /\ checkout' = IF tx.at = "remove" THEN [checkout EXCEPT !.path = "absent"] ELSE checkout
      /\ ended' = ended \ {record.attempt}
      /\ \/ /\ preparation' = record /\ UNCHANGED <<baseRef, troubles>>
            /\ tx' = [tx EXCEPT !.record = record, !.at = at]
            /\ sent' = sent \cup {[does |-> Write(tx), base |-> tx.base, call |-> attempts]}
         \/ DiskFails /\ sent' = sent
      /\ UNCHANGED <<tip, root, revision, interrupted, host, settlement, attempts>>
  BY DEF Dispatch, Keep
<1>2. /\ PreparationTypeOK /\ CheckoutSound /\ SentSound /\ TxSound /\ BaseSound /\ SettlementSound
  BY DEF PrepInv
<1>3. tx \in Transactions /\ tx.record \in Records /\ tx.at \in Stands /\ tx.at \notin Awaits
      /\ preparation = tx.record /\ tx.record.status \in {"prepared", "settled"}
      /\ tx.record.base = tx.base /\ tx.recovery \notin {"conflict", "reuse"}
  BY <1>1, <1>2, NoneIsNothing DEF TxSound, PreparationTypeOK, Stands, Awaits
<1>4. sent = {} /\ settlement = None
  BY <1>1, <1>2, <1>3 DEF SentSound, SettlementSound
<1>5. record \in Records /\ record.status = "dispatched" /\ record.base = tx.base
      /\ record.attempt = tx.record.attempt /\ record.instance = tx.record.instance
  BY <1>3, RecordKept DEF Statuses
<1>6. checkout' \in Checkouts /\ CheckoutSound'
  BY <1>1, <1>2 DEF PreparationTypeOK, Checkouts, CheckoutSound
<1> HIDE DEF record
<1>7. CASE DiskFails /\ sent' = sent
  BY <1>1, <1>2, <1>3, <1>6, <1>7, DiskFailsKeeps DEF PreparationTypeOK
<1>8. CASE /\ preparation' = record /\ UNCHANGED <<baseRef, troubles>>
           /\ tx' = [tx EXCEPT !.record = record, !.at = at]
           /\ sent' = sent \cup {[does |-> Write(tx), base |-> tx.base, call |-> attempts]}
  <2>1. at \in Awaits
    BY DEF Awaits
  <2> HIDE DEF at
  <2>2. tx' \in Transactions /\ tx'.at = at /\ tx'.record = record /\ tx'.base = tx.base
        /\ tx'.recovery = tx.recovery
    BY <1>3, <1>5, <1>8, <2>1 DEF Transactions
  <2> DEFINE c == [does |-> Write(tx), base |-> tx.base, call |-> attempts]
  <2>3. sent' = {c} /\ c.does = Write(tx) /\ c.base = tx.base /\ c.call = attempts
    BY <1>4, <1>8
  <2> HIDE DEF c
  <2>4. Write(tx) \in {"create", "attach", "add-branch", "add", "remove"}
    <3>1. tx.at = "write" => tx.recovery \in {"create", "attach", "add-existing", "repair", "add-new"}
      BY <1>1, <1>2, <1>3 DEF TxSound, Transactions, Recoveries
    <3>2. QED
      BY <1>1, <3>1 DEF Write
  <2>5. PreparationTypeOK'
    BY <1>1, <1>2, <1>5, <1>6, <1>8, <2>2, <2>3, <2>4 DEF PreparationTypeOK
  <2>6. SentSound'
    BY <1>1, <1>3, <1>5, <1>8, <2>1, <2>2, <2>3 DEF SentSound
  <2>7. TxSound'
    BY <1>3, <1>5, <1>8, <2>1, <2>2, NoneIsNothing DEF TxSound, Awaits
  <2>8. BaseSound'
    BY <1>1, <1>2, <1>3, <1>5, <1>8, <2>2, NoneIsNothing DEF BaseSound
  <2>9. SettlementSound'
    BY <1>1, <1>2, <1>3, <1>4, <1>5, <1>8, <2>2 DEF SettlementSound
  <2>10. QED
    BY <1>6, <2>5, <2>6, <2>7, <2>8, <2>9 DEF PrepInv
<1>9. QED
  BY <1>1, <1>7, <1>8


\* What has its effect was all that was under way, and what it creates is the base.
LEMMA LandFacts ==
    ASSUME PrepInv, NEW c \in sent, Land(c)
    PROVE  /\ sent' = {} /\ preparation \in Records /\ preparation.status = "dispatched"
           /\ preparation.attempt \notin ended /\ settlement = None
           /\ checkout' \in Checkouts /\ CheckoutSound'
           /\ root' = root \/ root' = preparation.base
           /\ root' \in 0..MaxCommit
<1>1. /\ checkout' = Effect(c.does, c.base)
      /\ root' = IF c.does = "add-branch" THEN c.base ELSE root
      /\ sent' = sent \ {c}
  BY DEF Land
<1>2. /\ PreparationTypeOK /\ CheckoutSound /\ SentSound /\ SettlementSound
  BY DEF PrepInv
<1>3. sent' = {} /\ settlement = None
  BY <1>1, <1>2 DEF SentSound, SettlementSound
<1>4. /\ preparation \in Records /\ preparation.status = "dispatched"
      /\ preparation.attempt \notin ended /\ c.base = preparation.base
      /\ c.does \in {"create", "attach", "add-branch", "add", "remove"}
  BY <1>2 DEF SentSound, PreparationTypeOK
<1>5. c.base \in 0..MaxCommit
  BY <1>4, NoneIsNothing DEF Records, Commits
<1>6. root' = root \/ root' = preparation.base
  BY <1>1, <1>4
<1>7. root' \in 0..MaxCommit
  BY <1>1, <1>2, <1>5 DEF PreparationTypeOK
<1>8. checkout' \in Checkouts /\ CheckoutSound'
  <2>1. checkout \in Checkouts
    BY <1>2 DEF PreparationTypeOK
  <2>2. CASE c.does = "create"
    BY <1>1, <2>1, <2>2 DEF Effect, Checkouts, CheckoutSound
  <2>3. CASE c.does = "attach"
    BY <1>1, <2>1, <2>3 DEF Effect, Checkouts, CheckoutSound
  <2>4. CASE c.does = "add-branch"
    BY <1>1, <1>5, <2>1, <2>4 DEF Effect, Checkouts, CheckoutSound
  <2>5. CASE c.does = "add"
    BY <1>1, <2>1, <2>5 DEF Effect, Checkouts, CheckoutSound
  <2>6. CASE c.does = "remove"
    <3>1. 0 \in 0..MaxCommit
      BY PreparationAssumption
    <3>2. checkout' = [checkout EXCEPT !.registered = "none", !.path = "absent", !.head = 0]
      BY <1>1, <2>6 DEF Effect
    <3>3. checkout' \in Checkouts /\ checkout'.registered = "none"
      BY <2>1, <3>1, <3>2 DEF Checkouts
    <3>4. QED
      BY <3>3 DEF CheckoutSound
  <2>7. QED
    BY <1>4, <2>2, <2>3, <2>4, <2>5, <2>6
<1>9. QED
  BY <1>3, <1>4, <1>6, <1>7, <1>8

\* The base of a record that was sent is the root of what it has created.
LEMMA LandBase ==
    ASSUME PrepInv, NEW c \in sent, Land(c), baseRef' = baseRef,
           preparation' \in Records, preparation'.status # "verified",
           preparation'.base = preparation.base, tx' = None \/ tx'.base = preparation.base
    PROVE  BaseSound'
<1>1. /\ preparation \in Records /\ preparation.status = "dispatched"
      /\ root' = root \/ root' = preparation.base
  BY LandFacts
<1>2. BaseSound /\ preparation # None /\ preparation' # None
  BY <1>1, NoneIsNothing DEF PrepInv
<1>3. QED
  BY <1>1, <1>2 DEF BaseSound

LEMMA CommandEndsKeeps ==
    ASSUME PrepInv, NEW c \in sent, CommandEnds(c)
    PROVE  PrepInv'
<1> DEFINE record == [tx.record EXCEPT !.status = "settled"]
           at == Next(tx.at)
<1>1. /\ Awaited(c) /\ Land(c)
      /\ ended' = ended \cup {tx.record.attempt}
      /\ Commit(record, [tx EXCEPT !.record = record, !.at = at])
      /\ UNCHANGED <<tip, revision, interrupted, host, settlement, attempts>>
  BY DEF CommandEnds
<1>2. /\ PreparationTypeOK /\ TxSound /\ BaseSound /\ SettlementSound
  BY DEF PrepInv
<1>3. /\ sent' = {} /\ preparation \in Records /\ preparation.status = "dispatched"
      /\ settlement = None /\ checkout' \in Checkouts /\ CheckoutSound'
      /\ root' \in 0..MaxCommit
  BY <1>1, LandFacts
<1>4. /\ tx # None /\ tx \in Transactions /\ tx.record = preparation /\ tx.base = preparation.base
      /\ tx.record \in Records /\ tx.at \in Awaits
  BY <1>1, <1>2, NoneIsNothing DEF Awaited, TxSound, PreparationTypeOK
<1>5. record \in Records /\ record.status = "settled" /\ record.base = tx.base
      /\ record.attempt = tx.record.attempt /\ record.instance = tx.record.instance
  BY <1>4, RecordKept DEF Statuses
<1>6. ended' \subseteq 1..MaxAttempts
  BY <1>1, <1>2, <1>4 DEF PreparationTypeOK, Records
<1>7. SentSound'
  BY <1>3 DEF SentSound
<1> HIDE DEF record
<1>8. CASE DiskFails
  <2>1. tx' = None /\ preparation' = preparation /\ baseRef' = baseRef /\ troubles' = troubles + 1
        /\ troubles < MaxTroubles
    BY <1>8 DEF DiskFails, TransactionEnds
  <2>2. PreparationTypeOK'
    BY <1>1, <1>2, <1>3, <1>6, <2>1, PreparationAssumption DEF PreparationTypeOK
  <2>3. TxSound'
    BY <2>1 DEF TxSound
  <2>4. BaseSound'
    BY <1>1, <1>3, <2>1, LandBase
  <2>5. SettlementSound'
    BY <1>1, <1>2, <1>3, <2>1, NoneIsNothing, PreparationAssumption DEF SettlementSound, PreparationTypeOK
  <2>6. QED
    BY <1>3, <1>7, <2>2, <2>3, <2>4, <2>5 DEF PrepInv
<1>9. CASE ~DiskFails
  <2>1. preparation' = record /\ tx' = [tx EXCEPT !.record = record, !.at = at]
        /\ UNCHANGED <<baseRef, troubles>>
    BY <1>1, <1>9 DEF Commit, Keep
  <2>2. at \in {"write", "readback"} /\ at \in Stands
    BY DEF Next, Stands
  <2>3. tx.recovery \notin {"conflict", "reuse"}
    BY <1>2, <1>4 DEF TxSound
  <2> HIDE DEF at
  <2>4. tx' \in Transactions /\ tx'.at = at /\ tx'.record = record /\ tx'.base = tx.base
        /\ tx'.recovery = tx.recovery
    BY <1>4, <1>5, <2>1, <2>2 DEF Transactions
  <2>5. PreparationTypeOK'
    BY <1>1, <1>2, <1>3, <1>5, <1>6, <2>1, <2>4 DEF PreparationTypeOK
  <2>6. TxSound'
    BY <1>4, <1>5, <2>1, <2>2, <2>3, <2>4 DEF TxSound, Awaits, Stands
  <2>7. BaseSound'
    BY <1>1, <1>3, <1>4, <1>5, <2>1, <2>4, LandBase
  <2>8. SettlementSound'
    BY <1>1, <1>2, <1>3, <1>4, <1>5, <2>1, <2>4, NoneIsNothing DEF SettlementSound
  <2>9. QED
    BY <1>3, <1>7, <2>5, <2>6, <2>7, <2>8 DEF PrepInv
<1>10. QED
  BY <1>8, <1>9


\* It fails, or nobody waits for it any longer: nothing was written.
LEMMA CommandFailsKeeps ==
    ASSUME PrepInv, NEW c \in sent, CommandFails(c) \/ CommandUnknown(c)
    PROVE  PrepInv'
<1>1. /\ Awaited(c) /\ troubles < MaxTroubles /\ troubles' = troubles + 1 /\ tx' = None
      /\ sent' \subseteq sent
      /\ UNCHANGED <<tip, checkout, root, recvars, host, ended, settlement, attempts>>
  BY DEF CommandFails, CommandUnknown, TransactionEnds, gitvars
<1> USE DEF recvars
<1>2. PreparationTypeOK'
  BY <1>1, PreparationAssumption DEF PrepInv, PreparationTypeOK
<1>3. CheckoutSound' /\ SentSound' /\ TxSound' /\ BaseSound'
  BY <1>1 DEF PrepInv, CheckoutSound, SentSound, TxSound, BaseSound
<1>4. SettlementSound'
  BY <1>1, PreparationAssumption, NoneIsNothing DEF PrepInv, PreparationTypeOK, SettlementSound
<1>5. QED
  BY <1>2, <1>3, <1>4 DEF PrepInv

\* What nobody waits for was sent by a transaction that is gone.
LEMMA CommandLandsLateKeeps ==
    ASSUME PrepInv, NEW c \in sent, CommandLandsLate(c)
    PROVE  PrepInv'
<1>1. /\ ~Awaited(c)
      /\ Land(c) \/ (sent' = sent \ {c} /\ UNCHANGED <<checkout, root>>)
      /\ UNCHANGED <<tip, recvars, host, ended, tx, settlement, attempts, troubles>>
  BY DEF CommandLandsLate
<1> USE DEF recvars
<1>2. tx = None /\ preparation \in Records /\ preparation.status = "dispatched"
  BY <1>1 DEF PrepInv, SentSound, Awaited
<1>3. CASE Land(c)
  <2>1. /\ sent' = {} /\ settlement = None /\ checkout' \in Checkouts /\ CheckoutSound'
        /\ root' \in 0..MaxCommit
    BY <1>3, LandFacts
  <2>2. PreparationTypeOK'
    BY <1>1, <2>1 DEF PrepInv, PreparationTypeOK
  <2>3. SentSound' /\ TxSound'
    BY <1>1, <1>2, <2>1 DEF SentSound, TxSound
  <2>4. BaseSound'
    BY <1>1, <1>2, <1>3, LandBase
  <2>5. SettlementSound'
    BY <1>1, <2>1 DEF PrepInv, SettlementSound
  <2>6. QED
    BY <2>1, <2>2, <2>3, <2>4, <2>5 DEF PrepInv
<1>4. CASE sent' = sent \ {c} /\ UNCHANGED <<checkout, root>>
  <2>1. PreparationTypeOK'
    BY <1>1, <1>4 DEF PrepInv, PreparationTypeOK
  <2>2. CheckoutSound' /\ SentSound' /\ TxSound' /\ BaseSound'
    BY <1>1, <1>4 DEF PrepInv, CheckoutSound, SentSound, TxSound, BaseSound
  <2>3. SettlementSound'
    BY <1>1, <1>4 DEF PrepInv, SettlementSound
  <2>4. QED
    BY <2>1, <2>2, <2>3 DEF PrepInv
<1>5. QED
  BY <1>1, <1>3, <1>4

\* What is written at the end of a transaction is what the transaction is of.
LEMMA OutcomeKeeps ==
    ASSUME PrepInv, tx # None, tx.at \in {"verify", "block"}, NEW status \in {"verified", "blocked"},
           preparation' = [tx.record EXCEPT !.status = status],
           status = "verified" => tx.at = "verify",
           tx' = None, ended' = ended \ {tx.record.attempt},
           \/ status = "verified" /\ baseRef' = IF baseRef = None THEN tx.base ELSE baseRef
           \/ status = "blocked" /\ baseRef' = baseRef,
           UNCHANGED <<gitvars, revision, interrupted, host, settlement, attempts, troubles>>
    PROVE  PrepInv'
<1> USE DEF gitvars
<1>1. /\ PreparationTypeOK /\ CheckoutSound /\ SentSound /\ TxSound /\ BaseSound /\ SettlementSound
  BY DEF PrepInv
<1>2. tx \in Transactions /\ tx.record \in Records /\ tx.at \notin Awaits /\ tx.base \in Commits
      /\ tx.record.base = tx.base
  BY <1>1 DEF PreparationTypeOK, Transactions, TxSound, Awaits
<1>3. sent = {} /\ settlement = None
  BY <1>1, <1>2 DEF SentSound, SettlementSound
<1>4. /\ preparation' \in Records /\ preparation'.status = status /\ preparation'.base = tx.base
      /\ preparation'.instance = tx.record.instance /\ preparation'.expected = tx.record.expected
      /\ preparation' # None
  <2>1. status \in Statuses
    BY DEF Statuses
  <2>2. /\ preparation' \in Records /\ preparation'.status = status
        /\ preparation'.base = tx.record.base /\ preparation'.instance = tx.record.instance
        /\ preparation'.expected = tx.record.expected
    BY <1>2, <2>1, RecordKept
  <2>3. QED
    BY <1>2, <2>2, NoneIsNothing
<1>5. PreparationTypeOK'
  <2>1. baseRef' \in Commits \cup {None}
    BY <1>1, <1>2 DEF PreparationTypeOK
  <2>2. QED
    BY <1>1, <1>4, <2>1 DEF PreparationTypeOK
<1>6. CheckoutSound' /\ SentSound' /\ TxSound'
  BY <1>1, <1>3 DEF CheckoutSound, SentSound, TxSound
<1>7. BaseSound'
  <2>1. CASE status = "verified"
    <3>1. /\ checkout.registered = "ours" /\ checkout.path = "full"
          /\ checkout.head = tx.record.expected
      BY <1>1, <2>1 DEF TxSound
    <3>2. baseRef' = tx.base /\ tx.base # None
      BY <1>1, <1>2, <2>1, NoneIsNothing DEF BaseSound, Commits
    <3>3. QED
      BY <1>1, <1>4, <3>1, <3>2 DEF BaseSound
  <2>2. CASE status = "blocked"
    BY <1>1, <1>4, <2>2 DEF BaseSound
  <2>3. QED
    BY <2>1, <2>2
<1>8. SettlementSound'
  BY <1>1, <1>3, <1>4 DEF SettlementSound
<1>9. QED
  BY <1>5, <1>6, <1>7, <1>8 DEF PrepInv

LEMMA VerifyKeeps == ASSUME PrepInv, Verify PROVE PrepInv'
<1>1. /\ tx # None /\ tx.at = "verify"
      /\ UNCHANGED <<gitvars, revision, interrupted, host, settlement, attempts>>
  BY DEF Verify
<1>2. CASE DiskFails /\ ended' = ended
  <2>1. CheckoutSound' /\ checkout' \in Checkouts /\ checkout' = checkout /\ attempts' \in 0..MaxAttempts
    BY <1>1 DEF PrepInv, CheckoutSound, PreparationTypeOK, gitvars
  <2>2. QED
    BY <1>1, <1>2, <2>1, DiskFailsKeeps DEF gitvars
<1>3. CASE /\ preparation' = [tx.record EXCEPT !.status = "verified"] /\ tx' = None
           /\ baseRef' = IF baseRef = None THEN tx.base ELSE baseRef
           /\ ended' = ended \ {tx.record.attempt} /\ troubles' = troubles
  BY <1>1, <1>3, OutcomeKeeps
<1>4. QED
  BY <1>2, <1>3 DEF Verify, Keep, TransactionEnds

LEMMA BlockKeeps == ASSUME PrepInv, Block PROVE PrepInv'
<1>1. /\ tx # None /\ tx.at = "block"
      /\ UNCHANGED <<gitvars, revision, interrupted, host, settlement, attempts>>
  BY DEF Block
<1>2. CASE DiskFails /\ ended' = ended
  <2>1. CheckoutSound' /\ checkout' \in Checkouts /\ checkout' = checkout /\ attempts' \in 0..MaxAttempts
    BY <1>1 DEF PrepInv, CheckoutSound, PreparationTypeOK, gitvars
  <2>2. QED
    BY <1>1, <1>2, <2>1, DiskFailsKeeps DEF gitvars
<1>3. CASE /\ preparation' = [tx.record EXCEPT !.status = "blocked"] /\ tx' = None
           /\ ended' = ended \ {tx.record.attempt} /\ UNCHANGED <<baseRef, troubles>>
  BY <1>1, <1>3, OutcomeKeeps
<1>4. CASE tx' = None /\ UNCHANGED <<preparation, baseRef, troubles, ended>>
  <2> USE DEF gitvars
  <2>1. PreparationTypeOK'
    BY <1>1, <1>4 DEF PrepInv, PreparationTypeOK
  <2>2. CheckoutSound' /\ SentSound' /\ TxSound' /\ BaseSound'
    BY <1>1, <1>4 DEF PrepInv, CheckoutSound, SentSound, TxSound, BaseSound
  <2>3. SettlementSound'
    BY <1>1, <1>4 DEF PrepInv, SettlementSound
  <2>4. QED
    BY <2>1, <2>2, <2>3 DEF PrepInv
<1>5. QED
  BY <1>2, <1>3, <1>4 DEF Block, Keep, TransactionEnds

(***************************************************************************)
(* Tasks, stops, restarts, and the manual settlement                       *)
(***************************************************************************)

LEMMA StartTaskKeepsPrep == ASSUME PrepInv, StartTask PROVE PrepInv'
<1>1. /\ host # None /\ tx = None /\ revision < MaxRevision
      /\ preparation # None /\ preparation.status = "verified"
      /\ preparation' = None /\ revision' = revision + 1 /\ interrupted' = FALSE
      /\ UNCHANGED <<tip, root, sent, baseRef, host, ended, tx, settlement, attempts, troubles>>
  BY DEF StartTask
<1>2. PICK commits \in 0..1, dirty \in BOOLEAN :
         /\ checkout.head + commits <= MaxCommit
         /\ checkout' = [checkout EXCEPT !.head = checkout.head + commits,
                                         !.branch = checkout.branch + commits, !.dirty = dirty]
  BY DEF StartTask
<1>3. /\ PreparationTypeOK /\ CheckoutSound /\ SentSound /\ BaseSound /\ SettlementSound
  BY DEF PrepInv
<1>4. checkout.registered = "ours" /\ checkout.branch = checkout.head /\ baseRef # None
  BY <1>1, <1>3 DEF BaseSound, CheckoutSound
<1>5. checkout.head + commits \in 0..MaxCommit
  BY <1>2, <1>3, PreparationAssumption DEF PreparationTypeOK, Checkouts
<1>6. checkout' \in Checkouts /\ checkout'.registered = "ours" /\ checkout'.branch = checkout'.head
  <2>1. PICK n \in 0..MaxCommit : n = checkout.head + commits
    BY <1>5
  <2>2. checkout' = [checkout EXCEPT !.head = n, !.branch = n, !.dirty = dirty]
    BY <1>2, <1>4, <2>1
  <2>3. QED
    BY <1>3, <1>4, <2>2 DEF PreparationTypeOK, Checkouts
<1>7. PreparationTypeOK'
  <2>1. revision' \in 0..MaxRevision
    <3>1. revision \in 0..MaxRevision /\ revision < MaxRevision /\ revision' = revision + 1
      BY <1>1, <1>3 DEF PreparationTypeOK
    <3>2. QED
      BY <3>1, PreparationAssumption
  <2>2. QED
    BY <1>1, <1>3, <1>6, <2>1 DEF PreparationTypeOK
<1>8. CheckoutSound' /\ SentSound' /\ TxSound' /\ BaseSound'
  BY <1>1, <1>3, <1>4, <1>6 DEF CheckoutSound, SentSound, TxSound, BaseSound
<1>9. SettlementSound'
  BY <1>1, <1>3 DEF SettlementSound
<1>10. QED
  BY <1>7, <1>8, <1>9 DEF PrepInv

LEMMA StopPreparationKeeps == ASSUME PrepInv, StopPreparation PROVE PrepInv'
<1>1. /\ revision < MaxRevision /\ revision' = revision + 1 /\ interrupted' = TRUE
      /\ UNCHANGED <<gitvars, preparation, baseRef, host, ended, tx, settlement, attempts, troubles>>
  BY DEF StopPreparation
<1> USE DEF gitvars
<1>2. PreparationTypeOK'
  BY <1>1, PreparationAssumption DEF PrepInv, PreparationTypeOK
<1>3. CheckoutSound' /\ SentSound' /\ TxSound' /\ BaseSound' /\ SettlementSound'
  BY <1>1 DEF PrepInv, CheckoutSound, SentSound, TxSound, BaseSound, SettlementSound
<1>4. QED
  BY <1>2, <1>3 DEF PrepInv

LEMMA StopProcessKeepsPrep == ASSUME PrepInv, StopProcess PROVE PrepInv'
<1>1. /\ host # None /\ troubles < MaxTroubles /\ troubles' = troubles + 1
      /\ host' = None /\ ended' = {} /\ tx' = None
      /\ UNCHANGED <<gitvars, recvars, settlement, attempts>>
  BY DEF StopProcess
<1> USE DEF gitvars, recvars
<1>2. PreparationTypeOK'
  BY <1>1, PreparationAssumption DEF PrepInv, PreparationTypeOK
<1>3. CheckoutSound' /\ SentSound' /\ TxSound' /\ BaseSound'
  BY <1>1 DEF PrepInv, CheckoutSound, SentSound, TxSound, BaseSound
<1>4. SettlementSound'
  BY <1>1, PreparationAssumption, NoneIsNothing DEF PrepInv, PreparationTypeOK, SettlementSound
<1>5. QED
  BY <1>2, <1>3, <1>4 DEF PrepInv

\* A new instance is none that wrote the record.
LEMMA StartProcessKeepsPrep == ASSUME PrepInv, StartProcess PROVE PrepInv'
<1>1. /\ host = None /\ host' = troubles + 1
      /\ UNCHANGED <<gitvars, recvars, ended, tx, settlement, attempts, troubles>>
  BY DEF StartProcess
<1> USE DEF gitvars, recvars
<1>2. troubles \in 0..MaxTroubles /\ host' \in 1..(MaxTroubles + 1) /\ tx = None
  BY <1>1, PreparationAssumption DEF PrepInv, PreparationTypeOK, SettlementSound
<1>3. PreparationTypeOK'
  BY <1>1, <1>2 DEF PrepInv, PreparationTypeOK
<1>4. CheckoutSound' /\ SentSound' /\ TxSound' /\ BaseSound'
  BY <1>1 DEF PrepInv, CheckoutSound, SentSound, TxSound, BaseSound
<1>5. SettlementSound'
  <2>1. preparation # None => preparation.instance <= troubles /\ preparation.instance \in Nat
    BY <1>1, NoneIsNothing DEF PrepInv, PreparationTypeOK, SettlementSound
  <2>2. QED
    BY <1>1, <1>2, <2>1, PreparationAssumption DEF PrepInv, SettlementSound
<1>6. QED
  BY <1>3, <1>4, <1>5 DEF PrepInv

LEMMA PreviewKeeps == ASSUME PrepInv, PreviewManualPreparation PROVE PrepInv'
<1>1. /\ host = None /\ revision < MaxRevision
      /\ preparation # None /\ preparation.status \in {"dispatched", "blocked"}
      /\ sent' = {}
      /\ settlement' = [record |-> preparation, revision |-> revision, scene |-> checkout]
      /\ UNCHANGED <<tip, checkout, root, recvars, host, ended, tx, attempts, troubles>>
  BY DEF PreviewManualPreparation
<1> USE DEF recvars
<1>2. PreparationTypeOK'
  BY <1>1 DEF PrepInv, PreparationTypeOK
<1>3. CheckoutSound' /\ SentSound' /\ TxSound' /\ BaseSound'
  BY <1>1 DEF PrepInv, CheckoutSound, SentSound, TxSound, BaseSound
<1>4. SettlementSound'
  BY <1>1 DEF PrepInv, SettlementSound
<1>5. QED
  BY <1>2, <1>3, <1>4 DEF PrepInv

\* What is settled is the record that was looked at, over the scene that was.
LEMMA PublishKeepsPrep == ASSUME PrepInv, PublishManualPreparation PROVE PrepInv'
<1>1. /\ host = None /\ settlement # None /\ settlement' = None
      /\ UNCHANGED <<gitvars, baseRef, host, ended, tx, attempts, troubles>>
  BY DEF PublishManualPreparation
<1> USE DEF gitvars
<1>2. /\ PreparationTypeOK /\ CheckoutSound /\ SentSound /\ BaseSound /\ SettlementSound
  BY DEF PrepInv
<1>3. /\ preparation # None /\ settlement.record = preparation /\ settlement.revision < MaxRevision
      /\ sent = {} /\ tx = None
  BY <1>1, <1>2 DEF SettlementSound
<1>4. CASE settlement = [record |-> preparation, revision |-> revision, scene |-> checkout]
  <2>1. /\ preparation' = [preparation EXCEPT !.status = "settled", !.revision = revision + 1]
        /\ revision' = revision + 1 /\ interrupted' = TRUE
    BY <1>4 DEF PublishManualPreparation
  <2>2. revision < MaxRevision
    BY <1>3, <1>4
  <2>3. revision' \in 0..MaxRevision
    BY <1>2, <2>1, <2>2, PreparationAssumption DEF PreparationTypeOK
  <2>4. preparation \in Records
    BY <1>2, <1>3 DEF PreparationTypeOK
  <2>5. /\ preparation' \in Records /\ preparation'.status = "settled"
        /\ preparation'.base = preparation.base /\ preparation'.instance = preparation.instance
    <3>1. preparation' = [preparation EXCEPT !.status = "settled", !.revision = revision']
      BY <2>1
    <3>2. QED
      BY <2>3, <2>4, <3>1 DEF Records, Statuses
  <2>6. PreparationTypeOK'
    BY <1>1, <1>2, <2>1, <2>3, <2>5 DEF PreparationTypeOK
  <2>7. CheckoutSound' /\ SentSound' /\ TxSound' /\ BaseSound'
    <3>1. CheckoutSound' /\ SentSound' /\ TxSound'
      BY <1>1, <1>2, <1>3 DEF CheckoutSound, SentSound, TxSound
    <3>2. BaseSound'
      <4>1. preparation' # None
        BY <2>5, NoneIsNothing
      <4>2. UNCHANGED <<tip, root, baseRef, checkout, tx>>
        BY <1>1
      <4>3. QED
        BY <1>2, <1>3, <2>5, <4>1, <4>2 DEF BaseSound
    <3>3. QED
      BY <3>1, <3>2
  <2>8. SettlementSound'
    BY <1>1, <1>2, <1>3, <2>5 DEF SettlementSound
  <2>9. QED
    BY <2>6, <2>7, <2>8 DEF PrepInv
<1>5. CASE UNCHANGED <<preparation, revision, interrupted>>
  <2>1. PreparationTypeOK'
    BY <1>1, <1>2, <1>5 DEF PreparationTypeOK
  <2>2. CheckoutSound' /\ SentSound' /\ TxSound' /\ BaseSound' /\ SettlementSound'
    BY <1>1, <1>2, <1>3, <1>5 DEF CheckoutSound, SentSound, TxSound, BaseSound, SettlementSound
  <2>3. QED
    BY <2>1, <2>2 DEF PrepInv
<1>6. QED
  BY <1>4, <1>5 DEF PublishManualPreparation

LEMMA PrepStep == PrepInv /\ [PreparationNext]_prepvars => PrepInv'
<1> SUFFICES ASSUME PrepInv, [PreparationNext]_prepvars PROVE PrepInv'
  OBVIOUS
<1>1. CASE UNCHANGED prepvars
  <2> USE DEF prepvars, gitvars, recvars
  <2>1. PreparationTypeOK' /\ CheckoutSound' /\ SentSound'
    BY <1>1 DEF PrepInv, PreparationTypeOK, CheckoutSound, SentSound
  <2>2. TxSound' /\ BaseSound' /\ SettlementSound'
    BY <1>1 DEF PrepInv, TxSound, BaseSound, SettlementSound
  <2>3. QED
    BY <2>1, <2>2 DEF PrepInv
<1>2. ASSUME NEW authorized \in 0..MaxRevision \cup {None}, Prepare(authorized) PROVE PrepInv'
  BY <1>2, PrepareKeeps
<1>3. ASSUME NEW c \in sent, CommandEnds(c) \/ CommandFails(c) \/ CommandUnknown(c) \/ CommandLandsLate(c)
      PROVE  PrepInv'
  BY <1>3, CommandEndsKeeps, CommandFailsKeeps, CommandLandsLateKeeps
<1>4. CASE FindCheckout \/ RemoteBaseMoves \/ CheckHooks \/ Dispatch
  BY <1>4, FindCheckoutKeeps, RemoteBaseKeeps, CheckHooksKeeps, DispatchKeeps
<1>5. CASE ReadBack \/ Verify \/ Block
  BY <1>5, ReadBackKeeps, VerifyKeeps, BlockKeeps
<1>6. CASE StartTask \/ StopPreparation \/ StopProcess \/ StartProcess
  BY <1>6, StartTaskKeepsPrep, StopPreparationKeeps, StopProcessKeepsPrep, StartProcessKeepsPrep
<1>7. CASE PreviewManualPreparation \/ PublishManualPreparation
  BY <1>7, PreviewKeeps, PublishKeepsPrep
<1>8. QED
  BY <1>1, <1>2, <1>3, <1>4, <1>5, <1>6, <1>7 DEF PreparationNext

\* The inductive invariant holds throughout the preparation of a worktree: through stops,
\* failed writes of the record, lost commands and manual settlements.
THEOREM PreparationInvariant == PreparationSpec => []PrepInv
<1>1. QED
  BY PrepInitial, PrepStep, PTL DEF PreparationSpec

\* A Git write whose end was not seen is neither repeated nor built upon, what is
\* verified is true to Git, and the frozen baseline is the root of the branch.
THEOREM PreparationAlwaysTrue == PreparationSpec => []PreparationIsTrue
<1>1. QED
  BY PreparationInvariant, PrepInvImplies, PTL

(***************************************************************************)
(* LocalGitFacts, for any repository and any mishaps.  A section that was  *)
(* answered carries what the command found: a mishap shows in the exit     *)
(* code.  What remains is that each parser asks for the exit codes of all  *)
(* that it reports.                                                        *)
(***************************************************************************)

Mishappened ==
    DOMAIN mishap \subseteq LocalReads /\ \A read \in DOMAIN mishap : mishap[read] \in {"fails", "lost"}

\* A section is what the command printed, or tells that it went wrong.
LEMMA SectionIs ==
    ASSUME Mishappened, NEW read, NEW code, NEW value
    PROVE  LET s == Section(read, code, value)
           IN  \/ s.rc = code /\ s.value = value
               \/ s.rc = 128 /\ s.value = "error"
               \/ s.rc = -1 /\ s.value = None
<1>1. CASE read \notin DOMAIN mishap
  BY <1>1 DEF Section
<1>2. CASE read \in DOMAIN mishap /\ mishap[read] = "fails"
  BY <1>2 DEF Section
<1>3. CASE read \in DOMAIN mishap /\ mishap[read] = "lost"
  BY <1>3 DEF Section
<1>4. QED
  BY <1>1, <1>2, <1>3 DEF Mishappened

LEMMA SceneIs ==
    ASSUME scene \in Repositories
    PROVE  /\ \A f \in {scene.onBranch, scene.born, scene.dirty, scene.main, scene.base,
                        scene.frozen, scene.upstream, scene.local, scene.remote} : f \in BOOLEAN
           /\ scene.ahead \in 0..1
  BY DEF Repositories

\* The branch is found when either ref is, and missing only when both were looked for.
LEMMA BranchRefIs ==
    ASSUME Mishappened, scene \in Repositories
    PROVE  /\ BranchRef.rc = 0 => scene.local \/ scene.remote
           /\ BranchRef.rc = 1 => ~scene.local /\ ~scene.remote
           /\ BranchRef.rc \in {-1, 0, 1, 128}
<1>1. PICK l : l = Section("BR_LOCAL", IF scene.local THEN 0 ELSE 1, "local")
  OBVIOUS
<1>2. PICK r : r = Section("BR_REMOTE", IF scene.remote THEN 0 ELSE 1, "remote")
  OBVIOUS
<1>3. l.rc \in {IF scene.local THEN 0 ELSE 1, 128, -1}
  BY <1>1, SectionIs
<1>4. r.rc \in {IF scene.remote THEN 0 ELSE 1, 128, -1}
  BY <1>2, SectionIs
<1>5. BranchRef = IF -1 \in {l.rc, r.rc} THEN [rc |-> -1, value |-> None]
                  ELSE IF l.rc = 0 THEN l
                  ELSE IF r.rc = 0 THEN r
                  ELSE [rc |-> Neither(l.rc, r.rc), value |-> "none"]
  BY <1>1, <1>2 DEF BranchRef
<1>6. \/ (l.rc = -1 \/ r.rc = -1) /\ BranchRef.rc = -1
      \/ l.rc = 0 /\ r.rc # -1 /\ BranchRef.rc = 0
      \/ l.rc \in {1, 128} /\ r.rc = 0 /\ BranchRef.rc = 0
      \/ l.rc \in {1, 128} /\ r.rc \in {1, 128} /\ BranchRef.rc = Neither(l.rc, r.rc)
  <2>1. l.rc \in {-1, 0, 1, 128} /\ r.rc \in {-1, 0, 1, 128}
    BY <1>3, <1>4
  <2>2. CASE l.rc = -1 \/ r.rc = -1
    BY <1>5, <2>2
  <2>3. CASE l.rc = 0 /\ r.rc # -1
    BY <1>5, <2>3
  <2>4. CASE l.rc \in {1, 128} /\ r.rc = 0
    BY <1>5, <2>4
  <2>5. CASE l.rc \in {1, 128} /\ r.rc \in {1, 128}
    BY <1>5, <2>5
  <2>6. QED
    BY <2>1, <2>2, <2>3, <2>4, <2>5
<1>7. QED
  BY <1>3, <1>4, <1>6, SceneIs DEF Neither

\* Without a mishap of the probes the compares are of the base that was meant.
LEMMA BaseIs ==
    ASSUME scene \in Repositories
    PROVE  /\ AheadOfBase \in 0..2
           /\ ~Amiss({"EFFECTIVE_BASE", "BR_DEFAULT"}) =>
                 /\ AheadOfBase = scene.ahead
                 /\ scene.base \/ scene.frozen => EffectiveBase # "none"
<1>1. AheadOfBase \in 0..2
  BY SceneIs DEF AheadOfBase, OtherRef
<1>2. ASSUME ~Amiss({"EFFECTIVE_BASE", "BR_DEFAULT"})
      PROVE  EffectiveBase = IF scene.base THEN "base" ELSE IF scene.frozen THEN "frozen" ELSE "none"
  BY <1>2 DEF Amiss, EffectiveBase, Fails
<1>3. QED
  BY <1>1, <1>2 DEF AheadOfBase

\* A sample of a worktree that is known tells what is there.
LEMMA WorktreeSample ==
    ASSUME Mishappened, scene \in Repositories,
           NEW f, f = ParseWorktreeSample(WorktreeSections), f # Unknown
    PROVE  /\ f.state = "known" /\ f.plane = "worktree"
           /\ f.dirty = scene.dirty
           /\ f.branch = (IF scene.onBranch THEN "branch" ELSE "none")
           /\ f.aheadOfMain \in 0..2 /\ f.aheadOfBase \in 0..2
           /\ scene.born /\ scene.main =>
                 f.aheadOfMain = scene.ahead \/ Amiss({"WT_HEAD", "WT_MAIN"})
           /\ scene.born /\ (scene.base \/ scene.frozen) =>
                 \/ f.aheadOfBase = scene.ahead
                 \/ Amiss({"WT_HEAD", "EFFECTIVE_BASE", "BR_DEFAULT"})
           /\ Shown(f.aheadOfUpstream, scene.ahead)
           /\ Shown(f.branchExists, scene.local \/ scene.remote)
           /\ Shown(f.hasCommits, scene.ahead > 0) \/ Amiss({"EFFECTIVE_BASE", "BR_DEFAULT"})
           /\ DOMAIN f = {"state", "plane", "dirty", "branch", "aheadOfMain", "aheadOfBase",
                          "aheadOfUpstream", "branchExists", "hasCommits"}
<1> DEFINE onBranch == IF scene.onBranch THEN "branch" ELSE "none"
<1>1. PICK s : s = WorktreeSections
  OBVIOUS
<1>2. /\ s.current = Section("WT_BRANCH", 0, onBranch)
      /\ s.status = Section("WT_STATUS", 0, scene.dirty)
      /\ s.mainCount = Section("WT_MAIN_COUNT", RefCode(scene.main /\ scene.born), scene.ahead)
      /\ s.baseCount = Section("WT_BASE_COUNT", RefCode(scene.born), AheadOfBase)
      /\ s.upCount = IF s.current.value = "none" THEN Skipped
                     ELSE Section("WT_UP_COUNT", RefCode(scene.upstream /\ scene.born), scene.ahead)
      /\ s.br = BranchRef
      /\ s.commits = IF BranchRef.rc = 0 /\ EffectiveBase # "none"
                     THEN Section("BR_COMMIT_COUNT", 0, AheadOfBase) ELSE Skipped
  BY <1>1 DEF WorktreeSections
<1>3. PICK c : c = Compares(s)
  OBVIOUS
<1>4. /\ c.main <=> Probed("WT_HEAD", scene.born) /\ Probed("WT_MAIN", scene.main)
      /\ c.base <=> Probed("WT_HEAD", scene.born) /\ EffectiveBase # "none"
      /\ c.upstream => s.current.value = "branch"
      /\ c.commits <=> s.br.rc = 0 /\ EffectiveBase # "none"
  BY <1>3 DEF Compares
<1>5. ~RequiredReadFailed(s)
      /\ f = [state |-> "known", plane |-> "worktree", dirty |-> s.status.value,
              branch |-> s.current.value,
              aheadOfMain |-> IF c.main THEN s.mainCount.value ELSE 0,
              aheadOfBase |-> IF c.base THEN s.baseCount.value ELSE 0,
              aheadOfUpstream |-> IF c.upstream THEN s.upCount.value ELSE None,
              branchExists |-> IF s.br.rc = -1 THEN None ELSE s.br.rc = 0,
              hasCommits |-> IF ~c.commits THEN None
                             ELSE IF c.base THEN s.baseCount.value > 0
                             ELSE s.commits.value > 0]
  BY <1>1, <1>3 DEF ParseWorktreeSample
<1>6. /\ s.status.rc = 0 /\ s.current.rc = 0 /\ ~(s.br.rc > 1)
      /\ c.main => s.mainCount.rc = 0
      /\ c.base => s.baseCount.rc = 0
      /\ c.upstream => s.upCount.rc = 0
      /\ c.commits => s.commits.rc = 0
  BY <1>3, <1>5, Zenon DEF RequiredReadFailed, Answered
<1>7. s.status.value = scene.dirty /\ s.current.value = onBranch
  BY <1>2, <1>6, SectionIs
<1>8. /\ c.main => s.mainCount.value = scene.ahead
      /\ c.base => s.baseCount.value = AheadOfBase
  BY <1>2, <1>6, SectionIs
<1>9. c.upstream => s.upCount.value = scene.ahead
  <2>1. c.upstream => s.current.value # "none"
    BY <1>4
  <2>2. QED
    BY <1>2, <1>6, <2>1, SectionIs
<1>10. c.commits => s.commits.value = AheadOfBase
  BY <1>2, <1>4, <1>6, SectionIs
<1>11. s.br.rc \in {-1, 0, 1} /\ (s.br.rc = 0 => scene.local \/ scene.remote)
       /\ (s.br.rc = 1 => ~scene.local /\ ~scene.remote)
  BY <1>2, <1>6, BranchRefIs
<1>12. /\ scene.ahead \in 0..1 /\ scene.dirty \in BOOLEAN /\ AheadOfBase \in 0..2
       /\ ~Amiss({"EFFECTIVE_BASE", "BR_DEFAULT"}) =>
             /\ AheadOfBase = scene.ahead
             /\ scene.base \/ scene.frozen => EffectiveBase # "none"
  BY SceneIs, BaseIs
<1>13. /\ f.state = "known" /\ f.plane = "worktree" /\ f.dirty = s.status.value
       /\ f.branch = s.current.value
       /\ f.aheadOfMain = IF c.main THEN s.mainCount.value ELSE 0
       /\ f.aheadOfBase = IF c.base THEN s.baseCount.value ELSE 0
       /\ f.aheadOfUpstream = IF c.upstream THEN s.upCount.value ELSE None
       /\ f.branchExists = IF s.br.rc = -1 THEN None ELSE s.br.rc = 0
       /\ f.hasCommits = IF ~c.commits THEN None
                          ELSE IF c.base THEN s.baseCount.value > 0 ELSE s.commits.value > 0
       /\ DOMAIN f = {"state", "plane", "dirty", "branch", "aheadOfMain", "aheadOfBase",
                      "aheadOfUpstream", "branchExists", "hasCommits"}
  BY <1>5
<1>14. f.aheadOfMain \in 0..2 /\ f.aheadOfBase \in 0..2
  BY <1>8, <1>12, <1>13
<1>15. Shown(f.aheadOfUpstream, scene.ahead)
  BY <1>9, <1>13 DEF Shown
<1>16. Shown(f.branchExists, scene.local \/ scene.remote)
  <2>1. CASE s.br.rc = -1
    BY <1>13, <2>1 DEF Shown
  <2>2. CASE s.br.rc = 0
    BY <1>11, <1>13, <2>2 DEF Shown
  <2>3. CASE s.br.rc = 1
    BY <1>11, <1>13, <2>3 DEF Shown
  <2>4. QED
    BY <1>11, <2>1, <2>2, <2>3
<1>17. Shown(f.hasCommits, scene.ahead > 0) \/ Amiss({"EFFECTIVE_BASE", "BR_DEFAULT"})
  <2> SUFFICES ASSUME ~Amiss({"EFFECTIVE_BASE", "BR_DEFAULT"})
               PROVE  Shown(f.hasCommits, scene.ahead > 0)
    OBVIOUS
  <2>0. AheadOfBase = scene.ahead
    BY <1>12
  <2>1. CASE ~c.commits
    BY <1>13, <2>1 DEF Shown
  <2>2. CASE c.commits /\ c.base
    BY <1>8, <1>13, <2>0, <2>2 DEF Shown
  <2>3. CASE c.commits /\ ~c.base
    BY <1>10, <1>13, <2>0, <2>3 DEF Shown
  <2>4. QED
    BY <2>1, <2>2, <2>3
<1>18. scene.born /\ scene.main =>
          f.aheadOfMain = scene.ahead \/ Amiss({"WT_HEAD", "WT_MAIN"})
  BY <1>4, <1>8, <1>13 DEF Probed, Amiss
<1>19. scene.born /\ (scene.base \/ scene.frozen) =>
          \/ f.aheadOfBase = scene.ahead
          \/ Amiss({"WT_HEAD", "EFFECTIVE_BASE", "BR_DEFAULT"})
  <2> SUFFICES ASSUME scene.born, scene.base \/ scene.frozen,
                      ~Amiss({"WT_HEAD", "EFFECTIVE_BASE", "BR_DEFAULT"})
               PROVE  f.aheadOfBase = scene.ahead
    OBVIOUS
  <2>1. ~Amiss({"EFFECTIVE_BASE", "BR_DEFAULT"}) /\ Probed("WT_HEAD", scene.born)
    BY DEF Amiss, Probed
  <2>2. QED
    BY <1>4, <1>8, <1>12, <1>13, <2>1
<1>20. QED
  BY <1>7, <1>13, <1>14, <1>15, <1>16, <1>17, <1>18, <1>19


\* So does a sample of the checkout of the repository.
LEMMA RepositorySample ==
    ASSUME Mishappened, scene \in Repositories,
           NEW f, f = ParseRepositorySample, f # Unknown
    PROVE  /\ f.state = "known" /\ f.plane = "repository"
           /\ f.branch = (IF scene.onBranch THEN "branch" ELSE "none")
           /\ f.aheadOfMain \in 0..2
           /\ f.aheadOfMain = scene.ahead \/ Amiss({"REPO_DEFAULT"})
           /\ Shown(f.aheadOfBase, scene.ahead) \/ Amiss({"REPO_DEFAULT"})
           /\ DOMAIN f = {"state", "plane", "branch", "aheadOfMain", "aheadOfBase"}
<1> DEFINE onBranch == IF scene.onBranch THEN "branch" ELSE "none"
<1>1. PICK head : head = Section("REPO_BRANCH", 0, onBranch)
  OBVIOUS
<1>2. PICK ahead : ahead = IF Fails("REPO_DEFAULT") THEN OtherRef ELSE scene.ahead
  OBVIOUS
<1>3. PICK main : main = Section("REPO_MAIN_COUNT", RefCode(scene.base /\ scene.main), ahead)
  OBVIOUS
<1>4. PICK own : own = Section("REPO_HEAD_COUNT", RefCode(scene.base /\ scene.born), ahead)
  OBVIOUS
<1>5. f = IF \/ ~Answered(head) \/ ~Answered(main) \/ Lost("REPO_HEAD")
             \/ head.value # "none" /\ ~Answered(own)
          THEN Unknown
          ELSE [state |-> "known", plane |-> "repository",
                branch |-> head.value, aheadOfMain |-> main.value,
                aheadOfBase |-> IF head.value = "none" THEN None ELSE own.value]
  BY <1>1, <1>3, <1>4, <1>2 DEF ParseRepositorySample
<1>6. /\ head.rc = 0 /\ main.rc = 0 /\ (head.value # "none" => own.rc = 0)
      /\ f = [state |-> "known", plane |-> "repository",
              branch |-> head.value, aheadOfMain |-> main.value,
              aheadOfBase |-> IF head.value = "none" THEN None ELSE own.value]
  BY <1>5 DEF Answered
<1>7. /\ head.value = onBranch /\ main.value = ahead
      /\ head.value # "none" => own.value = ahead
  BY <1>1, <1>3, <1>4, <1>6, SectionIs
<1>8. /\ f.state = "known" /\ f.plane = "repository" /\ f.branch = head.value
      /\ f.aheadOfMain = main.value
      /\ f.aheadOfBase = IF head.value = "none" THEN None ELSE own.value
      /\ DOMAIN f = {"state", "plane", "branch", "aheadOfMain", "aheadOfBase"}
  BY <1>6
<1>9. ahead \in 0..2 /\ (ahead = scene.ahead \/ Amiss({"REPO_DEFAULT"}))
  BY <1>2, SceneIs DEF OtherRef, Fails, Amiss
<1>10. QED
  BY <1>7, <1>8, <1>9 DEF Shown

\* And an enumeration of the branches.
LEMMA EnumerationSample ==
    ASSUME Mishappened, scene \in Repositories,
           NEW f, f = ParseRepositoryEnumeration, f # Unknown
    PROVE  /\ f.state = "known" /\ f.plane = "enumeration"
           /\ f.branchExists = (scene.local \/ scene.remote)
           /\ Shown(f.aheadOfBase, scene.ahead)
           /\ DOMAIN f = {"state", "plane", "branchExists", "aheadOfBase"}
<1>1. PICK gitdir : gitdir = Section("ENUM_GITDIR", 0, "dir")
  OBVIOUS
<1>2. PICK default : default = Section("ENUM_DEFAULT", 1, "none")
  OBVIOUS
<1>3. PICK refs : refs = Section("ENUM_REFS", 0, scene.local \/ scene.remote)
  OBVIOUS
<1>4. PICK counts : counts = Section("ENUM_COUNTS", 0, scene.ahead)
  OBVIOUS
<1>5. PICK available \in BOOLEAN : available <=> scene.base /\ ~Fails("ENUM_BASE_AVAILABLE")
  OBVIOUS
<1>6. PICK ahead :
          ahead = IF available /\ scene.local /\ ~Fails("ENUM_HEADS") THEN counts.value ELSE None
  OBVIOUS
<1>7. f = IF \/ ~Answered(gitdir) \/ default.rc \notin {0, 1} \/ ~Answered(refs)
             \/ Lost("ENUM_HEAD") \/ Lost("ENUM_BASE_AVAILABLE")
             \/ available /\ ~Answered(counts)
          THEN Unknown
          ELSE [state |-> "known", plane |-> "enumeration", branchExists |-> refs.value,
                aheadOfBase |-> ahead]
  BY <1>1, <1>2, <1>3, <1>4, <1>5, <1>6 DEF ParseRepositoryEnumeration
<1>8. /\ refs.rc = 0 /\ (available => counts.rc = 0)
      /\ f = [state |-> "known", plane |-> "enumeration", branchExists |-> refs.value,
              aheadOfBase |-> ahead]
  BY <1>7 DEF Answered
<1>9. refs.value = (scene.local \/ scene.remote)
  <2>1. PICK there : there = (scene.local \/ scene.remote)
    OBVIOUS
  <2>2. refs = Section("ENUM_REFS", 0, there)
    BY <1>3, <2>1
  <2>3. refs.value = there
    BY <1>8, <2>2, SectionIs
  <2>4. QED
    BY <2>1, <2>3
<1>10. Shown(ahead, scene.ahead)
  <2>1. available => counts.value = scene.ahead
    BY <1>4, <1>8, SectionIs
  <2>2. QED
    BY <1>6, <2>1 DEF Shown
<1>11. /\ f.state = "known" /\ f.plane = "enumeration" /\ f.branchExists = refs.value
      /\ f.aheadOfBase = ahead
      /\ DOMAIN f = {"state", "plane", "branchExists", "aheadOfBase"}
  BY <1>8
<1>12. QED
  BY <1>9, <1>10, <1>11

\* What goes wrong in a sampling is about its reads.
LEMMA MishapsAre == ASSUME NEW m \in Mishaps
                    PROVE  DOMAIN m \subseteq LocalReads
                           /\ \A read \in DOMAIN m : m[read] \in {"fails", "lost"}
<1>1. CASE m = <<>>
  BY <1>1
<1>2. CASE \E pick \in [1..MaxReadMishaps -> LocalReads] :
              m \in [{pick[n] : n \in 1..MaxReadMishaps} -> {"fails", "lost"}]
  <2>1. PICK pick \in [1..MaxReadMishaps -> LocalReads] :
              m \in [{pick[n] : n \in 1..MaxReadMishaps} -> {"fails", "lost"}]
    BY <1>2
  <2>2. \A n \in 1..MaxReadMishaps : pick[n] \in LocalReads
    OBVIOUS
  <2>3. QED
    BY <2>1, <2>2
<1>3. QED
  BY <1>1, <1>2 DEF Mishaps

\* The state after a sampling, with what it reports.
LEMMA SampleKeeps ==
    ASSUME UnknownNeverClean, scene' = scene, mishap' = mishap, NEW f, report' = f,
           f \in {ParseWorktreeSample(WorktreeSections), ParseRepositorySample,
                  ParseRepositoryEnumeration}
    PROVE  UnknownNeverClean'
<1>1. Mishappened /\ scene \in Repositories
  BY DEF UnknownNeverClean, LocalFactsTypeOK, Mishappened
<1>2. scene.ahead \in 0..1 /\ scene.dirty \in BOOLEAN
  BY <1>1, SceneIs
<1>3. None \notin {"known", "worktree", "repository", "enumeration", "branch", "none", "unknown"}
      /\ None \notin BOOLEAN /\ None \notin 0..2
  BY FactsAssumption
<1>4. CASE f = Unknown
  <2>1. report'.state = "unknown" /\ DOMAIN report' = {"state"}
    BY <1>4 DEF Unknown
  <2>2. LocalFactsTypeOK'
    BY <1>3, <2>1 DEF UnknownNeverClean, LocalFactsTypeOK
  <2>3. QED
    BY <2>1, <2>2 DEF UnknownNeverClean
<1>5. CASE f # Unknown /\ f = ParseWorktreeSample(WorktreeSections)
  <2>1. /\ f.state = "known" /\ f.plane = "worktree"
        /\ f.dirty = scene.dirty
        /\ f.branch = (IF scene.onBranch THEN "branch" ELSE "none")
        /\ f.aheadOfMain \in 0..2 /\ f.aheadOfBase \in 0..2
        /\ scene.born /\ scene.main =>
              f.aheadOfMain = scene.ahead \/ Amiss({"WT_HEAD", "WT_MAIN"})
        /\ scene.born /\ (scene.base \/ scene.frozen) =>
              \/ f.aheadOfBase = scene.ahead
              \/ Amiss({"WT_HEAD", "EFFECTIVE_BASE", "BR_DEFAULT"})
        /\ Shown(f.aheadOfUpstream, scene.ahead)
        /\ Shown(f.branchExists, scene.local \/ scene.remote)
        /\ Shown(f.hasCommits, scene.ahead > 0) \/ Amiss({"EFFECTIVE_BASE", "BR_DEFAULT"})
        /\ DOMAIN f = {"state", "plane", "dirty", "branch", "aheadOfMain", "aheadOfBase",
                       "aheadOfUpstream", "branchExists", "hasCommits"}
    BY <1>1, <1>5, WorktreeSample
  <2>2. \A field \in DOMAIN f \ OptionalFacts : f[field] # None
    BY <1>2, <1>3, <2>1 DEF OptionalFacts
  <2>3. LocalFactsTypeOK'
    BY <2>1, <2>2 DEF UnknownNeverClean, LocalFactsTypeOK
  <2>4. QED
    BY <2>1, <2>3 DEF UnknownNeverClean, Shown, Amiss
<1>6. CASE f # Unknown /\ f = ParseRepositorySample
  <2>1. /\ f.state = "known" /\ f.plane = "repository"
        /\ f.branch = (IF scene.onBranch THEN "branch" ELSE "none")
        /\ f.aheadOfMain \in 0..2
        /\ f.aheadOfMain = scene.ahead \/ Amiss({"REPO_DEFAULT"})
        /\ Shown(f.aheadOfBase, scene.ahead) \/ Amiss({"REPO_DEFAULT"})
        /\ DOMAIN f = {"state", "plane", "branch", "aheadOfMain", "aheadOfBase"}
    BY <1>1, <1>6, RepositorySample
  <2>2. \A field \in DOMAIN f \ OptionalFacts : f[field] # None
    BY <1>2, <1>3, <2>1 DEF OptionalFacts
  <2>3. LocalFactsTypeOK'
    BY <2>1, <2>2 DEF UnknownNeverClean, LocalFactsTypeOK
  <2>4. QED
    BY <2>1, <2>3 DEF UnknownNeverClean, Shown, Amiss
<1>7. CASE f # Unknown /\ f = ParseRepositoryEnumeration
  <2>1. /\ f.state = "known" /\ f.plane = "enumeration"
        /\ f.branchExists = (scene.local \/ scene.remote)
        /\ Shown(f.aheadOfBase, scene.ahead)
        /\ DOMAIN f = {"state", "plane", "branchExists", "aheadOfBase"}
    BY <1>1, <1>7, EnumerationSample
  <2>2. \A field \in DOMAIN f \ OptionalFacts : f[field] # None
    BY <1>3, <2>1 DEF OptionalFacts
  <2>3. LocalFactsTypeOK'
    BY <2>1, <2>2 DEF UnknownNeverClean, LocalFactsTypeOK
  <2>4. QED
    BY <2>1, <2>3 DEF UnknownNeverClean, Shown
<1>8. QED
  BY <1>4, <1>5, <1>6, <1>7

\* A failed required read is unknown, never clean or false, whatever the repository is and
\* however many commands of a sampling go wrong; a count is the true one or none, unless a
\* probe for its refs failed.
THEOREM UnknownIsNeverClean == LocalFactsSpec => []UnknownNeverClean
<1>1. LocalFactsInit => UnknownNeverClean
  <2> SUFFICES ASSUME LocalFactsInit PROVE UnknownNeverClean
    OBVIOUS
  <2>1. scene \in Repositories
    BY DEF LocalFactsInit, Plain, Repositories
  <2>2. DOMAIN mishap = {} /\ report.state = "unread" /\ DOMAIN report = {"state"}
    BY DEF LocalFactsInit, Unread
  <2>3. QED
    BY <2>1, <2>2, FactsAssumption DEF UnknownNeverClean, LocalFactsTypeOK
<1>2. UnknownNeverClean /\ [LocalFactsNext]_lfvars => UnknownNeverClean'
  <2> SUFFICES ASSUME UnknownNeverClean, [LocalFactsNext]_lfvars PROVE UnknownNeverClean'
    OBVIOUS
  <2>1. CASE SetScene
    <3>1. scene' \in Repositories /\ report' = Begun /\ mishap' \in Mishaps
      BY <2>1 DEF SetScene
    <3>2. DOMAIN mishap' \subseteq LocalReads
          /\ \A read \in DOMAIN mishap' : mishap'[read] \in {"fails", "lost"}
      BY <3>1, MishapsAre
    <3>3. report'.state = "begun" /\ DOMAIN report' = {"state"}
      BY <3>1 DEF Begun
    <3>4. QED
      BY <3>1, <3>2, <3>3, FactsAssumption DEF UnknownNeverClean, LocalFactsTypeOK
  <2>2. CASE SampleWorktreeFacts \/ SampleRepositoryFacts \/ SampleRepositoryEnumeration
    <3>1. /\ scene' = scene /\ mishap' = mishap
          /\ report' \in {ParseWorktreeSample(WorktreeSections), ParseRepositorySample,
                          ParseRepositoryEnumeration}
      BY <2>2 DEF SampleWorktreeFacts, SampleRepositoryFacts, SampleRepositoryEnumeration, Sample
    <3>2. QED
      BY <3>1, SampleKeeps
  <2>3. CASE UNCHANGED lfvars
    BY <2>3 DEF lfvars, UnknownNeverClean, LocalFactsTypeOK, Amiss
  <2>4. QED
    BY <2>1, <2>2, <2>3 DEF LocalFactsNext
<1>3. QED
  BY <1>1, <1>2, PTL DEF LocalFactsSpec

-----------------------------------------------------------------------------
(***************************************************************************)
(* GatewayLanes, for any requests, caps, budgets and number of mishaps.    *)
(* The budget holds because every step under way that was sent under the   *)
(* last evidence will be charged to it; the ends are true because a write  *)
(* that is told not to have happened can never reach GitHub any more.      *)
(***************************************************************************)

\* Steps under way that were sent under the evidence the bucket has.
Charging(b) == {s \in Running : Bucket[s] = b /\ evidenceSeq[s] = buckets[b].seq}

EndTypes ==
    /\ stepAt \in [Steps -> Stages]
    /\ promise \in [Steps -> Answers \cup {None}]
    /\ pacing \in [LogicalRequests -> Steps \cup {None}]
    /\ closing \in {"open", "draining", "settling", "sealed"}
    /\ progress \in [LogicalRequests -> Phases]
    /\ terminal \in [LogicalRequests -> Terminals \cup {None}]
    /\ result \in [LogicalRequests -> Results \cup {None}]
    /\ landed \subseteq WriteRequests

FlagTypes ==
    /\ looping \in BOOLEAN /\ dispatchScheduled \in BOOLEAN /\ tooSoon \in BOOLEAN
    /\ tripped \in BOOLEAN /\ wakes \subseteq Buckets

LedgerTypes ==
    /\ headers \in [Steps -> RateFields \cup {None}]
    /\ evidenceSeq \in [Steps -> Nat]
    /\ buckets \in [Buckets -> Ledgers \cup {None}]
    /\ allowed \in [Buckets -> Int]

\* A ledger allows what it says is left, but for what is still to be charged to it.
LedgerSound ==
    \A b \in Buckets : buckets[b] # None =>
        /\ allowed[b] >= 0
        /\ allowed[b] >= buckets[b].left - Cardinality(Charging(b))

RunningSound == IsFiniteSet(Running) /\ CapsKept

\* The promise of a step, by where the step is.
StepSound(s) ==
    /\ stepAt[s] \in {"unborn", "waiting"} => promise[s] = None
    /\ stepAt[s] = "waiting" => closing = "open"
    /\ stepAt[s] = "held" => promise[s] = None \/ (promise[s] = "closed" /\ closing # "open")
    /\ stepAt[s] \in {"dispatched", "upstream"} =>
           promise[s] = IF closing \in {"open", "draining"} THEN None ELSE "cut"
    /\ stepAt[s] = "over" => promise[s] # None

StepsOf(r) == Reads(r) \cup Sends(r)

Unborn(ss) == \A s \in ss : stepAt[s] = "unborn"

\* The steps of a request, by where the request is.
RequestSound(r) ==
    /\ pacing[r] # None => pacing[r] \in StepsOf(r) /\ stepAt[pacing[r]] = "held"
    /\ progress[r] \in {"new", "queued", "marking"} => Unborn(StepsOf(r))
    /\ progress[r] \in {"queued", "marking", "sending"} => r \in WriteRequests
    /\ progress[r] = "sending" => Unborn(Reads(r))
    /\ result[r] # None => progress[r] = "ended"
    /\ result[r] = "refused" => Unborn(StepsOf(r))
    /\ progress[r] = "ended" /\ result[r] # "refused" => terminal[r] # None
    /\ r \in landed => stepAt[<<r, 0>>] \in {"upstream", "over"}

\* A write that has not landed and never will.
NeverLands(r) ==
    /\ r \notin landed
    /\ \/ stepAt[<<r, 0>>] = "over"
       \/ closing # "open" /\ stepAt[<<r, 0>>] \in {"unborn", "held"}
       \/ progress[r] = "ended" /\ stepAt[<<r, 0>>] = "unborn"

EndSound(r) ==
    /\ result[r] = "confirmed" => r \in landed
    /\ result[r] = "failed" \/ terminal[r] = "failed" => NeverLands(r)
    /\ terminal[r] = "interrupted" =>
           NeverLands(r) \/ \E s \in Reads(r) : promise[s] \in {"expired", "woken"}
    /\ promise[<<r, 0>>] \in {"closed", "woken", "rejected"} => NeverLands(r)

SealSound == closing = "sealed" => \A r \in Declared : terminal[r] # None

EndInv ==
    /\ EndTypes
    /\ \A s \in Steps : StepSound(s)
    /\ \A r \in LogicalRequests : RequestSound(r)
    /\ \A r \in WriteRequests : EndSound(r)
    /\ SealSound

LedgerInv == LedgerTypes /\ FlagTypes /\ RunningSound /\ LedgerSound

LanesInv == EndInv /\ LedgerInv /\ NobodyStalls

\* What a step is.
LEMMA StepShape ==
    ASSUME NEW s \in Steps
    PROVE  /\ Of(s) \in LogicalRequests /\ s \in StepsOf(Of(s)) /\ Bucket[s] \in Buckets
           /\ Send(s) <=> s = <<Of(s), 0>>
           /\ Send(s) => Of(s) \in WriteRequests
           /\ ~Send(s) => s \in Reads(Of(s))
<1>1. PICK r \in LogicalRequests : s \in Reads(r) \cup Sends(r)
  BY DEF Steps
<1>2. /\ s \in Reads(r) => s = <<r, 1>> \/ s = <<r, 2>>
      /\ s \in Sends(r) => s = <<r, 0>> /\ r \in WriteRequests
  BY DEF Reads, Sends
<1>3. Of(s) = r
  BY <1>1, <1>2 DEF Of
<1>4. Send(s) <=> s = <<Of(s), 0>>
  BY <1>1, <1>2, <1>3 DEF Send, Sends
<1>5. QED
  BY <1>1, <1>2, <1>3, <1>4 DEF StepsOf, Buckets, Send

LEMMA RequestShape ==
    ASSUME NEW r \in LogicalRequests
    PROVE  /\ StepsOf(r) \subseteq Steps /\ Reads(r) \subseteq Steps /\ Sends(r) \subseteq Steps
           /\ \A t \in StepsOf(r) : Of(t) = r
           /\ \A t \in Reads(r) : t \in StepsOf(r) /\ t # <<r, 0>> /\ ~Send(t)
           /\ \A t \in Sends(r) : t = <<r, 0>>
BY DEF StepsOf, Steps, Reads, Sends, Of, Send

LEMMA WriteShape ==
    ASSUME NEW r \in WriteRequests
    PROVE  /\ r \in LogicalRequests /\ Sends(r) = {<<r, 0>>}
           /\ <<r, 0>> \in Steps /\ <<r, 0>> \in StepsOf(r) /\ Of(<<r, 0>>) = r
           /\ Send(<<r, 0>>)
BY LanesAssumption DEF StepsOf, Steps, Sends, Of, Send

(***************************************************************************)
(* What runs                                                               *)
(***************************************************************************)

LEMMA RunningIs ==
    ASSUME stepAt \in [Steps -> Stages]
    PROVE  /\ Running \subseteq Steps
           /\ \A s \in Steps : s \in Running <=> stepAt[s] \in {"dispatched", "upstream"}
           /\ \A s \in Steps : s \in Waiting <=> stepAt[s] = "waiting"
           /\ \A s \in Steps : s \in Held <=> stepAt[s] = "held"
           /\ Waiting \subseteq Steps /\ Held \subseteq Steps
BY DEF Running, Waiting, Held, InStage

LEMMA RunningMoves ==
    ASSUME stepAt \in [Steps -> Stages], NEW s \in Steps, NEW to \in Stages,
           stepAt' = [stepAt EXCEPT ![s] = to]
    PROVE  /\ stepAt' \in [Steps -> Stages] /\ stepAt'[s] = to
           /\ \A t \in Steps : t # s => stepAt'[t] = stepAt[t]
           /\ Running' = IF to \in {"dispatched", "upstream"} THEN Running \cup {s}
                                                              ELSE Running \ {s}
           /\ Waiting' = IF to = "waiting" THEN Waiting \cup {s} ELSE Waiting \ {s}
           /\ Held' = IF to = "held" THEN Held \cup {s} ELSE Held \ {s}
BY DEF Running, Waiting, Held, InStage, Stages

LEMMA CapsDrop ==
    ASSUME RunningSound, Running' \subseteq Running
    PROVE  RunningSound'
<1>1. IsFiniteSet(Running)
  BY DEF RunningSound
<1>2. IsFiniteSet(Running') /\ Cardinality(Running') <= Cardinality(Running)
  BY <1>1, FS_Subset
<1>3. Cardinality(Running') <= TotalCap
  BY <1>1, <1>2, FS_CardinalityType, LanesAssumption DEF RunningSound, CapsKept
<1>4. ASSUME NEW s \in Running' PROVE RepoRunning(s)' <= RepoCap
  <2> DEFINE B == {t \in Running : Repo[t] = Repo[s]}
             A == {t \in Running' : Repo[t] = Repo[s]}
  <2>1. IsFiniteSet(B) /\ A \subseteq B
    BY <1>1, FS_Subset
  <2>2. IsFiniteSet(A) /\ Cardinality(A) <= Cardinality(B)
    BY <2>1, FS_Subset
  <2>3. Cardinality(B) <= RepoCap
    BY <1>4 DEF RunningSound, CapsKept, RepoRunning
  <2>4. Cardinality(A) \in Nat /\ Cardinality(B) \in Nat /\ RepoCap \in Nat
    BY <2>1, <2>2, FS_CardinalityType, LanesAssumption
  <2>5. Cardinality(A) <= RepoCap
    <3> HIDE DEF A, B
    <3>1. QED
      BY <2>2, <2>3, <2>4
  <2>6. QED
    BY <2>5 DEF RepoRunning
<1>5. QED
  BY <1>2, <1>3, <1>4 DEF RunningSound, CapsKept

LEMMA CapsAdd ==
    ASSUME RunningSound, NEW s \in Steps, s \notin Running, ~Full(s), Running' = Running \cup {s}
    PROVE  RunningSound'
<1>1. IsFiniteSet(Running) /\ Cardinality(Running) \in Nat /\ Cardinality(Running) < TotalCap
  <2>1. IsFiniteSet(Running)
    BY DEF RunningSound
  <2>2. Cardinality(Running) \in Nat
    BY <2>1, FS_CardinalityType
  <2>3. QED
    BY <2>1, <2>2, LanesAssumption DEF Full
<1>2. IsFiniteSet(Running') /\ Cardinality(Running') = Cardinality(Running) + 1
  BY <1>1, FS_AddElement
<1>3. Cardinality(Running') <= TotalCap
  BY <1>1, <1>2, LanesAssumption
<1>4. ASSUME NEW t \in Running' PROVE RepoRunning(t)' <= RepoCap
  <2> DEFINE B == {u \in Running : Repo[u] = Repo[t]}
             A == {u \in Running' : Repo[u] = Repo[t]}
  <2>1. IsFiniteSet(B) /\ Cardinality(B) \in Nat /\ RepoCap \in Nat
    BY <1>1, FS_Subset, FS_CardinalityType, LanesAssumption
  <2>2. CASE Repo[t] = Repo[s]
    <3>1. Cardinality(B) < RepoCap
      <4>1. B = {u \in Running : Repo[u] = Repo[s]}
        BY <2>2
      <4>2. QED
        BY <4>1, <2>1 DEF Full, RepoRunning
    <3>2. A = B \cup {s} /\ s \notin B
      BY <2>2
    <3>3. Cardinality(A) = Cardinality(B) + 1
      BY <2>1, <3>2, FS_AddElement
    <3>4. Cardinality(A) <= RepoCap
      <4> HIDE DEF A, B
      <4>1. QED
        BY <3>1, <3>3, <2>1
    <3>5. QED
      BY <3>4 DEF RepoRunning
  <2>3. CASE Repo[t] # Repo[s]
    <3>1. A = B /\ t \in Running
      BY <2>3, <1>4
    <3>2. QED
      BY <3>1 DEF RunningSound, CapsKept, RepoRunning
  <2>4. QED
    BY <2>2, <2>3
<1>5. QED
  BY <1>2, <1>3, <1>4 DEF RunningSound, CapsKept

(***************************************************************************)
(* What a ledger allows                                                    *)
(***************************************************************************)

\* Of any ledgers L, allowances A, steps R under way and evidence E.
Charges(L, R, E, b) == {s \in R : Bucket[s] = b /\ E[s] = L[b].seq}

Allows(L, A, R, E, b) ==
    L[b] # None => A[b] >= 0 /\ A[b] >= L[b].left - Cardinality(Charges(L, R, E, b))

LedgerMaps == [Buckets -> Ledgers \cup {None}]

LEMMA LedgerIs ==
    /\ LedgerSound <=> \A b \in Buckets : Allows(buckets, allowed, Running, evidenceSeq, b)
    /\ LedgerSound' <=> \A b \in Buckets : Allows(buckets', allowed', Running', evidenceSeq', b)
BY DEF LedgerSound, Allows, Charges, Charging

\* A count only needs to be one.
LEMMA AllowsMore ==
    ASSUME NEW L \in LedgerMaps, NEW A \in [Buckets -> Int], NEW R, IsFiniteSet(R), NEW E,
           NEW b \in Buckets, L[b] # None, A[b] >= L[b].left
    PROVE  Allows(L, A, R, E, b)
<1>1. IsFiniteSet(Charges(L, R, E, b))
  BY FS_Subset DEF Charges
<1>2. Cardinality(Charges(L, R, E, b)) \in Nat
  BY <1>1, FS_CardinalityType
<1>3. L[b].left \in Nat /\ A[b] \in Int
  BY LanesAssumption DEF LedgerMaps, Ledgers
<1>4. QED
  BY <1>2, <1>3 DEF Allows

\* What is published is allowed.
LEMMA RepublishedAllows ==
    ASSUME buckets \in LedgerMaps, allowed \in [Buckets -> Int], LedgerSound,
           IsFiniteSet(Running), NEW c \in Buckets,
           NEW seen \in [left : 0..MaxLeft, reset : {"ahead", "none"}] \cup {None},
           NEW A \in [Buckets -> Int],
           A = Allowed(c, seen)
    PROVE  /\ Republished(c, seen) \in LedgerMaps
           /\ \A b \in Buckets : Allows(Republished(c, seen), A, Running, evidenceSeq, b)
<1>1. CASE seen = None
  BY <1>1, LedgerIs DEF Republished, Allowed
<1>2. CASE seen # None
  <2> DEFINE L == Republished(c, seen)
  <2>1. L = [buckets EXCEPT ![c] =
             [left |-> seen.left, reset |-> seen.reset,
              seq |-> (IF buckets[c] = None THEN 0 ELSE buckets[c].seq) + 1]]
    BY <1>2 DEF Republished
  <2>2. [left |-> seen.left, reset |-> seen.reset,
         seq |-> (IF buckets[c] = None THEN 0 ELSE buckets[c].seq) + 1] \in Ledgers
    BY <1>2 DEF Ledgers, LedgerMaps
  <2>3. L \in LedgerMaps
    BY <2>1, <2>2 DEF LedgerMaps
  <2>4. A = [allowed EXCEPT ![c] = seen.left] /\ seen.left \in Nat
    BY <1>2, LanesAssumption DEF Allowed
  <2>5. ASSUME NEW b \in Buckets PROVE Allows(L, A, Running, evidenceSeq, b)
    <3>1. CASE b = c
      <4>1. L[b] = None \/ A[b] >= L[b].left
        BY <2>1, <2>4, <3>1 DEF LedgerMaps
      <4>2. CASE L[b] # None
        <5> HIDE DEF L
        <5>1. QED
          BY <4>1, <4>2, <2>3, AllowsMore
      <4>3. QED
        BY <4>2 DEF Allows
    <3>2. CASE b # c
      <4>1. L[b] = buckets[b] /\ A[b] = allowed[b]
        BY <2>1, <2>4, <3>2 DEF LedgerMaps
      <4>2. Allows(buckets, allowed, Running, evidenceSeq, b)
        BY LedgerIs
      <4> HIDE DEF L
      <4>3. QED
        BY <4>1, <4>2 DEF Allows, Charges
    <3>3. QED
      BY <3>1, <3>2
  <2>6. QED
    BY <2>3, <2>5
<1>3. QED
  BY <1>1, <1>2

\* A step that settles is charged for, and is no longer to be.
LEMMA ChargedAllows ==
    ASSUME NEW L \in LedgerMaps, NEW A \in [Buckets -> Int],
           IsFiniteSet(Running), evidenceSeq \in [Steps -> Nat], Running \subseteq Steps,
           \A b \in Buckets : Allows(L, A, Running, evidenceSeq, b),
           NEW s \in Steps, s \in Running,
           NEW M, M = [L EXCEPT ![Bucket[s]] = Charged(@, s)],
           NEW E, E = [evidenceSeq EXCEPT ![s] = 0]
    PROVE  /\ M \in LedgerMaps
           /\ \A b \in Buckets : Allows(M, A, Running \ {s}, E, b)
<1> DEFINE c == Bucket[s]
<1>0. c \in Buckets
  BY StepShape
<1>1. M[c] = Charged(L[c], s) /\ (\A b \in Buckets : b # c => M[b] = L[b])
  BY <1>0 DEF LedgerMaps
<1>2. /\ Charged(L[c], s) \in Ledgers \cup {None}
      /\ L[c] = None => Charged(L[c], s) = None
      /\ L[c] # None => Charged(L[c], s).seq = L[c].seq
      /\ L[c] # None => Charged(L[c], s).left =
             IF L[c].seq = evidenceSeq[s] /\ L[c].left > 0 THEN L[c].left - 1 ELSE L[c].left
  <2>1. L[c] \in Ledgers \cup {None}
    BY <1>0 DEF LedgerMaps
  <2>2. CASE L[c] # None /\ L[c].seq = evidenceSeq[s] /\ L[c].left > 0
    <3>1. Charged(L[c], s) = [L[c] EXCEPT !.left = @ - 1] /\ L[c] \in Ledgers
      BY <2>1, <2>2 DEF Charged
    <3>2. Charged(L[c], s) = [left |-> L[c].left - 1, reset |-> L[c].reset, seq |-> L[c].seq]
      BY <3>1 DEF Ledgers
    <3>3. L[c].left - 1 \in 0..MaxLeft
      BY <2>2, <3>1, LanesAssumption DEF Ledgers
    <3>4. Charged(L[c], s) \in Ledgers
      BY <3>1, <3>2, <3>3 DEF Ledgers
    <3>5. QED
      BY <2>2, <3>2, <3>4
  <2>3. CASE ~(L[c] # None /\ L[c].seq = evidenceSeq[s] /\ L[c].left > 0)
    BY <2>1, <2>3 DEF Charged
  <2>4. QED
    BY <2>2, <2>3
<1>3. M \in LedgerMaps
  BY <1>2 DEF LedgerMaps
<1>4. \A t \in Running \ {s} : E[t] = evidenceSeq[t]
  OBVIOUS
<1>5. ASSUME NEW b \in Buckets, b # c PROVE Allows(M, A, Running \ {s}, E, b)
  <2>1. Charges(M, Running \ {s}, E, b) = Charges(L, Running, evidenceSeq, b)
    BY <1>1, <1>4, <1>5 DEF Charges
  <2>2. QED
    BY <1>1, <1>5, <2>1 DEF Allows
<1>6. Allows(M, A, Running \ {s}, E, c)
  <2> SUFFICES ASSUME M[c] # None
               PROVE  A[c] >= 0 /\ A[c] >= M[c].left - Cardinality(Charges(M, Running \ {s}, E, c))
    BY DEF Allows
  <2>1. L[c] # None /\ L[c] \in Ledgers /\ M[c].seq = L[c].seq
    BY <1>0, <1>1, <1>2 DEF LedgerMaps
  <2>2. /\ A[c] \in Int /\ L[c].left \in Nat
        /\ A[c] >= 0 /\ A[c] >= L[c].left - Cardinality(Charges(L, Running, evidenceSeq, c))
    BY <1>0, <2>1, LanesAssumption DEF Allows, Ledgers
  <2>3. /\ IsFiniteSet(Charges(L, Running, evidenceSeq, c))
        /\ Cardinality(Charges(L, Running, evidenceSeq, c)) \in Nat
    BY FS_Subset, FS_CardinalityType DEF Charges
  <2>4. CASE L[c].seq = evidenceSeq[s]
    <3>1. /\ s \in Charges(L, Running, evidenceSeq, c)
          /\ Charges(M, Running \ {s}, E, c) = Charges(L, Running, evidenceSeq, c) \ {s}
      BY <1>4, <2>1, <2>4 DEF Charges
    <3>2. /\ IsFiniteSet(Charges(L, Running, evidenceSeq, c) \ {s})
          /\ Cardinality(Charges(L, Running, evidenceSeq, c) \ {s})
                 = Cardinality(Charges(L, Running, evidenceSeq, c)) - 1
      <4> HIDE DEF c
      <4>1. QED
        BY <2>3, <3>1, FS_RemoveElement
    <3>3. Cardinality(Charges(M, Running \ {s}, E, c)) \in Nat
      BY <3>1, <3>2, FS_CardinalityType
    <3>4. M[c].left = IF L[c].left > 0 THEN L[c].left - 1 ELSE L[c].left
      BY <1>1, <1>2, <2>1, <2>4
    <3>5. Cardinality(Charges(M, Running \ {s}, E, c))
              = Cardinality(Charges(L, Running, evidenceSeq, c)) - 1
      BY <3>1, <3>2
    <3>6. QED
      BY <2>2, <2>3, <3>3, <3>4, <3>5
  <2>5. CASE L[c].seq # evidenceSeq[s]
    <3>1. Charges(M, Running \ {s}, E, c) = Charges(L, Running, evidenceSeq, c)
      BY <1>4, <2>1, <2>5 DEF Charges
    <3>2. M[c].left = L[c].left
      BY <1>1, <1>2, <2>1, <2>5
    <3>3. QED
      BY <2>2, <3>1, <3>2
  <2>6. QED
    BY <2>4, <2>5
<1>7. QED
  BY <1>3, <1>5, <1>6

\* Nothing is sent or settled: a ledger is as it was, or passed its reset, or is gone.
LEMMA RestingAllows ==
    ASSUME LedgerSound, Running' = Running, evidenceSeq' = evidenceSeq, allowed' = allowed,
           \A b \in Buckets :
               buckets'[b] # None =>
                   /\ buckets[b] # None
                   /\ buckets'[b].left = buckets[b].left /\ buckets'[b].seq = buckets[b].seq
    PROVE  LedgerSound'
<1>1. ASSUME NEW b \in Buckets
      PROVE  Allows(buckets', allowed', Running', evidenceSeq', b)
  <2>1. CASE buckets'[b] = None
    BY <2>1 DEF Allows
  <2>2. CASE buckets'[b] # None
    <3>1. /\ buckets[b] # None /\ buckets'[b].left = buckets[b].left
          /\ buckets'[b].seq = buckets[b].seq
      BY <2>2
    <3>2. Charges(buckets', Running', evidenceSeq', b) = Charges(buckets, Running, evidenceSeq, b)
      BY <3>1 DEF Charges
    <3>3. Allows(buckets, allowed, Running, evidenceSeq, b)
      BY LedgerIs
    <3>4. QED
      BY <2>2, <3>1, <3>2, <3>3 DEF Allows
  <2>3. QED
    BY <2>1, <2>2
<1>2. QED
  BY <1>1, LedgerIs

(***************************************************************************)
(* Admission                                                               *)
(***************************************************************************)

LEMMA LookedIs ==
    ASSUME buckets \in LedgerMaps, NEW s \in Steps
    PROVE  /\ Looked(s) \in LedgerMaps
           /\ \A b \in Buckets : Looked(s)[b] # None => Looked(s)[b] = buckets[b]
<1> DEFINE c == Bucket[s]
<1>1. c \in Buckets
  BY StepShape
<1>2. \/ Looked(s) = buckets
      \/ Looked(s) = [buckets EXCEPT ![c] = None]
      \/ Looked(s) = [buckets EXCEPT ![c] = buckets[c]]
  BY DEF Looked, Current
<1>3. QED
  BY <1>1, <1>2 DEF LedgerMaps

\* How many are under way of a kind is a number.
LEMMA CountIs ==
    ASSUME IsFiniteSet(Running)
    PROVE  /\ \A b : ReservedByBucket(b) \in Nat
           /\ \A b : UnknownRunning(b) \in Nat
           /\ \A s : RepoRunning(s) \in Nat
           /\ Cardinality(Running) \in Nat
           /\ Running = {} => /\ \A b : ReservedByBucket(b) = 0 /\ UnknownRunning(b) = 0
                              /\ \A s : RepoRunning(s) = 0
                              /\ Cardinality(Running) = 0
<1>1. ASSUME NEW b
      PROVE  /\ ReservedByBucket(b) \in Nat /\ UnknownRunning(b) \in Nat
             /\ Running = {} => ReservedByBucket(b) = 0 /\ UnknownRunning(b) = 0
  <2>1. /\ IsFiniteSet({s \in Running : Bucket[s] = b})
        /\ IsFiniteSet({t \in Running : Bucket[t] = b \/ buckets[Bucket[t]] = None})
    BY FS_Subset
  <2>2. Running = {} => /\ {s \in Running : Bucket[s] = b} = {}
                        /\ {t \in Running : Bucket[t] = b \/ buckets[Bucket[t]] = None} = {}
    OBVIOUS
  <2>3. QED
    BY <2>1, <2>2, FS_CardinalityType, FS_EmptySet DEF ReservedByBucket, UnknownRunning
<1>2. ASSUME NEW s
      PROVE  RepoRunning(s) \in Nat /\ (Running = {} => RepoRunning(s) = 0)
  <2>1. IsFiniteSet({t \in Running : Repo[t] = Repo[s]})
    BY FS_Subset
  <2>2. Running = {} => {t \in Running : Repo[t] = Repo[s]} = {}
    OBVIOUS
  <2>3. QED
    BY <2>1, <2>2, FS_CardinalityType, FS_EmptySet DEF RepoRunning
<1>3. QED
  BY <1>1, <1>2, FS_CardinalityType, FS_EmptySet

\* What makes a step wait is under way.
LEMMA FullMeansRunning ==
    ASSUME IsFiniteSet(Running), NEW s \in Steps
    PROVE  /\ Full(s) => Running # {}
           /\ MustWait(s) => Running # {}
BY CountIs, LanesAssumption DEF Full, MustWait

\* What is admitted finds room, and a ledger that has more left than is under way.
LEMMA AdmittedIs ==
    ASSUME buckets \in LedgerMaps, IsFiniteSet(Running), NEW s \in Steps, Admits(s)
    PROVE  /\ ~Full(s)
           /\ Looked(s)[Bucket[s]] # None =>
                  /\ Looked(s)[Bucket[s]].left > ReservedByBucket(Bucket[s])
                  /\ Looked(s)[Bucket[s]] = buckets[Bucket[s]]
<1> DEFINE c == Bucket[s]
<1>1. c \in Buckets /\ buckets[c] \in Ledgers \cup {None}
  BY StepShape DEF LedgerMaps
<1>2. ~Full(s)
  BY DEF Admits, MustWait
<1>3. ReservedByBucket(c) \in Nat
  BY CountIs
<1>4. CASE Exhausted(c)
  <2>1. ~(ReservedByBucket(c) > 0)
    BY <1>4 DEF Admits, MustWait
  <2>2. ReservedByBucket(c) = 0
    BY <1>3, <2>1
  <2>3. Current(c) # None /\ Current(c).reset # "ahead"
    BY <1>4 DEF Admits, Paused, Exhausted
  <2>4. Current(c) = buckets[c] /\ Current(c).reset # "passed" /\ Current(c) \in Ledgers
    BY <1>1, <2>3 DEF Current
  <2>5. Current(c).reset = "none"
    BY <2>3, <2>4 DEF Ledgers
  <2>6. Looked(s) = [buckets EXCEPT ![c] = None]
    BY <1>2, <1>4, <2>2, <2>5 DEF Looked
  <2>7. Looked(s)[c] = None
    BY <1>1, <2>6 DEF LedgerMaps
  <2>8. QED
    BY <1>2, <2>7
<1>5. CASE ~Exhausted(c)
  <2>1. Looked(s) = [buckets EXCEPT ![c] = Current(c)]
    BY <1>2, <1>5 DEF Looked
  <2>2. Looked(s)[c] = Current(c)
    BY <1>1, <2>1 DEF LedgerMaps
  <2>3. CASE Current(c) # None
    <3>1. ~(Current(c).left <= ReservedByBucket(c))
      BY <1>5, <2>3 DEF Exhausted
    <3>2. Current(c) = buckets[c] /\ Current(c).left \in Nat
      BY <1>1, <2>3, LanesAssumption DEF Current, Ledgers
    <3>3. QED
      BY <1>2, <1>3, <2>2, <3>1, <3>2
  <2>4. CASE Current(c) = None
    BY <1>2, <2>2, <2>4
  <2>5. QED
    BY <2>3, <2>4
<1>6. QED
  BY <1>4, <1>5

\* A step is sent under a ledger that allows one more.
LEMMA DispatchedAllows ==
    ASSUME EndTypes, LedgerInv, NEW s \in Steps, Admits(s), s \notin Running,
           Running' = Running \cup {s},
           buckets' = Looked(s),
           evidenceSeq' = [evidenceSeq EXCEPT ![s] =
               IF Looked(s)[Bucket[s]] = None THEN 0 ELSE Looked(s)[Bucket[s]].seq],
           allowed' = [allowed EXCEPT ![Bucket[s]] =
               IF Looked(s)[Bucket[s]] = None THEN 0 ELSE @ - 1]
    PROVE  /\ buckets' \in LedgerMaps /\ evidenceSeq' \in [Steps -> Nat]
           /\ allowed' \in [Buckets -> Int] /\ LedgerSound'
<1> DEFINE c == Bucket[s]
           ledger == Looked(s)[c]
<1>1. /\ c \in Buckets /\ buckets \in LedgerMaps /\ IsFiniteSet(Running)
      /\ allowed \in [Buckets -> Int] /\ evidenceSeq \in [Steps -> Nat] /\ Running \subseteq Steps
  BY StepShape, RunningIs DEF EndTypes, LedgerInv, LedgerTypes, LedgerMaps, RunningSound
<1>2. /\ Looked(s) \in LedgerMaps
      /\ \A b \in Buckets : Looked(s)[b] # None => Looked(s)[b] = buckets[b]
  BY <1>1, LookedIs
<1>3. ledger # None =>
          ledger \in Ledgers /\ ledger.left > ReservedByBucket(c) /\ ledger = buckets[c]
  BY <1>1, <1>2, AdmittedIs DEF LedgerMaps
<1>4. /\ evidenceSeq' \in [Steps -> Nat] /\ allowed' \in [Buckets -> Int]
      /\ evidenceSeq'[s] = IF ledger = None THEN 0 ELSE ledger.seq
      /\ \A t \in Running : evidenceSeq'[t] = evidenceSeq[t]
      /\ allowed'[c] = IF ledger = None THEN 0 ELSE allowed[c] - 1
      /\ \A b \in Buckets : b # c => allowed'[b] = allowed[b]
  BY <1>1, <1>3 DEF Ledgers
<1>5. ASSUME NEW b \in Buckets PROVE Allows(buckets', allowed', Running', evidenceSeq', b)
  <2> SUFFICES ASSUME buckets'[b] # None
               PROVE  /\ allowed'[b] >= 0
                      /\ allowed'[b] >= buckets'[b].left
                             - Cardinality(Charges(buckets', Running', evidenceSeq', b))
    BY DEF Allows
  <2>1. buckets'[b] = buckets[b] /\ buckets[b] # None
    BY <1>2
  <2> DEFINE C == Charges(buckets, Running, evidenceSeq, b)
  <2>2. /\ allowed[b] >= 0 /\ allowed[b] >= buckets[b].left - Cardinality(C)
        /\ IsFiniteSet(C) /\ Cardinality(C) \in Nat
        /\ allowed[b] \in Int /\ buckets[b].left \in Nat
    <3>1. Allows(buckets, allowed, Running, evidenceSeq, b)
      BY LedgerIs DEF LedgerInv
    <3>2. IsFiniteSet(C) /\ Cardinality(C) \in Nat
      BY <1>1, FS_Subset, FS_CardinalityType DEF Charges
    <3>3. buckets[b].left \in Nat
      BY <1>1, <2>1, LanesAssumption DEF LedgerMaps, Ledgers
    <3>4. QED
      BY <1>1, <2>1, <3>1, <3>2, <3>3 DEF Allows
  <2>3. CASE b # c
    <3>1. Charges(buckets', Running', evidenceSeq', b) = C
      BY <1>4, <2>1, <2>3 DEF Charges
    <3>2. QED
      BY <1>4, <2>1, <2>2, <2>3, <3>1
  <2>4. CASE b = c
    <3>1. ledger # None /\ ledger = buckets[c]
      BY <1>2, <2>1, <2>4
    <3>2. Charges(buckets', Running', evidenceSeq', b) = C \cup {s} /\ s \notin C
      <4>1. buckets'[b].seq = ledger.seq /\ evidenceSeq'[s] = ledger.seq
        BY <1>4, <2>1, <2>4, <3>1
      <4>2. QED
        BY <1>4, <2>1, <2>4, <4>1 DEF Charges
    <3>3. Cardinality(C \cup {s}) = Cardinality(C) + 1
      <4> HIDE DEF C
      <4>1. QED
        BY <2>2, <3>2, FS_AddElement
    <3>4. Cardinality(C) <= ReservedByBucket(c) /\ ReservedByBucket(c) \in Nat
      <4>1. C \subseteq {t \in Running : Bucket[t] = c}
        BY <2>4 DEF Charges
      <4>2. IsFiniteSet({t \in Running : Bucket[t] = c})
        BY <1>1, FS_Subset
      <4>3. Cardinality(C) <= Cardinality({t \in Running : Bucket[t] = c})
        BY <4>1, <4>2, FS_Subset
      <4>4. QED
        BY <4>2, <4>3, FS_CardinalityType DEF ReservedByBucket
    <3>5. buckets[b].left > Cardinality(C)
      BY <1>3, <2>2, <2>4, <3>1, <3>4
    <3>6. allowed'[b] = allowed[b] - 1
      BY <1>4, <2>4, <3>1
    <3>7. Cardinality(Charges(buckets', Running', evidenceSeq', b)) = Cardinality(C) + 1
      BY <3>2, <3>3
    <3>8. buckets'[b].left = buckets[b].left
      BY <2>1
    <3> HIDE DEF C
    <3>9. allowed[b] - 1 >= 0 /\ allowed[b] - 1 >= buckets[b].left - (Cardinality(C) + 1)
      BY <2>2, <3>5
    <3>10. QED
      BY <3>6, <3>7, <3>8, <3>9
  <2>5. QED
    BY <2>3, <2>4
<1>6. QED
  BY <1>2, <1>4, <1>5, LedgerIs

(***************************************************************************)
(* The ends of requests, step by step                                      *)
(***************************************************************************)

LEMMA AnswerIs ==
    ASSUME promise \in [Steps -> Answers \cup {None}], NEW ss, NEW kind \in Answers
    PROVE  /\ FirstAnswer(promise, ss, kind) \in [Steps -> Answers \cup {None}]
           /\ \A s \in Steps : FirstAnswer(promise, ss, kind)[s] =
                  IF s \in ss /\ promise[s] = None THEN kind ELSE promise[s]
           /\ kind # None
BY AnswersAssumption DEF FirstAnswer

LEMMA NotedIs ==
    ASSUME NEW terms \in [LogicalRequests -> Terminals \cup {None}], NEW rs, NEW kind \in Terminals
    PROVE  /\ Noted(terms, rs, kind) \in [LogicalRequests -> Terminals \cup {None}]
           /\ \A r \in LogicalRequests : Noted(terms, rs, kind)[r] =
                  IF r \in rs /\ terms[r] = None THEN kind ELSE terms[r]
           /\ kind # None
BY AnswersAssumption DEF Noted

LEMMA NeverKept ==
    ASSUME NEW r \in WriteRequests, NeverLands(r), r \notin landed',
           \/ stepAt'[<<r, 0>>] = stepAt[<<r, 0>>]
           \/ stepAt'[<<r, 0>>] = "over",
           closing # "open" => closing' # "open",
           progress[r] = "ended" => progress'[r] = "ended"
    PROVE  NeverLands(r)'
BY DEF NeverLands

LEMMA EndKept ==
    ASSUME NEW r \in WriteRequests, EndSound(r), NeverLands(r) => NeverLands(r)',
           result'[r] = result[r], terminal'[r] = terminal[r], r \in landed => r \in landed',
           \A t \in Reads(r) : promise[t] \in {"expired", "woken"} => promise'[t] = promise[t],
           promise'[<<r, 0>>] \in {"closed", "woken", "rejected"} =>
               promise'[<<r, 0>>] = promise[<<r, 0>>] \/ NeverLands(r)'
    PROVE  EndSound(r)'
BY DEF EndSound

\* A sealed gateway notes a terminal for every request, and forgets none.
LEMMA SealKept ==
    ASSUME SealSound, closing' = closing, progress' = progress, result' = result,
           \A r \in LogicalRequests : terminal[r] # None => terminal'[r] # None
    PROVE  SealSound'
BY DEF SealSound, Declared

\* Only the first of the steps of a request with a stage of its own moves.
LEMMA UnbornKept ==
    ASSUME NEW s \in Steps, stepAt[s] # "unborn", NEW ss, ss \subseteq Steps, Unborn(ss),
           \A t \in Steps : t # s => stepAt'[t] = stepAt[t]
    PROVE  Unborn(ss)'
BY DEF Unborn

LEMMA PacingApart ==
    ASSUME EndInv, NEW s \in Steps, NEW r \in LogicalRequests, r # Of(s), pacing[r] # None
    PROVE  pacing[r] # s /\ pacing[r] \in Steps
<1>1. pacing[r] \in StepsOf(r)
  BY DEF EndInv, RequestSound
<1>2. Of(pacing[r]) = r /\ pacing[r] \in Steps
  BY <1>1, RequestShape
<1>3. QED
  BY <1>2

\* A step that is given up: what it was of is interrupted, or is a read, or has a terminal.
LEMMA GivenUpEnds ==
    ASSUME EndInv, NEW s \in Steps, stepAt[s] \in {"waiting", "held"},
           NEW kind \in {"expired", "limited", "woken"}, NEW end \in {"interrupted", "rate-limited"},
           end = "interrupted" => kind \in {"expired", "woken"},
           stepAt[s] = "held" => ~Continues(Of(s)),
           stepAt' = [stepAt EXCEPT ![s] = "over"],
           promise' = FirstAnswer(promise, {s}, kind),
           terminal' = Noted(terminal, {Of(s)}, end),
           pacing' = [pacing EXCEPT ![Of(s)] = None],
           UNCHANGED <<progress, result, closing, landed>>
    PROVE  EndInv'
<1> DEFINE q == Of(s)
<1>0. EndTypes /\ StepSound(s) /\ q \in LogicalRequests /\ RequestSound(q)
  BY StepShape DEF EndInv
<1>1. /\ stepAt' \in [Steps -> Stages] /\ stepAt'[s] = "over"
      /\ \A t \in Steps : t # s => stepAt'[t] = stepAt[t]
  BY <1>0 DEF EndTypes, Stages
<1>2. /\ promise' \in [Steps -> Answers \cup {None}] /\ promise'[s] # None
      /\ promise[s] = None => promise'[s] = kind
      /\ promise[s] # None => promise'[s] = promise[s]
      /\ \A t \in Steps : t # s => promise'[t] = promise[t]
  BY <1>0, AnswerIs DEF EndTypes, Answers
<1>3. /\ terminal' \in [LogicalRequests -> Terminals \cup {None}]
      /\ \A r \in LogicalRequests :
             terminal'[r] = IF r = q /\ terminal[r] = None THEN end ELSE terminal[r]
      /\ end # None
  BY <1>0, NotedIs DEF EndTypes, Terminals
<1>4. EndTypes'
  BY <1>0, <1>1, <1>2, <1>3 DEF EndTypes
<1>5. ASSUME NEW t \in Steps PROVE StepSound(t)'
  BY <1>1, <1>2 DEF EndInv, StepSound
<1>6. ASSUME NEW r \in LogicalRequests PROVE RequestSound(r)'
  <2>1. RequestSound(r)
    BY DEF EndInv
  <2>2. pacing'[r] # None => pacing'[r] \in StepsOf(r) /\ stepAt'[pacing'[r]] = "held"
    <3>1. CASE r = q
      BY <1>0, <3>1 DEF EndTypes
    <3>2. CASE r # q
      BY <1>0, <1>1, <2>1, <3>2, PacingApart DEF EndTypes, RequestSound
    <3>3. QED
      BY <3>1, <3>2
  <2>3. \A ss \in {StepsOf(r), Reads(r)} : Unborn(ss) => Unborn(ss)'
    BY <1>1, UnbornKept, RequestShape
  <2>4. r \in landed => stepAt'[<<r, 0>>] \in {"upstream", "over"}
    BY <1>0, <1>1, <2>1, WriteShape DEF RequestSound, EndTypes
  <2>5. terminal[r] # None => terminal'[r] # None
    BY <1>3
  <2>6. QED
    BY <2>1, <2>2, <2>3, <2>4, <2>5 DEF RequestSound
<1>7. ASSUME NEW r \in WriteRequests PROVE EndSound(r)'
  <2>0. EndSound(r) /\ r \in LogicalRequests /\ <<r, 0>> \in Steps
    BY WriteShape DEF EndInv
  <2>1. s = <<r, 0>> => NeverLands(r)'
    BY <1>0, <1>1, WriteShape DEF NeverLands, RequestSound, EndTypes
  <2>2. NeverLands(r) => NeverLands(r)'
    BY <1>1, <2>0, NeverKept DEF NeverLands
  <2>3. /\ \A t \in Reads(r) : promise[t] \in {"expired", "woken"} => promise'[t] = promise[t]
        /\ promise'[<<r, 0>>] = promise[<<r, 0>>] \/ NeverLands(r)'
    BY <1>2, <2>0, <2>1, RequestShape, AnswersAssumption DEF Answers
  <2>4. CASE terminal'[r] = terminal[r]
    BY <2>0, <2>2, <2>3, <2>4, EndKept
  <2>5. CASE terminal'[r] # terminal[r]
    <3>1. r = q /\ terminal[r] = None /\ terminal'[r] = end
      BY <1>3, <2>0, <2>5
    <3>2. CASE Send(s)
      <4>1. NeverLands(r)'
        BY <2>1, <3>1, <3>2, StepShape
      <4>2. QED
        BY <2>0, <3>1, <4>1 DEF EndSound
    <3>3. CASE ~Send(s) /\ promise[s] = None
      <4>1. s \in Reads(r) /\ promise'[s] = kind
        BY <1>2, <3>1, <3>3, StepShape
      <4>2. QED
        BY <2>0, <2>2, <2>3, <3>1, <4>1 DEF EndSound
    <3>4. CASE ~Send(s) /\ promise[s] # None
      <4>1. stepAt[s] = "held" /\ promise[s] = "closed" /\ s \in Reads(q) /\ s \in StepsOf(q)
        BY <1>0, <3>4, StepShape DEF StepSound
      <4>2. progress[q] # "reading"
        BY <4>1, AnswersAssumption DEF Continues, Answers
      <4>3. progress[q] \notin {"new", "queued", "marking", "sending"} /\ result[q] # "refused"
        BY <1>0, <4>1 DEF RequestSound, Unborn
      <4>4. progress[q] = "ended"
        BY <1>0, <4>2, <4>3 DEF EndTypes, Phases
      <4>5. QED
        BY <1>0, <3>1, <4>3, <4>4 DEF RequestSound
    <3>5. QED
      BY <3>2, <3>3, <3>4
  <2>6. QED
    BY <2>4, <2>5
<1>8. SealSound'
  BY <1>3, SealKept DEF EndInv
<1>9. QED
  BY <1>4, <1>5, <1>6, <1>7, <1>8 DEF EndInv

\* A step that a loop takes, or goes on with, and that is not given up.
LEMMA MovedEnds ==
    ASSUME EndInv, NEW s \in Steps, stepAt[s] \in {"waiting", "held"},
           stepAt[s] = "held" => closing = "open",
           NEW to \in {"waiting", "held", "dispatched"},
           stepAt' = [stepAt EXCEPT ![s] = to],
           pacing' = [pacing EXCEPT ![Of(s)] = IF to = "held" THEN s ELSE None],
           UNCHANGED <<promise, terminal, progress, result, closing, landed>>
    PROVE  EndInv'
<1> DEFINE q == Of(s)
<1>0. /\ EndTypes /\ StepSound(s) /\ q \in LogicalRequests /\ s \in StepsOf(q)
      /\ closing = "open" /\ promise[s] = None
  BY StepShape DEF EndInv, StepSound
<1>1. /\ stepAt' \in [Steps -> Stages] /\ stepAt'[s] = to
      /\ \A t \in Steps : t # s => stepAt'[t] = stepAt[t]
  BY <1>0 DEF EndTypes, Stages
<1>2. EndTypes'
  BY <1>0, <1>1 DEF EndTypes
<1>3. ASSUME NEW t \in Steps PROVE StepSound(t)'
  BY <1>0, <1>1 DEF EndInv, StepSound
<1>4. ASSUME NEW r \in LogicalRequests PROVE RequestSound(r)'
  <2>1. RequestSound(r)
    BY DEF EndInv
  <2>2. pacing'[r] # None => pacing'[r] \in StepsOf(r) /\ stepAt'[pacing'[r]] = "held"
    <3>1. CASE r = q
      BY <1>0, <1>1, <3>1 DEF EndTypes
    <3>2. CASE r # q
      BY <1>0, <1>1, <2>1, <3>2, PacingApart DEF EndTypes, RequestSound
    <3>3. QED
      BY <3>1, <3>2
  <2>3. \A ss \in {StepsOf(r), Reads(r)} : Unborn(ss) => Unborn(ss)'
    BY <1>1, UnbornKept, RequestShape
  <2>4. r \in landed => stepAt'[<<r, 0>>] \in {"upstream", "over"}
    BY <1>0, <1>1, <2>1, WriteShape DEF RequestSound, EndTypes
  <2>5. QED
    BY <2>1, <2>2, <2>3, <2>4 DEF RequestSound
<1>5. ASSUME NEW r \in WriteRequests PROVE EndSound(r)'
  <2>1. EndSound(r) /\ r \in LogicalRequests /\ <<r, 0>> \in Steps
    BY WriteShape DEF EndInv
  <2>2. NeverLands(r) => NeverLands(r)'
    BY <1>0, <1>1, <2>1, NeverKept DEF NeverLands
  <2>3. QED
    BY <1>0, <2>1, <2>2, EndKept DEF EndTypes
<1>6. SealSound'
  BY SealKept DEF EndInv
<1>7. QED
  BY <1>2, <1>3, <1>4, <1>5, <1>6 DEF EndInv

\* A step that settles: a write that was refused has not landed, and is over.
LEMMA SettledEnds ==
    ASSUME EndInv, NEW s \in Steps, stepAt[s] \in {"dispatched", "upstream"},
           NEW kind \in {"value", "rejected", "limited", "lost"},
           kind = "rejected" => (Send(s) => Of(s) \notin landed),
           stepAt' = [stepAt EXCEPT ![s] = "over"],
           promise' = FirstAnswer(promise, {s}, kind),
           UNCHANGED <<pacing, terminal, progress, result, closing, landed>>
    PROVE  EndInv'
<1> DEFINE q == Of(s)
<1>0. /\ EndTypes /\ StepSound(s) /\ q \in LogicalRequests /\ s \in StepsOf(q)
      /\ promise[s] \in {None, "cut"}
  BY StepShape DEF EndInv, StepSound
<1>1. /\ stepAt' \in [Steps -> Stages] /\ stepAt'[s] = "over"
      /\ \A t \in Steps : t # s => stepAt'[t] = stepAt[t]
  BY <1>0 DEF EndTypes, Stages
<1>2. /\ promise' \in [Steps -> Answers \cup {None}] /\ promise'[s] \in {kind, "cut"}
      /\ promise'[s] # None
      /\ \A t \in Steps : t # s => promise'[t] = promise[t]
  BY <1>0, AnswerIs, AnswersAssumption DEF EndTypes, Answers
<1>3. EndTypes'
  BY <1>0, <1>1, <1>2 DEF EndTypes
<1>4. ASSUME NEW t \in Steps PROVE StepSound(t)'
  BY <1>1, <1>2 DEF EndInv, StepSound
<1>5. ASSUME NEW r \in LogicalRequests PROVE RequestSound(r)'
  <2>1. RequestSound(r)
    BY DEF EndInv
  <2>2. pacing[r] # None => pacing[r] \in Steps /\ pacing[r] # s
    BY <2>1, RequestShape DEF RequestSound
  <2>3. \A ss \in {StepsOf(r), Reads(r)} : Unborn(ss) => Unborn(ss)'
    BY <1>1, UnbornKept, RequestShape
  <2>4. r \in landed => stepAt'[<<r, 0>>] \in {"upstream", "over"}
    BY <1>0, <1>1, <2>1, WriteShape DEF RequestSound, EndTypes
  <2>5. QED
    BY <1>1, <2>1, <2>2, <2>3, <2>4 DEF RequestSound
<1>6. ASSUME NEW r \in WriteRequests PROVE EndSound(r)'
  <2>1. EndSound(r) /\ r \in LogicalRequests /\ <<r, 0>> \in Steps
    BY WriteShape DEF EndInv
  <2>2. NeverLands(r) => NeverLands(r)'
    BY <1>1, <2>1, NeverKept DEF NeverLands
  <2>3. \A t \in Reads(r) : promise[t] \in {"expired", "woken"} => promise'[t] = promise[t]
    <3>1. "expired" # None /\ "woken" # None
      BY AnswersAssumption DEF Answers
    <3>2. Reads(r) \subseteq Steps
      BY <2>1, RequestShape
    <3>3. QED
      BY <1>0, <1>2, <3>1, <3>2
  <2>4. promise'[<<r, 0>>] \in {"closed", "woken", "rejected"} =>
            promise'[<<r, 0>>] = promise[<<r, 0>>] \/ NeverLands(r)'
    <3>1. CASE s = <<r, 0>>
      BY <1>1, <1>2, <3>1, WriteShape DEF NeverLands
    <3>2. CASE s # <<r, 0>>
      BY <1>2, <2>1, <3>2
    <3>3. QED
      BY <3>1, <3>2
  <2>5. QED
    BY <2>1, <2>2, <2>3, <2>4, EndKept
<1>7. SealSound'
  BY SealKept DEF EndInv
<1>8. QED
  BY <1>3, <1>4, <1>5, <1>6, <1>7 DEF EndInv

\* A step is sent, or GitHub executes it.
LEMMA SentEnds ==
    ASSUME EndInv, NEW s \in Steps,
           \/ /\ stepAt[s] = "dispatched" /\ stepAt' = [stepAt EXCEPT ![s] = "upstream"]
              /\ UNCHANGED landed
           \/ /\ stepAt[s] = "upstream" /\ Send(s) /\ landed' = landed \cup {Of(s)}
              /\ UNCHANGED stepAt,
           UNCHANGED <<promise, pacing, terminal, progress, result, closing>>
    PROVE  EndInv'
<1>0. EndTypes /\ StepSound(s)
  BY DEF EndInv
<1>1. /\ stepAt' \in [Steps -> Stages] /\ stepAt'[s] = "upstream"
      /\ stepAt[s] \in {"dispatched", "upstream"}
      /\ \A t \in Steps : t # s => stepAt'[t] = stepAt[t]
  BY <1>0 DEF EndTypes, Stages
<1>2. /\ landed \subseteq landed' /\ landed' \subseteq WriteRequests
      /\ \A r \in landed' : r \in landed \/ s = <<r, 0>>
  BY <1>0, StepShape DEF EndTypes
<1>3. EndTypes'
  BY <1>0, <1>1, <1>2 DEF EndTypes
<1>4. ASSUME NEW t \in Steps PROVE StepSound(t)'
  BY <1>1 DEF EndInv, StepSound
<1>5. ASSUME NEW r \in LogicalRequests PROVE RequestSound(r)'
  <2>1. RequestSound(r)
    BY DEF EndInv
  <2>2. pacing[r] # None => pacing[r] \in Steps /\ pacing[r] # s
    BY <1>1, <2>1, RequestShape DEF RequestSound
  <2>3. \A ss \in {StepsOf(r), Reads(r)} : Unborn(ss) => Unborn(ss)'
    BY <1>1, UnbornKept, RequestShape
  <2>4. r \in landed' => stepAt'[<<r, 0>>] \in {"upstream", "over"}
    BY <1>1, <1>2, <2>1, WriteShape DEF RequestSound
  <2>5. QED
    BY <1>1, <2>1, <2>2, <2>3, <2>4 DEF RequestSound
<1>6. ASSUME NEW r \in WriteRequests PROVE EndSound(r)'
  <2>1. EndSound(r) /\ r \in LogicalRequests /\ <<r, 0>> \in Steps
    BY WriteShape DEF EndInv
  <2>2. NeverLands(r) => NeverLands(r)'
    BY <1>1, <1>2, <2>1, NeverKept DEF NeverLands
  <2>3. QED
    BY <1>2, <2>1, <2>2, EndKept
<1>7. SealSound'
  BY SealKept DEF EndInv
<1>8. QED
  BY <1>3, <1>4, <1>5, <1>6, <1>7 DEF EndInv

\* A response is parsed.
LEMMA ParsedEnds ==
    ASSUME EndInv, NEW s \in Steps, ~Send(s), promise[s] = "value",
           promise' = [promise EXCEPT ![s] = "parsed"],
           UNCHANGED <<stepAt, pacing, terminal, progress, result, closing, landed>>
    PROVE  EndInv'
<1>1. /\ EndTypes /\ "value" # None /\ "parsed" # None
      /\ promise' \in [Steps -> Answers \cup {None}] /\ promise'[s] = "parsed"
      /\ \A t \in Steps : t # s => promise'[t] = promise[t]
  BY AnswersAssumption DEF EndInv, EndTypes, Answers
<1>2. EndTypes'
  BY <1>1 DEF EndTypes
<1>3. ASSUME NEW t \in Steps PROVE StepSound(t)'
  BY <1>1 DEF EndInv, StepSound
<1>4. ASSUME NEW r \in LogicalRequests PROVE RequestSound(r)'
  BY DEF EndInv, RequestSound, Unborn
<1>5. ASSUME NEW r \in WriteRequests PROVE EndSound(r)'
  <2>1. EndSound(r) /\ <<r, 0>> \in Steps /\ <<r, 0>> # s
    BY WriteShape DEF EndInv
  <2>2. NeverLands(r) => NeverLands(r)'
    BY DEF NeverLands
  <2>3. QED
    BY <1>1, <2>1, <2>2, EndKept, RequestShape, WriteShape
<1>6. SealSound'
  BY SealKept DEF EndInv
<1>7. QED
  BY <1>2, <1>3, <1>4, <1>5, <1>6 DEF EndInv

LEMMA RestEnds ==
    ASSUME EndInv, UNCHANGED <<stepAt, promise, pacing, terminal, progress, result, closing, landed>>
    PROVE  EndInv'
BY DEF EndInv, EndTypes, StepSound, RequestSound, EndSound, SealSound, NeverLands, Unborn, Declared

\* A request goes on, alone: its steps that were not yet born are submitted, or none is.
LEMMA RequestActs ==
    ASSUME EndInv, NEW q \in LogicalRequests, NEW to \in Phases, progress[q] # "ended",
           progress' = [progress EXCEPT ![q] = to],
           NEW ss \in SUBSET StepsOf(q), Unborn(ss),
           \/ UNCHANGED stepAt
           \/ /\ closing = "open"
              /\ stepAt' = [t \in Steps |-> IF t \in ss THEN "waiting" ELSE stepAt[t]],
           terminal' \in [LogicalRequests -> Terminals \cup {None}],
           result' \in [LogicalRequests -> Results \cup {None}],
           \A r \in LogicalRequests : r # q => terminal'[r] = terminal[r] /\ result'[r] = result[r],
           terminal[q] # None => terminal'[q] = terminal[q],
           progress[q] = "new" => closing = "open" \/ result'[q] = "refused",
           UNCHANGED <<promise, pacing, closing, landed>>
    PROVE  /\ EndTypes' /\ SealSound'
           /\ \A t \in Steps : StepSound(t)'
           /\ \A r \in LogicalRequests : r # q => RequestSound(r)'
           /\ \A r \in WriteRequests : r # q => EndSound(r)'
           /\ pacing'[q] # None => pacing'[q] \in StepsOf(q) /\ stepAt'[pacing'[q]] = "held"
           /\ q \in landed' => stepAt'[<<q, 0>>] \in {"upstream", "over"}
           /\ progress'[q] = to
<1>0. /\ EndTypes /\ RequestSound(q) /\ ss \subseteq Steps
      /\ \A t \in ss : Of(t) = q /\ stepAt[t] = "unborn"
  BY RequestShape DEF EndInv, Unborn
<1>1. /\ stepAt' \in [Steps -> Stages]
      /\ \A t \in Steps : \/ stepAt'[t] = stepAt[t]
                          \/ /\ t \in ss /\ stepAt'[t] = "waiting" /\ stepAt[t] = "unborn"
                             /\ closing = "open"
  BY <1>0 DEF EndTypes, Stages
<1>2. /\ progress'[q] = to
      /\ \A r \in LogicalRequests : r # q => progress'[r] = progress[r]
  BY <1>0 DEF EndTypes
<1>3. EndTypes'
  BY <1>0, <1>1, <1>2 DEF EndTypes
<1>4. ASSUME NEW t \in Steps PROVE StepSound(t)'
  BY <1>1 DEF EndInv, StepSound
<1>5. ASSUME NEW r \in LogicalRequests, r # q PROVE RequestSound(r)'
  <2>1. RequestSound(r)
    BY DEF EndInv
  <2>2. \A t \in StepsOf(r) : t \in Steps /\ stepAt'[t] = stepAt[t]
    BY <1>0, <1>1, <1>5, RequestShape
  <2>3. pacing[r] # None => stepAt'[pacing[r]] = stepAt[pacing[r]]
    BY <2>1, <2>2 DEF RequestSound
  <2>4. r \in landed => stepAt'[<<r, 0>>] = stepAt[<<r, 0>>]
    BY <1>0, <2>2, WriteShape DEF EndTypes
  <2>5. (Unborn(StepsOf(r)) => Unborn(StepsOf(r))') /\ (Unborn(Reads(r)) => Unborn(Reads(r))')
    BY <2>2 DEF Unborn, StepsOf
  <2>6. QED
    BY <1>2, <1>5, <2>1, <2>3, <2>4, <2>5 DEF RequestSound
<1>6. ASSUME NEW r \in WriteRequests, r # q PROVE EndSound(r)'
  <2>1. EndSound(r) /\ r \in LogicalRequests /\ <<r, 0>> \in Steps /\ Of(<<r, 0>>) = r
    BY WriteShape DEF EndInv
  <2>2. stepAt'[<<r, 0>>] = stepAt[<<r, 0>>]
    BY <1>0, <1>1, <1>6, <2>1
  <2>3. NeverLands(r) => NeverLands(r)'
    BY <1>2, <1>6, <2>1, <2>2, NeverKept DEF NeverLands
  <2>4. QED
    BY <1>6, <2>1, <2>3, EndKept
<1>7. SealSound'
  <2> SUFFICES ASSUME closing = "sealed", NEW r \in LogicalRequests,
                      progress'[r] # "new", result'[r] # "refused"
               PROVE  terminal'[r] # None
    BY DEF SealSound, Declared
  <2>1. r \in Declared
    <3>1. CASE r = q
      <4>1. progress[q] # "new"
        BY <3>1
      <4>2. result[q] = None
        BY <1>0 DEF RequestSound
      <4>3. None # "refused"
        BY AnswersAssumption DEF Results
      <4>4. QED
        BY <3>1, <4>1, <4>2, <4>3 DEF Declared
    <3>2. CASE r # q
      BY <1>2, <3>2 DEF Declared
    <3>3. QED
      BY <3>1, <3>2
  <2>2. QED
    BY <2>1 DEF EndInv, SealSound
<1>8. q \in landed' => stepAt'[<<q, 0>>] \in {"upstream", "over"}
  BY <1>0, <1>1, WriteShape DEF RequestSound, EndTypes
<1>9. pacing'[q] # None => pacing'[q] \in StepsOf(q) /\ stepAt'[pacing'[q]] = "held"
  BY <1>0, <1>1, RequestShape DEF RequestSound
<1>10. QED
  BY <1>2, <1>3, <1>4, <1>5, <1>6, <1>7, <1>8, <1>9

LEMMA EndsAre ==
    ASSUME EndTypes, NEW q \in LogicalRequests, NEW kind \in Terminals, NEW tells \in Results,
           Ends(q, kind, tells)
    PROVE  /\ progress' = [progress EXCEPT ![q] = "ended"]
           /\ terminal' \in [LogicalRequests -> Terminals \cup {None}]
           /\ result' \in [LogicalRequests -> Results \cup {None}]
           /\ \A r \in LogicalRequests : r # q => terminal'[r] = terminal[r] /\ result'[r] = result[r]
           /\ terminal'[q] = IF terminal[q] = None THEN kind ELSE terminal[q]
           /\ terminal'[q] # None /\ result'[q] = tells
<1>1. /\ terminal' \in [LogicalRequests -> Terminals \cup {None}] /\ kind # None
      /\ \A r \in LogicalRequests :
             terminal'[r] = IF r = q /\ terminal[r] = None THEN kind ELSE terminal[r]
  BY NotedIs DEF Ends, EndTypes
<1>2. QED
  BY <1>1 DEF Ends, EndTypes

\* A request ends without a step of its own: a write is told that it has not happened
\* only if it cannot any more.
LEMMA EndedEnds ==
    ASSUME EndInv, NEW q \in LogicalRequests, NEW kind \in Terminals, NEW tells \in Results,
           progress[q] # "new", progress[q] # "ended", tells # "refused",
           Ends(q, kind, tells), UNCHANGED <<stepAt, promise, pacing, closing, landed>>,
           q \in WriteRequests /\ kind \in {"failed", "interrupted"} => NeverLands(q)',
           q \in WriteRequests /\ tells = "failed" => NeverLands(q)',
           q \in WriteRequests /\ tells = "confirmed" => q \in landed
    PROVE  EndInv'
<1>0. EndTypes /\ RequestSound(q)
  BY DEF EndInv
<1>1. /\ progress' = [progress EXCEPT ![q] = "ended"]
      /\ terminal' \in [LogicalRequests -> Terminals \cup {None}]
      /\ result' \in [LogicalRequests -> Results \cup {None}]
      /\ \A r \in LogicalRequests : r # q => terminal'[r] = terminal[r] /\ result'[r] = result[r]
      /\ terminal'[q] = IF terminal[q] = None THEN kind ELSE terminal[q]
      /\ terminal'[q] # None /\ result'[q] = tells
  BY <1>0, EndsAre
<1>2. PICK ss \in SUBSET StepsOf(q) : Unborn(ss)
  <2>1. {} \in SUBSET StepsOf(q) /\ Unborn({})
    BY DEF Unborn
  <2>2. QED
    BY <2>1
<1>3. /\ EndTypes' /\ SealSound'
      /\ \A t \in Steps : StepSound(t)'
      /\ \A r \in LogicalRequests : r # q => RequestSound(r)'
      /\ \A r \in WriteRequests : r # q => EndSound(r)'
      /\ pacing'[q] # None => pacing'[q] \in StepsOf(q) /\ stepAt'[pacing'[q]] = "held"
      /\ q \in landed' => stepAt'[<<q, 0>>] \in {"upstream", "over"}
      /\ progress'[q] = "ended"
  <2>1. "ended" \in Phases /\ (terminal[q] # None => terminal'[q] = terminal[q])
    BY <1>1 DEF Phases
  <2>2. /\ UNCHANGED stepAt /\ UNCHANGED <<promise, pacing, closing, landed>>
        /\ progress[q] = "new" => closing = "open" \/ result'[q] = "refused"
    OBVIOUS
  <2> DEFINE to == "ended"
  <2> HIDE DEF to
  <2>3. to \in Phases /\ progress' = [progress EXCEPT ![q] = to]
    BY <1>1, <2>1 DEF to
  <2>4. /\ EndTypes' /\ SealSound'
        /\ \A t \in Steps : StepSound(t)'
        /\ \A r \in LogicalRequests : r # q => RequestSound(r)'
        /\ \A r \in WriteRequests : r # q => EndSound(r)'
        /\ pacing'[q] # None => pacing'[q] \in StepsOf(q) /\ stepAt'[pacing'[q]] = "held"
        /\ q \in landed' => stepAt'[<<q, 0>>] \in {"upstream", "over"}
        /\ progress'[q] = to
    BY <1>1, <1>2, <2>1, <2>2, <2>3, RequestActs
  <2>5. QED
    BY <2>4 DEF to
<1>4. RequestSound(q)'
  BY <1>1, <1>3 DEF RequestSound
<1>5. ASSUME q \in WriteRequests PROVE EndSound(q)'
  <2>1. EndSound(q)
    BY <1>5 DEF EndInv
  <2>2. NeverLands(q) => NeverLands(q)'
    BY <1>3 DEF NeverLands
  <2>3. QED
    BY <1>1, <1>5, <2>1, <2>2 DEF EndSound
<1>6. QED
  BY <1>3, <1>4, <1>5 DEF EndInv

\* A request that goes on submits nothing, or its own steps while the gateway is open.
LEMMA GoesEnds ==
    ASSUME EndInv, NEW q \in LogicalRequests,
           NEW to \in {"queued", "marking", "sending", "reading"},
           progress[q] # "ended", Goes(q, to),
           NEW ss \in SUBSET StepsOf(q), Unborn(ss),
           \/ UNCHANGED stepAt
           \/ /\ closing = "open"
              /\ stepAt' = [t \in Steps |-> IF t \in ss THEN "waiting" ELSE stepAt[t]],
           progress[q] = "new" => closing = "open",
           to \in {"queued", "marking", "sending"} => q \in WriteRequests,
           to \in {"queued", "marking"} => UNCHANGED stepAt /\ Unborn(StepsOf(q)),
           to = "sending" => ss = Sends(q) /\ Unborn(StepsOf(q)),
           UNCHANGED <<promise, pacing, closing, landed>>
    PROVE  EndInv'
<1>0. EndTypes /\ RequestSound(q) /\ to \in Phases
  BY DEF EndInv, Phases
<1>1. /\ progress' = [progress EXCEPT ![q] = to] /\ terminal' = terminal /\ result' = result
      /\ terminal' \in [LogicalRequests -> Terminals \cup {None}]
      /\ result' \in [LogicalRequests -> Results \cup {None}]
  BY <1>0 DEF Goes, EndTypes
<1>2. /\ EndTypes' /\ SealSound'
      /\ \A t \in Steps : StepSound(t)'
      /\ \A r \in LogicalRequests : r # q => RequestSound(r)'
      /\ \A r \in WriteRequests : r # q => EndSound(r)'
      /\ pacing'[q] # None => pacing'[q] \in StepsOf(q) /\ stepAt'[pacing'[q]] = "held"
      /\ q \in landed' => stepAt'[<<q, 0>>] \in {"upstream", "over"}
      /\ progress'[q] = to
  BY <1>0, <1>1, RequestActs
<1>3. result[q] = None
  BY <1>0 DEF RequestSound
<1>4. to = "sending" => Unborn(Reads(q))'
  <2> SUFFICES ASSUME to = "sending", NEW t \in Reads(q) PROVE stepAt'[t] = "unborn"
    BY DEF Unborn
  <2>1. t \in Steps /\ t \in StepsOf(q) /\ t \notin Sends(q)
    BY RequestShape
  <2>2. QED
    BY <2>1 DEF Unborn
<1>5. to \in {"queued", "marking"} => Unborn(StepsOf(q))'
  BY DEF Unborn
<1>6. RequestSound(q)'
  <2>1. result'[q] = None /\ None # "refused"
    BY <1>1, <1>3, AnswersAssumption DEF Results
  <2>2. QED
    BY <1>2, <1>4, <1>5, <2>1 DEF RequestSound
<1>7. ASSUME q \in WriteRequests PROVE EndSound(q)'
  <2>1. EndSound(q) /\ <<q, 0>> \in Steps
    BY <1>7, WriteShape DEF EndInv
  <2>2. NeverLands(q) => NeverLands(q)'
    <3> SUFFICES ASSUME NeverLands(q) PROVE NeverLands(q)'
      OBVIOUS
    <3>1. CASE UNCHANGED stepAt
      BY <3>1 DEF NeverLands
    <3>2. CASE ~UNCHANGED stepAt
      <4>1. closing = "open" /\ stepAt[<<q, 0>>] = "over"
        BY <3>2 DEF NeverLands
      <4>2. stepAt'[<<q, 0>>] = "over"
        BY <2>1, <4>1 DEF Unborn
      <4>3. QED
        BY <4>2 DEF NeverLands
    <3>3. QED
      BY <3>1, <3>2
  <2>3. QED
    BY <1>1, <1>7, <2>1, <2>2, EndKept
<1>8. QED
  BY <1>2, <1>6, <1>7 DEF EndInv

\* What is refused was not begun.
LEMMA RefusedEnds ==
    ASSUME EndInv, NEW q \in LogicalRequests, progress[q] # "ended",
           NEW to \in Phases, to \notin Phases \ {"ended"}, progress' = [progress EXCEPT ![q] = to],
           NEW ss \in SUBSET StepsOf(q), Unborn(ss), Unborn(StepsOf(q))',
           \/ UNCHANGED stepAt
           \/ /\ closing = "open"
              /\ stepAt' = [t \in Steps |-> IF t \in ss THEN "waiting" ELSE stepAt[t]],
           result' \in [LogicalRequests -> Results \cup {None}], result'[q] = "refused",
           \A r \in LogicalRequests : r # q => result'[r] = result[r],
           terminal' = terminal, UNCHANGED <<promise, pacing, closing, landed>>
    PROVE  EndInv'
<1>0. EndTypes /\ RequestSound(q)
  BY DEF EndInv
<1>2. /\ terminal[q] # None => terminal'[q] = terminal[q]
      /\ \A r \in LogicalRequests : r # q => terminal'[r] = terminal[r] /\ result'[r] = result[r]
      /\ terminal' \in [LogicalRequests -> Terminals \cup {None}]
      /\ progress[q] = "new" => closing = "open" \/ result'[q] = "refused"
  BY <1>0 DEF EndTypes
<1>3. /\ EndTypes' /\ SealSound'
      /\ \A t \in Steps : StepSound(t)'
      /\ \A r \in LogicalRequests : r # q => RequestSound(r)'
      /\ \A r \in WriteRequests : r # q => EndSound(r)'
      /\ pacing'[q] # None => pacing'[q] \in StepsOf(q) /\ stepAt'[pacing'[q]] = "held"
      /\ q \in landed' => stepAt'[<<q, 0>>] \in {"upstream", "over"}
      /\ progress'[q] = to
  BY <1>2, RequestActs
<1>4. RequestSound(q)'
  BY <1>3 DEF RequestSound
<1>5. ASSUME q \in WriteRequests PROVE EndSound(q)'
  <2>1. EndSound(q) /\ <<q, 0>> \in StepsOf(q)
    BY <1>5, WriteShape DEF EndInv
  <2>2. NeverLands(q)'
    BY <1>3, <2>1 DEF NeverLands, Unborn
  <2>3. QED
    BY <2>1, <2>2 DEF EndSound
<1>6. QED
  BY <1>3, <1>4, <1>5 DEF EndInv

LEMMA DeclareEnds ==
    ASSUME EndInv, NEW q \in LogicalRequests, Declare(q)
    PROVE  EndInv'
<1>0. EndTypes /\ RequestSound(q)
  BY DEF EndInv
<1>1. /\ progress[q] = "new" /\ progress[q] # "ended" /\ Unborn(StepsOf(q)) /\ Unborn(Reads(q))
      /\ UNCHANGED <<promise, pacing, closing, landed>>
      /\ Reads(q) \in SUBSET StepsOf(q)
  BY <1>0 DEF Declare, promisevars, worldvars, RequestSound, Unborn, StepsOf
<1>2. CASE q \notin WriteRequests /\ Submit(Reads(q)) /\ Goes(q, "reading")
  <2> DEFINE to == "reading"
  <2>1. /\ to \in {"queued", "marking", "sending", "reading"} /\ Goes(q, to)
        /\ to \notin {"queued", "marking", "sending"}
        /\ closing = "open"
        /\ stepAt' = [t \in Steps |-> IF t \in Reads(q) THEN "waiting" ELSE stepAt[t]]
    BY <1>2 DEF Submit
  <2> HIDE DEF to
  <2>2. QED
    BY <1>1, <2>1, GoesEnds
<1>3. CASE closing = "open" /\ q \in WriteRequests /\ NothingSubmitted /\ Goes(q, "queued")
  <2> DEFINE to == "queued"
  <2>1. to \in {"queued", "marking", "sending", "reading"} /\ Goes(q, to) /\ to # "sending"
    BY <1>3
  <2>2. UNCHANGED stepAt
    BY <1>3 DEF NothingSubmitted
  <2> HIDE DEF to
  <2>3. QED
    BY <1>1, <1>3, <2>1, <2>2, GoesEnds
<1>4. CASE /\ Refused
           /\ progress' = [progress EXCEPT ![q] = "ended"]
           /\ result' = [result EXCEPT ![q] = "refused"]
           /\ UNCHANGED terminal
  <2>1. /\ result' \in [LogicalRequests -> Results \cup {None}] /\ result'[q] = "refused"
        /\ \A r \in LogicalRequests : r # q => result'[r] = result[r]
        /\ UNCHANGED <<stepAt, terminal>> /\ Unborn(StepsOf(q))'
    BY <1>0, <1>1, <1>4 DEF EndTypes, Results, Refused, NothingSubmitted, Unborn
  <2> DEFINE to == "ended"
  <2>2. to \in Phases /\ to = "ended" /\ progress' = [progress EXCEPT ![q] = to]
    BY <1>4 DEF Phases
  <2> HIDE DEF to
  <2>3. QED
    BY <1>1, <2>1, <2>2, RefusedEnds
<1>5. QED
  BY <1>2, <1>3, <1>4 DEF Declare

LEMMA BeginEnds ==
    ASSUME EndInv, NEW q \in LogicalRequests, Begin(q)
    PROVE  EndInv'
<1>0. EndTypes /\ RequestSound(q)
  BY DEF EndInv
<1>1. /\ progress[q] \in {"queued", "marking"} /\ progress[q] # "ended" /\ progress[q] # "new"
      /\ Unborn(StepsOf(q)) /\ Unborn(Sends(q))
      /\ q \in WriteRequests /\ stepAt[<<q, 0>>] = "unborn" /\ q \notin landed
      /\ UNCHANGED <<promise, pacing, closing, landed>>
      /\ Sends(q) \in SUBSET StepsOf(q)
  BY <1>0, WriteShape DEF Begin, promisevars, worldvars, RequestSound, Unborn, StepsOf
<1>2. CASE progress[q] = "queued" /\ NothingSubmitted /\ Goes(q, "marking")
  <2> DEFINE to == "marking"
  <2>1. to \in {"queued", "marking", "sending", "reading"} /\ Goes(q, to) /\ to # "sending"
    BY <1>2
  <2>2. UNCHANGED stepAt
    BY <1>2 DEF NothingSubmitted
  <2> HIDE DEF to
  <2>3. QED
    BY <1>1, <2>1, <2>2, GoesEnds
<1>3. CASE NothingSubmitted /\ Ends(q, "failed", "failed")
  <2>1. NeverLands(q)'
    BY <1>0, <1>1, <1>3 DEF NeverLands, NothingSubmitted, Ends, EndTypes
  <2>2. /\ "failed" \in Terminals /\ "failed" \in Results /\ "failed" # "refused"
        /\ "failed" # "confirmed" /\ UNCHANGED stepAt
    BY <1>3 DEF Terminals, Results, NothingSubmitted
  <2>3. QED
    BY <1>1, <1>3, <2>1, <2>2, EndedEnds
<1>4. CASE Submit(Sends(q)) /\ Goes(q, "sending")
  <2> DEFINE to == "sending"
  <2>1. /\ to \in {"queued", "marking", "sending", "reading"} /\ Goes(q, to)
        /\ to \notin {"queued", "marking"}
        /\ closing = "open"
        /\ stepAt' = [t \in Steps |-> IF t \in Sends(q) THEN "waiting" ELSE stepAt[t]]
    BY <1>4 DEF Submit
  <2> HIDE DEF to
  <2>2. QED
    BY <1>1, <2>1, GoesEnds
<1>5. CASE Refused /\ Ends(q, "interrupted", "failed")
  <2>1. NeverLands(q)'
    BY <1>0, <1>1, <1>5 DEF NeverLands, Refused, NothingSubmitted, Ends, EndTypes
  <2>2. /\ "interrupted" \in Terminals /\ "failed" \in Results /\ "failed" # "refused"
        /\ "failed" # "confirmed" /\ UNCHANGED stepAt
    BY <1>5 DEF Terminals, Results, Refused, NothingSubmitted
  <2>3. QED
    BY <1>1, <1>5, <2>1, <2>2, EndedEnds
<1>6. QED
  BY <1>2, <1>3, <1>4, <1>5 DEF Begin

LEMMA DispatchedEnds ==
    ASSUME EndInv, NEW q \in LogicalRequests, Dispatched(q)
    PROVE  EndInv'
<1>0. EndTypes /\ RequestSound(q)
  BY DEF EndInv
<1>1. /\ progress[q] = "sending" /\ progress[q] # "ended" /\ progress[q] # "new"
      /\ Unborn(Reads(q)) /\ q \in WriteRequests /\ EndSound(q)
      /\ UNCHANGED <<promise, pacing, closing, landed>>
      /\ Reads(q) \in SUBSET StepsOf(q)
  BY <1>0 DEF EndInv, Dispatched, worldvars, RequestSound, StepsOf
<1>2. CASE promise[<<q, 0>>] \in NeverSent /\ NothingSubmitted /\ Ends(q, "interrupted", "failed")
  <2>1. NeverLands(q)
    BY <1>1, <1>2 DEF EndSound, NeverSent
  <2>2. NeverLands(q)'
    BY <1>1, <1>2, <2>1 DEF NeverLands, NothingSubmitted
  <2>3. /\ "interrupted" \in Terminals /\ "failed" \in Results /\ "failed" # "refused"
        /\ "failed" # "confirmed" /\ UNCHANGED stepAt
    BY <1>2 DEF Terminals, Results, NothingSubmitted
  <2>4. QED
    BY <1>1, <1>2, <2>2, <2>3, EndedEnds
<1>3. CASE promise[<<q, 0>>] = "rejected" /\ NothingSubmitted /\ Ends(q, "failed", "failed")
  <2>1. NeverLands(q)
    BY <1>1, <1>3 DEF EndSound
  <2>2. NeverLands(q)'
    BY <1>1, <1>3, <2>1 DEF NeverLands, NothingSubmitted
  <2>3. /\ "failed" \in Terminals /\ "failed" \in Results /\ "failed" # "refused"
        /\ "failed" # "confirmed" /\ UNCHANGED stepAt
    BY <1>3 DEF Terminals, Results, NothingSubmitted
  <2>4. QED
    BY <1>1, <1>3, <2>2, <2>3, EndedEnds
<1>4. CASE Submit(Reads(q)) /\ Goes(q, "reading")
  <2> DEFINE to == "reading"
  <2>1. /\ to \in {"queued", "marking", "sending", "reading"} /\ Goes(q, to)
        /\ to \notin {"queued", "marking", "sending"}
        /\ closing = "open"
        /\ stepAt' = [t \in Steps |-> IF t \in Reads(q) THEN "waiting" ELSE stepAt[t]]
    BY <1>4 DEF Submit
  <2> HIDE DEF to
  <2>2. QED
    BY <1>1, <2>1, GoesEnds
<1>5. CASE Refused /\ Ends(q, "unknown", "unknown")
  <2>1. /\ "unknown" \in Terminals /\ "unknown" \in Results /\ "unknown" # "refused"
        /\ "unknown" \notin {"failed", "interrupted", "confirmed"} /\ UNCHANGED stepAt
    BY <1>5 DEF Terminals, Results, Refused, NothingSubmitted
  <2>2. QED
    BY <1>1, <1>5, <2>1, EndedEnds
<1>6. QED
  BY <1>2, <1>3, <1>4, <1>5 DEF Dispatched

LEMMA EndRequestEnds ==
    ASSUME EndInv, NEW q \in LogicalRequests, EndRequest(q)
    PROVE  EndInv'
<1>1. /\ progress[q] # "ended" /\ progress[q] # "new"
      /\ UNCHANGED <<stepAt, promise, pacing, closing, landed>>
  BY DEF EndRequest, promisevars, worldvars
<1>2. PICK kind \in Terminals, tells \in Results :
          /\ Ends(q, kind, tells) /\ tells # "refused"
          /\ q \in WriteRequests => kind \notin {"failed", "interrupted"} /\ tells # "failed"
          /\ q \in WriteRequests /\ tells = "confirmed" => q \in landed
  <2>1. \/ q \in WriteRequests /\ Ends(q, "unknown", "unknown")
        \/ q \notin WriteRequests /\ Ends(q, "rate-limited", "failed")
        \/ q \notin WriteRequests /\ Ends(q, "failed", "failed")
        \/ q \notin WriteRequests /\ Ends(q, "succeeded", "value")
        \/ q \in WriteRequests /\ q \in landed /\ Ends(q, "succeeded", "confirmed")
    BY DEF EndRequest
  <2>2. /\ {"unknown", "rate-limited", "failed", "succeeded"} \subseteq Terminals
        /\ {"unknown", "failed", "value", "confirmed"} \subseteq Results
    BY DEF Terminals, Results
  <2>3. QED
    BY <2>1, <2>2
<1>3. QED
  BY <1>1, <1>2, EndedEnds


(***************************************************************************)
(* The ends of requests, through close()                                   *)
(***************************************************************************)

\* What has a terminal keeps it; what has an end of its own needs none.
LEMMA EndedHas ==
    ASSUME EndInv, NEW s \in Steps, stepAt[s] # "unborn", NEW r \in WriteRequests, r = Of(s),
           r \notin ActiveWrites
    PROVE  terminal[r] # None
<1>1. RequestSound(r) /\ s \in StepsOf(r) /\ progress[r] \in {"new", "ended"}
  BY StepShape, WriteShape DEF EndInv, ActiveWrites
<1>2. QED
  BY <1>1 DEF RequestSound, Unborn

LEMMA CloseEnds ==
    ASSUME EndInv, Close
    PROVE  EndInv'
<1> DEFINE leaving == {r \in WriteRequests : progress[r] = "queued"}
           stopped == Waiting \cup ({pacing[r] : r \in LogicalRequests} \ {None})
           gone == leaving \cup ({Of(s) : s \in stopped} \ ActiveWrites)
<1>0. EndTypes /\ closing = "open" /\ closing' = "draining" /\ landed' = landed
  BY DEF EndInv, Close
<1>1. \A t \in stopped : t \in Steps /\ stepAt[t] \in {"waiting", "held"} /\ promise[t] = None
  <2> SUFFICES ASSUME NEW t \in stopped
               PROVE  t \in Steps /\ stepAt[t] \in {"waiting", "held"} /\ promise[t] = None
    OBVIOUS
  <2>1. t \in Steps /\ stepAt[t] \in {"waiting", "held"}
    <3>1. CASE t \in Waiting
      BY <1>0, <3>1, RunningIs DEF EndTypes
    <3>2. CASE t \notin Waiting
      <4>1. PICK r \in LogicalRequests : t = pacing[r] /\ t # None
        BY <3>2
      <4>2. RequestSound(r)
        BY DEF EndInv
      <4>3. QED
        BY <4>1, <4>2, RequestShape DEF RequestSound
    <3>3. QED
      BY <3>1, <3>2
  <2>2. StepSound(t)
    BY <2>1 DEF EndInv
  <2>3. QED
    BY <1>0, <2>1, <2>2 DEF StepSound
<1>2. /\ stepAt' \in [Steps -> Stages]
      /\ \A t \in Steps : stepAt'[t] = IF stepAt[t] = "waiting" THEN "over" ELSE stepAt[t]
  BY <1>0, RunningIs DEF Close, EndTypes, Stages
<1>3. /\ promise' \in [Steps -> Answers \cup {None}] /\ "closed" # None
      /\ \A t \in Steps : promise'[t] = IF t \in stopped THEN "closed" ELSE promise[t]
  <2> DEFINE kind == "closed"
  <2>1. kind \in Answers
    BY DEF Answers
  <2>2. promise' = FirstAnswer(promise, stopped, kind)
    BY DEF Close
  <2> HIDE DEF stopped, kind
  <2>3. /\ promise' \in [Steps -> Answers \cup {None}] /\ kind # None
        /\ \A t \in Steps : promise'[t] = IF t \in stopped THEN kind ELSE promise[t]
    BY <1>0, <1>1, <2>1, <2>2, AnswerIs DEF EndTypes
  <2>4. QED
    BY <2>3 DEF kind
<1>4. /\ terminal' \in [LogicalRequests -> Terminals \cup {None}]
      /\ \A r \in LogicalRequests :
             terminal'[r] = IF r \in gone /\ terminal[r] = None THEN "interrupted" ELSE terminal[r]
      /\ "interrupted" # None
  <2> DEFINE kind == "interrupted"
  <2>1. kind \in Terminals
    BY DEF Terminals
  <2>2. terminal' = Noted(terminal, gone, kind)
    BY DEF Close
  <2> HIDE DEF gone, kind
  <2>3. /\ terminal' \in [LogicalRequests -> Terminals \cup {None}] /\ kind # None
        /\ \A r \in LogicalRequests :
               terminal'[r] = IF r \in gone /\ terminal[r] = None THEN kind ELSE terminal[r]
    BY <1>0, <2>1, <2>2, NotedIs DEF EndTypes
  <2>4. QED
    BY <2>3 DEF kind
<1>5. /\ progress' \in [LogicalRequests -> Phases] /\ result' \in [LogicalRequests -> Results \cup {None}]
      /\ pacing' \in [LogicalRequests -> Steps \cup {None}]
      /\ \A r \in LogicalRequests : pacing'[r] = None
      /\ \A r \in leaving : progress'[r] = "ended" /\ result'[r] = "failed"
      /\ \A r \in LogicalRequests : r \notin leaving =>
             progress'[r] = progress[r] /\ result'[r] = result[r]
  BY <1>0, WriteShape DEF Close, EndTypes, Phases, Results
<1>6. EndTypes'
  BY <1>0, <1>2, <1>3, <1>4, <1>5 DEF EndTypes
<1> HIDE DEF stopped
<1>7. ASSUME NEW t \in Steps PROVE StepSound(t)'
  <2>1. StepSound(t) /\ (t \in Waiting <=> stepAt[t] = "waiting") /\ (t \in Waiting => t \in stopped)
    BY <1>0, RunningIs DEF EndInv, EndTypes, stopped
  <2>2. QED
    BY <1>0, <1>1, <1>2, <1>3, <2>1 DEF StepSound
<1>8. ASSUME NEW ss, ss \subseteq Steps PROVE Unborn(ss) => Unborn(ss)'
  BY <1>2, <1>8 DEF Unborn
<1>9. ASSUME NEW r \in LogicalRequests PROVE RequestSound(r)'
  <2>1. RequestSound(r) /\ StepsOf(r) \subseteq Steps /\ Reads(r) \subseteq Steps
    BY RequestShape DEF EndInv
  <2>2. (Unborn(StepsOf(r)) => Unborn(StepsOf(r))') /\ (Unborn(Reads(r)) => Unborn(Reads(r))')
    BY <1>8, <2>1 DEF Unborn
  <2>3. r \in landed' => stepAt'[<<r, 0>>] \in {"upstream", "over"}
    BY <1>0, <1>2, <2>1, WriteShape DEF RequestSound, EndTypes
  <2>4. progress'[r] = "ended" /\ result'[r] # "refused" => terminal'[r] # None
    BY <1>4, <1>5, <2>1 DEF RequestSound
  <2>5. CASE r \in leaving
    BY <1>5, <2>2, <2>3, <2>4, <2>5 DEF RequestSound
  <2>6. CASE r \notin leaving
    BY <1>5, <2>1, <2>2, <2>3, <2>4, <2>6 DEF RequestSound
  <2>7. QED
    BY <2>5, <2>6
<1>10. ASSUME NEW r \in WriteRequests PROVE EndSound(r)'
  <2>1. EndSound(r) /\ RequestSound(r) /\ r \in LogicalRequests
        /\ <<r, 0>> \in Steps /\ <<r, 0>> \in StepsOf(r)
    BY WriteShape DEF EndInv
  <2>2. NeverLands(r) => NeverLands(r)'
    BY <1>0, <1>2, <1>5, <2>1, NeverKept DEF NeverLands
  <2>3. r \in leaving => NeverLands(r)'
    BY <1>0, <1>2, <2>1 DEF NeverLands, RequestSound, Unborn
  <2>4. \A t \in Reads(r) : promise[t] \in {"expired", "woken"} => promise'[t] = promise[t]
    <3>1. \A t \in Reads(r) : t \in Steps
      BY <2>1, RequestShape
    <3>2. "expired" # None /\ "woken" # None
      BY AnswersAssumption DEF Answers
    <3>3. QED
      BY <1>1, <1>3, <3>1, <3>2
  <2>5. <<r, 0>> \in stopped => NeverLands(r)'
    BY <1>0, <1>1, <1>2, <2>1 DEF NeverLands, RequestSound
  <2>6. terminal'[r] = terminal[r] \/ (r \in leaving /\ terminal'[r] = "interrupted")
    <3> SUFFICES ASSUME terminal'[r] # terminal[r], r \notin leaving PROVE FALSE
      BY <1>4, <2>1
    <3>1. r \in gone /\ terminal[r] = None
      BY <1>4, <2>1
    <3>2. PICK t \in stopped : r = Of(t) /\ r \notin ActiveWrites
      BY <3>1
    <3>3. t \in Steps /\ stepAt[t] # "unborn"
      BY <1>1
    <3>4. QED
      BY <3>1, <3>2, <3>3, EndedHas
  <2>7. CASE r \in leaving
    BY <1>0, <1>5, <2>3, <2>7 DEF EndSound
  <2>8. CASE r \notin leaving
    <3>1. result'[r] = result[r] /\ terminal'[r] = terminal[r]
      BY <1>5, <2>1, <2>6, <2>8
    <3>2. promise'[<<r, 0>>] = promise[<<r, 0>>] \/ NeverLands(r)'
      BY <1>3, <2>1, <2>5
    <3>3. QED
      BY <1>0, <2>1, <2>2, <2>4, <3>1, <3>2, EndKept
  <2>9. QED
    BY <2>7, <2>8
<1>11. SealSound'
  BY <1>0 DEF SealSound
<1>12. QED
  BY <1>6, <1>7, <1>9, <1>10, <1>11 DEF EndInv

LEMMA DrainEndsEnds ==
    ASSUME EndInv, DrainEnds
    PROVE  EndInv'
<1> DEFINE gone == {Of(s) : s \in Running} \ ActiveWrites
<1>0. /\ EndTypes /\ closing = "draining" /\ closing' = "settling"
      /\ UNCHANGED <<stepAt, pacing, progress, result, landed>>
  BY DEF EndInv, DrainEnds
<1>1. /\ Running \subseteq Steps
      /\ \A t \in Steps : t \in Running <=> stepAt[t] \in {"dispatched", "upstream"}
  BY <1>0, RunningIs DEF EndTypes
<1>2. /\ promise' \in [Steps -> Answers \cup {None}] /\ "cut" # None
      /\ \A t \in Steps :
             promise'[t] = IF t \in Running /\ promise[t] = None THEN "cut" ELSE promise[t]
  <2> DEFINE kind == "cut"
  <2>1. kind \in Answers
    BY DEF Answers
  <2>2. promise' = FirstAnswer(promise, Running, kind)
    BY DEF DrainEnds
  <2> HIDE DEF kind
  <2>3. /\ promise' \in [Steps -> Answers \cup {None}] /\ kind # None
        /\ \A t \in Steps :
               promise'[t] = IF t \in Running /\ promise[t] = None THEN kind ELSE promise[t]
    BY <1>0, <2>1, <2>2, AnswerIs DEF EndTypes
  <2>4. QED
    BY <2>3 DEF kind
<1>3. /\ terminal' \in [LogicalRequests -> Terminals \cup {None}]
      /\ \A r \in LogicalRequests :
             terminal'[r] = terminal[r] \/ (r \in gone /\ terminal[r] = None /\ terminal'[r] # None)
  <2> DEFINE kind == "interrupted"
  <2>1. kind \in Terminals
    BY DEF Terminals
  <2>2. terminal' = Noted(terminal, gone, kind)
    BY DEF DrainEnds
  <2> HIDE DEF gone, kind
  <2>3. QED
    BY <1>0, <2>1, <2>2, NotedIs DEF EndTypes
<1>4. EndTypes'
  BY <1>0, <1>2, <1>3 DEF EndTypes
<1>5. ASSUME NEW t \in Steps PROVE StepSound(t)'
  <2>1. StepSound(t)
    BY DEF EndInv
  <2>2. stepAt[t] \in {"dispatched", "upstream"} => t \in Running /\ promise[t] = None
    BY <1>0, <1>1, <2>1 DEF StepSound
  <2>3. stepAt[t] \notin {"dispatched", "upstream"} => promise'[t] = promise[t]
    BY <1>1, <1>2
  <2>4. QED
    BY <1>0, <1>2, <2>1, <2>2, <2>3 DEF StepSound
<1>6. ASSUME NEW r \in LogicalRequests PROVE RequestSound(r)'
  BY <1>0, <1>3 DEF EndInv, RequestSound, Unborn
<1>7. ASSUME NEW r \in WriteRequests PROVE EndSound(r)'
  <2>1. EndSound(r) /\ r \in LogicalRequests /\ <<r, 0>> \in Steps
    BY WriteShape DEF EndInv
  <2>2. NeverLands(r) => NeverLands(r)'
    BY <1>0 DEF NeverLands
  <2>3. terminal'[r] = terminal[r]
    <3> SUFFICES ASSUME r \in gone, terminal[r] = None PROVE FALSE
      BY <1>3, <2>1
    <3>1. PICK t \in Running : r = Of(t) /\ r \notin ActiveWrites
      OBVIOUS
    <3>2. t \in Steps /\ stepAt[t] # "unborn"
      BY <1>1
    <3>3. QED
      BY <3>1, <3>2, EndedHas
  <2>4. \A t \in Reads(r) : promise[t] \in {"expired", "woken"} => promise'[t] = promise[t]
    <3>1. \A t \in Reads(r) : t \in Steps
      BY <2>1, RequestShape
    <3>2. "expired" # None /\ "woken" # None
      BY AnswersAssumption DEF Answers
    <3>3. QED
      BY <1>2, <3>1, <3>2
  <2>5. promise'[<<r, 0>>] \in {"closed", "woken", "rejected"} =>
            promise'[<<r, 0>>] = promise[<<r, 0>>]
    BY <1>2, <2>1
  <2>6. QED
    BY <1>0, <2>1, <2>2, <2>3, <2>4, <2>5, EndKept
<1>8. SealSound'
  BY <1>0 DEF SealSound
<1>9. QED
  BY <1>4, <1>5, <1>6, <1>7, <1>8 DEF EndInv

LEMMA SealEnds ==
    ASSUME EndInv, Seal
    PROVE  EndInv'
<1>0. /\ EndTypes /\ closing = "settling" /\ closing' = "sealed"
      /\ UNCHANGED <<stepAt, promise, pacing, progress, result, landed>>
  BY DEF EndInv, Seal, promisevars
<1>1. /\ terminal' \in [LogicalRequests -> Terminals \cup {None}]
      /\ \A r \in LogicalRequests :
             /\ r \in Declared => terminal'[r] # None
             /\ terminal[r] # None => terminal'[r] = terminal[r]
             /\ \/ terminal'[r] = terminal[r] \/ terminal'[r] = "unknown"
                \/ r \in Declared \ DispatchAttempted
  <2> DEFINE noted == "unknown"
             other == "interrupted"
             first == Noted(terminal, DispatchAttempted, noted)
  <2>1. noted \in Terminals /\ other \in Terminals
    BY DEF Terminals
  <2>2. terminal' = Noted(first, Declared, other)
    BY DEF Seal
  <2> HIDE DEF noted, other
  <2>3. /\ first \in [LogicalRequests -> Terminals \cup {None}] /\ noted # None
        /\ \A r \in LogicalRequests :
               first[r] = IF r \in DispatchAttempted /\ terminal[r] = None THEN noted ELSE terminal[r]
    BY <1>0, <2>1, NotedIs DEF EndTypes
  <2> HIDE DEF first
  <2>4. /\ terminal' \in [LogicalRequests -> Terminals \cup {None}] /\ other # None
        /\ \A r \in LogicalRequests :
               terminal'[r] = IF r \in Declared /\ first[r] = None THEN other ELSE first[r]
    BY <2>1, <2>2, <2>3, NotedIs
  <2>5. QED
    BY <2>3, <2>4 DEF noted
<1>2. EndTypes'
  BY <1>0, <1>1 DEF EndTypes
<1>3. ASSUME NEW t \in Steps PROVE StepSound(t)'
  BY <1>0 DEF EndInv, StepSound
<1>4. ASSUME NEW r \in LogicalRequests PROVE RequestSound(r)'
  BY <1>0, <1>1 DEF EndInv, RequestSound, Unborn
<1>5. ASSUME NEW r \in WriteRequests PROVE EndSound(r)'
  <2>1. /\ EndSound(r) /\ RequestSound(r) /\ r \in LogicalRequests
        /\ <<r, 0>> \in Steps /\ <<r, 0>> \in StepsOf(r)
    BY WriteShape DEF EndInv
  <2>2. NeverLands(r) => NeverLands(r)'
    BY <1>0 DEF NeverLands
  <2>3. CASE terminal[r] # None
    <3>1. terminal'[r] = terminal[r]
      BY <1>1, <2>1, <2>3
    <3>2. QED
      BY <1>0, <2>1, <2>2, <3>1, EndKept
  <2>4. CASE terminal[r] = None /\ r \in Declared \ DispatchAttempted
    <3>1. progress[r] \in {"queued", "marking"}
      BY <1>0, <2>1, <2>4 DEF Declared, DispatchAttempted, ActiveWrites, RequestSound, EndTypes, Phases
    <3>2. stepAt[<<r, 0>>] = "unborn" /\ r \notin landed
      BY <2>1, <3>1 DEF RequestSound, Unborn
    <3>3. NeverLands(r)'
      BY <1>0, <3>2 DEF NeverLands
    <3>4. result[r] = None /\ None # "confirmed"
      BY <2>1, <3>1, AnswersAssumption DEF RequestSound, Results
    <3>5. QED
      BY <1>0, <3>3, <3>4 DEF EndSound
  <2>5. CASE terminal[r] = None /\ r \notin Declared \ DispatchAttempted
    <3>1. terminal'[r] = terminal[r] \/ terminal'[r] = "unknown"
      BY <1>1, <2>1, <2>5
    <3>2. terminal'[r] \notin {"failed", "interrupted"}
      BY <2>5, <3>1, AnswersAssumption DEF Terminals
    <3>3. QED
      BY <1>0, <2>1, <2>2, <3>2 DEF EndSound
  <2>6. QED
    BY <2>3, <2>4, <2>5
<1>6. SealSound'
  <2>1. Declared' = Declared
    BY <1>0 DEF Declared
  <2>2. \A r \in Declared : terminal'[r] # None
    BY <1>1 DEF Declared
  <2>3. QED
    BY <2>1, <2>2 DEF SealSound
<1>7. QED
  BY <1>2, <1>3, <1>4, <1>5, <1>6 DEF EndInv


\* Every step of the gateway keeps the ends true.
LEMMA TakenEnds ==
    ASSUME EndInv, NEW s \in Steps, stepAt[s] \in {"waiting", "held"},
           stepAt[s] = "held" => ~Continues(Of(s)),
           UNCHANGED <<progress, result, closing, landed>>,
           \/ /\ pacing' = [pacing EXCEPT ![Of(s)] = None]
              /\ \/ Expire(s) \/ WakeClosed(s) \/ RejectLimited(s)
                 \/ (stepAt[s] = "held" => closing = "open") /\ (Requeue(s) \/ DispatchStep(s))
           \/ stepAt[s] = "waiting" /\ Pace(s)
    PROVE  EndInv'
<1>1. CASE /\ pacing' = [pacing EXCEPT ![Of(s)] = None]
           /\ Expire(s) \/ WakeClosed(s) \/ RejectLimited(s)
  <2>1. PICK kind \in {"expired", "limited", "woken"}, end \in {"interrupted", "rate-limited"} :
            (end = "interrupted" => kind \in {"expired", "woken"}) /\ GivenUp(s, kind, end)
    BY <1>1 DEF Expire, WakeClosed, RejectLimited
  <2>2. /\ stepAt' = [stepAt EXCEPT ![s] = "over"]
        /\ promise' = FirstAnswer(promise, {s}, kind)
        /\ terminal' = Noted(terminal, {Of(s)}, end)
        /\ pacing' = [pacing EXCEPT ![Of(s)] = None]
        /\ end = "interrupted" => kind \in {"expired", "woken"}
    BY <1>1, <2>1 DEF GivenUp
  <2>3. QED
    BY <2>2, GivenUpEnds
<1>2. CASE /\ pacing' = [pacing EXCEPT ![Of(s)] = None]
           /\ stepAt[s] = "held" => closing = "open"
           /\ Requeue(s) \/ DispatchStep(s)
  <2>1. PICK to \in {"waiting", "held", "dispatched"} :
            to # "held" /\ stepAt' = [stepAt EXCEPT ![s] = to]
    BY <1>2 DEF Requeue, DispatchStep
  <2>2. /\ pacing' = [pacing EXCEPT ![Of(s)] = IF to = "held" THEN s ELSE None]
        /\ stepAt' = [stepAt EXCEPT ![s] = to]
        /\ UNCHANGED <<promise, terminal, progress, result, closing, landed>>
        /\ stepAt[s] = "held" => closing = "open"
    BY <1>2, <2>1 DEF Requeue, DispatchStep
  <2>3. QED
    BY <2>2, MovedEnds
<1>3. CASE stepAt[s] = "waiting" /\ Pace(s)
  <2> DEFINE to == "held"
  <2>1. /\ to \in {"waiting", "held", "dispatched"}
        /\ pacing' = [pacing EXCEPT ![Of(s)] = IF to = "held" THEN s ELSE None]
        /\ stepAt' = [stepAt EXCEPT ![s] = to]
        /\ UNCHANGED <<promise, terminal, progress, result, closing, landed>>
        /\ stepAt[s] = "held" => closing = "open"
    BY <1>3 DEF Pace
  <2> HIDE DEF to
  <2>2. QED
    BY <2>1, MovedEnds
<1>4. QED
  BY <1>1, <1>2, <1>3

LEMMA LoopEndsKept ==
    ASSUME EndInv, looping, LoopEnds \/ \E s \in Steps : TakeCandidate(s)
    PROVE  EndInv'
<1>1. CASE LoopEnds
  BY <1>1, RestEnds DEF LoopEnds, promisevars, requestvars, worldvars
<1>2. CASE \E s \in Steps : TakeCandidate(s)
  <2>1. PICK s \in Steps : TakeCandidate(s)
    BY <1>2
  <2>2. stepAt[s] = "waiting"
    BY <2>1 DEF TakeCandidate, Eligible, Waiting, InStage
  <2>3. /\ UNCHANGED <<progress, result, closing, landed>>
        /\ \/ /\ pacing' = [pacing EXCEPT ![Of(s)] = None]
              /\ \/ Expire(s) \/ WakeClosed(s) \/ RejectLimited(s)
                 \/ Requeue(s) \/ DispatchStep(s)
           \/ Pace(s)
    BY <2>1 DEF TakeCandidate
  <2>4. QED
    BY <2>2, <2>3, TakenEnds
<1>3. QED
  BY <1>1, <1>2

LEMMA ResumeEnds ==
    ASSUME EndInv, NEW s \in Steps, Resume(s)
    PROVE  EndInv'
<1>1. stepAt[s] = "held" /\ Of(s) \in LogicalRequests
  BY StepShape DEF Resume, Held, InStage
<1>2. ~Continues(Of(s))
  BY <1>1 DEF Resume, Quiet
<1>3. /\ UNCHANGED <<progress, result, closing, landed>>
      /\ pacing' = [pacing EXCEPT ![Of(s)] = None]
      /\ \/ Expire(s) \/ WakeClosed(s) \/ RejectLimited(s)
         \/ closing = "open" /\ (Requeue(s) \/ DispatchStep(s))
  BY DEF Resume
<1>4. QED
  BY <1>1, <1>2, <1>3, TakenEnds

LEMMA SettleEnds ==
    ASSUME EndInv, NEW s \in Steps, stepAt[s] \in {"dispatched", "upstream"},
           NEW kind \in {"value", "rejected", "limited", "lost"},
           kind = "rejected" => (Send(s) => Of(s) \notin landed),
           NEW ledgers, Settle(s, kind, ledgers)
    PROVE  EndInv'
<1>1. /\ stepAt' = [stepAt EXCEPT ![s] = "over"]
      /\ promise' = FirstAnswer(promise, {s}, kind)
      /\ UNCHANGED <<pacing, terminal, progress, result, closing, landed>>
  BY DEF Settle, requestvars
<1>2. QED
  BY <1>1, SettledEnds

\* A response settles its step, whatever it tells.
LEMMA RespondsIs ==
    ASSUME NEW s \in Steps, Responds(s)
    PROVE  /\ stepAt[s] = "upstream"
           /\ \E seen \in RateFields \cup {None} :
                 RateLimited(s) \/ Lose(s) \/ Reject(s, seen) \/ Succeed(s, seen)
<1>1. stepAt[s] = "upstream"
  BY DEF Responds, RateLimited, Lose, Reject, Succeed, Upstream
<1>2. \E seen \in RateFields \cup {None} :
          RateLimited(s) \/ Lose(s) \/ Reject(s, seen) \/ Succeed(s, seen)
  <2>1. CASE RateLimited(s) \/ Lose(s) \/ Reject(s, None) \/ Succeed(s, None)
    BY <2>1
  <2>2. CASE \E seen \in RateFields : Succeed(s, seen) \/ Reject(s, seen)
    BY <2>2
  <2>3. QED
    BY <2>1, <2>2 DEF Responds
<1>3. QED
  BY <1>1, <1>2

LEMMA RespondsEnds ==
    ASSUME EndInv, NEW s \in Steps, Responds(s)
    PROVE  EndInv'
<1>1. stepAt[s] \in {"dispatched", "upstream"}
  BY RespondsIs
<1>2. PICK kind \in {"value", "rejected", "limited", "lost"} :
          /\ \E ledgers : Settle(s, kind, ledgers)
          /\ kind = "rejected" => (Send(s) => Of(s) \notin landed)
  <2>1. PICK seen \in RateFields \cup {None} :
            RateLimited(s) \/ Lose(s) \/ Reject(s, seen) \/ Succeed(s, seen)
    BY RespondsIs
  <2>2. CASE RateLimited(s)
    BY <2>2 DEF RateLimited
  <2>3. CASE Lose(s)
    BY <2>3 DEF Lose
  <2>4. CASE Reject(s, seen)
    BY <2>4 DEF Reject
  <2>5. CASE Succeed(s, seen)
    BY <2>5 DEF Succeed
  <2>6. QED
    BY <2>1, <2>2, <2>3, <2>4, <2>5
<1>3. PICK ledgers : Settle(s, kind, ledgers)
  BY <1>2
<1>4. QED
  BY <1>1, <1>2, <1>3, SettleEnds

LEMMA RunEnds ==
    ASSUME EndInv, NEW s \in Steps, Run(s)
    PROVE  EndInv'
<1>1. CASE stepAt' = [stepAt EXCEPT ![s] = "upstream"] /\ UNCHANGED <<promisevars, pacing, requestvars, worldvars>>
  <2>1. /\ stepAt[s] = "dispatched" /\ stepAt' = [stepAt EXCEPT ![s] = "upstream"]
        /\ UNCHANGED landed /\ UNCHANGED <<promise, pacing, terminal, progress, result, closing>>
    BY <1>1 DEF Run, promisevars, requestvars, worldvars
  <2>2. QED
    BY <2>1, SentEnds
<1>2. CASE Settle(s, "limited", buckets)
  <2> DEFINE kind == "limited"
  <2>1. /\ kind \in {"value", "rejected", "limited", "lost"} /\ kind # "rejected"
        /\ Settle(s, kind, buckets) /\ stepAt[s] \in {"dispatched", "upstream"}
    BY <1>2 DEF Run
  <2> HIDE DEF kind
  <2>2. QED
    BY <2>1, SettleEnds
<1>3. QED
  BY <1>1, <1>2 DEF Run

LEMMA EndStep ==
    ASSUME EndInv, [LanesNext]_lanevars
    PROVE  EndInv'
<1>1. CASE UNCHANGED lanevars
  BY <1>1, RestEnds DEF lanevars, promisevars, requestvars, worldvars
<1>2. CASE looping /\ (LoopEnds \/ \E s \in Steps : TakeCandidate(s))
  BY <1>2, LoopEndsKept
<1>3. CASE StartLoop \/ TimersFire
  <2>1. UNCHANGED <<stepAt, promise, pacing, terminal, progress, result, closing, landed>>
    BY <1>3 DEF StartLoop, TimersFire, promisevars, requestvars, worldvars
  <2>2. QED
    BY <2>1, RestEnds
<1>4. CASE Close \/ DrainEnds \/ Seal
  BY <1>4, CloseEnds, DrainEndsEnds, SealEnds
<1>5. ASSUME NEW s \in Steps, Resume(s) \/ Run(s) \/ Responds(s)
      PROVE  EndInv'
  BY <1>5, ResumeEnds, RunEnds, RespondsEnds
<1>6. ASSUME NEW s \in Steps, Execute(s) PROVE EndInv'
  <2>1. /\ stepAt[s] = "upstream" /\ Send(s) /\ landed' = landed \cup {Of(s)}
        /\ UNCHANGED stepAt /\ UNCHANGED <<promise, pacing, terminal, progress, result, closing>>
    BY <1>6 DEF Execute, Upstream, promisevars, requestvars
  <2>2. QED
    BY <2>1, SentEnds
<1>7. ASSUME NEW s \in Steps, Parse(s) PROVE EndInv'
  <2>1. /\ ~Send(s) /\ promise[s] = "value" /\ promise' = [promise EXCEPT ![s] = "parsed"]
        /\ UNCHANGED <<stepAt, pacing, terminal, progress, result, closing, landed>>
    BY <1>7 DEF Parse, requestvars, worldvars
  <2>2. QED
    BY <2>1, ParsedEnds
<1>8. ASSUME NEW r \in LogicalRequests, Declare(r) \/ Begin(r) \/ Dispatched(r) \/ EndRequest(r)
      PROVE  EndInv'
  BY <1>8, DeclareEnds, BeginEnds, DispatchedEnds, EndRequestEnds
<1>9. QED
  BY <1>1, <1>2, <1>3, <1>4, <1>5, <1>6, <1>7, <1>8 DEF LanesNext


(***************************************************************************)
(* The caps and the ledgers, step by step                                  *)
(***************************************************************************)

LEMMA TakenFlags ==
    ASSUME FlagTypes, NEW s \in Steps,
           UNCHANGED <<dispatchScheduled, tripped>>,
           \/ /\ Expire(s) \/ WakeClosed(s) \/ RejectLimited(s) \/ Requeue(s)
              /\ UNCHANGED tooSoon
           \/ DispatchStep(s) \/ Pace(s)
    PROVE  FlagTypes'
<1>1. Bucket[s] \in Buckets
  BY StepShape
<1>2. CASE /\ Expire(s) \/ WakeClosed(s) \/ RejectLimited(s) \/ Requeue(s)
           /\ UNCHANGED tooSoon
  BY <1>1, <1>2 DEF FlagTypes, Expire, WakeClosed, RejectLimited, Requeue, GivenUp
<1>3. CASE DispatchStep(s) \/ Pace(s)
  BY <1>3 DEF FlagTypes, DispatchStep, Pace
<1>4. QED
  BY <1>2, <1>3

LEMMA FlagStep ==
    ASSUME FlagTypes, [LanesNext]_lanevars
    PROVE  FlagTypes'
<1>1. CASE UNCHANGED lanevars
  BY <1>1 DEF FlagTypes, lanevars, loopvars, timervars
<1>2. CASE LoopEnds \/ StartLoop \/ Close \/ DrainEnds \/ Seal
  BY <1>2 DEF FlagTypes, LoopEnds, StartLoop, Close, DrainEnds, Seal, loopvars, timervars
<1>3. CASE TimersFire
  BY <1>3 DEF FlagTypes, TimersFire
<1>4. ASSUME NEW s \in Steps, TakeCandidate(s) PROVE FlagTypes'
  <2>1. /\ UNCHANGED <<dispatchScheduled, tripped>>
        /\ \/ (Expire(s) \/ WakeClosed(s) \/ RejectLimited(s) \/ Requeue(s)) /\ UNCHANGED tooSoon
           \/ DispatchStep(s) \/ Pace(s)
    BY <1>4 DEF TakeCandidate
  <2>2. QED
    BY <2>1, TakenFlags
<1>5. ASSUME NEW s \in Steps, Resume(s) PROVE FlagTypes'
  <2>1. /\ UNCHANGED <<dispatchScheduled, tripped>>
        /\ \/ (Expire(s) \/ WakeClosed(s) \/ RejectLimited(s) \/ Requeue(s)) /\ UNCHANGED tooSoon
           \/ DispatchStep(s) \/ Pace(s)
    BY <1>5 DEF Resume
  <2>2. QED
    BY <2>1, TakenFlags
<1>6. ASSUME NEW s \in Steps, Run(s) \/ Execute(s) \/ Parse(s) PROVE FlagTypes'
  BY <1>6 DEF FlagTypes, Run, Execute, Parse, Settle, loopvars, timervars
<1>7. ASSUME NEW s \in Steps, Responds(s) PROVE FlagTypes'
  <2>1. PICK seen \in RateFields \cup {None} :
            RateLimited(s) \/ Lose(s) \/ Reject(s, seen) \/ Succeed(s, seen)
    BY <1>7, RespondsIs
  <2>2. QED
    BY <2>1 DEF FlagTypes, RateLimited, Lose, Reject, Succeed, Settle
<1>8. ASSUME NEW r \in LogicalRequests, Declare(r) \/ Begin(r) \/ Dispatched(r) \/ EndRequest(r)
      PROVE  FlagTypes'
  BY <1>8 DEF FlagTypes, Declare, Begin, Dispatched, EndRequest, Submit, Refused,
              NothingSubmitted, loopvars, timervars
<1>9. QED
  BY <1>1, <1>2, <1>3, <1>4, <1>5, <1>6, <1>7, <1>8 DEF LanesNext

\* Nothing that runs changes, nor what it was sent under.
LEMMA LedgerRests ==
    ASSUME LedgerInv, FlagTypes', Running' = Running, UNCHANGED <<headers, evidenceSeq, allowed>>,
           buckets' \in LedgerMaps,
           \A b \in Buckets : buckets'[b] # None =>
               /\ buckets[b] # None
               /\ buckets'[b].left = buckets[b].left /\ buckets'[b].seq = buckets[b].seq
    PROVE  LedgerInv'
<1>1. RunningSound'
  BY CapsDrop DEF LedgerInv
<1>2. LedgerSound'
  BY RestingAllows DEF LedgerInv
<1>3. LedgerTypes'
  BY DEF LedgerInv, LedgerTypes, LedgerMaps
<1>4. QED
  BY <1>1, <1>2, <1>3 DEF LedgerInv

LEMMA LedgerStays ==
    ASSUME LedgerInv, FlagTypes', Running' = Running, UNCHANGED <<headers, evidenceSeq, budgetvars>>
    PROVE  LedgerInv'
<1>1. buckets' \in LedgerMaps /\ buckets' = buckets /\ allowed' = allowed
  BY DEF budgetvars, LedgerInv, LedgerTypes, LedgerMaps
<1>2. QED
  BY <1>1, LedgerRests

\* A step is taken up by a loop: it is given up, goes back, is held or is sent.
LEMMA TakenLedger ==
    ASSUME EndInv, LedgerInv, FlagTypes', NEW s \in Steps, stepAt[s] \in {"waiting", "held"},
           UNCHANGED headers,
           \/ /\ Expire(s) \/ WakeClosed(s) \/ RejectLimited(s) \/ Requeue(s)
              /\ UNCHANGED <<evidenceSeq, allowed>>
           \/ DispatchStep(s) \/ Pace(s)
    PROVE  LedgerInv'
<1>0. /\ stepAt \in [Steps -> Stages] /\ s \notin Running /\ buckets \in LedgerMaps
  <2>1. stepAt \in [Steps -> Stages]
    BY DEF EndInv, EndTypes
  <2>2. QED
    BY <2>1, RunningIs DEF LedgerInv, LedgerTypes, LedgerMaps
<1>1. CASE \/ /\ Expire(s) \/ WakeClosed(s) \/ RejectLimited(s) \/ Requeue(s)
              /\ UNCHANGED <<evidenceSeq, allowed>>
           \/ Pace(s)
  <2>1. PICK to \in {"over", "waiting", "held"} : stepAt' = [stepAt EXCEPT ![s] = to]
    BY <1>1 DEF Expire, WakeClosed, RejectLimited, Requeue, GivenUp, Pace
  <2>2. Running' = Running
    <3>1. to \in Stages /\ to \notin {"dispatched", "upstream"}
      BY DEF Stages
    <3>2. Running' = Running \ {s}
      BY <1>0, <2>1, <3>1, RunningMoves
    <3>3. QED
      BY <1>0, <3>2
  <2>3. buckets' = buckets \/ buckets' = Looked(s)
    BY <1>1 DEF Expire, WakeClosed, RejectLimited, Requeue, GivenUp, Pace
  <2>4. UNCHANGED <<headers, evidenceSeq, allowed>>
    BY <1>1 DEF Pace
  <2>5. QED
    BY <1>0, <2>2, <2>3, <2>4, LookedIs, LedgerRests
<1>2. CASE DispatchStep(s)
  <2>1. /\ Admits(s) /\ stepAt' = [stepAt EXCEPT ![s] = "dispatched"]
        /\ buckets' = Looked(s)
        /\ evidenceSeq' = [evidenceSeq EXCEPT ![s] =
               IF Looked(s)[Bucket[s]] = None THEN 0 ELSE Looked(s)[Bucket[s]].seq]
        /\ allowed' = [allowed EXCEPT ![Bucket[s]] =
               IF Looked(s)[Bucket[s]] = None THEN 0 ELSE @ - 1]
    BY <1>2 DEF DispatchStep
  <2>2. Running' = Running \cup {s}
    <3> DEFINE to == "dispatched"
    <3>1. to \in Stages /\ to \in {"dispatched", "upstream"} /\ stepAt' = [stepAt EXCEPT ![s] = to]
      BY <2>1 DEF Stages
    <3> HIDE DEF to
    <3>2. QED
      BY <1>0, <3>1, RunningMoves
  <2>3. /\ buckets' \in LedgerMaps /\ evidenceSeq' \in [Steps -> Nat]
        /\ allowed' \in [Buckets -> Int] /\ LedgerSound'
    BY <1>0, <2>1, <2>2, DispatchedAllows DEF EndInv
  <2>4. RunningSound'
    BY <1>0, <2>1, <2>2, CapsAdd DEF Admits, MustWait, LedgerInv
  <2>5. QED
    BY <2>3, <2>4 DEF LedgerInv, LedgerTypes, LedgerMaps
<1>3. QED
  BY <1>1, <1>2

\* A step settles, and may publish what its response told.
LEMMA SettleLedger ==
    ASSUME EndInv, LedgerInv, FlagTypes', NEW s \in Steps, s \in Running,
           NEW seen \in [left : 0..MaxLeft, reset : {"ahead", "none"}] \cup {None},
           NEW kind, Settle(s, kind, Republished(Bucket[s], seen)),
           allowed' = Allowed(Bucket[s], seen),
           headers' \in [Steps -> RateFields \cup {None}]
    PROVE  LedgerInv'
<1> DEFINE c == Bucket[s]
           L == Republished(c, seen)
<1>0. /\ stepAt \in [Steps -> Stages] /\ c \in Buckets /\ buckets \in LedgerMaps
      /\ allowed \in [Buckets -> Int] /\ evidenceSeq \in [Steps -> Nat]
      /\ IsFiniteSet(Running) /\ Running \subseteq Steps /\ LedgerSound
  <2>1. stepAt \in [Steps -> Stages]
    BY DEF EndInv, EndTypes
  <2>2. QED
    BY <2>1, RunningIs, StepShape DEF LedgerInv, LedgerTypes, LedgerMaps, RunningSound
<1>1. allowed' \in [Buckets -> Int]
  <2>1. seen # None => seen.left \in Int
    BY LanesAssumption
  <2>2. QED
    BY <1>0, <2>1 DEF Allowed
<1>2. /\ L \in LedgerMaps
      /\ \A b \in Buckets : Allows(L, allowed', Running, evidenceSeq, b)
  BY <1>0, <1>1, RepublishedAllows
<1> HIDE DEF L
<1>3. /\ buckets' = [L EXCEPT ![Bucket[s]] = Charged(@, s)]
      /\ evidenceSeq' = [evidenceSeq EXCEPT ![s] = 0]
      /\ stepAt' = [stepAt EXCEPT ![s] = "over"]
  BY DEF Settle, L
<1>4. Running' = Running \ {s}
  <2> DEFINE to == "over"
  <2>1. to \in Stages /\ to \notin {"dispatched", "upstream"} /\ stepAt' = [stepAt EXCEPT ![s] = to]
    BY <1>3 DEF Stages
  <2> HIDE DEF to
  <2>2. QED
    BY <1>0, <2>1, RunningMoves
<1>5. /\ buckets' \in LedgerMaps
      /\ \A b \in Buckets : Allows(buckets', allowed', Running \ {s}, evidenceSeq', b)
  BY <1>0, <1>1, <1>2, <1>3, ChargedAllows
<1>6. LedgerSound'
  BY <1>4, <1>5, LedgerIs
<1>7. RunningSound'
  BY <1>4, CapsDrop DEF LedgerInv
<1>8. evidenceSeq' \in [Steps -> Nat]
  BY <1>0, <1>3
<1>9. QED
  BY <1>1, <1>5, <1>6, <1>7, <1>8 DEF LedgerInv, LedgerTypes, LedgerMaps

\* A caller publishes the budget that its response told.
LEMMA ReadLedger ==
    ASSUME EndInv, LedgerInv, FlagTypes', NEW s \in Steps, ReadHeaders(s),
           Running' = Running, UNCHANGED evidenceSeq
    PROVE  LedgerInv'
<1> DEFINE c == Bucket[s]
           seen == headers[s]
<1>0. /\ c \in Buckets /\ buckets \in LedgerMaps /\ LedgerSound /\ IsFiniteSet(Running)
      /\ allowed \in [Buckets -> Int] /\ headers \in [Steps -> RateFields \cup {None}]
  BY StepShape DEF LedgerInv, LedgerTypes, LedgerMaps, RunningSound
<1>1. seen \in [left : 0..MaxLeft, reset : {"ahead", "none"}] \cup {None}
  BY <1>0, LanesAssumption DEF RateFields
<1>2. allowed' = Allowed(c, seen) /\ buckets' = Republished(c, seen)
  BY DEF ReadHeaders
<1>3. headers' \in [Steps -> RateFields \cup {None}]
  BY <1>0 DEF ReadHeaders
<1> HIDE DEF c, seen
<1>4. allowed' \in [Buckets -> Int]
  <2>1. seen # None => seen.left \in Int
    BY <1>1, LanesAssumption
  <2>2. QED
    BY <1>0, <1>2, <2>1 DEF Allowed
<1>5. /\ buckets' \in LedgerMaps
      /\ \A b \in Buckets : Allows(buckets', allowed', Running, evidenceSeq, b)
  BY <1>0, <1>1, <1>2, <1>4, RepublishedAllows
<1>6. LedgerSound'
  BY <1>5, LedgerIs
<1>7. RunningSound'
  BY CapsDrop DEF LedgerInv
<1>8. QED
  BY <1>3, <1>4, <1>5, <1>6, <1>7 DEF LedgerInv, LedgerTypes, LedgerMaps


\* Steps that are submitted were not yet born: none of them runs.
LEMMA SubmitRuns ==
    ASSUME stepAt \in [Steps -> Stages], NEW ss, ss \subseteq Steps, Unborn(ss),
           Submit(ss) \/ Refused \/ NothingSubmitted
    PROVE  Running' = Running
<1>1. CASE Submit(ss)
  <2>1. \A t \in Steps : stepAt'[t] = stepAt[t] \/ (stepAt[t] = "unborn" /\ stepAt'[t] = "waiting")
    BY <1>1 DEF Submit, Unborn
  <2>2. QED
    BY <2>1 DEF Running, InStage
<1>2. CASE Refused \/ NothingSubmitted
  BY <1>2 DEF Refused, NothingSubmitted, Running, InStage
<1>3. QED
  BY <1>1, <1>2

LEMMA TimersLedger ==
    ASSUME LedgerInv, FlagTypes', TimersFire
    PROVE  LedgerInv'
<1>1. /\ Running' = Running /\ UNCHANGED <<headers, evidenceSeq, allowed>>
      /\ buckets \in LedgerMaps
  BY DEF TimersFire, promisevars, Running, InStage, LedgerInv, LedgerTypes, LedgerMaps
<1>2. CASE UNCHANGED buckets
  BY <1>1, <1>2, LedgerRests
<1>3. CASE \E b \in Buckets :
              /\ buckets[b] # None /\ buckets[b].reset = "ahead"
              /\ buckets' = [buckets EXCEPT ![b].reset = "passed"]
  <2>1. PICK b \in Buckets : /\ buckets[b] # None
                             /\ buckets' = [buckets EXCEPT ![b].reset = "passed"]
    BY <1>3
  <2>2. buckets[b] \in Ledgers
    BY <1>1, <2>1 DEF LedgerMaps
  <2>3. /\ buckets'[b] = [buckets[b] EXCEPT !.reset = "passed"]
        /\ \A c \in Buckets : c # b => buckets'[c] = buckets[c]
    BY <1>1, <2>1 DEF LedgerMaps
  <2>4. buckets'[b] = [left |-> buckets[b].left, reset |-> "passed", seq |-> buckets[b].seq]
    BY <2>2, <2>3 DEF Ledgers
  <2>5. buckets'[b] \in Ledgers
    BY <2>2, <2>4 DEF Ledgers
  <2>6. buckets' \in LedgerMaps
    BY <1>1, <2>1, <2>3, <2>5 DEF LedgerMaps
  <2>7. \A c \in Buckets : buckets'[c] # None =>
            /\ buckets[c] # None
            /\ buckets'[c].left = buckets[c].left /\ buckets'[c].seq = buckets[c].seq
    BY <2>1, <2>3, <2>4
  <2>8. QED
    BY <1>1, <2>6, <2>7, LedgerRests
<1>4. QED
  BY <1>2, <1>3 DEF TimersFire

LEMMA RunLedger ==
    ASSUME EndInv, LedgerInv, FlagTypes', NEW s \in Steps, Run(s)
    PROVE  LedgerInv'
<1>1. stepAt \in [Steps -> Stages] /\ s \in Running
  BY RunningIs DEF EndInv, EndTypes, Run
<1>2. CASE /\ stepAt' = [stepAt EXCEPT ![s] = "upstream"]
           /\ UNCHANGED <<headers, evidenceSeq, budgetvars>>
  <2> DEFINE to == "upstream"
  <2>1. to \in Stages /\ to \in {"dispatched", "upstream"} /\ stepAt' = [stepAt EXCEPT ![s] = to]
    BY <1>2 DEF Stages
  <2> HIDE DEF to
  <2>2. Running' = Running \cup {s}
    BY <1>1, <2>1, RunningMoves
  <2>3. QED
    BY <1>1, <1>2, <2>2, LedgerStays
<1>3. CASE Settle(s, "limited", buckets) /\ UNCHANGED <<headers, allowed>>
  <2>1. /\ Republished(Bucket[s], None) = buckets /\ Allowed(Bucket[s], None) = allowed
        /\ headers' \in [Steps -> RateFields \cup {None}]
    BY <1>3 DEF Republished, Allowed, LedgerInv, LedgerTypes
  <2> DEFINE seen == None
             kind == "limited"
  <2>2. /\ seen \in [left : 0..MaxLeft, reset : {"ahead", "none"}] \cup {None}
        /\ Settle(s, kind, Republished(Bucket[s], seen)) /\ allowed' = Allowed(Bucket[s], seen)
    BY <1>3, <2>1
  <2> HIDE DEF seen, kind
  <2>3. QED
    BY <1>1, <2>1, <2>2, SettleLedger
<1>4. QED
  BY <1>2, <1>3 DEF Run, promisevars

LEMMA RespondsLedger ==
    ASSUME EndInv, LedgerInv, FlagTypes', NEW s \in Steps, Responds(s)
    PROVE  LedgerInv'
<1>1. stepAt \in [Steps -> Stages] /\ s \in Running
  BY RunningIs, RespondsIs DEF EndInv, EndTypes
<1>2. PICK tells \in RateFields \cup {None} :
          RateLimited(s) \/ Lose(s) \/ Reject(s, tells) \/ Succeed(s, tells)
  BY RespondsIs
<1>3. /\ Republished(Bucket[s], None) = buckets /\ Allowed(Bucket[s], None) = allowed
      /\ headers \in [Steps -> RateFields \cup {None}]
  BY DEF Republished, Allowed, LedgerInv, LedgerTypes
<1>4. tells \in [left : 0..MaxLeft, reset : {"ahead", "none"}] \cup {None}
  BY LanesAssumption DEF RateFields
<1>5. PICK seen \in [left : 0..MaxLeft, reset : {"ahead", "none"}] \cup {None},
           kind \in {"value", "rejected", "limited", "lost"} :
          /\ Settle(s, kind, Republished(Bucket[s], seen)) /\ allowed' = Allowed(Bucket[s], seen)
          /\ headers' \in [Steps -> RateFields \cup {None}]
  <2>1. CASE RateLimited(s)
    <3>1. CASE /\ Settle(s, "limited", Republished(Bucket[s], [left |-> 0, reset |-> "ahead"]))
               /\ allowed' = [allowed EXCEPT ![Bucket[s]] = 0] /\ UNCHANGED headers
      <4> DEFINE empty == [left |-> 0, reset |-> "ahead"]
      <4>1. empty \in [left : 0..MaxLeft, reset : {"ahead", "none"}]
        BY LanesAssumption
      <4>2. empty # None
        BY <4>1, AnswersAssumption
      <4>3. allowed' = Allowed(Bucket[s], empty)
        BY <3>1, <4>2 DEF Allowed
      <4>4. Settle(s, "limited", Republished(Bucket[s], empty))
        BY <3>1
      <4> HIDE DEF empty
      <4>5. QED
        BY <1>3, <3>1, <4>1, <4>3, <4>4
    <3>2. CASE Settle(s, "limited", buckets) /\ UNCHANGED <<allowed, headers>>
      BY <1>3, <3>2
    <3>3. QED
      BY <2>1, <3>1, <3>2 DEF RateLimited
  <2>2. CASE Lose(s)
    BY <1>3, <2>2 DEF Lose
  <2>3. CASE Reject(s, tells)
    BY <1>3, <1>4, <2>3 DEF Reject
  <2>4. CASE Succeed(s, tells)
    <3>1. headers' \in [Steps -> RateFields \cup {None}]
      BY <1>3, <2>4 DEF Succeed
    <3>2. QED
      BY <1>3, <2>4, <3>1 DEF Succeed
  <2>5. QED
    BY <1>2, <2>1, <2>2, <2>3, <2>4
<1>6. QED
  BY <1>1, <1>5, SettleLedger

LEMMA DispatchedLedger ==
    ASSUME EndInv, LedgerInv, FlagTypes', NEW q \in LogicalRequests, Dispatched(q)
    PROVE  LedgerInv'
<1>1. /\ q \in WriteRequests /\ Unborn(Reads(q)) /\ stepAt \in [Steps -> Stages]
      /\ Reads(q) \subseteq Steps /\ UNCHANGED evidenceSeq
  BY RequestShape DEF EndInv, EndTypes, Dispatched, RequestSound
<1>2. <<q, 0>> \in Steps
  BY <1>1, WriteShape
<1>3. ReadHeaders(<<q, 0>>)
  BY DEF Dispatched
<1>4. Submit(Reads(q)) \/ Refused \/ NothingSubmitted
  BY DEF Dispatched
<1>5. Running' = Running
  BY <1>1, <1>4, SubmitRuns
<1> DEFINE s == <<q, 0>>
<1>6. s \in Steps /\ ReadHeaders(s)
  BY <1>2, <1>3
<1> HIDE DEF s
<1>7. QED
  BY <1>1, <1>5, <1>6, ReadLedger

LEMMA BegunLedger ==
    ASSUME EndInv, LedgerInv, FlagTypes', NEW q \in LogicalRequests, Declare(q) \/ Begin(q)
    PROVE  LedgerInv'
<1>1. /\ RequestSound(q) /\ progress[q] \in {"new", "queued", "marking"}
      /\ stepAt \in [Steps -> Stages]
      /\ Reads(q) \subseteq Steps /\ Sends(q) \subseteq Steps
  BY RequestShape DEF EndInv, EndTypes, Declare, Begin
<1>2. Unborn(Reads(q)) /\ Unborn(Sends(q))
  BY <1>1 DEF RequestSound, Unborn, StepsOf
<1>3. Submit(Reads(q)) \/ Submit(Sends(q)) \/ Refused \/ NothingSubmitted
  BY DEF Declare, Begin
<1>4. Running' = Running
  BY <1>1, <1>2, <1>3, SubmitRuns
<1>5. UNCHANGED <<headers, evidenceSeq, budgetvars>>
  BY DEF Declare, Begin, promisevars
<1>6. QED
  BY <1>4, <1>5, LedgerStays

LEMMA LedgerStep ==
    ASSUME EndInv, LedgerInv, [LanesNext]_lanevars
    PROVE  LedgerInv'
<1>0. FlagTypes' /\ stepAt \in [Steps -> Stages]
  BY FlagStep DEF LedgerInv, EndInv, EndTypes
<1>1. CASE UNCHANGED <<stepAt, headers, evidenceSeq, budgetvars>>
  <2>1. Running' = Running
    BY <1>1 DEF Running, InStage
  <2>2. QED
    BY <1>0, <1>1, <2>1, LedgerStays
<1>2. CASE UNCHANGED lanevars \/ LoopEnds \/ StartLoop \/ DrainEnds \/ Seal
  BY <1>1, <1>2 DEF lanevars, LoopEnds, StartLoop, DrainEnds, Seal, promisevars, budgetvars
<1>3. CASE TimersFire
  BY <1>0, <1>3, TimersLedger
<1>4. CASE Close
  <2>1. \A t \in Steps : stepAt'[t] = stepAt[t] \/ (stepAt[t] = "waiting" /\ stepAt'[t] = "over")
    BY <1>4 DEF Close, Waiting, InStage
  <2>2. Running' = Running
    BY <2>1 DEF Running, InStage
  <2>3. UNCHANGED <<headers, evidenceSeq, budgetvars>>
    BY <1>4 DEF Close
  <2>4. QED
    BY <1>0, <2>2, <2>3, LedgerStays
<1>5. ASSUME NEW s \in Steps, TakeCandidate(s) PROVE LedgerInv'
  <2>1. stepAt[s] \in {"waiting", "held"}
    BY <1>5 DEF TakeCandidate, Eligible, Waiting, InStage
  <2>2. /\ UNCHANGED headers
        /\ \/ /\ Expire(s) \/ WakeClosed(s) \/ RejectLimited(s) \/ Requeue(s)
              /\ UNCHANGED <<evidenceSeq, allowed>>
           \/ DispatchStep(s) \/ Pace(s)
    BY <1>5 DEF TakeCandidate
  <2>3. QED
    BY <1>0, <2>1, <2>2, TakenLedger
<1>6. ASSUME NEW s \in Steps, Resume(s) PROVE LedgerInv'
  <2>1. stepAt[s] \in {"waiting", "held"}
    BY <1>6 DEF Resume, Held, InStage
  <2>2. /\ UNCHANGED headers
        /\ \/ /\ Expire(s) \/ WakeClosed(s) \/ RejectLimited(s) \/ Requeue(s)
              /\ UNCHANGED <<evidenceSeq, allowed>>
           \/ DispatchStep(s) \/ Pace(s)
    BY <1>6 DEF Resume
  <2>3. QED
    BY <1>0, <2>1, <2>2, TakenLedger
<1>7. ASSUME NEW s \in Steps, Run(s) \/ Responds(s) PROVE LedgerInv'
  BY <1>0, <1>7, RunLedger, RespondsLedger
<1>8. ASSUME NEW s \in Steps, Execute(s) PROVE LedgerInv'
  BY <1>1, <1>8 DEF Execute, promisevars
<1>9. ASSUME NEW s \in Steps, Parse(s) PROVE LedgerInv'
  <2>1. ReadHeaders(s) /\ Running' = Running /\ UNCHANGED evidenceSeq
    BY <1>9 DEF Parse, Running, InStage
  <2>2. QED
    BY <1>0, <2>1, ReadLedger
<1>10. ASSUME NEW r \in LogicalRequests, Declare(r) \/ Begin(r) PROVE LedgerInv'
  BY <1>0, <1>10, BegunLedger
<1>11. ASSUME NEW r \in LogicalRequests, Dispatched(r) PROVE LedgerInv'
  BY <1>0, <1>11, DispatchedLedger
<1>12. ASSUME NEW r \in LogicalRequests, EndRequest(r) PROVE LedgerInv'
  BY <1>1, <1>12 DEF EndRequest, promisevars
<1>13. QED
  BY <1>2, <1>3, <1>4, <1>5, <1>6, <1>7, <1>8, <1>9, <1>10, <1>11, <1>12 DEF LanesNext


(***************************************************************************)
(* Who waits is looked at                                                  *)
(***************************************************************************)

LEMMA StallsNot ==
    ASSUME NobodyStalls,
           \/ dispatchScheduled' \/ looping' \/ wakes' # {}
           \/ UNCHANGED <<stepAt, dispatchScheduled, looping, wakes>>
    PROVE  NobodyStalls'
BY DEF NobodyStalls, Waiting, Held, Running, InStage

\* A step goes back only for something under way, or for a reset.
LEMMA RequeueWaits ==
    ASSUME EndInv, LedgerInv, NobodyStalls, NEW s \in Steps, stepAt[s] \in {"waiting", "held"},
           Requeue(s)
    PROVE  NobodyStalls'
<1>1. stepAt \in [Steps -> Stages] /\ IsFiniteSet(Running) /\ s \notin Running
  <2>1. stepAt \in [Steps -> Stages]
    BY DEF EndInv, EndTypes
  <2>2. QED
    BY <2>1, RunningIs DEF LedgerInv, RunningSound
<1>2. CASE MustWait(s)
  <2>1. Running # {}
    BY <1>1, <1>2, FullMeansRunning
  <2>2. \A t \in Steps : t # s => stepAt'[t] = stepAt[t]
    BY <1>1 DEF Requeue
  <2>3. Running \subseteq Running'
    BY <1>1, <2>2 DEF Running, InStage
  <2>4. QED
    BY <2>1, <2>3 DEF NobodyStalls
<1>3. CASE wakes' = wakes \cup {Bucket[s]}
  BY <1>3, StallsNot
<1>4. QED
  BY <1>2, <1>3 DEF Requeue

LEMMA ClosedWaits ==
    ASSUME EndInv, closing # "open"
    PROVE  Waiting = {}
BY DEF EndInv, StepSound, Waiting, InStage

LEMMA StallStep ==
    ASSUME EndInv, LedgerInv, NobodyStalls, [LanesNext]_lanevars
    PROVE  NobodyStalls'
<1>0. stepAt \in [Steps -> Stages] /\ IsFiniteSet(Running)
  BY DEF EndInv, EndTypes, LedgerInv, RunningSound
<1>1. CASE UNCHANGED lanevars \/ DrainEnds \/ Seal
  BY <1>1, StallsNot DEF lanevars, DrainEnds, Seal, loopvars, timervars
<1>2. CASE LoopEnds
  <2>1. Running' = Running /\ Waiting' = Waiting
    BY <1>2 DEF LoopEnds, Running, Waiting, InStage
  <2>2. Waiting # {} => Running # {}
    <3> SUFFICES ASSUME NEW s \in Waiting PROVE Running # {}
      OBVIOUS
    <3>1. s \in Steps
      BY <1>0, RunningIs
    <3>2. Cardinality(Running) >= TotalCap \/ ~(RepoRunning(s) < RepoCap)
      BY <1>2, <3>1 DEF LoopEnds, Eligible
    <3>3. RepoRunning(s) \in Nat /\ RepoCap \in Nat
      BY <1>0, CountIs, LanesAssumption
    <3>4. Full(s)
      BY <3>2, <3>3 DEF Full
    <3>5. QED
      BY <1>0, <3>1, <3>4, FullMeansRunning
  <2>3. QED
    BY <2>1, <2>2 DEF NobodyStalls
<1>3. ASSUME NEW s \in Steps, TakeCandidate(s) PROVE NobodyStalls'
  <2>1. stepAt[s] \in {"waiting", "held"}
    BY <1>3 DEF TakeCandidate, Eligible, Waiting, InStage
  <2>2. CASE Expire(s) \/ RejectLimited(s) \/ DispatchStep(s)
    BY <2>2, StallsNot DEF Expire, RejectLimited, DispatchStep
  <2>3. CASE Requeue(s)
    BY <2>1, <2>3, RequeueWaits
  <2>4. CASE Pace(s)
    <3>1. stepAt'[s] = "held"
      BY <1>0, <2>4 DEF Pace
    <3>2. QED
      BY <3>1 DEF NobodyStalls, Held, InStage
  <2>5. QED
    BY <1>3, <2>2, <2>3, <2>4 DEF TakeCandidate
<1>4. CASE StartLoop
  BY <1>4, StallsNot DEF StartLoop
<1>5. CASE TimersFire
  <2>1. UNCHANGED <<stepAt, looping>> /\ (dispatchScheduled' \/ UNCHANGED <<dispatchScheduled, wakes>>)
    BY <1>5 DEF TimersFire
  <2>2. QED
    BY <2>1, StallsNot
<1>6. CASE Close
  <2>1. \A t \in Steps : stepAt'[t] = IF stepAt[t] = "waiting" THEN "over" ELSE stepAt[t]
    BY <1>6 DEF Close, Waiting, InStage
  <2>2. Waiting' = {}
    BY <2>1 DEF Waiting, InStage
  <2>3. QED
    BY <2>2 DEF NobodyStalls
<1>7. ASSUME NEW s \in Steps, Resume(s) PROVE NobodyStalls'
  <2>1. stepAt[s] \in {"waiting", "held"}
    BY <1>7 DEF Resume, Held, InStage
  <2>2. CASE Expire(s) \/ RejectLimited(s) \/ DispatchStep(s)
    BY <2>2, StallsNot DEF Expire, RejectLimited, DispatchStep
  <2>3. CASE Requeue(s)
    BY <2>1, <2>3, RequeueWaits
  <2>4. CASE WakeClosed(s)
    <3>1. Waiting = {}
      BY <2>4, ClosedWaits DEF WakeClosed
    <3>2. \A t \in Steps : stepAt'[t] = stepAt[t] \/ stepAt'[t] = "over"
      BY <1>0, <2>4 DEF WakeClosed, GivenUp
    <3>3. Waiting' = {}
      BY <3>1, <3>2 DEF Waiting, InStage
    <3>4. QED
      BY <3>3 DEF NobodyStalls
  <2>5. QED
    BY <1>7, <2>2, <2>3, <2>4 DEF Resume
<1>8. ASSUME NEW s \in Steps, Run(s) PROVE NobodyStalls'
  <2>1. CASE stepAt' = [stepAt EXCEPT ![s] = "upstream"]
    <3>1. stepAt'[s] = "upstream"
      BY <1>0, <2>1
    <3>2. QED
      BY <3>1 DEF NobodyStalls, Running, InStage
  <2>2. CASE Settle(s, "limited", buckets)
    BY <2>2, StallsNot DEF Settle
  <2>3. QED
    BY <1>8, <2>1, <2>2 DEF Run
<1>9. ASSUME NEW s \in Steps, Responds(s) PROVE NobodyStalls'
  <2>1. PICK seen \in RateFields \cup {None} :
            RateLimited(s) \/ Lose(s) \/ Reject(s, seen) \/ Succeed(s, seen)
    BY <1>9, RespondsIs
  <2>2. dispatchScheduled'
    BY <2>1 DEF RateLimited, Lose, Reject, Succeed, Settle
  <2>3. QED
    BY <2>2, StallsNot
<1>10. ASSUME NEW s \in Steps, Execute(s) \/ Parse(s) PROVE NobodyStalls'
  BY <1>10, StallsNot DEF Execute, Parse, loopvars, timervars
<1>11. ASSUME NEW r \in LogicalRequests, Declare(r) \/ Begin(r) \/ Dispatched(r) PROVE NobodyStalls'
  <2>1. dispatchScheduled' \/ UNCHANGED <<stepAt, dispatchScheduled>>
    BY <1>11 DEF Declare, Begin, Dispatched, Submit, Refused, NothingSubmitted
  <2>2. UNCHANGED <<looping, wakes>>
    BY <1>11 DEF Declare, Begin, Dispatched, timervars
  <2>3. QED
    BY <2>1, <2>2, StallsNot
<1>12. ASSUME NEW r \in LogicalRequests, EndRequest(r) PROVE NobodyStalls'
  BY <1>12, StallsNot DEF EndRequest, loopvars, timervars
<1>13. QED
  BY <1>1, <1>2, <1>3, <1>4, <1>5, <1>6, <1>7, <1>8, <1>9, <1>10, <1>11, <1>12 DEF LanesNext

(***************************************************************************)
(* The theorems                                                            *)
(***************************************************************************)

LEMMA LanesStart ==
    ASSUME LanesInit
    PROVE  LanesInv
<1>1. Running = {} /\ Waiting = {}
  BY DEF LanesInit, Running, Waiting, InStage
<1>2. EndInv
  <2>1. EndTypes
    BY DEF LanesInit, EndTypes, Stages, Phases
  <2>2. \A s \in Steps : StepSound(s)
    BY DEF LanesInit, StepSound
  <2>3. ASSUME NEW r \in LogicalRequests PROVE RequestSound(r)
    <3>1. /\ progress[r] = "new" /\ result[r] = None /\ pacing[r] = None /\ landed = {}
          /\ None # "refused"
      BY AnswersAssumption DEF LanesInit, Results
    <3>2. Unborn(StepsOf(r))
      BY RequestShape DEF LanesInit, Unborn
    <3>3. QED
      BY <3>1, <3>2 DEF RequestSound
  <2>4. ASSUME NEW r \in WriteRequests PROVE EndSound(r)
    <3>1. result[r] = None /\ terminal[r] = None /\ promise[<<r, 0>>] = None
      BY WriteShape DEF LanesInit
    <3>2. /\ None \notin {"confirmed", "failed", "interrupted"}
          /\ None \notin {"closed", "woken", "rejected"}
      BY AnswersAssumption DEF Answers, Results, Terminals
    <3>3. QED
      BY <3>1, <3>2 DEF EndSound
  <2>5. SealSound
    BY DEF LanesInit, SealSound
  <2>6. QED
    BY <2>1, <2>2, <2>3, <2>4, <2>5 DEF EndInv
<1>3. LedgerInv
  <2>1. LedgerTypes /\ FlagTypes /\ LedgerSound
    <3>1. LedgerTypes
      BY DEF LanesInit, LedgerTypes
    <3>2. FlagTypes
      BY DEF LanesInit, FlagTypes
    <3>3. \A b \in Buckets : buckets[b] = None
      BY DEF LanesInit
    <3>4. QED
      BY <3>1, <3>2, <3>3 DEF LedgerSound
  <2>2. RunningSound
    BY <1>1, FS_EmptySet, LanesAssumption DEF RunningSound, CapsKept
  <2>3. QED
    BY <2>1, <2>2 DEF LedgerInv
<1>4. NobodyStalls
  BY <1>1 DEF NobodyStalls
<1>5. QED
  BY <1>2, <1>3, <1>4 DEF LanesInv

\* In every execution, for any requests, caps, budgets and number of mishaps, what each
\* step and each request is owed follows from where it is, and every step under way
\* under the last evidence is still to be charged to its bucket.
THEOREM LanesInvariant == LanesSpec => []LanesInv
<1>1. LanesInit => LanesInv
  BY LanesStart
<1>2. LanesInv /\ [LanesNext]_lanevars => LanesInv'
  BY EndStep, LedgerStep, StallStep DEF LanesInv
<1>3. QED
  BY <1>1, <1>2, PTL DEF LanesSpec

LEMMA LanesImply ==
    ASSUME LanesInv
    PROVE  LanesAreSafe
<1>1. LanesTypeOK
  <2>1. \A r \in LogicalRequests : pacing[r] = None \/ pacing[r] \in Reads(r) \cup Sends(r)
    BY DEF LanesInv, EndInv, RequestSound, StepsOf
  <2>2. QED
    BY <2>1 DEF LanesInv, EndInv, EndTypes, LedgerInv, LedgerTypes, FlagTypes, LanesTypeOK
<1>2. CapsKept /\ BudgetKept /\ NobodyStalls
  BY DEF LanesInv, LedgerInv, RunningSound, LedgerSound, BudgetKept
<1>3. EndsAreTrue
  BY DEF LanesInv, EndInv, EndSound, NeverLands, EndsAreTrue
<1>4. SealedOwesNothing
  <2> SUFFICES ASSUME closing = "sealed" PROVE SealedOwesNothing
    BY DEF SealedOwesNothing
  <2>1. \A r \in Declared : terminal[r] # None
    BY DEF LanesInv, EndInv, SealSound
  <2>2. Waiting = {}
    BY ClosedWaits DEF LanesInv
  <2>3. ASSUME NEW s \in Steps, stepAt[s] # "unborn", stepAt[s] # "held"
        PROVE  promise[s] # None
    <3>1. StepSound(s) /\ stepAt[s] \in {"waiting", "dispatched", "upstream", "over"}
      BY <2>3 DEF LanesInv, EndInv, EndTypes, Stages
    <3>2. QED
      BY <2>3, <3>1, AnswersAssumption DEF StepSound, Answers
  <2>4. QED
    BY <2>1, <2>2, <2>3 DEF SealedOwesNothing
<1>5. QED
  BY <1>1, <1>2, <1>3, <1>4 DEF LanesAreSafe

\* The promise of the gateway: its caps and budgets hold whatever sleeps between two
\* admissions, nothing it took is forgotten, and every end, through close() too, is true.
THEOREM LanesAlwaysSafe == LanesSpec => []LanesAreSafe
<1>1. LanesInv => LanesAreSafe
  BY LanesImply
<1>2. QED
  BY <1>1, LanesInvariant, PTL

-----------------------------------------------------------------------------
(***************************************************************************)
(* Streams, for a log of any length behind a memory of any size, and any   *)
(* number of openings, lost answers, failed appends and restarts.  The     *)
(* lines that were written are the first ones, up to what is queued and    *)
(* scheduled; a history knows all of them up to its cursor, but for what   *)
(* was scheduled; and what a response carries goes on where the view is.   *)
(***************************************************************************)

Messages == {Line(k) : k \in Lines} \cup {Done, HistoryRequired}

HistoryFetches ==
    [use : {"open", "check"}, open : Nat, step : {"asked", "reading", "answered", "lost"},
     live : BOOLEAN, cursor : 0..MaxLines, events : Seq(Lines), active : BOOLEAN,
     excused : SUBSET Lines]

FileOperations ==
    [op : {"create"}] \cup [op : {"append"}, line : Lines] \cup
    [op : {"read"}, fetch : HistoryFetches]

Views ==
    [phase : {"idle", "history", "connecting", "streaming", "retrying", "ended"}, opens : Nat,
     shown : Seq(Lines), fence : 0..MaxLines, lastId : 0..MaxLines,
     source : {"none", "connecting", "open", "refused"}, checking : BOOLEAN,
     end : {None, "history", "checked", "done"}, excused : SUBSET Lines]

LogTypes ==
    /\ task \in [lines : Lines, closed : BOOLEAN, kept : BOOLEAN, final : Lines \cup {None}]
    /\ scheduled \in Seq(Lines) /\ queue \in Seq(FileOperations)
    /\ disk \subseteq Lines /\ lostLines \subseteq Lines

PanelTypes ==
    /\ conn \in (0..MaxLines) \cup {None} /\ wire \in Seq(Messages)
    /\ fetches \subseteq HistoryFetches /\ view \in Views

TaskSound ==
    /\ task.final # None => task.closed /\ task.final <= task.lines
    /\ task.closed /\ task.kept => task.final # None

\* Lines that were written, or never will be.
Written == disk \cup lostLines

Adding(i) == queue[i].op \in {"create", "append"}

\* One line at most is at the file, those behind it are scheduled, in order.
LogSound ==
    /\ disk \cap lostLines = {}
    /\ \A i \in DOMAIN scheduled : scheduled[i] = task.lines - Len(scheduled) + i
    /\ \A i, j \in DOMAIN queue : Adding(i) /\ Adding(j) => i = j
    /\ (\A i \in DOMAIN queue : ~Adding(i)) =>
           scheduled = <<>> /\ (task.kept => Written = 1..task.lines)
    /\ \A i \in DOMAIN queue :
           /\ queue[i].op = "create" => Len(scheduled) = task.lines /\ Written = {}
           /\ queue[i].op = "append" => /\ queue[i].line = task.lines - Len(scheduled)
                                        /\ Written = 1..(queue[i].line - 1)

\* What the file will hold, or have lost, when an operation of its queue is at its head.
Before(i) ==
    Written \cup {queue[j].line : j \in {k \in 1..(i - 1) : queue[k].op = "append"}}

\* A read finds the lines up to its cursor, but for those that were scheduled.
ReadSound(i) ==
    LET f == queue[i].fetch IN
    /\ f \in fetches /\ f.step = "reading"
    /\ \A j \in DOMAIN queue : queue[j].op = "read" /\ queue[j].fetch = f => j = i
    /\ ~f.live => f.cursor = 0
    /\ f.live => /\ f.cursor \in 1..task.lines
                 /\ Before(i) \subseteq 1..f.cursor
                 /\ 1..f.cursor \subseteq Before(i) \cup f.excused

Ascending(s) == \A i \in 1..(Len(s) - 1) : s[i] < s[i + 1]

AnswerSound(f) ==
    /\ Ascending(f.events)
    /\ f.cursor <= task.lines
    /\ f.active => f.cursor > 0
    /\ f.cursor > 0 => /\ Range(f.events) \subseteq 1..f.cursor
                       /\ 1..f.cursor \subseteq Range(f.events) \cup f.excused \cup lostLines

FetchSound(f) ==
    /\ f.open <= view.opens
    /\ f.use = "check" => view.checking
    /\ f.use = "open" /\ f.open = view.opens =>
           view.source = "none" /\ view.lastId = 0 /\ view.end # "done"
    /\ f.step = "answered" => AnswerSound(f)

\* An opening asks once, and one check is out at a time.
FetchesApart ==
    \A f, g \in fetches :
        f.use = g.use /\ (f.use = "check" \/ f.open = g.open) => f = g

\* A response carries m lines of a task t from the cursor of the view on, and then the
\* end of the task, the request to load the history, or nothing.
GoesOn(t, w, from, c, m) ==
    /\ \A i \in 1..m : w[i] = Line(from + i)
    /\ from + m <= t.lines
    /\ \/ Len(w) = m /\ (c = None \/ c = from + m)
       \/ /\ Len(w) = m + 1 /\ c = None /\ w[m + 1] = Done
          /\ t.final # None /\ t.final <= from + m
       \/ Len(w) = m + 1 /\ c = None /\ w[m + 1] = HistoryRequired

ViewSound ==
    /\ Ascending(view.shown)
    /\ (1..view.fence) \ Range(view.shown) \subseteq view.excused
    /\ view.fence > 0 => /\ \A k \in Range(view.shown) : k <= Cursor
                         /\ (view.fence + 1)..view.lastId \subseteq Range(view.shown)
    /\ Cursor <= task.lines
    /\ view.source # "none" => view.fence > 0
    /\ view.source # "open" => conn = None /\ wire = <<>>
    /\ view.source = "open" => \E m \in Nat : GoesOn(task, wire, Cursor, conn, m)
    /\ view.end = "done" =>
           task.final # None /\ (view.fence < task.final => task.final \in Range(view.shown))

StreamInv ==
    /\ LogTypes /\ PanelTypes /\ TaskSound /\ LogSound
    /\ \A i \in DOMAIN queue : queue[i].op = "read" => ReadSound(i)
    /\ FetchesApart /\ (\A f \in fetches : FetchSound(f))
    /\ ViewSound

LEMMA MaxTwo ==
    ASSUME NEW a \in Int, NEW b \in Int
    PROVE  Max({a, b}) = IF a >= b THEN a ELSE b
<1> DEFINE S == {a, b}
           big == IF a >= b THEN a ELSE b
<1>1. big \in S /\ \A y \in S : big >= y
  OBVIOUS
<1>2. \A x \in S : (\A y \in S : x >= y) => x = big
  OBVIOUS
<1>3. Max(S) = CHOOSE x \in S : \A y \in S : x >= y
  BY DEF Max
<1> HIDE DEF S, big
<1>4. Max(S) \in S /\ \A y \in S : Max(S) >= y
  BY <1>1, <1>3
<1>5. QED
  BY <1>2, <1>4 DEF S, big

LEMMA CursorIs ==
    ASSUME PanelTypes
    PROVE  /\ Cursor = IF view.fence >= view.lastId THEN view.fence ELSE view.lastId
           /\ Cursor \in 0..MaxLines
<1>1. view.fence \in 0..MaxLines /\ view.lastId \in 0..MaxLines
  BY DEF PanelTypes, Views
<1>2. view.fence \in Int /\ view.lastId \in Int
  BY <1>1, LogAssumption
<1>3. QED
  BY <1>1, <1>2, MaxTwo DEF Cursor

LEMMA CursorIsToo ==
    ASSUME PanelTypes'
    PROVE  Cursor' = IF view'.fence >= view'.lastId THEN view'.fence ELSE view'.lastId
<1>1. view'.fence \in 0..MaxLines /\ view'.lastId \in 0..MaxLines
  BY DEF PanelTypes, Views
<1>2. view'.fence \in Int /\ view'.lastId \in Int
  BY <1>1, LogAssumption
<1>3. QED
  BY <1>1, <1>2, MaxTwo DEF Cursor

\* What a response sends from a cursor: nothing but the request to load the history, or
\* all lines from the cursor on, and the end when the task has ended.
LEMMA FlushedIs ==
    ASSUME NEW cursor \in 0..MaxLines, NEW total \in 0..MaxLines, cursor <= total,
           NEW closed \in BOOLEAN
    PROVE  LET r == Flushed(cursor, total, closed)
               n == total - cursor
           IN  /\ r.sent \in Seq(Messages) /\ r.conn \in (0..MaxLines) \cup {None}
               /\ \/ r.conn = None /\ Len(r.sent) = 1 /\ r.sent[1] = HistoryRequired
                  \/ /\ ~closed /\ r.conn = total /\ Len(r.sent) = n
                     /\ \A i \in 1..n : r.sent[i] = Line(cursor + i)
                  \/ /\ closed /\ r.conn = None /\ Len(r.sent) = n + 1 /\ r.sent[n + 1] = Done
                     /\ \A i \in 1..n : r.sent[i] = Line(cursor + i)
<1> DEFINE n == total - cursor
           old == Oldest(total)
           E == [i \in 1..n |-> Line(cursor + i)]
<1>0. cursor \in Nat /\ total \in Nat /\ MaxLines \in Nat /\ n \in Nat /\ LogLines \in Nat
  BY LogAssumption
<1>1. old \in Int
  <2>1. 1 \in Int /\ total - LogLines + 1 \in Int
    BY <1>0
  <2> DEFINE a == 1
             b == total - LogLines + 1
  <2> HIDE DEF a, b
  <2>2. Max({a, b}) \in Int
    BY <2>1, MaxTwo DEF a, b
  <2>3. QED
    BY <2>2 DEF a, b, Oldest
<1>2. /\ HistoryRequired \in Messages /\ Done \in Messages
      /\ \A i \in 1..n : Line(cursor + i) \in Messages
  BY <1>0 DEF Messages, Lines
<1>3. E \in Seq(Messages) /\ Len(E) = n /\ \A i \in 1..n : E[i] = Line(cursor + i)
  BY <1>0, <1>2
<1>4. CASE Truncated(cursor, total)
  <2>1. Flushed(cursor, total, closed) = [sent |-> <<HistoryRequired>>, conn |-> None]
    BY <1>4 DEF Flushed
  <2>2. <<HistoryRequired>> \in Seq(Messages)
    BY <1>2
  <2>3. QED
    BY <2>1, <2>2
<1>5. CASE ~Truncated(cursor, total)
  <2>1. Max({cursor + 1, old}) = cursor + 1
    <3>1. ~(cursor < old - 1)
      BY <1>5 DEF Truncated
    <3> DEFINE c == cursor + 1
    <3>2. c \in Int /\ c >= old
      BY <1>0, <1>1, <3>1
    <3> HIDE DEF c, old
    <3>3. QED
      BY <1>1, <3>2, MaxTwo DEF c
  <2>2. EntriesAfter(cursor, total) = E
    <3>1. EntriesAfter(cursor, total) =
              [i \in 1..(total - (cursor + 1) + 1) |-> Line((cursor + 1) + i - 1)]
      BY <2>1 DEF EntriesAfter
    <3>2. total - (cursor + 1) + 1 = n /\ \A i \in 1..n : (cursor + 1) + i - 1 = cursor + i
      BY <1>0
    <3>3. QED
      BY <3>1, <3>2
  <2>3. Flushed(cursor, total, closed) =
            [sent |-> E \o (IF closed THEN <<Done>> ELSE <<>>),
             conn |-> IF closed THEN None ELSE total]
    BY <1>5, <2>2 DEF Flushed
  <2> HIDE DEF E, n
  <2>4. CASE closed
    <3>1. /\ E \o <<Done>> \in Seq(Messages) /\ Len(E \o <<Done>>) = n + 1
          /\ (E \o <<Done>>)[n + 1] = Done
          /\ \A i \in 1..n : (E \o <<Done>>)[i] = E[i]
      BY <1>0, <1>2, <1>3
    <3>2. QED
      BY <1>3, <2>3, <2>4, <3>1 DEF n
  <2>5. CASE ~closed
    <3>1. E \o <<>> = E
      BY <1>3
    <3>2. QED
      BY <1>3, <2>3, <2>5, <3>1 DEF n
  <2>6. QED
    BY <2>4, <2>5
<1>6. QED
  BY <1>4, <1>5

(***************************************************************************)
(* A line of the task                                                      *)
(***************************************************************************)

LEMMA Joined ==
    ASSUME NEW S, NEW s \in Seq(S), NEW u \in Seq(S)
    PROVE  /\ s \o u \in Seq(S) /\ Len(s \o u) = Len(s) + Len(u)
           /\ \A i \in 1..Len(s) : (s \o u)[i] = s[i]
           /\ \A i \in 1..Len(u) : (s \o u)[Len(s) + i] = u[i]
OBVIOUS

\* A response that was up to date carries what a push tells it, too.
LEMMA NotifiedGoesOn ==
    ASSUME LogTypes, PanelTypes, NEW m \in Nat, GoesOn(task, wire, Cursor, conn, m),
           NEW total \in 0..MaxLines, total > task.lines, NEW closed \in BOOLEAN,
           Notified(total, closed), NEW t, t.lines = total,
           closed => t.final # None /\ t.final <= total,
           task.final # None => t.final = task.final
    PROVE  /\ wire' \in Seq(Messages) /\ conn' \in (0..MaxLines) \cup {None}
           /\ \E k \in Nat : GoesOn(t, wire', Cursor, conn', k)
<1>0. /\ Cursor \in Nat /\ task.lines \in Nat /\ MaxLines \in Nat /\ total \in Nat
      /\ wire \in Seq(Messages) /\ conn \in (0..MaxLines) \cup {None}
  BY CursorIs, LogAssumption DEF LogTypes, PanelTypes, Lines
<1>1. CASE conn = None
  <2>1. conn' = conn /\ wire' = wire
    BY <1>1 DEF Notified
  <2>2. GoesOn(t, wire, Cursor, conn, m)
    BY <1>0 DEF GoesOn
  <2>3. QED
    BY <1>0, <2>1, <2>2
<1>2. CASE conn # None
  <2> DEFINE r == Flushed(conn, total, closed)
             n == total - conn
  <2>1. /\ conn' = r.conn /\ wire' = wire \o r.sent
    BY <1>2 DEF Notified
  <2>2. conn = Cursor + m /\ Len(wire) = m /\ conn \in 0..MaxLines /\ conn \in Nat
    BY <1>0, <1>2 DEF GoesOn
  <2>3. conn <= total /\ n \in Nat
    BY <1>0, <2>2 DEF GoesOn
  <2>4. /\ r.sent \in Seq(Messages) /\ r.conn \in (0..MaxLines) \cup {None}
        /\ \/ r.conn = None /\ Len(r.sent) = 1 /\ r.sent[1] = HistoryRequired
           \/ /\ ~closed /\ r.conn = total /\ Len(r.sent) = n
              /\ \A i \in 1..n : r.sent[i] = Line(conn + i)
           \/ /\ closed /\ r.conn = None /\ Len(r.sent) = n + 1 /\ r.sent[n + 1] = Done
              /\ \A i \in 1..n : r.sent[i] = Line(conn + i)
    BY <2>2, <2>3, FlushedIs
  <2> HIDE DEF r
  <2>5. /\ wire' \in Seq(Messages) /\ Len(wire') = m + Len(r.sent)
        /\ \A i \in 1..m : wire'[i] = wire[i]
        /\ \A i \in 1..Len(r.sent) : wire'[m + i] = r.sent[i]
    <3> DEFINE new == r.sent
    <3>1. new \in Seq(Messages)
      BY <2>4
    <3> HIDE DEF new
    <3>2. /\ wire \o new \in Seq(Messages) /\ Len(wire \o new) = Len(wire) + Len(new)
          /\ \A i \in 1..Len(wire) : (wire \o new)[i] = wire[i]
          /\ \A i \in 1..Len(new) : (wire \o new)[Len(wire) + i] = new[i]
      BY <1>0, <3>1, Joined
    <3>3. wire' = wire \o new
      BY <2>1 DEF new
    <3>4. QED
      BY <2>2, <3>2, <3>3 DEF new
  <2>6. \A i \in 1..m : wire'[i] = Line(Cursor + i)
    BY <2>5 DEF GoesOn
  <2>7. CASE r.conn = None /\ Len(r.sent) = 1 /\ r.sent[1] = HistoryRequired
    <3>1. Len(wire') = m + 1 /\ wire'[m + 1] = HistoryRequired /\ conn' = None
      BY <2>1, <2>5, <2>7
    <3>2. Cursor + m <= t.lines
      BY <2>2, <2>3
    <3>3. GoesOn(t, wire', Cursor, conn', m)
      BY <2>6, <3>1, <3>2 DEF GoesOn
    <3>4. QED
      BY <2>1, <2>4, <2>5, <3>3
  <2>8. CASE /\ Len(r.sent) \in {n, n + 1} /\ \A i \in 1..n : r.sent[i] = Line(conn + i)
             /\ \/ ~closed /\ r.conn = total /\ Len(r.sent) = n
                \/ closed /\ r.conn = None /\ Len(r.sent) = n + 1 /\ r.sent[n + 1] = Done
    <3>1. \A i \in 1..(m + n) : wire'[i] = Line(Cursor + i)
      <4> SUFFICES ASSUME NEW i \in 1..(m + n) PROVE wire'[i] = Line(Cursor + i)
        OBVIOUS
      <4>1. CASE i <= m
        BY <2>6, <4>1
      <4>2. CASE i > m
        <5> DEFINE j == i - m
        <5>1. j \in 1..n /\ i = m + j
          BY <2>3, <4>2
        <5>2. j \in 1..Len(r.sent)
          BY <2>3, <2>8, <5>1
        <5>3. wire'[m + j] = r.sent[j] /\ r.sent[j] = Line(conn + j)
          BY <2>5, <2>8, <5>1, <5>2
        <5>4. conn + j = Cursor + i
          BY <1>0, <2>2, <5>1
        <5>5. QED
          BY <5>1, <5>3, <5>4
      <4>3. QED
        BY <4>1, <4>2
    <3>2. Cursor + (m + n) = total /\ m + n \in Nat
      BY <1>0, <2>2, <2>3
    <3>3. CASE ~closed /\ r.conn = total /\ Len(r.sent) = n
      <4>1. Len(wire') = m + n /\ conn' = Cursor + (m + n)
        BY <2>1, <2>5, <3>2, <3>3
      <4>2. GoesOn(t, wire', Cursor, conn', m + n)
        BY <3>1, <3>2, <4>1 DEF GoesOn
      <4>3. QED
        BY <2>1, <2>4, <2>5, <3>2, <4>2
    <3>4. CASE closed /\ r.conn = None /\ Len(r.sent) = n + 1 /\ r.sent[n + 1] = Done
      <4>1. /\ Len(wire') = m + n + 1 /\ conn' = None
            /\ wire'[m + n + 1] = Done
        <5>1. n + 1 \in 1..Len(r.sent) /\ m + (n + 1) = m + n + 1
          BY <2>3, <3>4
        <5>2. wire'[m + (n + 1)] = r.sent[n + 1]
          BY <2>5, <5>1
        <5>3. QED
          BY <2>1, <2>5, <3>4, <5>1, <5>2
      <4>2. GoesOn(t, wire', Cursor, conn', m + n)
        BY <3>1, <3>2, <3>4, <4>1 DEF GoesOn
      <4>3. QED
        BY <2>1, <2>4, <2>5, <3>2, <4>2
    <3>5. QED
      BY <2>8, <3>3, <3>4
  <2>9. QED
    BY <2>4, <2>7, <2>8
<1>3. QED
  BY <1>1, <1>2

LEMMA BeforeKept ==
    ASSUME NEW i \in Nat, Written' = Written, \A j \in 1..(i - 1) : queue'[j] = queue[j]
    PROVE  Before(i)' = Before(i)
BY DEF Before

\* A line takes the place behind what is scheduled, or at the end of the queue.
LEMMA PushedLog ==
    ASSUME LogTypes, TaskSound, LogSound,
           \A i \in DOMAIN queue : queue[i].op = "read" => ReadSound(i),
           NEW closes \in BOOLEAN, Pushed(task.lines + 1, closes), closes => ~task.closed
    PROVE  /\ LogTypes' /\ TaskSound' /\ LogSound'
           /\ \A i \in DOMAIN queue' : queue'[i].op = "read" => ReadSound(i)'
           /\ task'.lines = task.lines + 1 /\ task'.lines \in Lines
           /\ task'.kept = task.kept
           /\ task'.final = IF closes THEN task.lines + 1 ELSE task.final
<1> DEFINE k == task.lines + 1
           n == Len(scheduled)
<1>0. /\ k \in Lines /\ task.lines \in Nat /\ k \in Nat /\ n \in Nat
      /\ scheduled \in Seq(Lines) /\ queue \in Seq(FileOperations)
      /\ None \notin Nat
  BY LogAssumption DEF LogTypes, Lines, Pushed
<1>1. /\ task' \in [lines : Lines, closed : BOOLEAN, kept : BOOLEAN, final : Lines \cup {None}]
      /\ task'.lines = k /\ task'.kept = task.kept
      /\ task'.closed = (task.closed \/ closes)
      /\ task'.final = IF closes THEN k ELSE task.final
  BY <1>0 DEF Pushed, LogTypes
<1>2. UNCHANGED <<disk, lostLines, fetches>> /\ Written' = Written
  BY DEF Pushed, Written
<1>3. TaskSound'
  BY <1>0, <1>1 DEF TaskSound, LogTypes, Lines
<1>4. CASE Writing
  <2>1. scheduled' = Append(scheduled, k) /\ queue' = queue
    BY <1>4 DEF Pushed, Persisted
  <2>2. /\ scheduled' \in Seq(Lines) /\ Len(scheduled') = n + 1 /\ scheduled'[n + 1] = k
        /\ \A i \in 1..n : scheduled'[i] = scheduled[i]
    BY <1>0, <2>1
  <2>3. LogTypes'
    BY <1>0, <1>1, <1>2, <2>1, <2>2 DEF LogTypes
  <2>4. \A i \in DOMAIN scheduled' : scheduled'[i] = k - (n + 1) + i
    <3> SUFFICES ASSUME NEW i \in 1..(n + 1) PROVE scheduled'[i] = k - (n + 1) + i
      BY <2>2
    <3>1. CASE i = n + 1
      BY <1>0, <2>2, <3>1
    <3>2. CASE i # n + 1
      <4>1. i \in 1..n /\ scheduled[i] = task.lines - n + i
        BY <1>0, <3>2 DEF LogSound
      <4>2. QED
        BY <1>0, <2>2, <4>1
    <3>3. QED
      BY <3>1, <3>2
  <2>5. \A i \in DOMAIN queue : Adding(i)' <=> Adding(i)
    BY <2>1 DEF Adding
  <2>6. \E i \in DOMAIN queue : Adding(i)
    BY <1>4 DEF Writing, Adding
  <2>7. ASSUME NEW i \in DOMAIN queue
        PROVE  /\ queue[i].op = "create" => n + 1 = k /\ Written = {}
               /\ queue[i].op = "append" => /\ queue[i].line = k - (n + 1)
                                            /\ Written = 1..(queue[i].line - 1)
    <3>1. /\ queue[i].op = "create" => n = task.lines /\ Written = {}
          /\ queue[i].op = "append" => /\ queue[i].line = task.lines - n
                                       /\ Written = 1..(queue[i].line - 1)
      BY DEF LogSound
    <3> HIDE DEF n
    <3>2. k - (n + 1) = task.lines - n /\ (n = task.lines => n + 1 = k)
      BY <1>0
    <3>3. QED
      BY <3>1, <3>2
  <2>8. LogSound'
    BY <1>1, <1>2, <2>1, <2>2, <2>4, <2>5, <2>6, <2>7 DEF LogSound
  <2>9. ASSUME NEW i \in DOMAIN queue', queue'[i].op = "read" PROVE ReadSound(i)'
    <3>1. ReadSound(i) /\ i \in Nat /\ Before(i)' = Before(i)
      BY <1>0, <1>2, <2>1, <2>9, BeforeKept
    <3>2. QED
      BY <1>0, <1>1, <1>2, <2>1, <3>1 DEF ReadSound
  <2>10. QED
    BY <1>0, <1>1, <1>3, <2>3, <2>8, <2>9
<1>5. CASE ~Writing
  <2> PICK p \in Nat : p = Len(queue)
    BY <1>0
  <2> DEFINE o == [op |-> "append", line |-> k]
  <2>1. queue' = Append(queue, o) /\ scheduled' = scheduled
    BY <1>5 DEF Pushed, Persisted
  <2>2. o \in FileOperations /\ o.op = "append" /\ o.line = k /\ p \in Nat
    BY <1>0 DEF FileOperations
  <2> HIDE DEF o
  <2>3. /\ queue' \in Seq(FileOperations) /\ Len(queue') = p + 1 /\ queue'[p + 1] = o
        /\ \A i \in 1..p : queue'[i] = queue[i]
    BY <1>0, <2>1, <2>2
  <2>4. LogTypes'
    BY <1>0, <1>1, <1>2, <2>1, <2>3 DEF LogTypes
  <2>5. \A i \in 1..p : ~Adding(i) /\ ~(Adding(i)')
    BY <1>0, <1>5, <2>3 DEF Writing, Adding
  <2>6. scheduled = <<>> /\ Written = 1..task.lines /\ task.kept
    BY <1>0, <2>5 DEF LogSound, Pushed
  <2>7. \A i \in DOMAIN queue' : Adding(i)' => i = p + 1
    BY <2>3, <2>5
  <2>8. Adding(p + 1)' /\ p + 1 \in DOMAIN queue'
    <3>1. p + 1 \in DOMAIN queue' /\ queue'[p + 1].op = "append"
      BY <2>2, <2>3
    <3>2. QED
      BY <3>1 DEF Adding
  <2>9. ASSUME NEW i \in DOMAIN queue'
        PROVE  /\ queue'[i].op # "create"
               /\ queue'[i].op = "append" => /\ queue'[i].line = k - Len(scheduled')
                                             /\ Written = 1..(queue'[i].line - 1)
    <3>1. CASE i = p + 1
      BY <1>0, <2>1, <2>2, <2>3, <2>6, <3>1
    <3>2. CASE i # p + 1
      <4>1. ~(Adding(i)')
        BY <2>7, <3>2
      <4>2. QED
        BY <4>1 DEF Adding
    <3>3. QED
      BY <3>1, <3>2
  <2>10. LogSound'
    <3>1. disk' \cap lostLines' = {}
      BY <1>2 DEF LogSound
    <3>2. \A i \in DOMAIN scheduled' : scheduled'[i] = task'.lines - Len(scheduled') + i
      BY <2>1, <2>6
    <3>3. \A i, j \in DOMAIN queue' : Adding(i)' /\ Adding(j)' => i = j
      BY <2>7
    <3>4. ~ \A i \in DOMAIN queue' : ~(Adding(i)')
      BY <2>8
    <3>5. QED
      BY <1>1, <1>2, <2>9, <3>1, <3>2, <3>3, <3>4 DEF LogSound
  <2>11. ASSUME NEW i \in DOMAIN queue', queue'[i].op = "read" PROVE ReadSound(i)'
    <3>1. i \in 1..p /\ queue'[i] = queue[i]
      BY <2>2, <2>3, <2>11
    <3>2. ReadSound(i) /\ Before(i)' = Before(i)
      <4>1. i \in DOMAIN queue /\ i \in Nat /\ \A j \in 1..(i - 1) : queue'[j] = queue[j]
        BY <1>0, <2>3, <3>1
      <4>2. QED
        BY <1>2, <2>11, <3>1, <4>1, BeforeKept
    <3>3. \A j \in DOMAIN queue' : queue'[j].op = "read" => j \in DOMAIN queue /\ queue'[j] = queue[j]
      BY <2>2, <2>3
    <3>4. QED
      BY <1>0, <1>1, <1>2, <3>1, <3>2, <3>3 DEF ReadSound
  <2>12. QED
    BY <1>0, <1>1, <1>3, <2>4, <2>10, <2>11
<1>6. QED
  BY <1>4, <1>5

\* What a line leaves alone: the view, its requests, and where they are.
LEMMA PushedKeeps ==
    ASSUME StreamInv, NEW closes \in BOOLEAN, NEW closed \in BOOLEAN,
           Pushed(task.lines + 1, closes), Notified(task.lines + 1, closed),
           closes => ~task.closed, closed => closes \/ task.closed
    PROVE  StreamInv'
<1>0. /\ LogTypes /\ PanelTypes /\ TaskSound /\ LogSound /\ ViewSound
      /\ \A i \in DOMAIN queue : queue[i].op = "read" => ReadSound(i)
      /\ FetchesApart /\ \A f \in fetches : FetchSound(f)
  BY DEF StreamInv
<1>1. /\ LogTypes' /\ TaskSound' /\ LogSound'
      /\ \A i \in DOMAIN queue' : queue'[i].op = "read" => ReadSound(i)'
      /\ task'.lines = task.lines + 1 /\ task'.lines \in Lines
      /\ task'.kept = task.kept
      /\ task'.final = IF closes THEN task.lines + 1 ELSE task.final
  BY <1>0, PushedLog
<1>2. UNCHANGED <<disk, lostLines, fetches, view>> /\ task.kept
  BY DEF Pushed
<1>3. /\ task.lines \in Nat /\ task'.lines \in Nat /\ task'.lines \in 0..MaxLines
      /\ task'.lines > task.lines /\ None \notin Nat /\ MaxLines \in Nat
      /\ Cursor \in Nat /\ Cursor' = Cursor
      /\ fetches \subseteq HistoryFetches
  BY <1>0, <1>1, <1>2, CursorIs, LogAssumption DEF LogTypes, Lines, Cursor, PanelTypes
<1>4. /\ task.final # None => task'.final = task.final
      /\ closed => task'.final # None /\ task'.final <= task'.lines
      /\ task.final # None => task.final \in Nat /\ task.final <= task.lines
  <2>1. task.final \in Nat \cup {None}
    BY <1>0 DEF LogTypes, Lines
  <2>2. task.final # None => task.closed /\ task.final <= task.lines
    BY <1>0 DEF TaskSound
  <2>3. task.closed => task.final # None
    BY <1>0, <1>2 DEF TaskSound
  <2>4. QED
    BY <1>1, <1>3, <2>1, <2>2, <2>3
<1>5. /\ wire' \in Seq(Messages) /\ conn' \in (0..MaxLines) \cup {None}
      /\ view.source = "open" => \E m \in Nat : GoesOn(task', wire', Cursor, conn', m)
      /\ view.source # "open" => conn' = None /\ wire' = <<>>
  <2>1. CASE view.source = "open"
    <3>1. PICK m \in Nat : GoesOn(task, wire, Cursor, conn, m)
      BY <1>0, <2>1 DEF ViewSound
    <3>2. Notified(task'.lines, closed)
      BY <1>1
    <3>3. /\ wire' \in Seq(Messages) /\ conn' \in (0..MaxLines) \cup {None}
          /\ \E j \in Nat : GoesOn(task', wire', Cursor, conn', j)
      BY <1>0, <1>3, <1>4, <3>1, <3>2, NotifiedGoesOn
    <3>4. QED
      BY <2>1, <3>3
  <2>2. CASE view.source # "open"
    <3>1. conn = None /\ wire = <<>>
      BY <1>0, <2>2 DEF ViewSound
    <3>2. conn' = conn /\ wire' = wire
      BY <3>1 DEF Notified
    <3>3. QED
      BY <1>0, <2>2, <3>1, <3>2 DEF PanelTypes
  <2>3. QED
    BY <2>1, <2>2
<1>6. PanelTypes'
  BY <1>0, <1>2, <1>5 DEF PanelTypes
<1>7. FetchesApart' /\ \A f \in fetches' : FetchSound(f)'
  <2>1. FetchesApart'
    BY <1>0, <1>2 DEF FetchesApart
  <2>2. ASSUME NEW f \in fetches' PROVE FetchSound(f)'
    <3>1. f \in fetches /\ FetchSound(f) /\ f.cursor \in Nat
      BY <1>0, <1>2, <1>3, <2>2 DEF HistoryFetches
    <3>2. AnswerSound(f) => AnswerSound(f)'
      BY <1>2, <1>3, <3>1 DEF AnswerSound
    <3>3. QED
      BY <1>2, <3>1, <3>2 DEF FetchSound
  <2>3. QED
    BY <2>1, <2>2
<1>8. ViewSound'
  BY <1>0, <1>2, <1>3, <1>4, <1>5 DEF ViewSound
<1>9. QED
  BY <1>1, <1>6, <1>7, <1>8 DEF StreamInv

LEMMA TaskSteps ==
    ASSUME StreamInv, PushTaskLine \/ FinishTask \/ SettleFails \/ ForgetTask
    PROVE  StreamInv'
<1>0. task.closed \in BOOLEAN
  BY DEF StreamInv, LogTypes
<1>1. CASE PushTaskLine
  BY <1>0, <1>1, PushedKeeps DEF PushTaskLine
<1>2. CASE FinishTask
  BY <1>0, <1>2, PushedKeeps DEF FinishTask
<1>3. CASE SettleFails
  BY <1>0, <1>3, PushedKeeps DEF SettleFails
<1>4. CASE ForgetTask
  <2>0. /\ LogTypes /\ PanelTypes /\ TaskSound /\ LogSound /\ ViewSound
        /\ \A i \in DOMAIN queue : queue[i].op = "read" => ReadSound(i)
        /\ FetchesApart /\ \A f \in fetches : FetchSound(f)
    BY DEF StreamInv
  <2>1. /\ task' = [task EXCEPT !.kept = FALSE]
        /\ UNCHANGED <<scheduled, queue, disk, lostLines, conn, wire, fetches, view>>
    BY <1>4 DEF ForgetTask
  <2>2. /\ LogTypes' /\ task'.lines = task.lines /\ task'.final = task.final
        /\ task'.closed = task.closed /\ ~task'.kept
    BY <2>0, <2>1 DEF LogTypes
  <2>3. TaskSound' /\ PanelTypes' /\ FetchesApart'
    BY <2>0, <2>1, <2>2 DEF TaskSound, PanelTypes, FetchesApart
  <2>4. LogSound'
    BY <2>0, <2>1, <2>2 DEF LogSound, Adding, Written
  <2>5. \A i \in DOMAIN queue' : queue'[i].op = "read" => ReadSound(i)'
    BY <2>0, <2>1, <2>2 DEF ReadSound, Before, Written
  <2>6. \A f \in fetches' : FetchSound(f)'
    BY <2>0, <2>1, <2>2 DEF FetchSound, AnswerSound
  <2>7. ViewSound'
    BY <2>0, <2>1, <2>2 DEF ViewSound, GoesOn, Cursor
  <2>8. QED
    BY <2>2, <2>3, <2>4, <2>5, <2>6, <2>7 DEF StreamInv
<1>5. QED
  BY <1>1, <1>2, <1>3, <1>4

(***************************************************************************)
(* The queue of the file                                                   *)
(***************************************************************************)

LEMMA Tailed ==
    ASSUME NEW S, NEW s \in Seq(S), s # <<>>
    PROVE  /\ Tail(s) \in Seq(S) /\ Len(Tail(s)) = Len(s) - 1 /\ Len(s) \in Nat \ {0}
           /\ Head(s) = s[1] /\ s[1] \in S /\ 1 \in DOMAIN s
           /\ \A i \in 1..(Len(s) - 1) : Tail(s)[i] = s[i + 1]
OBVIOUS

LEMMA Added ==
    ASSUME NEW S, NEW s \in Seq(S), NEW x \in S
    PROVE  /\ Append(s, x) \in Seq(S) /\ Len(Append(s, x)) = Len(s) + 1 /\ Len(s) \in Nat
           /\ Append(s, x)[Len(s) + 1] = x
           /\ \A i \in 1..Len(s) : Append(s, x)[i] = s[i]
OBVIOUS

\* The operation that ends leaves the reads behind it as they were; when it was an append
\* its line is written or lost, and the next of the task takes its place at the end.
LEMMA WriteSteps ==
    ASSUME StreamInv, WriteEnds
    PROVE  StreamInv'
<1> DEFINE h == queue[1]
           n == Len(scheduled)
           total == task.lines
           q == Len(queue)
           settled == IF h.op = "append" THEN {h.line} ELSE {}
<1>0. /\ LogTypes /\ PanelTypes /\ TaskSound /\ LogSound /\ ViewSound
      /\ \A i \in DOMAIN queue : queue[i].op = "read" => ReadSound(i)
      /\ FetchesApart /\ \A f \in fetches : FetchSound(f)
  BY DEF StreamInv
<1>1. /\ scheduled \in Seq(Lines) /\ queue \in Seq(FileOperations) /\ n \in Nat /\ q \in Nat \ {0}
      /\ total \in Nat /\ total >= 1 /\ MaxLines \in Nat /\ queue # <<>>
  BY <1>0, LogAssumption DEF LogTypes, Lines, WriteEnds
<1>2. /\ Tail(queue) \in Seq(FileOperations) /\ Len(Tail(queue)) = q - 1
      /\ Head(queue) = h /\ h \in FileOperations /\ 1 \in DOMAIN queue
      /\ \A i \in 1..(q - 1) : Tail(queue)[i] = queue[i + 1]
  BY <1>1, Tailed
<1>3. h.op \in {"create", "append"} /\ Adding(1)
  BY <1>2 DEF WriteEnds, Adding
<1>4. \A i \in DOMAIN queue : Adding(i) => i = 1
  BY <1>0, <1>2, <1>3 DEF LogSound
<1>5. /\ h.op = "create" => n = total /\ Written = {}
      /\ h.op = "append" => h.line = total - n /\ Written = 1..(h.line - 1) /\ h.line \in Lines
  BY <1>0, <1>2 DEF LogSound, FileOperations
<1>6. /\ UNCHANGED <<task, conn, wire, fetches, view>>
      /\ \/ disk' = disk \cup settled /\ lostLines' = lostLines
         \/ h.op = "append" /\ disk' = disk /\ lostLines' = lostLines \cup settled
  BY <1>2 DEF WriteEnds
<1>7. /\ Written' = Written \cup settled /\ Written' = 1..(total - n)
      /\ Written \cap settled = {} /\ settled \subseteq Lines
  <2>1. Written' = Written \cup settled
    BY <1>6 DEF Written
  <2>2. CASE h.op = "create"
    <3>1. settled = {} /\ total - n = 0 /\ Written = {} /\ 1..0 = {}
      BY <1>1, <1>5, <2>2
    <3> HIDE DEF settled, n, total
    <3>2. Written' = {} /\ 1..(total - n) = {}
      BY <2>1, <3>1
    <3>3. QED
      BY <2>1, <3>1, <3>2
  <2>3. CASE h.op = "append"
    <3>1. h.line \in Nat /\ h.line >= 1 /\ settled = {h.line}
      BY <1>1, <1>5, <2>3 DEF Lines
    <3>2. h.line \notin 1..(h.line - 1) /\ (1..(h.line - 1)) \cup {h.line} = 1..h.line
      BY <3>1
    <3>3. QED
      BY <1>5, <2>1, <2>3, <3>1, <3>2
  <2>4. QED
    BY <1>3, <2>2, <2>3
<1>8. disk' \subseteq Lines /\ lostLines' \subseteq Lines /\ disk' \cap lostLines' = {} /\ lostLines \subseteq lostLines'
  <2>1. disk \cap lostLines = {} /\ disk \subseteq Lines /\ lostLines \subseteq Lines
    BY <1>0 DEF LogSound, LogTypes
  <2>2. disk \cap settled = {} /\ lostLines \cap settled = {}
    BY <1>7 DEF Written
  <2> HIDE DEF settled
  <2>3. QED
    BY <1>6, <1>7, <2>1, <2>2
<1> HIDE DEF settled
\* A read stays as it was, one place further to the front.
<1>9. ASSUME queue' \in Seq(FileOperations),
             NEW i \in 1..(q - 1), queue[i + 1].op = "read", queue'[i] = queue[i + 1],
             \A j \in 1..(i - 1) : queue'[j] = queue[j + 1],
             \A j \in DOMAIN queue' : queue'[j].op = "read" =>
                 j + 1 \in DOMAIN queue /\ queue'[j] = queue[j + 1]
      PROVE  ReadSound(i)'
  <2>1. i + 1 \in DOMAIN queue /\ ReadSound(i + 1) /\ i \in Nat
    BY <1>0, <1>1, <1>9
  <2>2. Before(i)' = Written'
    <3>1. ASSUME NEW j \in 1..(i - 1) PROVE queue'[j].op # "append"
      <4>1. j + 1 \in DOMAIN queue /\ j + 1 # 1
        BY <1>1, <2>1, <3>1
      <4>2. ~Adding(j + 1)
        BY <1>4, <4>1
      <4>3. QED
        BY <1>9, <4>2 DEF Adding
    <3>2. QED
      BY <3>1 DEF Before
  <2>3. Before(i + 1) = Written'
    <3>1. ASSUME NEW j \in 1..i, j # 1 PROVE queue[j].op # "append"
      <4>1. j \in DOMAIN queue
        BY <1>1, <2>1, <3>1
      <4>2. ~Adding(j)
        BY <1>4, <3>1, <4>1
      <4>3. QED
        BY <4>2 DEF Adding
    <3>2. {j \in 1..i : queue[j].op = "append"} = IF h.op = "append" THEN {1} ELSE {}
      BY <2>1, <3>1
    <3>3. {queue[j].line : j \in {k \in 1..i : queue[k].op = "append"}} = settled
      BY <3>2 DEF settled
    <3>4. (i + 1) - 1 = i
      BY <2>1
    <3>5. QED
      BY <1>7, <3>3, <3>4 DEF Before
  <2>4. QED
    <3> DEFINE f == queue[i + 1].fetch
    <3>1. queue'[i].fetch = f /\ f \in fetches /\ f.step = "reading"
      BY <1>9, <2>1 DEF ReadSound
    <3>2. ASSUME NEW j \in DOMAIN queue', queue'[j].op = "read", queue'[j].fetch = f
          PROVE  j = i
      <4>1. j \in Int
        BY <1>9, <3>2
      <4>2. j + 1 \in DOMAIN queue /\ queue[j + 1].op = "read" /\ queue[j + 1].fetch = f
        BY <1>9, <3>2
      <4>3. j + 1 = i + 1
        BY <2>1, <4>2 DEF ReadSound
      <4>4. QED
        BY <2>1, <4>1, <4>3
    <3>3. ~f.live => f.cursor = 0
      BY <2>1 DEF ReadSound
    <3>4. f.live => /\ f.cursor \in 1..task.lines /\ Written' \subseteq 1..f.cursor
                    /\ 1..f.cursor \subseteq Written' \cup f.excused
      BY <2>1, <2>3 DEF ReadSound
    <3> HIDE DEF f
    <3>5. QED
      BY <1>6, <2>2, <3>1, <3>2, <3>3, <3>4 DEF ReadSound
<1>10. LogTypes' /\ LogSound' /\ \A i \in DOMAIN queue' : queue'[i].op = "read" => ReadSound(i)'
  <2>1. CASE scheduled = <<>>
    <3>1. queue' = Tail(queue) /\ scheduled' = scheduled
      BY <2>1 DEF WriteEnds
    <3>2. queue' \in Seq(FileOperations) /\ \A i \in DOMAIN queue' : i \in 1..(q - 1) /\ queue'[i] = queue[i + 1]
      BY <1>2, <3>1
    <3>3. LogTypes'
      BY <1>0, <1>6, <1>8, <3>1, <3>2 DEF LogTypes
    <3>4. ASSUME NEW i \in DOMAIN queue' PROVE ~(Adding(i)')
      <4>1. i + 1 \in DOMAIN queue /\ i + 1 # 1
        BY <1>1, <3>2
      <4>2. ~Adding(i + 1)
        BY <1>4, <4>1
      <4>3. QED
        BY <3>2, <4>2 DEF Adding
    <3>5. n = 0 /\ Written' = 1..task'.lines /\ scheduled' = <<>>
      BY <1>1, <1>6, <1>7, <2>1, <3>1
    <3>6. LogSound'
      <4>1. \A i \in DOMAIN scheduled' : scheduled'[i] = task'.lines - Len(scheduled') + i
        BY <3>5
      <4>2. \A i \in DOMAIN queue' : queue'[i].op \notin {"create", "append"}
        BY <3>4 DEF Adding
      <4>3. QED
        BY <1>8, <3>4, <3>5, <4>1, <4>2 DEF LogSound
    <3>7. ASSUME NEW i \in DOMAIN queue', queue'[i].op = "read" PROVE ReadSound(i)'
      <4>1. i \in 1..(q - 1) /\ queue'[i] = queue[i + 1] /\ queue[i + 1].op = "read"
        BY <3>2, <3>7
      <4>2. \A j \in 1..(i - 1) : queue'[j] = queue[j + 1]
        BY <1>1, <1>2, <3>1, <4>1
      <4>3. \A j \in DOMAIN queue' : j + 1 \in DOMAIN queue /\ queue'[j] = queue[j + 1]
        BY <1>1, <3>2
      <4>4. QED
        BY <1>9, <3>2, <4>1, <4>2, <4>3
    <3>8. QED
      BY <3>3, <3>6, <3>7
  <2>2. CASE scheduled # <<>>
    <3> DEFINE k == scheduled[1]
               o == [op |-> "append", line |-> k]
    <3>1. queue' = Append(Tail(queue), [op |-> "append", line |-> Head(scheduled)]) /\ scheduled' = Tail(scheduled)
      BY <2>2 DEF WriteEnds
    <3>2. /\ scheduled' \in Seq(Lines) /\ Len(scheduled') = n - 1 /\ n \in Nat \ {0}
          /\ Head(scheduled) = k /\ k \in Lines /\ 1 \in DOMAIN scheduled
          /\ \A i \in 1..(n - 1) : scheduled'[i] = scheduled[i + 1]
      BY <1>1, <2>2, <3>1, Tailed
    <3>3. k = total - (n - 1) /\ k = (total - n) + 1
      <4>1. k = total - n + 1
        BY <1>0, <3>2 DEF LogSound
      <4> HIDE DEF k, total, n
      <4>2. QED
        BY <1>1, <4>1
    <3>4. o \in FileOperations /\ o.op = "append" /\ o.line = k
      BY <3>2 DEF FileOperations
    <3>5. queue' = Append(Tail(queue), o)
      BY <3>1, <3>2
    <3> HIDE DEF o, k
    <3>6. /\ queue' \in Seq(FileOperations) /\ Len(queue') = q /\ queue'[q] = o
          /\ \A i \in 1..(q - 1) : queue'[i] = queue[i + 1]
      <4> DEFINE rest == Tail(queue)
      <4>1. rest \in Seq(FileOperations) /\ Len(rest) = q - 1
        BY <1>2
      <4> HIDE DEF rest
      <4>2. /\ Append(rest, o) \in Seq(FileOperations) /\ Len(Append(rest, o)) = (q - 1) + 1
            /\ Append(rest, o)[(q - 1) + 1] = o
            /\ \A i \in 1..(q - 1) : Append(rest, o)[i] = rest[i]
        BY <3>4, <4>1, Added
      <4>3. (q - 1) + 1 = q
        BY <1>1
      <4>4. \A i \in 1..(q - 1) : rest[i] = queue[i + 1]
        BY <1>2 DEF rest
      <4>5. queue' = Append(rest, o)
        BY <3>5 DEF rest
      <4>6. QED
        BY <4>2, <4>3, <4>4, <4>5
    <3>7. LogTypes'
      BY <1>0, <1>6, <1>8, <3>2, <3>6 DEF LogTypes
    <3>8. ASSUME NEW i \in DOMAIN queue', i # q PROVE ~(Adding(i)') /\ queue'[i].op # "append" /\ queue'[i].op # "create"
      <4>1. i \in 1..(q - 1) /\ i + 1 \in DOMAIN queue /\ i + 1 # 1
        BY <1>1, <3>6, <3>8
      <4>2. ~Adding(i + 1)
        BY <1>4, <4>1
      <4>3. QED
        BY <3>6, <4>1, <4>2 DEF Adding
    <3>9. q \in DOMAIN queue' /\ queue'[q].op = "append" /\ queue'[q].line = k
      BY <1>1, <3>4, <3>6
    <3>10. LogSound'
      <4>1. \A i \in DOMAIN scheduled' : scheduled'[i] = task'.lines - Len(scheduled') + i
        <5> SUFFICES ASSUME NEW i \in 1..(n - 1) PROVE scheduled'[i] = total - (n - 1) + i
          BY <1>6, <3>2
        <5>1. i + 1 \in DOMAIN scheduled /\ scheduled[i + 1] = total - n + (i + 1)
          BY <1>0, <1>1 DEF LogSound
        <5>2. scheduled'[i] = scheduled[i + 1] /\ i \in Nat
          BY <1>1, <3>2
        <5> HIDE DEF total, n
        <5>3. QED
          BY <1>1, <5>1, <5>2
      <4>2. \A i, j \in DOMAIN queue' : Adding(i)' /\ Adding(j)' => i = j
        BY <3>8
      <4>3. ~ \A i \in DOMAIN queue' : ~(Adding(i)')
        <5> PICK p \in Nat : p = q
          BY <1>1
        <5>1. Adding(p)' /\ p \in DOMAIN queue'
          BY <3>9 DEF Adding
        <5>2. QED
          BY <5>1
      <4>4. ASSUME NEW i \in DOMAIN queue'
            PROVE  /\ queue'[i].op # "create"
                   /\ queue'[i].op = "append" => /\ queue'[i].line = task'.lines - Len(scheduled')
                                                 /\ Written' = 1..(queue'[i].line - 1)
        <5>1. CASE i = q
          <6>1. k - 1 = total - n /\ k = task'.lines - Len(scheduled')
            BY <1>1, <1>6, <3>2, <3>3
          <6>2. QED
            BY <1>7, <3>9, <5>1, <6>1
        <5>2. CASE i # q
          BY <3>8, <5>2
        <5>3. QED
          BY <5>1, <5>2
      <4>5. QED
        BY <1>8, <4>1, <4>2, <4>3, <4>4 DEF LogSound
    <3>11. ASSUME NEW i \in DOMAIN queue', queue'[i].op = "read" PROVE ReadSound(i)'
      <4>0. \A j \in DOMAIN queue' : queue'[j].op = "read" => j \in 1..(q - 1) /\ queue'[j] = queue[j + 1]
        BY <1>1, <3>6, <3>9
      <4>1. i \in 1..(q - 1) /\ queue'[i] = queue[i + 1] /\ queue[i + 1].op = "read"
        BY <3>11, <4>0
      <4>2. \A j \in 1..(i - 1) : queue'[j] = queue[j + 1]
        BY <1>1, <3>6, <4>1
      <4>3. \A j \in DOMAIN queue' : queue'[j].op = "read" => j + 1 \in DOMAIN queue /\ queue'[j] = queue[j + 1]
        BY <1>1, <4>0
      <4>4. QED
        BY <1>9, <3>6, <4>1, <4>2, <4>3
    <3>12. QED
      BY <3>7, <3>10, <3>11
  <2>3. QED
    BY <2>1, <2>2
<1>11. PanelTypes' /\ TaskSound' /\ FetchesApart' /\ ViewSound'
  BY <1>0, <1>6 DEF PanelTypes, TaskSound, FetchesApart, ViewSound, GoesOn, Cursor
<1>12. \A f \in fetches' : FetchSound(f)'
  BY <1>0, <1>6, <1>8 DEF FetchSound, AnswerSound
<1>13. QED
  BY <1>10, <1>11, <1>12 DEF StreamInv

LEMMA StillApart ==
    ASSUME FetchesApart, NEW f \in fetches, NEW g \in HistoryFetches, Replaced(f, g),
           g.use = f.use, g.open = f.open
    PROVE  FetchesApart'
<1> SUFFICES ASSUME NEW a \in fetches', NEW b \in fetches',
                    a.use = b.use, a.use = "check" \/ a.open = b.open
             PROVE  a = b
  BY DEF FetchesApart
<1>1. ((a \in fetches /\ a # f) \/ a = g) /\ ((b \in fetches /\ b # f) \/ b = g)
  BY DEF Replaced
<1>2. CASE a = g /\ b = g
  BY <1>2
<1>3. CASE a = g /\ b \in fetches /\ b # f
  BY <1>3 DEF FetchesApart
<1>4. CASE a \in fetches /\ a # f /\ b = g
  BY <1>4 DEF FetchesApart
<1>5. CASE a \in fetches /\ b \in fetches
  BY <1>5 DEF FetchesApart
<1>6. QED
  BY <1>1, <1>2, <1>3, <1>4, <1>5

\* The answer of a read: the lines in the file, in order.
LEMMA AnsweredIs ==
    ASSUME LogTypes, NEW f \in HistoryFetches, NEW g \in HistoryAnswers(f)
    PROVE  /\ g \in HistoryFetches /\ g.step = "answered"
           /\ g.use = f.use /\ g.open = f.open /\ g.live = f.live /\ g.cursor = f.cursor
           /\ g.excused = f.excused
           /\ g.active => f.live
           /\ Ascending(g.events) /\ Range(g.events) = disk
<1>1. PICK events \in InOrder(disk) :
          g = [f EXCEPT !.step = "answered", !.events = events, !.active = f.live /\ ~task.closed]
  BY DEF HistoryAnswers
<1>2. Cardinality(disk) \in Nat
  <2>1. MaxLines \in Int /\ 1 \in Int
    BY LogAssumption
  <2>2. IsFiniteSet(1..MaxLines)
    BY <2>1, FS_Interval
  <2>3. IsFiniteSet(disk)
    BY <2>2, FS_Subset DEF LogTypes, Lines
  <2>4. QED
    BY <2>3, FS_CardinalityType
<1>3. /\ events \in [1..Cardinality(disk) -> disk] /\ Range(events) = disk
      /\ \A i \in 1..(Cardinality(disk) - 1) : events[i] < events[i + 1]
  BY DEF InOrder
<1>4. events \in Seq(Lines) /\ Len(events) = Cardinality(disk)
  BY <1>2, <1>3 DEF LogTypes
<1>5. Ascending(events)
  BY <1>3, <1>4 DEF Ascending
<1>6. (f.live /\ ~task.closed) \in BOOLEAN
  OBVIOUS
<1>7. /\ g \in HistoryFetches /\ g.step = "answered" /\ g.events = events
      /\ g.use = f.use /\ g.open = f.open /\ g.live = f.live /\ g.cursor = f.cursor
      /\ g.excused = f.excused
  BY <1>1, <1>4 DEF HistoryFetches
<1>8. g.active => f.live
  BY <1>1 DEF HistoryFetches
<1>9. QED
  BY <1>3, <1>5, <1>7, <1>8

\* At the head of the queue nothing is left to write before the read: what the file and
\* the losses make up reaches to the cursor.
LEMMA ReadSteps ==
    ASSUME StreamInv, ReadEnds
    PROVE  StreamInv'
<1> DEFINE f == queue[1].fetch
           q == Len(queue)
<1>0. /\ LogTypes /\ PanelTypes /\ TaskSound /\ LogSound /\ ViewSound
      /\ \A i \in DOMAIN queue : queue[i].op = "read" => ReadSound(i)
      /\ FetchesApart /\ \A r \in fetches : FetchSound(r)
  BY DEF StreamInv
<1>1. /\ queue \in Seq(FileOperations) /\ q \in Nat \ {0} /\ queue # <<>>
      /\ Tail(queue) \in Seq(FileOperations) /\ Len(Tail(queue)) = q - 1
      /\ Head(queue) = queue[1] /\ 1 \in DOMAIN queue
      /\ \A i \in 1..(q - 1) : Tail(queue)[i] = queue[i + 1]
  BY <1>0, Tailed DEF LogTypes, ReadEnds
<1>2. PICK g \in HistoryAnswers(f) : fetches' = (fetches \ {f}) \cup {g}
  BY <1>1 DEF ReadEnds, Replaced
<1>3. /\ queue[1].op = "read" /\ queue' = Tail(queue)
      /\ UNCHANGED <<task, scheduled, disk, lostLines, conn, wire, view>>
  BY <1>1 DEF ReadEnds
<1>4. ReadSound(1) /\ f \in fetches /\ f \in HistoryFetches /\ FetchSound(f)
  BY <1>0, <1>1, <1>3 DEF ReadSound, PanelTypes
<1>5. /\ g \in HistoryFetches /\ g.step = "answered"
      /\ g.use = f.use /\ g.open = f.open /\ g.live = f.live /\ g.cursor = f.cursor
      /\ g.excused = f.excused
      /\ g.active => f.live
      /\ Ascending(g.events) /\ Range(g.events) = disk
  BY <1>0, <1>2, <1>4, AnsweredIs
<1>6. Before(1) = Written
  BY DEF Before
<1>7. AnswerSound(g)
  <2>1. task.lines \in Nat /\ f.cursor \in Nat
    BY <1>0, <1>4, LogAssumption DEF LogTypes, Lines, HistoryFetches
  <2>2. ~f.live => f.cursor = 0
    BY <1>4 DEF ReadSound
  <2>3. f.live => /\ f.cursor \in 1..task.lines /\ Written \subseteq 1..f.cursor
                  /\ 1..f.cursor \subseteq Written \cup f.excused
    BY <1>4, <1>6 DEF ReadSound
  <2> HIDE DEF f
  <2>4. g.cursor <= task.lines /\ (g.active => g.cursor > 0)
    BY <1>5, <2>1, <2>2, <2>3
  <2>5. g.cursor > 0 => /\ disk \subseteq 1..g.cursor
                        /\ 1..g.cursor \subseteq disk \cup g.excused \cup lostLines
    BY <1>5, <2>1, <2>2, <2>3 DEF Written
  <2>6. QED
    BY <1>5, <2>4, <2>5 DEF AnswerSound
<1>8. FetchSound(g)
  BY <1>4, <1>5, <1>7 DEF FetchSound
<1>9. \A r \in fetches' : FetchSound(r)'
  <2> SUFFICES ASSUME NEW r \in fetches' PROVE FetchSound(r)'
    OBVIOUS
  <2>1. FetchSound(r)
    BY <1>0, <1>2, <1>8
  <2>2. QED
    BY <1>3, <2>1 DEF FetchSound, AnswerSound
<1>10. FetchesApart'
  BY <1>0, <1>2, <1>4, <1>5, StillApart DEF Replaced
<1>11. /\ queue' \in Seq(FileOperations) /\ Len(queue') = q - 1
       /\ \A i \in DOMAIN queue' : i \in 1..(q - 1) /\ queue'[i] = queue[i + 1] /\ i + 1 \in DOMAIN queue
  BY <1>1, <1>3
<1>12. LogTypes' /\ PanelTypes' /\ TaskSound'
  BY <1>0, <1>2, <1>3, <1>5, <1>11 DEF LogTypes, PanelTypes, TaskSound
<1>13. Written' = Written
  BY <1>3 DEF Written
<1>14. LogSound'
  <2>1. ~Adding(1)
    BY <1>3 DEF Adding
  <2>2. \A i \in DOMAIN queue' : Adding(i)' <=> Adding(i + 1)
    BY <1>11 DEF Adding
  <2>3. \A i, j \in DOMAIN queue' : Adding(i)' /\ Adding(j)' => i = j
    <3> SUFFICES ASSUME NEW i \in DOMAIN queue', NEW j \in DOMAIN queue', Adding(i)', Adding(j)'
                 PROVE  i = j
      OBVIOUS
    <3>1. i \in Int /\ j \in Int /\ i + 1 \in DOMAIN queue /\ j + 1 \in DOMAIN queue
      BY <1>1, <1>11
    <3>2. i + 1 = j + 1
      BY <1>0, <2>2, <3>1 DEF LogSound
    <3>3. QED
      BY <3>1, <3>2
  <2>4. (\A i \in DOMAIN queue' : ~(Adding(i)')) => \A i \in DOMAIN queue : ~Adding(i)
    <3> SUFFICES ASSUME \A i \in DOMAIN queue' : ~(Adding(i)'), NEW i \in DOMAIN queue
                 PROVE  ~Adding(i)
      OBVIOUS
    <3>1. CASE i = 1
      BY <2>1, <3>1
    <3>2. CASE i # 1
      <4>1. i - 1 \in DOMAIN queue' /\ (i - 1) + 1 = i
        BY <1>1, <1>11, <3>2
      <4>2. QED
        BY <2>2, <4>1
    <3>3. QED
      BY <3>1, <3>2
  <2>5. ASSUME NEW i \in DOMAIN queue'
        PROVE  /\ queue'[i].op = "create" => Len(scheduled') = task'.lines /\ Written' = {}
               /\ queue'[i].op = "append" => /\ queue'[i].line = task'.lines - Len(scheduled')
                                             /\ Written' = 1..(queue'[i].line - 1)
    BY <1>0, <1>3, <1>11, <1>13 DEF LogSound
  <2>6. disk' \cap lostLines' = {} /\ \A i \in DOMAIN scheduled' : scheduled'[i] = task'.lines - Len(scheduled') + i
    BY <1>0, <1>3 DEF LogSound
  <2>7. (\A i \in DOMAIN queue' : ~(Adding(i)')) =>
            scheduled' = <<>> /\ (task'.kept => Written' = 1..task'.lines)
    BY <1>0, <1>3, <1>13, <2>4 DEF LogSound
  <2>8. QED
    BY <2>3, <2>5, <2>6, <2>7 DEF LogSound
<1>15. ASSUME NEW i \in DOMAIN queue', queue'[i].op = "read" PROVE ReadSound(i)'
  <2> DEFINE r == queue[i + 1].fetch
  <2>1. /\ i \in 1..(q - 1) /\ queue'[i] = queue[i + 1] /\ i + 1 \in DOMAIN queue
        /\ ReadSound(i + 1) /\ i \in Nat /\ q \in Nat
    BY <1>0, <1>1, <1>11, <1>15
  <2>2. r # f
    <3>1. r = f => i + 1 = 1
      BY <1>4, <1>15, <2>1 DEF ReadSound
    <3>2. QED
      BY <2>1, <3>1
  <2>3. r \in fetches' /\ r.step = "reading"
    BY <1>2, <2>1, <2>2 DEF ReadSound
  <2>4. ASSUME NEW j \in DOMAIN queue', queue'[j].op = "read", queue'[j].fetch = r
        PROVE  j = i
    <3>1. j \in Int /\ j + 1 \in DOMAIN queue /\ queue[j + 1].op = "read" /\ queue[j + 1].fetch = r
      BY <1>1, <1>11, <2>4
    <3>2. j + 1 = i + 1
      BY <2>1, <3>1 DEF ReadSound
    <3>3. QED
      BY <2>1, <3>1, <3>2
  <2>5. Before(i)' = Before(i + 1)
    <3>1. {queue'[j].line : j \in {k \in 1..(i - 1) : queue'[k].op = "append"}}
            = {queue[j].line : j \in {k \in 1..i : queue[k].op = "append"}}
      <4>1. \A j \in 1..(i - 1) : j + 1 \in 1..i /\ queue'[j] = queue[j + 1]
        BY <1>1, <1>3, <2>1
      <4>2. \A j \in 1..i : queue[j].op = "append" =>
                j - 1 \in 1..(i - 1) /\ queue'[j - 1] = queue[j]
        <5> SUFFICES ASSUME NEW j \in 1..i, queue[j].op = "append"
                     PROVE  j - 1 \in 1..(i - 1) /\ queue'[j - 1] = queue[j]
          OBVIOUS
        <5>1. j # 1
          BY <1>3
        <5>2. j - 1 \in 1..(i - 1) /\ (j - 1) + 1 = j
          BY <2>1, <5>1
        <5>3. QED
          BY <4>1, <5>2
      <4>3. QED
        BY <4>1, <4>2
    <3>2. (i + 1) - 1 = i
      BY <2>1
    <3>3. QED
      BY <1>13, <3>1, <3>2 DEF Before
  <2>6. /\ ~r.live => r.cursor = 0
        /\ r.live => /\ r.cursor \in 1..task.lines /\ Before(i + 1) \subseteq 1..r.cursor
                     /\ 1..r.cursor \subseteq Before(i + 1) \cup r.excused
    BY <2>1 DEF ReadSound
  <2>7. queue'[i].fetch = r
    BY <2>1
  <2> HIDE DEF r
  <2>8. QED
    BY <1>3, <2>3, <2>4, <2>5, <2>6, <2>7 DEF ReadSound
<1>16. ViewSound'
  BY <1>0, <1>3 DEF ViewSound, GoesOn, Cursor
<1>17. QED
  BY <1>9, <1>10, <1>12, <1>14, <1>15, <1>16 DEF StreamInv

\* All lines of the task are written, or on their way in front of a read that comes
\* now, or scheduled.
LEMMA BehindTheQueue ==
    ASSUME LogTypes, LogSound, task.kept, NEW p \in Nat, p = Len(queue) + 1
    PROVE  /\ Before(p) \subseteq 1..task.lines
           /\ 1..task.lines \subseteq Before(p) \cup Range(scheduled)
<1> DEFINE n == Len(scheduled)
           total == task.lines
<1>0. /\ n \in Nat /\ total \in Nat /\ scheduled \in Seq(Lines) /\ p - 1 = Len(queue)
      /\ queue \in Seq(FileOperations) /\ Len(queue) \in Nat /\ DOMAIN queue = 1..(p - 1)
      /\ DOMAIN scheduled = 1..n
  BY LogAssumption DEF LogTypes, Lines
<1>1. \A i \in DOMAIN scheduled : scheduled[i] = total - n + i
  BY DEF LogSound
<1>2. Before(p) = Written \cup {queue[j].line : j \in {k \in DOMAIN queue : queue[k].op = "append"}}
  BY <1>0 DEF Before
<1>3. CASE \A i \in DOMAIN queue : ~Adding(i)
  <2>1. Written = 1..total
    BY <1>3 DEF LogSound
  <2>2. {k \in DOMAIN queue : queue[k].op = "append"} = {}
    BY <1>3 DEF Adding
  <2>3. QED
    BY <1>2, <2>1, <2>2
<1>4. CASE \E i \in DOMAIN queue : Adding(i)
  <2>1. PICK i \in DOMAIN queue : Adding(i)
    BY <1>4
  <2>2. \A j \in DOMAIN queue : Adding(j) => j = i
    BY <2>1 DEF LogSound
  <2>3. CASE queue[i].op = "create"
    <3>1. n = total /\ Written = {}
      BY <2>3 DEF LogSound
    <3>2. {k \in DOMAIN queue : queue[k].op = "append"} = {}
      BY <2>2, <2>3 DEF Adding
    <3>3. Before(p) = {}
      BY <1>2, <3>1, <3>2
    <3>4. \A k \in 1..total : k \in DOMAIN scheduled /\ scheduled[k] = k
      BY <1>0, <1>1, <3>1
    <3>5. 1..total \subseteq Range(scheduled)
      BY <3>4 DEF Range
    <3>6. QED
      BY <3>3, <3>5
  <2>4. CASE queue[i].op = "append"
    <3> DEFINE k == queue[i].line
    <3>1. k = total - n /\ Written = 1..(k - 1)
      BY <2>4 DEF LogSound
    <3>2. k \in Nat /\ k >= 1
      BY <1>0, <2>4, LogAssumption DEF FileOperations, Lines
    <3>3. {j \in DOMAIN queue : queue[j].op = "append"} = {i}
      BY <2>2, <2>4 DEF Adding
    <3>4. Before(p) = Written \cup {k}
      BY <1>2, <3>3
    <3> HIDE DEF k
    <3>5. Before(p) = 1..k
      <4>1. (1..(k - 1)) \cup {k} = 1..k
        BY <3>2
      <4>2. QED
        BY <3>1, <3>4, <4>1
    <3>6. k <= total
      BY <1>0, <3>1
    <3>7. \A x \in 1..total : x > k => x - k \in DOMAIN scheduled /\ scheduled[x - k] = x
      BY <1>0, <1>1, <3>1, <3>2
    <3>8. \A x \in 1..total : x > k => x \in Range(scheduled)
      BY <3>7 DEF Range
    <3>9. QED
      BY <1>0, <3>2, <3>5, <3>6, <3>8
  <2>5. QED
    BY <2>1, <2>3, <2>4 DEF Adding
<1>5. QED
  BY <1>3, <1>4

\* The cursor and the place in the queue are taken in one step.
LEMMA HistorySteps ==
    ASSUME StreamInv, GetTaskHistory
    PROVE  StreamInv'
<1>0. /\ LogTypes /\ PanelTypes /\ TaskSound /\ LogSound /\ ViewSound
      /\ \A i \in DOMAIN queue : queue[i].op = "read" => ReadSound(i)
      /\ FetchesApart /\ \A r \in fetches : FetchSound(r)
  BY DEF StreamInv
<1>1. PICK f \in fetches :
          /\ f.step = "asked" /\ fetches' = (fetches \ {f}) \cup {FenceOf(f)}
          /\ queue' = Append(queue, [op |-> "read", fetch |-> FenceOf(f)])
          /\ UNCHANGED <<task, scheduled, disk, lostLines, conn, wire, view, faults>>
  BY DEF GetTaskHistory, Replaced
<1> DEFINE g == FenceOf(f)
           o == [op |-> "read", fetch |-> g]
<1>2. /\ queue \in Seq(FileOperations) /\ scheduled \in Seq(Lines) /\ f \in HistoryFetches
      /\ Len(queue) \in Nat /\ Range(scheduled) \subseteq Lines
      /\ task.kept \in BOOLEAN /\ task.lines \in 0..MaxLines /\ 0 \in 0..MaxLines
      /\ task.lines \in Nat /\ task.lines >= 1
  BY <1>0, LogAssumption DEF LogTypes, PanelTypes, Lines, Range
<1>3. /\ g \in HistoryFetches /\ g.step = "reading" /\ g.use = f.use /\ g.open = f.open
      /\ g.live = task.kept /\ g.cursor = IF task.kept THEN task.lines ELSE 0
      /\ g.excused = Range(scheduled)
  BY <1>2 DEF FenceOf, HistoryFetches
<1> HIDE DEF g
<1>4. o \in FileOperations /\ o.op = "read" /\ o.fetch = g
  BY <1>3 DEF FileOperations
<1>5. queue' = Append(queue, o)
  BY <1>1 DEF g
<1> HIDE DEF o
<1> PICK p \in Nat : p = Len(queue) + 1
  BY <1>2
<1>6. /\ queue' \in Seq(FileOperations) /\ Len(queue') = p /\ queue'[p] = o
      /\ DOMAIN queue = 1..(p - 1) /\ DOMAIN queue' = 1..p
      /\ \A i \in 1..(p - 1) : queue'[i] = queue[i]
  BY <1>2, <1>4, <1>5, Added
<1>7. fetches' = (fetches \ {f}) \cup {g} /\ Replaced(f, g)
  BY <1>1 DEF g, Replaced
<1>8. FetchesApart' /\ LogTypes' /\ PanelTypes' /\ TaskSound' /\ ViewSound'
  <2>1. FetchesApart'
    BY <1>0, <1>3, <1>7, StillApart
  <2>2. LogTypes' /\ PanelTypes' /\ TaskSound'
    BY <1>0, <1>1, <1>3, <1>6, <1>7 DEF LogTypes, PanelTypes, TaskSound
  <2>3. ViewSound'
    BY <1>0, <1>1 DEF ViewSound, GoesOn, Cursor
  <2>4. QED
    BY <2>1, <2>2, <2>3
<1>9. \A r \in fetches' : FetchSound(r)'
  <2> SUFFICES ASSUME NEW r \in fetches' PROVE FetchSound(r)'
    OBVIOUS
  <2>1. FetchSound(f) /\ FetchSound(g)
    BY <1>0, <1>3 DEF FetchSound
  <2>2. FetchSound(r)
    BY <1>0, <1>7, <2>1
  <2>3. QED
    BY <1>1, <2>2 DEF FetchSound, AnswerSound
<1>10. Written' = Written
  BY <1>1 DEF Written
<1>11. LogSound'
  <2>1. ASSUME NEW i \in DOMAIN queue', queue'[i].op \in {"create", "append"}
        PROVE  i \in DOMAIN queue /\ queue'[i] = queue[i]
    <3>1. i # p
      BY <1>4, <1>6, <2>1
    <3>2. QED
      BY <1>6, <3>1
  <2>2. \A i \in DOMAIN queue' : Adding(i)' => i \in DOMAIN queue /\ Adding(i)
    BY <2>1 DEF Adding
  <2>3. (\A i \in DOMAIN queue' : ~(Adding(i)')) => \A i \in DOMAIN queue : ~Adding(i)
    BY <1>6 DEF Adding
  <2>4. \A i, j \in DOMAIN queue' : Adding(i)' /\ Adding(j)' => i = j
    BY <1>0, <2>2 DEF LogSound
  <2>5. ASSUME NEW i \in DOMAIN queue'
        PROVE  /\ queue'[i].op = "create" => Len(scheduled') = task'.lines /\ Written' = {}
               /\ queue'[i].op = "append" => /\ queue'[i].line = task'.lines - Len(scheduled')
                                             /\ Written' = 1..(queue'[i].line - 1)
    BY <1>0, <1>1, <1>10, <2>1 DEF LogSound
  <2>6. disk' \cap lostLines' = {} /\ \A i \in DOMAIN scheduled' : scheduled'[i] = task'.lines - Len(scheduled') + i
    BY <1>0, <1>1 DEF LogSound
  <2>7. (\A i \in DOMAIN queue' : ~(Adding(i)')) =>
            scheduled' = <<>> /\ (task'.kept => Written' = 1..task'.lines)
    BY <1>0, <1>1, <1>10, <2>3 DEF LogSound
  <2>8. QED
    BY <2>4, <2>5, <2>6, <2>7 DEF LogSound
<1>12. ASSUME NEW i \in DOMAIN queue, queue[i].op = "read"
       PROVE  queue[i].fetch \in fetches /\ queue[i].fetch # f /\ queue[i].fetch # g
  <2>1. queue[i].fetch \in fetches /\ queue[i].fetch.step = "reading"
    BY <1>0, <1>12 DEF ReadSound
  <2>2. queue[i].fetch # f
    BY <1>1, <2>1
  <2>3. queue[i].fetch # g
    BY <1>0, <1>3, <2>1, <2>2 DEF FetchesApart
  <2>4. QED
    BY <2>1, <2>2, <2>3
<1>13. ASSUME NEW i \in DOMAIN queue', queue'[i].op = "read" PROVE ReadSound(i)'
  <2>1. CASE i = p
    <3>1. Before(i)' = Before(i)
      BY <1>6, <1>10, <2>1, BeforeKept
    <3>2. task.kept => /\ Before(i) \subseteq 1..task.lines
                       /\ 1..task.lines \subseteq Before(i) \cup Range(scheduled)
      BY <1>0, <2>1, BehindTheQueue
    <3>3. queue'[i].fetch = g
      BY <1>4, <1>6, <2>1
    <3>4. \A j \in DOMAIN queue' : queue'[j].op = "read" /\ queue'[j].fetch = g => j = i
      <4> SUFFICES ASSUME NEW j \in DOMAIN queue', queue'[j].op = "read", queue'[j].fetch = g, j # p
                   PROVE  FALSE
        BY <2>1
      <4>1. j \in DOMAIN queue /\ queue'[j] = queue[j]
        BY <1>6
      <4>2. QED
        BY <1>12, <4>1
    <3>5. /\ g \in fetches'
          /\ ~g.live => g.cursor = 0
          /\ g.live => g.cursor = task.lines /\ g.cursor \in 1..task.lines /\ task.kept
      BY <1>2, <1>3, <1>7
    <3>6. QED
      BY <1>1, <1>3, <1>7, <3>1, <3>2, <3>3, <3>4, <3>5 DEF ReadSound
  <2>2. CASE i # p
    <3> DEFINE r == queue[i].fetch
    <3>1. i \in 1..(p - 1) /\ i \in DOMAIN queue /\ queue'[i] = queue[i] /\ ReadSound(i) /\ i \in Nat
      BY <1>0, <1>6, <1>13, <2>2
    <3>2. \A j \in 1..(i - 1) : queue'[j] = queue[j]
      BY <1>6, <3>1
    <3>3. Before(i)' = Before(i)
      BY <1>10, <3>1, <3>2, BeforeKept
    <3>4. r \in fetches' /\ r # g
      BY <1>7, <1>12, <1>13, <3>1
    <3>5. ASSUME NEW j \in DOMAIN queue', queue'[j].op = "read", queue'[j].fetch = r PROVE j = i
      <4>1. j # p
        BY <1>4, <1>6, <3>4, <3>5
      <4>2. j \in DOMAIN queue /\ queue'[j] = queue[j]
        BY <1>6, <4>1
      <4>3. QED
        BY <3>1, <3>5, <4>2 DEF ReadSound
    <3>6. queue'[i].fetch = r
      BY <3>1
    <3>7. /\ r.step = "reading" /\ (~r.live => r.cursor = 0)
          /\ r.live => /\ r.cursor \in 1..task.lines /\ Before(i) \subseteq 1..r.cursor
                       /\ 1..r.cursor \subseteq Before(i) \cup r.excused
      BY <3>1 DEF ReadSound
    <3> HIDE DEF r
    <3>8. QED
      BY <1>1, <3>3, <3>4, <3>5, <3>6, <3>7 DEF ReadSound
  <2>3. QED
    BY <2>1, <2>2
<1>14. QED
  BY <1>8, <1>9, <1>11, <1>13 DEF StreamInv

(***************************************************************************)
(* The view and its requests                                               *)
(***************************************************************************)

LEMMA LogKept ==
    ASSUME StreamInv, UNCHANGED <<task, scheduled, queue, disk, lostLines>>,
           \A f \in fetches : f.step = "reading" => f \in fetches'
    PROVE  /\ LogTypes' /\ TaskSound' /\ LogSound'
           /\ \A i \in DOMAIN queue' : queue'[i].op = "read" => ReadSound(i)'
<1>0. /\ LogTypes /\ TaskSound /\ LogSound
      /\ \A i \in DOMAIN queue : queue[i].op = "read" => ReadSound(i)
  BY DEF StreamInv
<1>1. LogTypes' /\ TaskSound'
  BY <1>0 DEF LogTypes, TaskSound
<1>2. LogSound'
  BY <1>0 DEF LogSound, Adding, Written
<1>3. \A i \in DOMAIN queue' : queue'[i].op = "read" => ReadSound(i)'
  BY <1>0 DEF ReadSound, Before, Written
<1>4. QED
  BY <1>1, <1>2, <1>3

\* What a view needs to know of where it is.
LEMMA ViewFacts ==
    ASSUME StreamInv
    PROVE  /\ LogTypes /\ PanelTypes /\ TaskSound /\ ViewSound /\ FetchesApart
           /\ (\A f \in fetches : FetchSound(f)) /\ fetches \subseteq HistoryFetches
           /\ view \in Views /\ view.opens \in Nat /\ view.shown \in Seq(Lines)
           /\ view.fence \in Nat /\ view.lastId \in Nat /\ view.checking \in BOOLEAN
           /\ task.lines \in Nat /\ task.lines \in 0..MaxLines /\ MaxLines \in Nat
           /\ None \notin Nat /\ None # "done"
           /\ Cursor = IF view.fence >= view.lastId THEN view.fence ELSE view.lastId
           /\ Cursor \in Nat /\ Cursor \in 0..MaxLines
<1>1. LogTypes /\ PanelTypes /\ TaskSound /\ ViewSound /\ FetchesApart /\ \A f \in fetches : FetchSound(f)
  BY DEF StreamInv
<1>2. QED
  BY <1>1, CursorIs, LogAssumption DEF LogTypes, PanelTypes, Views, Lines

LEMMA OpenedKeeps ==
    ASSUME StreamInv, Opened, UNCHANGED <<task, scheduled, queue, disk, lostLines>>
    PROVE  StreamInv'
<1> DEFINE g == HistoryRequest("open", view.opens + 1)
<1>0. /\ LogTypes /\ PanelTypes /\ TaskSound /\ ViewSound /\ FetchesApart
      /\ (\A f \in fetches : FetchSound(f)) /\ fetches \subseteq HistoryFetches
      /\ view \in Views /\ view.opens \in Nat
      /\ task.lines \in Nat /\ MaxLines \in Nat /\ None # "done"
  BY ViewFacts
<1>1. /\ view' = [view EXCEPT !.phase = "history", !.opens = @ + 1, !.shown = <<>>,
                              !.fence = 0, !.lastId = 0, !.source = "none",
                              !.end = None, !.excused = {}]
      /\ fetches' = fetches \cup {g} /\ conn' = None /\ wire' = <<>>
  BY DEF Opened
<1>2. /\ view' \in Views /\ view'.opens = view.opens + 1 /\ view'.shown = <<>> /\ view'.fence = 0
      /\ view'.lastId = 0 /\ view'.source = "none" /\ view'.end = None /\ view'.excused = {}
      /\ view'.checking = view.checking
  <2>1. /\ "history" \in {"idle", "history", "connecting", "streaming", "retrying", "ended"}
        /\ view.opens + 1 \in Nat /\ <<>> \in Seq(Lines) /\ 0 \in 0..MaxLines
        /\ "none" \in {"none", "connecting", "open", "refused"}
        /\ None \in {None, "history", "checked", "done"} /\ {} \in SUBSET Lines
    BY <1>0
  <2>2. view' = [phase |-> "history", opens |-> view.opens + 1, shown |-> <<>>, fence |-> 0,
                 lastId |-> 0, source |-> "none", checking |-> view.checking, end |-> None,
                 excused |-> {}]
    BY <1>0, <1>1 DEF Views
  <2>3. view.checking \in BOOLEAN
    BY <1>0 DEF Views
  <2>4. QED
    BY <2>1, <2>2, <2>3 DEF Views
<1>3. /\ g \in HistoryFetches /\ g.use = "open" /\ g.open = view.opens + 1 /\ g.step = "asked"
  BY <1>0 DEF HistoryRequest, HistoryFetches
<1> HIDE DEF g
<1>4. PanelTypes'
  BY <1>0, <1>1, <1>2, <1>3 DEF PanelTypes
<1>5. \A f \in fetches : f.open \in Nat /\ f.open <= view.opens /\ f.open # g.open
  BY <1>0, <1>3 DEF FetchSound, HistoryFetches
<1>6. FetchesApart'
  <2> SUFFICES ASSUME NEW a \in fetches', NEW b \in fetches',
                      a.use = b.use, a.use = "check" \/ a.open = b.open
               PROVE  a = b
    BY DEF FetchesApart
  <2>1. CASE a \in fetches /\ b \in fetches
    BY <1>0, <2>1 DEF FetchesApart
  <2>2. CASE a = g \/ b = g
    BY <1>1, <1>3, <1>5, <2>2
  <2>3. QED
    BY <1>1, <2>1, <2>2
<1>7. \A f \in fetches' : FetchSound(f)'
  <2> SUFFICES ASSUME NEW f \in fetches' PROVE FetchSound(f)'
    OBVIOUS
  <2>1. CASE f \in fetches
    BY <1>0, <1>2, <1>5, <2>1 DEF FetchSound, AnswerSound
  <2>2. CASE f = g
    BY <1>0, <1>2, <1>3, <2>2 DEF FetchSound
  <2>3. QED
    BY <1>1, <2>1, <2>2
<1>8. ViewSound'
  <2>1. Cursor' = 0
    BY <1>2, <1>4, CursorIsToo
  <2>2. Ascending(view'.shown) /\ 1..0 = {}
    BY <1>2 DEF Ascending
  <2>3. QED
    BY <1>0, <1>1, <1>2, <2>1, <2>2 DEF ViewSound
<1>9. QED
  BY <1>1, <1>4, <1>6, <1>7, <1>8, LogKept DEF StreamInv

LEMMA FetchLostKeeps ==
    ASSUME StreamInv, FetchLost
    PROVE  StreamInv'
<1>0. /\ LogTypes /\ PanelTypes /\ ViewSound /\ FetchesApart
      /\ (\A f \in fetches : FetchSound(f)) /\ fetches \subseteq HistoryFetches
      /\ view \in Views
  BY ViewFacts
<1>1. PICK f \in fetches :
          /\ f.step # "reading" /\ fetches' = fetches \ {f}
          /\ view' = IF f.use = "check" THEN [view EXCEPT !.checking = FALSE]
                     ELSE IF f.open = view.opens THEN [view EXCEPT !.phase = "retrying"]
                     ELSE view
          /\ UNCHANGED <<task, scheduled, queue, disk, lostLines, conn, wire>>
  BY DEF FetchLost
<1>2. /\ view' \in Views /\ view'.opens = view.opens /\ view'.shown = view.shown
      /\ view'.fence = view.fence /\ view'.lastId = view.lastId /\ view'.source = view.source
      /\ view'.end = view.end /\ view'.excused = view.excused
      /\ f.use # "check" => view'.checking = view.checking
  <2>1. CASE f.use = "check"
    BY <1>0, <1>1, <2>1 DEF Views
  <2>2. CASE f.use # "check" /\ f.open = view.opens
    BY <1>0, <1>1, <2>2 DEF Views
  <2>3. CASE f.use # "check" /\ f.open # view.opens
    BY <1>0, <1>1, <2>3
  <2>4. QED
    BY <2>1, <2>2, <2>3
<1>3. PanelTypes' /\ FetchesApart'
  BY <1>0, <1>1, <1>2 DEF PanelTypes, FetchesApart
<1>4. \A r \in fetches' : FetchSound(r)'
  <2> SUFFICES ASSUME NEW r \in fetches' PROVE FetchSound(r)'
    OBVIOUS
  <2>1. r \in fetches /\ FetchSound(r) /\ (r.use = "check" => f.use # "check")
    BY <1>0, <1>1 DEF FetchesApart
  <2>2. QED
    BY <1>1, <1>2, <2>1 DEF FetchSound, AnswerSound
<1>5. ViewSound'
  <2>1. Cursor' = Cursor
    BY <1>2 DEF Cursor
  <2>2. QED
    BY <1>0, <1>1, <1>2, <2>1 DEF ViewSound, GoesOn
<1>6. QED
  BY <1>1, <1>3, <1>4, <1>5, LogKept DEF StreamInv

\* The history replaces what was shown, and the stream goes on from its cursor.
LEMMA HistoryArrivesKeeps ==
    ASSUME StreamInv, HistoryArrives
    PROVE  StreamInv'
<1>0. /\ LogTypes /\ PanelTypes /\ ViewSound /\ FetchesApart
      /\ (\A f \in fetches : FetchSound(f)) /\ fetches \subseteq HistoryFetches
      /\ view \in Views /\ lostLines \subseteq Lines /\ task.lines \in Nat /\ MaxLines \in Nat
  BY ViewFacts DEF LogTypes
<1>1. PICK f \in fetches :
          /\ f.step = "answered" /\ f.use = "open" /\ fetches' = fetches \ {f}
          /\ view' = IF f.open = view.opens THEN HistoryShown(f) ELSE view
          /\ UNCHANGED <<task, scheduled, queue, disk, lostLines, conn, wire>>
  BY DEF HistoryArrives
<1>2. FetchesApart'
  BY <1>0, <1>1 DEF FetchesApart
<1>3. \A r \in fetches' : r \in fetches /\ FetchSound(r) /\ (r.use = "open" => r.open # f.open)
  BY <1>0, <1>1 DEF FetchesApart
<1>4. CASE f.open # view.opens
  <2>1. view' = view
    BY <1>1, <1>4
  <2>2. PanelTypes'
    BY <1>0, <1>1, <2>1 DEF PanelTypes
  <2>3. \A r \in fetches' : FetchSound(r)'
    BY <1>1, <1>3, <2>1 DEF FetchSound, AnswerSound
  <2>4. ViewSound'
    BY <1>0, <1>1, <2>1 DEF ViewSound, GoesOn, Cursor
  <2>5. QED
    BY <1>1, <1>2, <2>2, <2>3, <2>4, LogKept DEF StreamInv
<1>5. CASE f.open = view.opens
  <2>1. /\ view.source = "none" /\ view.lastId = 0 /\ view.end # "done" /\ AnswerSound(f)
        /\ f \in HistoryFetches /\ conn = None /\ wire = <<>>
    BY <1>0, <1>1, <1>5 DEF FetchSound, ViewSound
  <2>2. view' = HistoryShown(f)
    BY <1>1, <1>5
  <2>3. /\ f.events \in Seq(Lines) /\ f.cursor \in 0..MaxLines /\ f.cursor \in Nat
        /\ f.excused \cup lostLines \subseteq Lines /\ f.active \in BOOLEAN
    BY <1>0, <2>1 DEF HistoryFetches
  <2>4. /\ view' \in Views /\ view'.opens = view.opens /\ view'.shown = f.events
        /\ view'.fence = f.cursor /\ view'.lastId = 0 /\ view'.checking = view.checking
        /\ view'.source \in {"none", "connecting"} /\ (view'.source = "connecting" => f.active)
        /\ view'.end # "done" /\ view'.excused = f.excused \cup lostLines
    <3>1. CASE f.active
      BY <1>0, <2>1, <2>2, <2>3, <3>1 DEF HistoryShown, Views
    <3>2. CASE ~f.active
      BY <1>0, <2>1, <2>2, <2>3, <3>2 DEF HistoryShown, Ended, Views
    <3>3. QED
      BY <3>1, <3>2
  <2>5. PanelTypes'
    BY <1>0, <1>1, <2>4 DEF PanelTypes
  <2>6. \A r \in fetches' : FetchSound(r)'
    BY <1>1, <1>3, <1>5, <2>4 DEF FetchSound, AnswerSound
  <2>7. Cursor' = f.cursor
    BY <2>3, <2>4, <2>5, CursorIsToo
  <2>8. /\ Ascending(f.events) /\ f.cursor <= task.lines /\ (f.active => f.cursor > 0)
        /\ f.cursor > 0 => /\ Range(f.events) \subseteq 1..f.cursor
                           /\ 1..f.cursor \subseteq Range(f.events) \cup f.excused \cup lostLines
    BY <2>1 DEF AnswerSound
  <2>9. (1..view'.fence) \ Range(view'.shown) \subseteq view'.excused
    <3>1. CASE f.cursor > 0
      BY <2>4, <2>8, <3>1
    <3>2. CASE f.cursor = 0
      BY <2>4, <3>2
    <3>3. QED
      BY <2>3, <3>1, <3>2
  <2>10. view'.fence > 0 => /\ \A k \in Range(view'.shown) : k <= Cursor'
                            /\ (view'.fence + 1)..view'.lastId \subseteq Range(view'.shown)
    BY <2>3, <2>4, <2>7, <2>8
  <2>11. ViewSound'
    BY <1>1, <2>1, <2>4, <2>7, <2>8, <2>9, <2>10 DEF ViewSound
  <2>12. QED
    BY <1>1, <1>2, <2>5, <2>6, <2>11, LogKept DEF StreamInv
<1>6. QED
  BY <1>4, <1>5

LEMMA CheckArrivesKeeps ==
    ASSUME StreamInv, CheckArrives
    PROVE  StreamInv'
<1>0. /\ LogTypes /\ PanelTypes /\ ViewSound /\ FetchesApart
      /\ (\A f \in fetches : FetchSound(f)) /\ fetches \subseteq HistoryFetches
      /\ view \in Views
  BY ViewFacts
<1>1. PICK f \in fetches :
          /\ f.step = "answered" /\ f.use = "check" /\ fetches' = fetches \ {f}
          /\ \/ view' = Ended([view EXCEPT !.checking = FALSE], "checked") /\ conn' = None /\ wire' = <<>>
             \/ view' = [view EXCEPT !.checking = FALSE] /\ conn' = conn /\ wire' = wire
          /\ UNCHANGED <<task, scheduled, queue, disk, lostLines>>
  BY DEF CheckArrives
<1>2. /\ view' \in Views /\ view'.opens = view.opens /\ view'.shown = view.shown
      /\ view'.fence = view.fence /\ view'.lastId = view.lastId /\ view'.excused = view.excused
      /\ \/ view'.source = view.source /\ view'.end = view.end /\ conn' = conn /\ wire' = wire
         \/ view'.source = "none" /\ view'.end # "done" /\ conn' = None /\ wire' = <<>>
  BY <1>0, <1>1 DEF Views, Ended
<1>3. PanelTypes' /\ FetchesApart'
  <2>1. conn' \in (0..MaxLines) \cup {None} /\ wire' \in Seq(Messages)
    <3>1. conn \in (0..MaxLines) \cup {None} /\ wire \in Seq(Messages) /\ <<>> \in Seq(Messages)
      BY <1>0 DEF PanelTypes
    <3>2. QED
      BY <1>1, <3>1
  <2>2. QED
    BY <1>0, <1>1, <1>2, <2>1 DEF PanelTypes, FetchesApart
<1>4. \A r \in fetches' : FetchSound(r)'
  <2> SUFFICES ASSUME NEW r \in fetches' PROVE FetchSound(r)'
    OBVIOUS
  <2>1. r \in fetches /\ FetchSound(r) /\ r.use # "check"
    BY <1>0, <1>1 DEF FetchesApart
  <2>2. QED
    BY <1>1, <1>2, <2>1 DEF FetchSound, AnswerSound
<1>5. ViewSound'
  <2>1. Cursor' = Cursor
    BY <1>2 DEF Cursor
  <2>2. QED
    BY <1>0, <1>1, <1>2, <2>1 DEF ViewSound, GoesOn
<1>6. QED
  BY <1>1, <1>3, <1>4, <1>5, LogKept DEF StreamInv

\* After an error one check asks whether the task goes on.
LEMMA OnErrorKeeps ==
    ASSUME StreamInv, NEW source \in {"refused", "connecting"}, OnError(source),
           view.source \in {"connecting", "open"}, conn' = None, wire' = <<>>,
           UNCHANGED <<task, scheduled, queue, disk, lostLines>>
    PROVE  StreamInv'
<1> DEFINE g == HistoryRequest("check", view.opens)
<1>0. /\ LogTypes /\ PanelTypes /\ ViewSound /\ FetchesApart
      /\ (\A f \in fetches : FetchSound(f)) /\ fetches \subseteq HistoryFetches
      /\ view \in Views /\ view.opens \in Nat /\ MaxLines \in Nat
  BY ViewFacts
<1>1. /\ view'.source = source
      /\ view' \in Views /\ view'.opens = view.opens /\ view'.shown = view.shown
      /\ view'.fence = view.fence /\ view'.lastId = view.lastId /\ view'.excused = view.excused
      /\ view'.end = view.end /\ view'.checking
      /\ IF view.checking THEN fetches' = fetches ELSE fetches' = fetches \cup {g}
  <2>1. CASE view.checking
    BY <1>0, <2>1 DEF OnError, Views
  <2>2. CASE ~view.checking
    <3>1. /\ view' = [view EXCEPT !.source = source, !.phase = "retrying", !.checking = TRUE]
          /\ fetches' = fetches \cup {g}
      BY <2>2 DEF OnError
    <3> HIDE DEF g
    <3>2. QED
      BY <1>0, <2>2, <3>1 DEF Views
  <2>3. QED
    BY <2>1, <2>2
<1>2. g \in HistoryFetches /\ g.use = "check" /\ g.open = view.opens /\ g.step = "asked"
  BY <1>0 DEF HistoryRequest, HistoryFetches
<1> HIDE DEF g
<1>3. PanelTypes'
  BY <1>0, <1>1, <1>2 DEF PanelTypes
<1>4. ~view.checking => \A f \in fetches : f.use # "check"
  BY <1>0 DEF FetchSound
<1>5. FetchesApart'
  <2>1. CASE view.checking
    BY <1>0, <1>1, <2>1 DEF FetchesApart
  <2>2. CASE ~view.checking
    <3> SUFFICES ASSUME NEW a \in fetches', NEW b \in fetches',
                        a.use = b.use, a.use = "check" \/ a.open = b.open
                 PROVE  a = b
      BY DEF FetchesApart
    <3>1. CASE a \in fetches /\ b \in fetches
      BY <1>0, <3>1 DEF FetchesApart
    <3>2. CASE a = g \/ b = g
      BY <1>1, <1>2, <1>4, <2>2, <3>2
    <3>3. QED
      BY <1>1, <2>2, <3>1, <3>2
  <2>3. QED
    BY <2>1, <2>2
<1>6. \A f \in fetches' : FetchSound(f)'
  <2> SUFFICES ASSUME NEW f \in fetches' PROVE FetchSound(f)'
    OBVIOUS
  <2>1. CASE f \in fetches
    BY <1>0, <1>1, <2>1 DEF FetchSound, AnswerSound
  <2>2. CASE f = g
    BY <1>0, <1>1, <1>2, <2>2 DEF FetchSound
  <2>3. QED
    BY <1>1, <2>1, <2>2
<1>7. ViewSound'
  <2>1. Cursor' = Cursor
    BY <1>1 DEF Cursor
  <2>2. QED
    BY <1>0, <1>1, <2>1 DEF ViewSound
<1>8. \A f \in fetches : f \in fetches'
  BY <1>1
<1>9. QED
  BY <1>3, <1>5, <1>6, <1>7, <1>8, LogKept DEF StreamInv

\* A response begins at the cursor of the view.
LEMMA StreamSteps ==
    ASSUME StreamInv, HandleStream \/ ConnectionLost
    PROVE  StreamInv'
<1>0. /\ LogTypes /\ PanelTypes /\ TaskSound /\ ViewSound /\ FetchesApart
      /\ (\A f \in fetches : FetchSound(f)) /\ fetches \subseteq HistoryFetches
      /\ view \in Views /\ MaxLines \in Nat /\ Cursor \in 0..MaxLines /\ Cursor \in Nat
      /\ task.lines \in 0..MaxLines /\ task.lines \in Nat
  BY ViewFacts
<1>1. CASE ConnectionLost
  BY <1>1, OnErrorKeeps DEF ConnectionLost
<1>2. CASE HandleStream /\ ~task.kept
  <2>1. OnError("refused") /\ conn' = None /\ wire' = <<>> /\ view.source = "connecting"
    BY <1>0, <1>2 DEF HandleStream, ViewSound
  <2>2. QED
    BY <1>2, <2>1, OnErrorKeeps DEF HandleStream
<1>3. CASE HandleStream /\ task.kept
  <2> DEFINE r == Flushed(Cursor, task.lines, task.closed)
             n == task.lines - Cursor
  <2>1. /\ view.source = "connecting" /\ conn' = r.conn /\ wire' = r.sent
        /\ view' = [view EXCEPT !.source = "open", !.phase = "streaming"]
        /\ UNCHANGED <<fetches, task, scheduled, queue, disk, lostLines>>
    BY <1>3 DEF HandleStream
  <2>2. Cursor <= task.lines /\ n \in Nat /\ Cursor + n = task.lines /\ task.closed \in BOOLEAN
    BY <1>0 DEF ViewSound, LogTypes
  <2>3. /\ r.sent \in Seq(Messages) /\ r.conn \in (0..MaxLines) \cup {None}
        /\ \/ r.conn = None /\ Len(r.sent) = 1 /\ r.sent[1] = HistoryRequired
           \/ /\ ~task.closed /\ r.conn = task.lines /\ Len(r.sent) = n
              /\ \A i \in 1..n : r.sent[i] = Line(Cursor + i)
           \/ /\ task.closed /\ r.conn = None /\ Len(r.sent) = n + 1 /\ r.sent[n + 1] = Done
              /\ \A i \in 1..n : r.sent[i] = Line(Cursor + i)
    BY <1>0, <2>2, FlushedIs
  <2> HIDE DEF r
  <2>4. /\ view' \in Views /\ view'.opens = view.opens /\ view'.shown = view.shown
        /\ view'.fence = view.fence /\ view'.lastId = view.lastId /\ view'.excused = view.excused
        /\ view'.end = view.end /\ view'.checking = view.checking /\ view'.source = "open"
    BY <1>0, <2>1 DEF Views
  <2>5. PanelTypes' /\ FetchesApart'
    BY <1>0, <2>1, <2>3, <2>4 DEF PanelTypes, FetchesApart
  <2>6. \A f \in fetches' : FetchSound(f)'
    BY <1>0, <2>1, <2>4 DEF FetchSound, AnswerSound
  <2>7. Cursor' = Cursor
    BY <2>4 DEF Cursor
  <2>8. task.closed => task.final # None /\ task.final <= Cursor + n
    BY <1>0, <1>3, <2>2 DEF TaskSound
  <2>9. \E m \in Nat : GoesOn(task, wire', Cursor, conn', m)
    <3>1. CASE r.conn = None /\ Len(r.sent) = 1 /\ r.sent[1] = HistoryRequired
      <4>1. Len(wire') = 0 + 1 /\ wire'[0 + 1] = HistoryRequired /\ Cursor + 0 <= task.lines /\ 1..0 = {}
        BY <1>0, <2>1, <2>2, <3>1
      <4>2. GoesOn(task, wire', Cursor, conn', 0)
        BY <2>1, <3>1, <4>1 DEF GoesOn
      <4>3. QED
        BY <4>2
    <3>2. CASE /\ ~task.closed /\ r.conn = task.lines /\ Len(r.sent) = n
               /\ \A i \in 1..n : r.sent[i] = Line(Cursor + i)
      <4>1. GoesOn(task, wire', Cursor, conn', n)
        BY <1>0, <2>1, <2>2, <3>2 DEF GoesOn
      <4>2. QED
        BY <2>2, <4>1
    <3>3. CASE /\ task.closed /\ r.conn = None /\ Len(r.sent) = n + 1 /\ r.sent[n + 1] = Done
               /\ \A i \in 1..n : r.sent[i] = Line(Cursor + i)
      <4>1. GoesOn(task, wire', Cursor, conn', n)
        BY <1>0, <2>1, <2>2, <2>8, <3>3 DEF GoesOn
      <4>2. QED
        BY <2>2, <4>1
    <3>4. QED
      BY <2>3, <3>1, <3>2, <3>3
  <2>10. view'.fence > 0
    BY <1>0, <2>1, <2>4 DEF ViewSound
  <2>11. ViewSound'
    BY <1>0, <2>1, <2>4, <2>7, <2>9, <2>10 DEF ViewSound
  <2>12. QED
    BY <2>1, <2>5, <2>6, <2>11, LogKept DEF StreamInv
<1>4. QED
  BY <1>1, <1>2, <1>3

\* A line continues what is shown, and the end comes after the last line.
LEMMA MessageSteps ==
    ASSUME StreamInv, OnMessage
    PROVE  StreamInv'
<1>0. /\ LogTypes /\ PanelTypes /\ TaskSound /\ ViewSound /\ FetchesApart
      /\ (\A f \in fetches : FetchSound(f)) /\ fetches \subseteq HistoryFetches
      /\ view \in Views /\ view.shown \in Seq(Lines)
      /\ view.fence \in Nat /\ view.lastId \in Nat /\ MaxLines \in Nat
      /\ Cursor = IF view.fence >= view.lastId THEN view.fence ELSE view.lastId
      /\ Cursor \in 0..MaxLines /\ Cursor \in Nat
      /\ task.lines \in 0..MaxLines /\ task.lines \in Nat
  BY ViewFacts
<1>1. /\ view.source = "open" /\ wire # <<>>
      /\ UNCHANGED <<task, scheduled, queue, disk, lostLines>>
  BY DEF OnMessage
<1>2. /\ wire \in Seq(Messages) /\ Tail(wire) \in Seq(Messages) /\ Len(Tail(wire)) = Len(wire) - 1
      /\ Head(wire) = wire[1] /\ Len(wire) \in Nat \ {0}
      /\ \A i \in 1..(Len(wire) - 1) : Tail(wire)[i] = wire[i + 1]
  BY <1>0, <1>1, Tailed DEF PanelTypes
<1>3. PICK m \in Nat : GoesOn(task, wire, Cursor, conn, m)
  BY <1>0, <1>1 DEF ViewSound
<1>4. view.fence > 0 /\ view.fence <= Cursor /\ Cursor <= task.lines
  BY <1>0, <1>1 DEF ViewSound
<1>5. \A f \in fetches : ~ (f.use = "open" /\ f.open = view.opens)
  BY <1>0, <1>1 DEF FetchSound
<1>6. /\ m > 0 => wire[1] = Line(Cursor + 1)
      /\ m = 0 => \/ wire[1] = Done /\ task.final # None /\ task.final <= Cursor
                  \/ wire[1] = HistoryRequired
  <2>1. m > 0 => 1 \in 1..m
    OBVIOUS
  <2>2. CASE m > 0
    BY <1>3, <2>1, <2>2 DEF GoesOn
  <2>3. CASE m = 0
    <3>1. Len(wire) # m /\ m + 1 = 1 /\ Cursor + m = Cursor
      BY <1>0, <1>2, <2>3
    <3>2. QED
      BY <1>3, <2>3, <3>1 DEF GoesOn
  <2>4. QED
    BY <2>2, <2>3
<1>7. /\ Line(Cursor + 1).kind = "line" /\ Line(Cursor + 1).id = Cursor + 1
      /\ Done.kind = "done" /\ HistoryRequired.kind = "history required"
      /\ "line" # "done" /\ "line" # "history required" /\ "done" # "history required"
  BY DEF Line, Done, HistoryRequired
<1>8. CASE wire[1].kind = "line"
  <2> DEFINE next == Cursor + 1
  <2>1. m > 0 /\ m \in Nat \ {0} /\ wire[1].id = next
    <3>1. m # 0
      BY <1>6, <1>7, <1>8
    <3>2. m > 0
      BY <3>1
    <3>3. wire[1].id = Cursor + 1
      BY <1>6, <1>7, <3>2
    <3>4. QED
      BY <3>1, <3>2, <3>3
  <2>2. /\ view' = [view EXCEPT !.shown = Append(@, wire[1].id), !.lastId = wire[1].id]
        /\ wire' = Tail(wire) /\ UNCHANGED <<conn, fetches>>
    BY <1>2, <1>8 DEF OnMessage
  <2>3. next \in Nat /\ next <= task.lines /\ next \in Lines /\ next \in 0..MaxLines
    BY <1>0, <1>3, <2>1 DEF GoesOn, Lines
  <2>4. view' = [view EXCEPT !.shown = Append(@, next), !.lastId = next]
    BY <2>1, <2>2
  <2> HIDE DEF next
  <2>5. /\ Append(view.shown, next) \in Seq(Lines) /\ Len(Append(view.shown, next)) = Len(view.shown) + 1
        /\ Len(view.shown) \in Nat
        /\ Append(view.shown, next)[Len(view.shown) + 1] = next
        /\ \A i \in 1..Len(view.shown) : Append(view.shown, next)[i] = view.shown[i]
    BY <1>0, <2>3, Added
  <2>6. /\ view' \in Views /\ view'.opens = view.opens
        /\ view'.shown = Append(view.shown, next)
        /\ view'.fence = view.fence /\ view'.lastId = next /\ view'.excused = view.excused
        /\ view'.end = view.end /\ view'.checking = view.checking /\ view'.source = "open"
    BY <1>0, <1>1, <2>3, <2>4, <2>5 DEF Views
  <2>7. PanelTypes' /\ FetchesApart'
    BY <1>0, <1>2, <2>2, <2>6 DEF PanelTypes, FetchesApart
  <2>8. \A f \in fetches' : FetchSound(f)'
    BY <1>0, <1>1, <1>5, <2>2, <2>6 DEF FetchSound, AnswerSound
  <2>9. Cursor' = next
    BY <1>0, <1>4, <2>3, <2>6, <2>7, CursorIsToo DEF next
  <2>10. Range(view'.shown) = Range(view.shown) \cup {next}
    <3>1. DOMAIN view.shown = 1..Len(view.shown) /\ DOMAIN view'.shown = 1..(Len(view.shown) + 1)
      BY <1>0, <2>5, <2>6
    <3>2. QED
      BY <2>5, <2>6, <3>1 DEF Range
  <2>11. Ascending(view'.shown)
    <3> SUFFICES ASSUME NEW i \in 1..Len(view.shown)
                 PROVE  view'.shown[i] < view'.shown[i + 1]
      BY <2>5, <2>6 DEF Ascending
    <3>1. CASE i = Len(view.shown)
      <4>1. view'.shown[i] \in Range(view.shown)
        BY <1>0, <2>5, <2>6 DEF Range
      <4>2. view'.shown[i] <= Cursor /\ view'.shown[i] \in Nat
        <5>1. \A k \in Range(view.shown) : k <= Cursor
          BY <1>0, <1>4 DEF ViewSound
        <5>2. view'.shown[i] = view.shown[i] /\ view.shown[i] \in Lines /\ Lines \subseteq Nat
          BY <1>0, <2>5, <2>6 DEF Lines
        <5>3. QED
          BY <4>1, <5>1, <5>2
      <4>3. view'.shown[i + 1] = next
        BY <2>5, <2>6, <3>1
      <4>4. QED
        BY <1>0, <4>2, <4>3 DEF next
    <3>2. CASE i # Len(view.shown)
      <4>1. i \in 1..(Len(view.shown) - 1) /\ i + 1 \in 1..Len(view.shown)
        BY <2>5, <3>2
      <4>2. view.shown[i] < view.shown[i + 1]
        BY <1>0, <4>1 DEF ViewSound, Ascending
      <4>3. QED
        BY <2>5, <2>6, <4>1, <4>2
    <3>3. QED
      BY <3>1, <3>2
  <2>12. \A k \in Range(view'.shown) : k <= next
    <3>1. \A k \in Range(view.shown) : k \in Nat /\ k <= Cursor
      BY <1>0, <1>4 DEF ViewSound, Range, Lines
    <3>2. QED
      BY <1>0, <2>3, <2>10, <3>1 DEF next
  <2>13. (view.fence + 1)..next \subseteq Range(view'.shown)
    <3> SUFFICES ASSUME NEW k \in (view.fence + 1)..next, k # next
                 PROVE  k \in Range(view.shown)
      BY <2>10
    <3>1. k \in (view.fence + 1)..view.lastId
      BY <1>0, <2>3 DEF next
    <3>2. QED
      BY <1>0, <1>4, <3>1 DEF ViewSound
  <2>14. GoesOn(task, wire', next, conn, m - 1)
    <3>1. \A i \in 1..(m - 1) : i + 1 \in 1..m /\ Cursor + (i + 1) = next + i
      <4> PICK c \in Nat : c = Cursor
        BY <1>0
      <4>1. \A i \in 1..(m - 1) : i + 1 \in 1..m /\ c + (i + 1) = (c + 1) + i
        BY <2>1
      <4>2. QED
        BY <4>1 DEF next
    <3>2. m <= Len(wire) /\ (Len(wire) = m \/ Len(wire) = m + 1)
      <4>1. Len(wire) = m \/ Len(wire) = m + 1
        BY <1>3 DEF GoesOn
      <4>2. QED
        BY <2>1, <4>1
    <3>3. \A i \in 1..(m - 1) : wire'[i] = wire[i + 1]
      BY <1>2, <2>1, <2>2, <3>2
    <3>4. \A i \in 1..(m - 1) : wire'[i] = Line(next + i)
      BY <1>3, <3>1, <3>3 DEF GoesOn
    <3>5. next + (m - 1) = Cursor + m /\ (m - 1) + 1 = m /\ Len(wire') = Len(wire) - 1
      BY <1>0, <1>2, <2>1, <2>2 DEF next
    <3>6. Len(wire) = m + 1 => wire'[m] = wire[m + 1] /\ Len(wire') = m
      BY <1>2, <2>1, <2>2
    <3>7. Len(wire) = m => Len(wire') = m - 1
      BY <3>5
    <3>8. QED
      BY <1>3, <3>4, <3>5, <3>6, <3>7 DEF GoesOn
  <2>15. m - 1 \in Nat
    BY <2>1
  <2>16. ViewSound'
    BY <1>0, <1>1, <1>4, <2>2, <2>3, <2>6, <2>9, <2>10, <2>11, <2>12, <2>13, <2>14, <2>15 DEF ViewSound
  <2>17. QED
    BY <1>1, <2>2, <2>7, <2>8, <2>16, LogKept DEF StreamInv
<1>9. CASE wire[1].kind = "done"
  <2>1. task.final # None /\ task.final <= Cursor
    <3>1. ~(m > 0)
      BY <1>6, <1>7, <1>9
    <3>2. m = 0
      BY <3>1
    <3>3. wire[1] # HistoryRequired
      BY <1>7, <1>9
    <3>4. QED
      BY <1>6, <3>2, <3>3
  <2>2. view' = Ended(view, "done") /\ conn' = None /\ wire' = <<>> /\ UNCHANGED fetches
    BY <1>2, <1>9 DEF OnMessage
  <2>3. /\ view' \in Views /\ view'.opens = view.opens /\ view'.shown = view.shown
        /\ view'.fence = view.fence /\ view'.lastId = view.lastId /\ view'.excused = view.excused
        /\ view'.end = "done" /\ view'.checking = view.checking /\ view'.source = "none"
    BY <1>0, <2>2 DEF Ended, Views
  <2>4. PanelTypes' /\ FetchesApart'
    BY <1>0, <2>2, <2>3 DEF PanelTypes, FetchesApart
  <2>5. \A f \in fetches' : FetchSound(f)'
    BY <1>0, <1>1, <1>5, <2>2, <2>3 DEF FetchSound, AnswerSound
  <2>6. Cursor' = Cursor
    BY <2>3 DEF Cursor
  <2>7. view.fence < task.final => task.final \in Range(view.shown)
    <3> SUFFICES ASSUME view.fence < task.final PROVE task.final \in Range(view.shown)
      OBVIOUS
    <3>1. task.final \in Nat
      BY <1>0, <2>1, LogAssumption DEF LogTypes, Lines
    <3>2. task.final \in (view.fence + 1)..view.lastId
      BY <1>0, <2>1, <3>1
    <3>3. QED
      BY <1>0, <1>4, <3>2 DEF ViewSound
  <2>8. ViewSound'
    BY <1>0, <1>1, <2>1, <2>2, <2>3, <2>6, <2>7 DEF ViewSound
  <2>9. QED
    BY <1>1, <2>2, <2>4, <2>5, <2>8, LogKept DEF StreamInv
<1>10. CASE wire[1].kind = "history required"
  <2>1. Opened
    BY <1>2, <1>10 DEF OnMessage
  <2>2. QED
    BY <1>1, <2>1, OpenedKeeps
<1>11. QED
  <2>1. m > 0 \/ m = 0
    OBVIOUS
  <2>2. wire[1] = Line(Cursor + 1) \/ wire[1] = Done \/ wire[1] = HistoryRequired
    BY <1>6, <2>1
  <2>3. QED
    BY <1>7, <1>8, <1>9, <1>10, <2>2

\* With the host all that waited at the file is lost.
LEMMA RestartSteps ==
    ASSUME StreamInv, HostRestarts
    PROVE  StreamInv'
<1> DEFINE Gone(f) == [f EXCEPT !.step = IF @ = "answered" THEN @ ELSE "lost"]
<1>0. /\ LogTypes /\ PanelTypes /\ TaskSound /\ ViewSound /\ FetchesApart
      /\ (\A f \in fetches : FetchSound(f)) /\ fetches \subseteq HistoryFetches
      /\ view \in Views /\ MaxLines \in Nat /\ Cursor \in Nat /\ task.lines \in Nat
  BY ViewFacts
<1>1. /\ task' = [task EXCEPT !.kept = FALSE, !.closed = TRUE]
      /\ lostLines' = Lines \ disk
      /\ scheduled' = <<>> /\ queue' = <<>> /\ conn' = None /\ wire' = <<>>
      /\ fetches' = {Gone(f) : f \in fetches}
      /\ UNCHANGED <<disk, view>>
  BY DEF HostRestarts
<1>2. /\ task' \in [lines : Lines, closed : BOOLEAN, kept : BOOLEAN, final : Lines \cup {None}]
      /\ task'.lines = task.lines /\ task'.final = task.final /\ task'.closed /\ ~task'.kept
  BY <1>0, <1>1 DEF LogTypes
<1>3. disk \subseteq Lines /\ lostLines \subseteq lostLines' /\ DOMAIN queue' = {} /\ DOMAIN scheduled' = {}
  <2>1. disk \cap lostLines = {} /\ disk \subseteq Lines /\ lostLines \subseteq Lines
    BY DEF StreamInv, LogTypes, LogSound
  <2>2. QED
    BY <1>1, <2>1
<1>4. LogTypes' /\ TaskSound'
  BY <1>0, <1>1, <1>2, <1>3 DEF LogTypes, TaskSound
<1>5. LogSound' /\ \A i \in DOMAIN queue' : queue'[i].op = "read" => ReadSound(i)'
  <2>1. disk' \cap lostLines' = {}
    BY <1>1
  <2>2. QED
    BY <1>1, <1>2, <1>3, <2>1 DEF LogSound
<1>6. ASSUME NEW f \in fetches
      PROVE  /\ Gone(f) \in HistoryFetches /\ Gone(f).use = f.use /\ Gone(f).open = f.open
             /\ Gone(f).step = "answered" => Gone(f) = f
             /\ Gone(f).step # "reading"
  BY <1>0 DEF HistoryFetches
<1>7. PanelTypes'
  BY <1>0, <1>1, <1>6 DEF PanelTypes
<1>8. FetchesApart'
  <2> SUFFICES ASSUME NEW a \in fetches', NEW b \in fetches',
                      a.use = b.use, a.use = "check" \/ a.open = b.open
               PROVE  a = b
    BY DEF FetchesApart
  <2>1. PICK f \in fetches : a = Gone(f)
    BY <1>1
  <2>2. PICK g \in fetches : b = Gone(g)
    BY <1>1
  <2>3. f.use = g.use /\ (f.use = "check" \/ f.open = g.open)
    BY <1>6, <2>1, <2>2
  <2>4. f = g
    BY <1>0, <2>3 DEF FetchesApart
  <2>5. QED
    BY <2>1, <2>2, <2>4
<1>9. \A a \in fetches' : FetchSound(a)'
  <2> SUFFICES ASSUME NEW a \in fetches' PROVE FetchSound(a)'
    OBVIOUS
  <2>1. PICK f \in fetches : a = Gone(f)
    BY <1>1
  <2>2. a.use = f.use /\ a.open = f.open /\ (a.step = "answered" => a = f) /\ FetchSound(f)
    BY <1>0, <1>6, <2>1
  <2>3. a.step = "answered" => AnswerSound(a)'
    <3> SUFFICES ASSUME a.step = "answered" PROVE AnswerSound(a)'
      OBVIOUS
    <3>1. a = f /\ AnswerSound(a)
      BY <2>2 DEF FetchSound
    <3>2. QED
      BY <1>2, <1>3, <3>1 DEF AnswerSound
  <2>4. QED
    BY <1>1, <2>2, <2>3 DEF FetchSound
<1>10. ViewSound'
  <2>1. Cursor' = Cursor
    BY <1>1 DEF Cursor
  <2>2. GoesOn(task', <<>>, Cursor, None, 0)
    <3>1. Cursor + 0 <= task'.lines /\ 1..0 = {} /\ Len(<<>>) = 0
      BY <1>0, <1>2 DEF ViewSound
    <3>2. QED
      BY <3>1 DEF GoesOn
  <2>3. \E m \in Nat : GoesOn(task', wire', Cursor, conn', m)
    BY <1>1, <2>2
  <2>4. QED
    BY <1>0, <1>1, <1>2, <2>1, <2>3 DEF ViewSound
<1>11. QED
  BY <1>4, <1>5, <1>7, <1>8, <1>9, <1>10 DEF StreamInv

LEMMA StreamInit ==
    ASSUME StreamsInit
    PROVE  StreamInv
<1>0. MaxLines \in Nat \ {0} /\ None \notin Nat /\ None # "done" /\ 1 \in Lines /\ None \notin Lines
  BY LogAssumption DEF Lines
<1>1. /\ task = [lines |-> 1, closed |-> FALSE, kept |-> TRUE, final |-> None]
      /\ scheduled = <<1>> /\ queue = <<[op |-> "create"]>> /\ disk = {} /\ lostLines = {}
      /\ conn = None /\ wire = <<>> /\ fetches = {}
      /\ view = [phase |-> "idle", opens |-> 0, shown |-> <<>>, fence |-> 0, lastId |-> 0,
                 source |-> "none", checking |-> FALSE, end |-> None, excused |-> {}]
  BY DEF StreamsInit
<1>2. LogTypes
  <2>1. [op |-> "create"] \in FileOperations
    BY DEF FileOperations
  <2>2. queue \in Seq(FileOperations) /\ scheduled \in Seq(Lines)
    BY <1>0, <1>1, <2>1
  <2>3. QED
    BY <1>0, <1>1, <2>2 DEF LogTypes
<1>3. PanelTypes
  <2>1. view \in Views
    <3>1. /\ "idle" \in {"idle", "history", "connecting", "streaming", "retrying", "ended"}
          /\ 0 \in Nat /\ <<>> \in Seq(Lines) /\ 0 \in 0..MaxLines
          /\ "none" \in {"none", "connecting", "open", "refused"} /\ FALSE \in BOOLEAN
          /\ None \in {None, "history", "checked", "done"} /\ {} \in SUBSET Lines
      BY <1>0
    <3>2. QED
      BY <1>1, <3>1 DEF Views
  <2>2. QED
    BY <1>1, <2>1 DEF PanelTypes
<1>4. TaskSound
  BY <1>1 DEF TaskSound
<1>5. LogSound
  <2>1. /\ DOMAIN queue = {1} /\ queue[1].op = "create" /\ DOMAIN scheduled = {1}
        /\ Len(scheduled) = 1 /\ scheduled[1] = 1 /\ task.lines = 1 /\ Written = {}
    BY <1>1 DEF Written
  <2>2. Adding(1)
    BY <2>1 DEF Adding
  <2>3. \A i \in DOMAIN scheduled : scheduled[i] = task.lines - Len(scheduled) + i
    BY <2>1
  <2>4. ~ \A i \in DOMAIN queue : ~Adding(i)
    BY <2>1, <2>2
  <2>5. \A i, j \in DOMAIN queue : i = j
    BY <2>1
  <2>6. disk \cap lostLines = {}
    BY <1>1
  <2>7. QED
    BY <2>1, <2>3, <2>4, <2>5, <2>6 DEF LogSound
<1>6. \A i \in DOMAIN queue : queue[i].op # "read"
  BY <1>1
<1>7. FetchesApart /\ \A f \in fetches : FetchSound(f)
  BY <1>1 DEF FetchesApart
<1>8. ViewSound
  <2>1. Cursor = 0
    BY <1>1, <1>3, CursorIs
  <2>2. Ascending(view.shown) /\ 1..0 = {}
    BY <1>1 DEF Ascending
  <2>3. QED
    BY <1>0, <1>1, <2>1, <2>2 DEF ViewSound
<1>9. QED
  BY <1>2, <1>3, <1>4, <1>5, <1>6, <1>7, <1>8 DEF StreamInv

LEMMA StreamStep ==
    ASSUME StreamInv, [StreamsNext]_svars
    PROVE  StreamInv'
<1>1. CASE PushTaskLine \/ FinishTask \/ SettleFails \/ ForgetTask
  BY <1>1, TaskSteps
<1>2. CASE WriteEnds
  BY <1>2, WriteSteps
<1>3. CASE ReadEnds
  BY <1>3, ReadSteps
<1>4. CASE GetTaskHistory
  BY <1>4, HistorySteps
<1>5. CASE OpenStream
  BY <1>5, OpenedKeeps DEF OpenStream
<1>6. CASE FetchLost \/ HistoryArrives \/ CheckArrives
  BY <1>6, FetchLostKeeps, HistoryArrivesKeeps, CheckArrivesKeeps
<1>7. CASE HandleStream \/ ConnectionLost
  BY <1>7, StreamSteps
<1>8. CASE OnMessage
  BY <1>8, MessageSteps
<1>9. CASE HostRestarts
  BY <1>9, RestartSteps
<1>10. CASE UNCHANGED svars
  <2>1. UNCHANGED <<task, scheduled, queue, disk, lostLines, conn, wire, fetches, view>>
    BY <1>10 DEF svars
  <2>2. LogTypes' /\ TaskSound' /\ LogSound' /\ \A i \in DOMAIN queue' : queue'[i].op = "read" => ReadSound(i)'
    BY <2>1, LogKept
  <2>3. PanelTypes' /\ FetchesApart'
    BY <2>1 DEF StreamInv, PanelTypes, FetchesApart
  <2>4. \A f \in fetches' : FetchSound(f)'
    BY <2>1 DEF StreamInv, FetchSound, AnswerSound
  <2>5. ViewSound'
    BY <2>1 DEF StreamInv, ViewSound, GoesOn, Cursor
  <2>6. QED
    BY <2>2, <2>3, <2>4, <2>5 DEF StreamInv
<1>11. QED
  BY <1>1, <1>2, <1>3, <1>4, <1>5, <1>6, <1>7, <1>8, <1>9, <1>10 DEF StreamsNext

\* Lines enter the file in their order and never twice, a read finds what its cursor
\* promises but for what was scheduled, and a response goes on where the view is.
THEOREM StreamInvariant == StreamsSpec => []StreamInv
<1>1. StreamsInit => StreamInv
  BY StreamInit
<1>2. StreamInv /\ [StreamsNext]_svars => StreamInv'
  BY StreamStep
<1>3. QED
  BY <1>1, <1>2, PTL DEF StreamsSpec

\* What a view shows is in order, has no gap of the stream's own making before what it
\* shows, misses before its cursor only what was scheduled or lost, and is over only
\* after the last line (getTaskHistory, handleStream, flush, openStream).
THEOREM StreamAlwaysTrue == StreamsSpec => []StreamIsTrue
<1>1. StreamInv => StreamIsTrue
  <2> SUFFICES ASSUME StreamInv PROVE StreamIsTrue
    OBVIOUS
  <2>0. /\ LogTypes /\ PanelTypes /\ ViewSound /\ FetchesApart
        /\ fetches \subseteq HistoryFetches /\ view \in Views /\ view.shown \in Seq(Lines)
        /\ view.fence \in Nat /\ view.lastId \in Nat /\ MaxLines \in Nat
        /\ Cursor = IF view.fence >= view.lastId THEN view.fence ELSE view.lastId
        /\ Cursor \in Nat /\ task.lines \in Nat
    BY ViewFacts
  <2>1. StreamsTypeOK
    <3>1. conn \in (0..task.lines) \cup {None}
      <4>1. CASE view.source = "open"
        <5>1. PICK m \in Nat : GoesOn(task, wire, Cursor, conn, m)
          BY <2>0, <4>1 DEF ViewSound
        <5>2. conn = None \/ (conn = Cursor + m /\ Cursor + m <= task.lines)
          BY <5>1 DEF GoesOn
        <5>3. QED
          BY <2>0, <5>2
      <4>2. CASE view.source # "open"
        BY <2>0, <4>2 DEF ViewSound
      <4>3. QED
        BY <4>1, <4>2
    <3>2. Range(scheduled) \subseteq Lines
      BY <2>0 DEF LogTypes, Range
    <3>3. QED
      BY <2>0, <3>1, <3>2 DEF StreamsTypeOK, LogTypes, HistoryFetches, Views
  <2>2. ShownInOrder
    BY <2>0 DEF ViewSound, Ascending, ShownInOrder
  <2>3. StreamedWithoutGap
    <3> SUFFICES ASSUME view.fence > 0, NEW k \in Range(view.shown), NEW x \in (view.fence + 1)..k
                 PROVE  x \in Range(view.shown)
      BY DEF StreamedWithoutGap
    <3>1. k \in Nat /\ k <= Cursor
      BY <2>0 DEF ViewSound, Range, Lines
    <3>2. x \in (view.fence + 1)..view.lastId
      BY <2>0, <3>1
    <3>3. QED
      BY <2>0, <3>2 DEF ViewSound
  <2>4. OnlyBacklogMissing /\ DoneAfterFinalLine
    BY <2>0 DEF ViewSound, OnlyBacklogMissing, DoneAfterFinalLine
  <2>5. QED
    BY <2>1, <2>2, <2>3, <2>4 DEF StreamIsTrue
<1>2. QED
  BY <1>1, StreamInvariant, PTL
=============================================================================
