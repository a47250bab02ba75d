------------------------------ MODULE Authorization ------------------------------
(***************************************************************************)
(* Consent before a privileged action (src/infra/develop-core.ts,          *)
(* src/workflow/dispatch.ts, handlers.ts, merge.ts, develop-start.ts).     *)
(* A client asks for a preview; the server freezes what it shows and       *)
(* issues an authorization, which is consumed once, within its time, by    *)
(* the request that repeats the input exactly.  A development start is     *)
(* bound to the contract that was shown and to the task state it was       *)
(* asked in, and both are read again while it runs.                        *)
(*                                                                         *)
(* The digest of an authorization is the record it is computed from, and   *)
(* time is a small number.                                                 *)
(***************************************************************************)
EXTENDS Integers, Sequences, FiniteSets, NoValue

CONSTANTS
    Requests,       \* requests that are served at once
    Limit,          \* authorizations that are kept
    Ttl,            \* time an authorization lives
    MaxTime,        \* bound: time
    MaxConsents,    \* bound: authorizations issued
    MaxContract,    \* bound: versions of the contract
    MaxTaskState    \* bound: task state revisions

ASSUME LimitAssumption == Limit \in Nat \ {0} /\ Ttl \in Nat \ {0}

ASSUME ConsentBounds ==
    MaxTime \in Nat /\ MaxConsents \in Nat /\ MaxContract \in Nat \ {0} /\ MaxTaskState \in Nat

VARIABLES
    time,
    contract,      \* the contract of the Issue
    taskState,     \* the task state revision of the workflow
    devAgent,      \* the agent the workflow was developed with
    store,         \* authorizations that can be consumed, by number
    consents,      \* every authorization ever issued, as it was shown
    request,       \* what each request is doing
    starts         \* the actions that were started, with what they started from

authvars == <<time, contract, taskState, devAgent, store, consents, request, starts>>

Agents == {"codex", "claude"}

\* The inputs a client can send: develop names its agent, resume is bound to the one
\* of the workflow when it comes from a command, and create-pr needs none.
Inputs == [action : {"develop", "resume"}, agent : Agents]
          \cup [action : {"create-pr"}, agent : {None}]

AtRest == [step |-> "idle"]

AuthorizationTypeOK ==
    /\ time \in 0..MaxTime /\ contract \in 1..MaxContract
    /\ taskState \in 0..MaxTaskState /\ devAgent \in Agents
    /\ store \subseteq DOMAIN consents /\ Cardinality(store) <= Limit
    /\ Len(consents) <= MaxConsents
    /\ \A r \in Requests :
          request[r].step \in {"idle", "contract", "issue", "confirmed", "prepare", "launch"}

AuthorizationInit ==
    /\ time = 0 /\ contract = 1 /\ taskState = 0 /\ devAgent = "codex"
    /\ store = {} /\ consents = <<>>
    /\ request = [r \in Requests |-> AtRest]
    /\ starts = {}

Proceed(r, state) == request' = [request EXCEPT ![r] = state]

(***************************************************************************)
(* What happens meanwhile                                                  *)
(***************************************************************************)

TimePasses ==
    /\ time < MaxTime /\ time' = time + 1
    /\ UNCHANGED <<contract, taskState, devAgent, store, consents, request, starts>>

EditContract ==
    /\ contract < MaxContract /\ contract' = contract + 1
    /\ UNCHANGED <<time, taskState, devAgent, store, consents, request, starts>>

\* A stop, or another task, moves the task state on; a task may leave another agent.
MoveTaskState(agent) ==
    /\ taskState < MaxTaskState /\ taskState' = taskState + 1
    /\ devAgent' = agent
    /\ UNCHANGED <<time, contract, store, consents, request, starts>>

\* A restart forgets the store and every request.
RestartServer ==
    /\ store' = {} /\ request' = [r \in Requests |-> AtRest]
    /\ UNCHANGED <<time, contract, taskState, devAgent, consents, starts>>

(***************************************************************************)
(* The preview                                                             *)
(***************************************************************************)

\* The panel sends the contract it displays; a command displays the one it reads.
AskPreview(r, input) ==
    /\ request[r] = AtRest
    /\ Len(consents) < MaxConsents
    /\ input.action = "resume" => input.agent = devAgent
    /\ Proceed(r, [step |-> IF input.action = "develop" THEN "contract" ELSE "issue",
                   input |-> input, shown |-> contract, seen |-> None])
    /\ UNCHANGED <<time, contract, taskState, devAgent, store, consents, starts>>

\* The contract is fetched again, and must be the one that is displayed.
FreezeContract(r) ==
    /\ request[r].step = "contract"
    /\ Proceed(r, IF request[r].shown = contract
                  THEN [request[r] EXCEPT !.step = "issue", !.seen = contract]
                  ELSE AtRest)
    /\ UNCHANGED <<time, contract, taskState, devAgent, store, consents, starts>>

Live == {id \in store : consents[id].expires > time}

\* A full store forgets the oldest.
Bounded(ids) ==
    IF Cardinality(ids) >= Limit THEN {id \in ids : \E older \in ids : older < id} ELSE ids

\* The task state is read last, and goes into the digest with the contract.
IssueAuthorization(r) ==
    /\ request[r].step = "issue"
    /\ Len(consents) < MaxConsents
    /\ LET bound == IF request[r].input.action = "develop"
                    THEN [contract |-> request[r].seen, taskState |-> taskState] ELSE None
           issued == [input |-> request[r].input, bound |-> bound, expires |-> time + Ttl]
       IN  /\ store' = Bounded(Live) \cup {Len(consents) + 1}
           /\ consents' = Append(consents, issued)
    /\ Proceed(r, AtRest)
    /\ UNCHANGED <<time, contract, taskState, devAgent, starts>>

(***************************************************************************)
(* The confirmed request                                                   *)
(***************************************************************************)

DigestOf(input, authorization) == [input |-> input, bound |-> authorization.bound]

Matching(digest, input, a) ==
    digest = DigestOf(a.input, a) /\ DigestOf(input, a) = DigestOf(a.input, a)

Consumed(id) == Live \ {id}

\* The request names an authorization, carries the digest that came with it, and says
\* its input again, which may have changed meanwhile.  An authorization that is named
\* is gone, whether it matches or not.
Confirm(r, id, input) ==
    LET consent == consents[id] IN
    /\ request[r] = AtRest
    /\ store' = Consumed(id)
    /\ IF id \in Live /\ Matching(DigestOf(consent.input, consent), input, consent)
       THEN Proceed(r, [step |-> IF input.action = "develop" THEN "confirmed" ELSE "launch",
                        id |-> id, input |-> input, bound |-> consent.bound])
       ELSE UNCHANGED request
    /\ UNCHANGED <<time, contract, taskState, devAgent, consents, starts>>

\* startDevelop: the contract is fetched once more; the agent will work from this copy.
CheckContract(r) ==
    /\ request[r].step = "confirmed"
    /\ Proceed(r, IF request[r].bound # None /\ request[r].bound.contract = contract
                  THEN [request[r] EXCEPT !.step = "prepare"] ELSE AtRest)
    /\ UNCHANGED <<time, contract, taskState, devAgent, store, consents, starts>>

AnyTaskState(bound) == TRUE

SameTaskState(bound) == taskState = bound.taskState

\* ensureWorktree, under the lock of the record.
EnsurePrepared(r) ==
    /\ request[r].step = "prepare"
    /\ Proceed(r, IF SameTaskState(request[r].bound)
                  THEN [request[r] EXCEPT !.step = "launch"] ELSE AtRest)
    /\ UNCHANGED <<time, contract, taskState, devAgent, store, consents, starts>>

\* The claim of the task compares with the state that the preparation was done in; the
\* other actions go by the state they find.
Launch(r) ==
    /\ request[r].step = "launch"
    /\ taskState < MaxTaskState
    /\ IF request[r].bound # None => SameTaskState(request[r].bound)
       THEN /\ starts' = starts \cup {[id |-> request[r].id, by |-> r, input |-> request[r].input,
                                       bound |-> request[r].bound, state |-> taskState]}
            /\ taskState' = IF request[r].input.action = "create-pr" THEN taskState
                            ELSE taskState + 1
            /\ devAgent' = IF request[r].input.action = "develop" THEN request[r].input.agent
                           ELSE devAgent
       ELSE UNCHANGED <<starts, taskState, devAgent>>
    /\ Proceed(r, AtRest)
    /\ UNCHANGED <<time, contract, store, consents>>

AuthorizationNext ==
    \/ TimePasses \/ EditContract \/ RestartServer
    \/ \E agent \in Agents : MoveTaskState(agent)
    \/ \E r \in Requests :
          \/ \E input \in Inputs : AskPreview(r, input)
          \/ FreezeContract(r) \/ IssueAuthorization(r)
          \/ \E id \in DOMAIN consents, input \in Inputs : Confirm(r, id, input)
          \/ CheckContract(r) \/ EnsurePrepared(r) \/ Launch(r)

AuthorizationSpec == AuthorizationInit /\ [][AuthorizationNext]_authvars

(***************************************************************************)
(* Properties                                                              *)
(***************************************************************************)

\* One consent starts one action at most, and exactly the one that was shown, whatever
\* is sent twice, changed before it is sent again, evicted or forgotten meanwhile.
OneStartPerConsent ==
    /\ \A s \in starts : s.input = consents[s.id].input
    /\ \A s, t \in starts : s.id = t.id => s = t

\* A development starts in the task state its consent was given in: a stop between the
\* preview and the start, at any step of the start, withdraws the consent.
StopWithdrawsConsent ==
    \A s \in starts :
        s.input.action = "develop" => s.state = consents[s.id].bound.taskState

\* The user's consent covers what was started, and nothing else.
ConsentIsKept == AuthorizationTypeOK /\ OneStartPerConsent /\ StopWithdrawsConsent
=============================================================================
