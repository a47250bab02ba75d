-------------------------------- MODULE LocalGit --------------------------------
(***************************************************************************)
(* The snapshots of the local Git state (src/infra/local-git-snapshot.ts,  *)
(* local-git-invalidate.ts).  What a view shows of a worktree, of the      *)
(* configured checkout and of its branches is sampled once per scope and   *)
(* generation; callers join the execution of their own generation; a       *)
(* mutation is notified after it happened, and moves the generation on.    *)
(*                                                                         *)
(* The Git state is a number that grows with each mutation, and a sample   *)
(* is the number at its first command: it may miss whatever happens later. *)
(***************************************************************************)
EXTENDS Integers, FiniteSets, NoValue

CONSTANTS
    Worktrees,      \* worktrees of the repository
    Viewers,        \* callers that are served at once
    MaxMutations    \* bound: mutations of the Git state

ASSUME LocalGitAssumption ==
    /\ "checkout" \notin Worktrees /\ "branches" \notin Worktrees
    /\ MaxMutations \in Nat
    /\ None \notin Nat

VARIABLES
    mutations,   \* mutations so far
    unnotified,  \* the last mutation of a target that was not yet notified
    told,        \* scope -> the last mutation it was notified of
    entries,     \* scope -> its generation and the sample it keeps
    inflight,    \* scope -> the generation of the execution that callers may join
    executions,  \* samplings under way
    viewer       \* what each caller waits for, or was answered

lgvars == <<mutations, unnotified, told, entries, inflight, executions, viewer>>

\* One worktree, or the repository with all of them.
Targets == Worktrees \cup {"repository"}

Scopes == Worktrees \cup {"checkout", "branches"}

\* The scopes whose generation a notification moves on.
Reached(target) ==
    (IF target = "repository" THEN Worktrees ELSE {target}) \cup {"checkout", "branches"}

Idle == [step |-> "idle"]

\* A caller waits for the execution of a generation, may retry once, and is answered.
ViewerStates ==
    {Idle, [step |-> "unknown"]}
      \cup [step : {"waiting"}, scope : Scopes, after : 0..MaxMutations,
            attempt : 1..2, generation : Nat]
      \cup [step : {"retry"}, scope : Scopes, after : 0..MaxMutations]
      \cup [step : {"answered"}, scope : Scopes, after : 0..MaxMutations,
            seen : 0..MaxMutations]

LocalGitTypeOK ==
    /\ mutations \in 0..MaxMutations
    /\ unnotified \in [Targets -> 0..mutations]
    /\ told \in [Scopes -> 0..mutations]
    /\ entries \in [Scopes -> [generation : Nat, sample : (0..MaxMutations) \cup {None}]]
    /\ inflight \in [Scopes -> Nat \cup {None}]
    /\ executions \subseteq [scope : Scopes, generation : Nat, seen : 0..MaxMutations]
    /\ viewer \in [Viewers -> ViewerStates]

LocalGitInit ==
    /\ mutations = 0
    /\ unnotified = [t \in Targets |-> 0]
    /\ told = [s \in Scopes |-> 0]
    /\ entries = [s \in Scopes |-> [generation |-> 0, sample |-> None]]
    /\ inflight = [s \in Scopes |-> None]
    /\ executions = {}
    /\ viewer = [v \in Viewers |-> Idle]

\* A task, a synchronisation, a push or a merge changes the Git state.
MutateGit(target) ==
    /\ mutations < MaxMutations
    /\ mutations' = mutations + 1
    /\ unnotified' = [unnotified EXCEPT ![target] = mutations + 1]
    /\ UNCHANGED <<told, entries, inflight, executions, viewer>>

Invalidated(target) ==
    [s \in Scopes |-> IF s \in Reached(target)
                      THEN [generation |-> entries[s].generation + 1, sample |-> None]
                      ELSE entries[s]]

\* Its author notifies every live registry.
NotifyMutation(target) ==
    /\ unnotified[target] # 0
    /\ unnotified' = [unnotified EXCEPT ![target] = 0]
    /\ told' = [s \in Scopes |->
                  IF s \in Reached(target) /\ unnotified[target] > told[s]
                  THEN unnotified[target] ELSE told[s]]
    /\ entries' = Invalidated(target)
    /\ UNCHANGED <<mutations, inflight, executions, viewer>>

MayJoinAnyExecution(s) == inflight[s] # None

MayJoin(s) == inflight[s] = entries[s].generation

Await(v, s, after, attempt) ==
    viewer' = [viewer EXCEPT ![v] = [step |-> "waiting", scope |-> s, after |-> after,
                                     attempt |-> attempt, generation |-> inflight'[s]]]

\* One request: the sample that is kept, the execution of this generation, or a
\* new execution that later callers join.
Request(v, s, after, attempt) ==
    /\ UNCHANGED <<mutations, unnotified, told, entries>>
    /\ \/ /\ entries[s].sample # None
          /\ viewer' = [viewer EXCEPT ![v] = [step |-> "answered", scope |-> s,
                                              after |-> after, seen |-> entries[s].sample]]
          /\ UNCHANGED <<inflight, executions>>
       \/ /\ entries[s].sample = None /\ MayJoin(s)
          /\ UNCHANGED <<inflight, executions>>
          /\ Await(v, s, after, attempt)
       \/ /\ entries[s].sample = None /\ ~MayJoin(s)
          /\ executions' = executions \cup
                {[scope |-> s, generation |-> entries[s].generation, seen |-> mutations]}
          /\ inflight' = [inflight EXCEPT ![s] = entries[s].generation]
          /\ Await(v, s, after, attempt)

ObserveWorktree(v, w) ==
    viewer[v].step = "idle" /\ Request(v, w, told[w], 1)

ObserveRepository(v) ==
    viewer[v].step = "idle" /\ Request(v, "checkout", told["checkout"], 1)

ObserveEnumeration(v) ==
    viewer[v].step = "idle" /\ Request(v, "branches", told["branches"], 1)

\* The only retry: a second request after a failure.
ObserveWithRetry(v) ==
    viewer[v].step = "retry" /\ Request(v, viewer[v].scope, viewer[v].after, 2)

WaitsFor(v, e) ==
    /\ viewer[v].step = "waiting"
    /\ viewer[v].scope = e.scope /\ viewer[v].generation = e.generation

Left(e) ==
    IF inflight[e.scope] = e.generation THEN [inflight EXCEPT ![e.scope] = None] ELSE inflight

Published(e) == [entries EXCEPT ![e.scope].sample = e.seen]

Kept(e) ==
    IF entries[e.scope].generation = e.generation THEN Published(e) ELSE entries

\* The commands of a sampling have ended, with every required read answered.
SampleArrives(e) ==
    /\ executions' = executions \ {e}
    /\ entries' = Kept(e)
    /\ inflight' = Left(e)
    /\ viewer' = [v \in Viewers |->
                    IF WaitsFor(v, e)
                    THEN [step |-> "answered", scope |-> e.scope,
                          after |-> viewer[v].after, seen |-> e.seen]
                    ELSE viewer[v]]
    /\ UNCHANGED <<mutations, unnotified, told>>

\* A required read failed: every caller that joined sees the failure.
SampleFails(e) ==
    /\ executions' = executions \ {e}
    /\ inflight' = Left(e)
    /\ viewer' = [v \in Viewers |->
                    CASE ~WaitsFor(v, e) -> viewer[v]
                      [] WaitsFor(v, e) /\ viewer[v].attempt = 1 ->
                            [step |-> "retry", scope |-> e.scope, after |-> viewer[v].after]
                      [] OTHER -> [step |-> "unknown"]]
    /\ UNCHANGED <<mutations, unnotified, told, entries>>

ViewShown(v) ==
    /\ viewer[v].step \in {"answered", "unknown"}
    /\ viewer' = [viewer EXCEPT ![v] = Idle]
    /\ UNCHANGED <<mutations, unnotified, told, entries, inflight, executions>>

LocalGitNext ==
    \/ \E t \in Targets : MutateGit(t) \/ NotifyMutation(t)
    \/ \E v \in Viewers :
          \/ \E w \in Worktrees : ObserveWorktree(v, w)
          \/ ObserveRepository(v) \/ ObserveEnumeration(v)
          \/ ObserveWithRetry(v) \/ ViewShown(v)
    \/ \E e \in executions : SampleArrives(e) \/ SampleFails(e)

LocalGitSpec == LocalGitInit /\ [][LocalGitNext]_lgvars

(***************************************************************************)
(* Properties                                                              *)
(***************************************************************************)

\* A caller is never shown a sample that began before a mutation it could have
\* been notified of when it asked: the answer to a request, joined, retried or
\* kept, is younger than the last notification that reached its scope before it.
NotShownStale ==
    \A v \in Viewers : viewer[v].step = "answered" => viewer[v].seen >= viewer[v].after

\* What a scope keeps began after the last notification that reached it, however
\* late the execution that published it has ended.
KeptSinceNotified ==
    \A s \in Scopes : entries[s].sample # None => entries[s].sample >= told[s]

\* A caller that waits, waits for an execution that is under way, and one only:
\* an execution that ends late takes away neither its caller's answer nor the
\* entry that the callers of the next generation share.
OneExecutionAwaited ==
    \A v \in Viewers :
        viewer[v].step = "waiting" =>
            Cardinality({e \in executions : WaitsFor(v, e)}) = 1

\* What is shown and what is kept of the local Git state is younger than the last
\* notification, and every caller gets the answer it waits for.
SnapshotsAreFresh ==
    LocalGitTypeOK /\ NotShownStale /\ KeptSinceNotified /\ OneExecutionAwaited
=============================================================================
