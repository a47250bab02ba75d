------------------------------ MODULE Preparation ------------------------------
(***************************************************************************)
(* The preparation of a worktree (src/agent/worktree.ts,                   *)
(* src/infra/preparation-record.ts, manual-preparation.ts).  It is one     *)
(* transaction on the workflow record: the intent is written before each   *)
(* Git command, the end after it, and a command whose end nobody saw is    *)
(* never sent again.  The process may stop at any step, a write of the     *)
(* record may fail, and a Git command outlives the process and the         *)
(* deadline that stopped waiting for it.                                   *)
(*                                                                         *)
(* A commit is a number, and contains the commits below it.  One worktree  *)
(* and its branch are modelled, and Git elsewhere as far as it gets in the *)
(* way: the branch checked out elsewhere, and the tip of the base at       *)
(* origin, which moves on.                                                 *)
(***************************************************************************)
EXTENDS Integers, FiniteSets, NoValue

CONSTANTS
    MaxCommit,        \* bound: commits
    MaxRevision,      \* bound: task state revisions
    MaxAttempts,      \* bound: attempts at a preparation
    MaxTroubles       \* bound: stops of the process, failed writes, lost commands

VARIABLES
    tip,           \* the tip of the base at origin
    checkout,      \* the worktree and its branch, as Git has them
    root,          \* the commit a new branch was created from
    preparation,   \* the preparation in the record
    baseRef,       \* the baseline frozen in the record
    revision,      \* the task state revision of the record
    interrupted,   \* the record was stopped or settled by hand since the last task
    host,          \* the runtime instance, or None while the process is stopped
    ended,         \* attempts whose command this instance saw end
    sent,          \* Git writes under way
    tx,            \* the transaction under way
    settlement,    \* what a manual settlement has looked at
    attempts, troubles

gitvars == <<tip, checkout, root, sent>>
recvars == <<preparation, baseRef, revision, interrupted>>
prepvars == <<gitvars, recvars, host, ended, tx, settlement, attempts, troubles>>

Commits == 1..MaxCommit
Statuses == {"prepared", "dispatched", "settled", "verified", "blocked"}

\* branch is the head of the issue branch and head that of the worktree; 0 is none.
Checkouts ==
    [registered : {"none", "detached", "ours", "other"}, path : {"absent", "empty", "full"},
     branch : 0..MaxCommit, head : 0..MaxCommit, elsewhere : BOOLEAN, dirty : BOOLEAN,
     hooks : {"none", "active", "relative"}]

Records == [attempt : 1..MaxAttempts, instance : 1..(MaxTroubles + 1), revision : 0..MaxRevision,
            base : Commits, expected : Commits, status : Statuses]

Recoveries == {"conflict", "attach", "create", "reuse", "repair", "add-existing", "add-new"}

\* Where a transaction stands, and where it waits for a Git command.
Stands == {"hooks", "remove", "write", "readback", "verify", "block"}
Awaits == {"removing", "writing"}

Transactions == [at : Stands \cup Awaits, record : Records, recovery : Recoveries,
                 base : Commits, strict : BOOLEAN]

ASSUME PreparationAssumption ==
    /\ MaxCommit \in Nat \ {0} /\ MaxRevision \in Nat
    /\ MaxAttempts \in Nat /\ MaxTroubles \in Nat
    /\ None \notin Nat \cup Records \cup Transactions

PreparationTypeOK ==
    /\ tip \in Commits /\ checkout \in Checkouts /\ root \in 0..MaxCommit
    /\ preparation \in Records \cup {None} /\ baseRef \in Commits \cup {None}
    /\ revision \in 0..MaxRevision /\ interrupted \in BOOLEAN
    /\ host \in 1..(MaxTroubles + 1) \cup {None}
    /\ ended \subseteq 1..MaxAttempts /\ tx \in Transactions \cup {None}
    /\ \A c \in sent : c.does \in {"create", "attach", "add-branch", "add", "remove"}
    /\ attempts \in 0..MaxAttempts /\ troubles \in 0..MaxTroubles

\* A first preparation meets no worktree, one that was left behind, or a path that is
\* already in use.
PreparationInit ==
    /\ tip = 1 /\ root = 0
    /\ checkout = [registered |-> "none", path |-> "absent", branch |-> 0, head |-> 0,
                   elsewhere |-> FALSE, dirty |-> FALSE, hooks |-> "none"]
    /\ preparation = None /\ baseRef = None /\ revision = 0 /\ interrupted = FALSE
    /\ host = 1 /\ ended = {} /\ sent = {} /\ tx = None /\ settlement = None
    /\ attempts = 0 /\ troubles = 0

Found(c) ==
    /\ c.registered = "none" => c.head = 0
    /\ c.registered = "detached" => c.head = 1 /\ c.path = "full"
    /\ c.registered = "ours" => c.branch = 1 /\ c.head = c.branch /\ ~c.elsewhere
    /\ c.registered = "other" => c.head = 1 /\ c.path = "full"
    /\ c.elsewhere => c.branch # 0
    /\ c.branch \in {0, 1} /\ ~c.dirty

FindCheckout ==
    /\ attempts = 0 /\ tx = None /\ preparation = None /\ baseRef = None
    /\ sent = {}
    /\ checkout' \in {c \in Checkouts : Found(c)}
    /\ UNCHANGED <<tip, root, sent, recvars, host, ended, tx, settlement, attempts, troubles>>

\* Origin moves on, and a fetch shows it.
RemoteBaseMoves ==
    /\ tip < MaxCommit - 1
    /\ tip' = tip + 1
    /\ UNCHANGED <<checkout, root, sent, recvars, host, ended, tx, settlement, attempts, troubles>>

(***************************************************************************)
(* Decisions                                                               *)
(***************************************************************************)

DecideWorktreeRecovery ==
    CASE checkout.elsewhere -> "conflict"
      [] ~checkout.elsewhere /\ checkout.registered = "detached" ->
            IF checkout.branch # 0 THEN "attach" ELSE "create"
      [] ~checkout.elsewhere /\ checkout.registered = "other" -> "conflict"
      [] ~checkout.elsewhere /\ checkout.registered = "ours" ->
            IF checkout.path = "full" THEN "reuse" ELSE "repair"
      [] ~checkout.elsewhere /\ checkout.registered = "none" ->
            IF checkout.path = "full" THEN "conflict"
            ELSE IF checkout.branch # 0 THEN "add-existing" ELSE "add-new"

\* A preparation that has not been sent, or has ended, is adopted by the task state
\* that a start was authorized for.
Adopted(authorized) ==
    IF /\ preparation # None /\ authorized = revision
       /\ preparation.status \in {"prepared", "settled", "verified"}
    THEN [preparation EXCEPT !.revision = revision]
    ELSE preparation

AnyEndSeen(prior) == TRUE

EndSeen(prior) ==
    prior.status = "dispatched" => prior.instance = host /\ prior.attempt \in ended

\* The prior preparation, if any, is one that this start may go on with.
MayGoOn(prior) ==
    prior # None =>
        /\ prior.status # "blocked"
        /\ prior.revision = revision
        /\ EndSeen(prior)

Going(prior) == prior # None /\ prior.status # "verified"

\* The baseline: that of the prior preparation, the frozen one, or the tip.
BaseOf(prior) ==
    IF prior # None THEN prior.base ELSE IF baseRef # None THEN baseRef ELSE tip

OldHead(base) ==
    IF checkout.branch # 0 THEN checkout.branch
    ELSE IF checkout.registered = "detached" THEN checkout.head ELSE base

\* An existing branch may be adopted for a first baseline that it contains.
Compatible(prior, recovery, base) ==
    baseRef = None /\ prior = None /\ (checkout.branch # 0 \/ recovery = "create") =>
        base <= OldHead(base)

(***************************************************************************)
(* The transaction                                                         *)
(***************************************************************************)

Keep(record) == preparation' = record

TransactionEnds == tx' = None

\* A failed write leaves the record as it was, and ends the transaction.
DiskFails ==
    /\ troubles < MaxTroubles /\ troubles' = troubles + 1
    /\ UNCHANGED <<preparation, baseRef>> /\ TransactionEnds

Commit(record, next) ==
    \/ Keep(record) /\ tx' = next /\ UNCHANGED <<baseRef, troubles>>
    \/ DiskFails

\* ensureWorktree: the record's queue and lock are held from here on.  A conflict, or a
\* prior preparation that was sent, goes to its block or its readback at once.
Prepare(authorized) ==
    LET prior == Adopted(authorized)
        recovery == DecideWorktreeRecovery
        base == BaseOf(prior)
        record == IF Going(prior) THEN prior
                  ELSE [attempt |-> attempts + 1, instance |-> host, revision |-> revision,
                        base |-> base, expected |-> OldHead(base), status |-> "prepared"]
        next(at) == [at |-> at, record |-> record, recovery |-> recovery, base |-> base,
                     strict |-> Going(prior)]
    IN  /\ host # None /\ tx = None /\ attempts < MaxAttempts
        /\ authorized \in {None, revision}
        /\ interrupted => authorized # None
        /\ MayGoOn(prior) /\ Compatible(prior, recovery, base)
        /\ attempts' = attempts + 1
        /\ \/ /\ recovery = "conflict"
              /\ tx' = next("block") /\ UNCHANGED <<preparation, baseRef, troubles>>
           \/ /\ recovery # "conflict" /\ Going(prior) /\ prior.status # "prepared"
              /\ tx' = next("readback") /\ UNCHANGED <<preparation, baseRef, troubles>>
           \/ /\ recovery # "conflict" /\ ~(Going(prior) /\ prior.status # "prepared")
              /\ Commit(record, next(IF recovery = "reuse" THEN "readback" ELSE "hooks"))
        /\ UNCHANGED <<gitvars, revision, interrupted, host, ended, settlement>>

\* A hook that a checkout would run stops the preparation.
CheckHooks ==
    /\ tx # None /\ tx.at = "hooks"
    /\ tx' = [tx EXCEPT !.at = CASE checkout.hooks # "none" -> "block"
                                 [] checkout.hooks = "none" /\ tx.recovery = "repair" -> "remove"
                                 [] checkout.hooks = "none" /\ tx.recovery # "repair" -> "write"]
    /\ UNCHANGED <<gitvars, recvars, host, ended, settlement, attempts, troubles>>

\* The command that a recovery needs; the second of a repair is to add the branch.
Write(t) ==
    CASE t.at = "remove" -> "remove"
      [] t.at = "write" /\ t.recovery = "create" -> "create"
      [] t.at = "write" /\ t.recovery = "attach" -> "attach"
      [] t.at = "write" /\ t.recovery \in {"add-existing", "repair"} -> "add"
      [] t.at = "write" /\ t.recovery = "add-new" -> "add-branch"

\* The intent is on disk before the command is sent.  A stale registration is removed
\* only while nothing is in its path.
Dispatch ==
    /\ tx # None /\ tx.at \in {"remove", "write"}
    /\ tx.at = "remove" => checkout.path # "full"
    /\ checkout' = IF tx.at = "remove" THEN [checkout EXCEPT !.path = "absent"] ELSE checkout
    /\ LET record == [tx.record EXCEPT !.status = "dispatched"] IN
       /\ ended' = ended \ {record.attempt}
       /\ \/ /\ Keep(record) /\ UNCHANGED <<baseRef, troubles>>
             /\ tx' = [tx EXCEPT !.record = record,
                                 !.at = IF tx.at = "remove" THEN "removing" ELSE "writing"]
             /\ sent' = sent \cup {[does |-> Write(tx), base |-> tx.base, call |-> attempts]}
          \/ DiskFails /\ UNCHANGED sent
    /\ UNCHANGED <<tip, root, revision, interrupted, host, settlement, attempts>>

Effect(does, base) ==
    CASE does = "create" -> [checkout EXCEPT !.registered = "ours", !.branch = checkout.head]
      [] does = "attach" -> [checkout EXCEPT !.registered = "ours", !.head = checkout.branch]
      [] does = "add-branch" -> [checkout EXCEPT !.registered = "ours", !.path = "full",
                                                 !.branch = base, !.head = base]
      [] does = "add" -> [checkout EXCEPT !.registered = "ours", !.path = "full",
                                          !.head = checkout.branch]
      [] does = "remove" -> [checkout EXCEPT !.registered = "none", !.path = "absent", !.head = 0]

Land(c) ==
    /\ checkout' = Effect(c.does, c.base)
    /\ root' = IF c.does = "add-branch" THEN c.base ELSE root
    /\ sent' = sent \ {c}

Awaited(c) == tx # None /\ tx.at \in Awaits /\ c.call = attempts

Next(step) == IF step = "removing" THEN "write" ELSE "readback"

\* The command ends well while its transaction waits: its end is remembered, then
\* written down.  A removal that reports a failure, but is done, has ended so too.
CommandEnds(c) ==
    /\ Awaited(c) /\ Land(c)
    /\ ended' = ended \cup {tx.record.attempt}
    /\ LET record == [tx.record EXCEPT !.status = "settled"] IN
       Commit(record, [tx EXCEPT !.record = record, !.at = Next(tx.at)])
    /\ UNCHANGED <<tip, revision, interrupted, host, settlement, attempts>>

\* It fails, and stays sent in the record: nothing repeats it.
CommandFails(c) ==
    /\ Awaited(c)
    /\ troubles < MaxTroubles /\ troubles' = troubles + 1
    /\ sent' = sent \ {c} /\ TransactionEnds
    /\ UNCHANGED <<tip, checkout, root, recvars, host, ended, settlement, attempts>>

\* The transaction stops waiting at its deadline, and the command goes on.
CommandUnknown(c) ==
    /\ Awaited(c)
    /\ troubles < MaxTroubles /\ troubles' = troubles + 1
    /\ TransactionEnds
    /\ UNCHANGED <<gitvars, recvars, host, ended, settlement, attempts>>

\* A command nobody waits for has its effect, or none.
CommandLandsLate(c) ==
    /\ ~Awaited(c)
    /\ \/ Land(c)
       \/ sent' = sent \ {c} /\ UNCHANGED <<checkout, root>>
    /\ UNCHANGED <<tip, recvars, host, ended, tx, settlement, attempts, troubles>>

\* The worktree is on the branch, at the head that was expected, and clean if it is
\* an interrupted preparation that goes on.
Matches(t) ==
    /\ checkout.registered = "ours" /\ checkout.path = "full"
    /\ checkout.head = t.record.expected
    /\ t.strict => ~checkout.dirty

ReadBack ==
    /\ tx # None /\ tx.at = "readback"
    /\ tx' = [tx EXCEPT !.at = IF Matches(tx) THEN "verify" ELSE "block"]
    /\ UNCHANGED <<gitvars, recvars, host, ended, settlement, attempts, troubles>>

\* The preparation is verified and its baseline frozen in one write.
Verify ==
    /\ tx # None /\ tx.at = "verify"
    /\ \/ /\ Keep([tx.record EXCEPT !.status = "verified"])
          /\ baseRef' = IF baseRef = None THEN tx.base ELSE baseRef
          /\ TransactionEnds /\ ended' = ended \ {tx.record.attempt}
          /\ UNCHANGED troubles
       \/ DiskFails /\ UNCHANGED ended
    /\ UNCHANGED <<gitvars, revision, interrupted, host, settlement, attempts>>

\* A conflict blocks a preparation that was not sent, or whose command has ended.
Block ==
    /\ tx # None /\ tx.at = "block"
    /\ \/ /\ tx.record.status # "dispatched" \/ tx.record.attempt \in ended
          /\ \/ /\ Keep([tx.record EXCEPT !.status = "blocked"])
                /\ TransactionEnds /\ ended' = ended \ {tx.record.attempt}
                /\ UNCHANGED <<baseRef, troubles>>
             \/ DiskFails /\ UNCHANGED ended
       \/ /\ tx.record.status = "dispatched" /\ tx.record.attempt \notin ended
          /\ TransactionEnds /\ UNCHANGED <<preparation, baseRef, troubles, ended>>
    /\ UNCHANGED <<gitvars, revision, interrupted, host, settlement, attempts>>

(***************************************************************************)
(* Tasks, stops, restarts, and the manual settlement                       *)
(***************************************************************************)

\* A task takes a verified worktree over, commits and leaves it as it is.
StartTask ==
    /\ host # None /\ tx = None /\ revision < MaxRevision
    /\ preparation # None /\ preparation.status = "verified" /\ preparation.revision = revision
    /\ preparation' = None /\ revision' = revision + 1 /\ interrupted' = FALSE
    /\ \E commits \in 0..1, dirty \in BOOLEAN :
          /\ checkout.head + commits <= MaxCommit
          /\ checkout' = [checkout EXCEPT !.head = @ + commits, !.branch = @ + commits,
                                          !.dirty = dirty]
    /\ UNCHANGED <<tip, root, sent, baseRef, host, ended, tx, settlement, attempts, troubles>>

\* A stop of a preparation withdraws the task state it was authorized for.
StopPreparation ==
    /\ host # None /\ tx = None /\ revision < MaxRevision
    /\ revision' = revision + 1 /\ interrupted' = TRUE
    /\ UNCHANGED <<gitvars, preparation, baseRef, host, ended, tx, settlement, attempts, troubles>>

\* The process stops at any step: what it remembers is gone, what it sent goes on.
StopProcess ==
    /\ host # None /\ troubles < MaxTroubles
    /\ troubles' = troubles + 1
    /\ host' = None /\ ended' = {} /\ tx' = None
    /\ UNCHANGED <<gitvars, recvars, settlement, attempts>>

StartProcess ==
    /\ host = None
    /\ host' = troubles + 1
    /\ UNCHANGED <<gitvars, recvars, ended, tx, settlement, attempts, troubles>>

\* The operator restarts the machine, with everything that writes stopped, and looks at
\* a preparation that was sent or blocked; only a scene that is what it should be will do.
PreviewManualPreparation ==
    /\ host = None /\ settlement = None /\ revision < MaxRevision
    /\ preparation # None /\ preparation.status \in {"dispatched", "blocked"}
    /\ sent' = {}
    /\ checkout.registered = "ours" /\ checkout.path = "full" /\ ~checkout.elsewhere
    /\ checkout.head = preparation.expected /\ ~checkout.dirty /\ checkout.hooks = "none"
    /\ settlement' = [record |-> preparation, revision |-> revision, scene |-> checkout]
    /\ UNCHANGED <<tip, checkout, root, recvars, host, ended, tx, attempts, troubles>>

\* The settlement is published only over the record and the scene that were looked at.
PublishManualPreparation ==
    /\ host = None /\ settlement # None
    /\ settlement' = None
    /\ IF settlement = [record |-> preparation, revision |-> revision, scene |-> checkout]
       THEN /\ preparation' = [preparation EXCEPT !.status = "settled", !.revision = revision + 1]
            /\ revision' = revision + 1 /\ interrupted' = TRUE
       ELSE UNCHANGED <<preparation, revision, interrupted>>
    /\ UNCHANGED <<gitvars, baseRef, host, ended, tx, attempts, troubles>>

PreparationNext ==
    \/ FindCheckout \/ RemoteBaseMoves
    \/ \E authorized \in 0..MaxRevision \cup {None} : Prepare(authorized)
    \/ CheckHooks \/ Dispatch
    \/ \E c \in sent : CommandEnds(c) \/ CommandFails(c) \/ CommandUnknown(c) \/ CommandLandsLate(c)
    \/ ReadBack \/ Verify \/ Block
    \/ StartTask \/ StopPreparation \/ StopProcess \/ StartProcess
    \/ PreviewManualPreparation \/ PublishManualPreparation

PreparationSpec == PreparationInit /\ [][PreparationNext]_prepvars

(***************************************************************************)
(* Properties                                                              *)
(***************************************************************************)

\* A Git write whose end was not seen is neither repeated nor built upon: while one is
\* under way no other is sent, and no preparation is read back, verified, blocked or
\* settled, through every stop, failed write, deadline and manual settlement.
NothingOnUnknownEnd ==
    /\ Cardinality(sent) <= 1
    /\ sent # {} => /\ preparation # None /\ preparation.status = "dispatched"
                    /\ tx # None => tx.at \in Awaits

\* A preparation that is verified, or settled by hand, stays true to Git until a task
\* takes it over: the worktree is on the branch, at the head that was expected.
VerifiedIsTrue ==
    preparation # None /\ preparation.status = "verified" =>
        /\ checkout.registered = "ours" /\ checkout.path = "full"
        /\ checkout.head = preparation.expected

\* The frozen baseline is the commit that the branch was created from, though origin
\* moved on between the creation and the freeze, and it is never changed again.
FrozenBaseIsRoot ==
    baseRef # None /\ root # 0 => baseRef = root

\* A preparation is true to Git through every interruption.
PreparationIsTrue ==
    PreparationTypeOK /\ NothingOnUnknownEnd /\ VerifiedIsTrue /\ FrozenBaseIsRoot
=============================================================================
