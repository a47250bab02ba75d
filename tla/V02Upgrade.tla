------------------------------ MODULE V02Upgrade ------------------------------
(***************************************************************************)
(* The upgrade of a v0.1 installation to v0.2 (src/infra/v02-upgrade.ts,   *)
(* v02-upgrade-execution.ts, v02-upgrade-recovery.ts,                      *)
(* v02-generation-fence.ts).  A previewed plan is applied step by step     *)
(* under a journal; a process that dies or fails leaves it at any step,    *)
(* and a resumption or a rollback goes on from what is on the disk.  The   *)
(* lock that admits one upgrader at a time is UpgradeLock.                 *)
(*                                                                         *)
(* A file or a directory is worth the generation and the version of its    *)
(* contents: this is what the hashes of the plan compare.  A step of the   *)
(* program is durable before the next one begins.                          *)
(***************************************************************************)
EXTENDS Integers, Sequences, NoValue

CONSTANTS
    MaxPlans,    \* bound: previews that are kept for an authorization
    MaxVersion,  \* bound: contents a user or a runtime writes
    MaxMishaps,  \* bound: deaths and failures of the disk
    Misread      \* versions of the old state that a recovery does not recognize

Plans == 1..MaxPlans
Versions == 1..MaxVersion

VARIABLES
    disk,     \* what is where
    journal,  \* upgrade-v0.2.json: its phase and its plan
    plans,    \* what each plan has observed
    upgrader, \* the command that holds lock and fence
    mishaps,  \* deaths and failures so far
    written   \* history: the last version a runtime wrote, per generation

uvars == <<disk, journal, plans, upgrader, mishaps, written>>

Legacy(v) == <<"legacy", v>>        \* of v0.1
Target(k) == <<"target", k>>        \* the configuration of plan k
New(k, v) == <<"new", k, v>>        \* a state directory with the marker of plan k
Bare == <<"bare">>                  \* a directory without its marker

Contents == {Legacy(v) : v \in Versions}
News(k) == {New(k, v) : v \in Versions}
AllNews == UNION {News(k) : k \in Plans}
Phases == {"preparing", "prepared", "cutting-over", "verified", "failed", "rolled_back"}

Path == [apply |-> <<"preparing", "back up", "identify", "stage config", "make", "mark",
                     "prepared", "cutting-over", "move", "activate", "configure",
                     "check", "verified">>,
         resume |-> <<"back up", "identify", "stage config", "make", "mark",
                      "prepared", "move", "activate", "configure", "check", "verified">>,
         rollback |-> <<"quarantine", "restore", "restore config", "rolled_back">>]

Targets == {Target(k) : k \in Plans}
Layouts == [config : Contents \cup Targets,
            state : Contents \cup AllNews \cup {None},
            id : 0..(MaxPlans + 1),
            configBackup : [Plans -> Contents \cup {None}],
            stagedConfig : [Plans -> Targets \cup {None}],
            stateBackup : [Plans -> Contents \cup {None}],
            stagedState : [Plans -> AllNews \cup {Bare, None}]]
Entries == [phase : Phases, plan : Plans]
Observations == [config : Contents, state : Contents \cup {None},
                 id : 1..(MaxPlans + 1), existed : BOOLEAN,
                 prior : [phase : {"rolled_back"}, plan : Plans] \cup {None}]
Commands == [op : DOMAIN Path, plan : Plans, n : 1..13]

ASSUME UpgradeAssumption ==
    /\ {MaxPlans, MaxVersion} \subseteq Nat \ {0} /\ MaxMishaps \in Nat
    /\ Misread \subseteq Versions
    /\ None \notin {Bare} \cup Contents \cup AllNews \cup Entries \cup Observations \cup Commands

UpgradeTypeOK ==
    /\ disk \in Layouts
    /\ journal \in Entries \cup {None}
    /\ plans \in [Plans -> Observations \cup {None}]
    /\ upgrader \in Commands \cup {None}
    /\ upgrader # None => upgrader.n <= Len(Path[upgrader.op])
    /\ mishaps \in 0..MaxMishaps
    /\ written \in [legacy : 0..MaxVersion, new : [Plans -> 0..MaxVersion]]

UpgradeInit ==
    /\ \E present \in BOOLEAN :
          /\ disk = [config |-> Legacy(1), state |-> IF present THEN Legacy(1) ELSE None, id |-> 0,
                     configBackup |-> [k \in Plans |-> None], stagedConfig |-> [k \in Plans |-> None],
                     stateBackup |-> [k \in Plans |-> None], stagedState |-> [k \in Plans |-> None]]
          /\ written = [legacy |-> IF present THEN 1 ELSE 0, new |-> [k \in Plans |-> 0]]
    /\ journal = None
    /\ plans = [k \in Plans |-> None]
    /\ upgrader = None
    /\ mishaps = 0

-----------------------------------------------------------------------------
(* Who else is there *)

Phase == IF journal = None THEN "none" ELSE journal.phase
Open == Phase \in {"none", "rolled_back"}
Marked == disk.state \in AllNews

\* A runtime may write where one generation owns the root.
Admitted ==
    \/ Open /\ ~Marked
    \/ Phase = "verified" /\ Marked

\* The host is stopped while an upgrader runs, and only then.
RuntimeWrites ==
    /\ upgrader = None /\ Admitted
    /\ \/ /\ ~Marked /\ written.legacy < MaxVersion
          /\ written' = [written EXCEPT !.legacy = @ + 1]
          /\ disk' = [disk EXCEPT !.state = Legacy(written.legacy + 1)]
       \/ /\ Marked /\ disk.state[3] < MaxVersion
          /\ written' = [written EXCEPT !.new[disk.state[2]] = disk.state[3] + 1]
          /\ disk' = [disk EXCEPT !.state = New(disk.state[2], disk.state[3] + 1)]
    /\ UNCHANGED <<journal, plans, upgrader, mishaps>>

\* The user changes the configuration, but not while an upgrade is unfinished.
UserEdits ==
    /\ upgrader = None /\ Open
    /\ disk.config \in Contents /\ disk.config[2] < MaxVersion
    /\ disk' = [disk EXCEPT !.config = Legacy(disk.config[2] + 1)]
    /\ UNCHANGED <<journal, plans, upgrader, mishaps, written>>

\* The clone gets its identity from somebody else, who publishes it exclusively.
SomebodyIdentifies ==
    /\ disk.id = 0
    /\ disk' = [disk EXCEPT !.id = MaxPlans + 1]
    /\ UNCHANGED <<journal, plans, upgrader, mishaps, written>>

\* A preview, once nothing unfinished is there; what it finds it keeps.
Observed(k) ==
    [config |-> disk.config, state |-> disk.state,
     id |-> IF disk.id = 0 THEN k ELSE disk.id, existed |-> disk.id # 0,
     prior |-> journal]

Preview(k) ==
    /\ plans[k] = None /\ \A j \in Plans : j < k => plans[j] # None
    /\ Open /\ ~Marked /\ disk.config \in Contents
    /\ plans' = [plans EXCEPT ![k] = Observed(k)]
    /\ UNCHANGED <<disk, journal, upgrader, mishaps, written>>

-----------------------------------------------------------------------------
(* A command begins, ends, fails *)

Begins(op, k) ==
    /\ upgrader = None
    /\ upgrader' = [op |-> op, plan |-> k, n |-> 1]
    /\ UNCHANGED <<disk, journal, plans, mishaps, written>>

\* An apply observes again and goes on only if that is the plan.
Apply(k) == Open /\ plans[k] # None /\ plans[k] = Observed(k) /\ Begins("apply", k)

\* A resumption or a rollback is authorized for the journal and the files as they are.
Resume == ~Open /\ Phase # "verified" /\ Begins("resume", journal.plan)
Rollback == journal # None /\ Begins("rollback", journal.plan)

At(step) == upgrader # None /\ Path[upgrader.op][upgrader.n] = step
K == upgrader.plan
The == plans[upgrader.plan]

Advances ==
    /\ upgrader' = IF upgrader.n = Len(Path[upgrader.op]) THEN None
                   ELSE [upgrader EXCEPT !.n = @ + 1]
    /\ UNCHANGED <<plans, mishaps, written>>

Does(step, after) ==
    /\ At(step)
    /\ disk' = after
    /\ UNCHANGED journal
    /\ Advances

Publish ==
    /\ upgrader # None
    /\ LET step == Path[upgrader.op][upgrader.n] IN
       /\ step \in Phases
       /\ journal' = [phase |-> step, plan |-> K]
    /\ UNCHANGED disk
    /\ Advances

-----------------------------------------------------------------------------
(* What a step asks of the disk, and what it does *)

IsNew == disk.state \in News(K)
Present == The.state # None

\* Mutant: a resumption wants the backup that the apply may not have made.
SafeExisting ==
    IF upgrader.op = "apply" THEN disk.config = The.config
    ELSE disk.configBackup[K] = The.config

\* The legacy configuration is there to be copied, or its copy is.
Safe ==
    IF disk.configBackup[K] = None THEN disk.config = The.config
    ELSE disk.configBackup[K] = The.config

\* The digest of a resumption or a rollback lists the files directory by
\* directory, that of the plan by path: with a directory "a" beside a file
\* "a.json" the same state has two digests.
Recognized(state) == state = The.state /\ (state # None => state[2] \notin Misread)

\* An apply moves what it finds; a resumption compares.
Movable ==
    \/ ~Present
    \/ upgrader.op = "apply" /\ disk.state # None
    \/ upgrader.op = "resume" /\ Recognized(disk.state) /\ disk.stateBackup[K] = None
    \/ upgrader.op = "resume" /\ Recognized(disk.stateBackup[K]) /\ (disk.state = None \/ IsNew)

Passes ==
    CASE At("back up") -> Safe
      [] At("identify") -> disk.id \in {0, The.id}
      [] At("make") -> IsNew \/ disk.stagedState[K] \in News(K) \cup {None}
      [] At("move") -> Movable
      [] At("activate") -> \/ disk.state = None /\ disk.stagedState[K] # None
                           \/ upgrader.op = "resume" /\ IsNew
      [] At("configure") -> \/ disk.config = The.config /\ disk.stagedConfig[K] # None
                            \/ upgrader.op = "resume" /\ disk.config = Target(K)
      [] At("check") -> /\ disk.config = Target(K) /\ disk.configBackup[K] = The.config
                        /\ disk.stateBackup[K] = The.state
                        /\ IsNew /\ disk.id = The.id
      [] At("quarantine") -> \/ IsNew /\ disk.stagedState[K] = None
                             \/ disk.state = None \/ Recognized(disk.state)
      [] At("restore") -> Present /\ disk.state = None => Recognized(disk.stateBackup[K])
      [] At("restore config") -> disk.configBackup[K] = The.config
      [] OTHER -> TRUE

BackUp ==
    /\ Passes
    /\ Does("back up", [disk EXCEPT !.configBackup[K] = The.config])

Identify ==
    /\ Passes
    /\ Does("identify", [disk EXCEPT !.id = The.id])

StageConfig ==
    Does("stage config",
         IF disk.config = Target(K) THEN disk ELSE [disk EXCEPT !.stagedConfig[K] = Target(K)])

MakeStage ==
    /\ Passes
    /\ Does("make", IF IsNew \/ disk.stagedState[K] # None THEN disk
                    ELSE [disk EXCEPT !.stagedState[K] = Bare])

MarkStage ==
    Does("mark", IF disk.stagedState[K] = Bare THEN [disk EXCEPT !.stagedState[K] = New(K, 1)]
                 ELSE disk)

MoveState ==
    /\ Passes
    /\ Does("move", IF Present /\ ~IsNew /\ disk.state # None
                      THEN [disk EXCEPT !.state = None, !.stateBackup[K] = disk.state]
                      ELSE disk)

ActivateState ==
    /\ Passes
    /\ Does("activate", IF IsNew THEN disk
                        ELSE [disk EXCEPT !.state = disk.stagedState[K], !.stagedState[K] = None])

ActivateConfig ==
    /\ Passes
    /\ Does("configure", IF disk.config = Target(K) THEN disk
                         ELSE [disk EXCEPT !.config = Target(K), !.stagedConfig[K] = None])

Check == Passes /\ Does("check", disk)

\* Mutant: a rollback throws the new state away.
QuarantineDeletes ==
    /\ Passes
    /\ Does("quarantine", IF IsNew THEN [disk EXCEPT !.state = None] ELSE disk)

Quarantine ==
    /\ Passes
    /\ Does("quarantine", IF IsNew
                            THEN [disk EXCEPT !.state = None, !.stagedState[K] = disk.state]
                            ELSE disk)

RestoreState ==
    /\ Passes
    /\ Does("restore", IF Present /\ disk.state = None
                         THEN [disk EXCEPT !.state = disk.stateBackup[K], !.stateBackup[K] = None]
                         ELSE disk)

RestoreConfig ==
    /\ Passes
    /\ Does("restore config", [disk EXCEPT !.config = disk.configBackup[K]])

Work ==
    \/ Publish \/ BackUp \/ Identify \/ StageConfig \/ MakeStage \/ MarkStage
    \/ MoveState \/ ActivateState \/ ActivateConfig \/ Check
    \/ Quarantine \/ RestoreState \/ RestoreConfig

\* A failed apply says so in the journal once it has one, if it can.
Failed ==
    /\ upgrader' = None
    /\ journal' \in {journal} \cup
          (IF upgrader.op = "apply" /\ upgrader.n > 1
             THEN {[phase |-> "failed", plan |-> K]} ELSE {})
    /\ UNCHANGED <<disk, plans, written>>

Refused == upgrader # None /\ ~Passes /\ Failed /\ UNCHANGED mishaps

\* The process dies or the disk fails, before a step or after it.
Mishap == upgrader # None /\ mishaps < MaxMishaps /\ Failed /\ mishaps' = mishaps + 1

UpgradeNext ==
    \/ RuntimeWrites \/ UserEdits \/ SomebodyIdentifies
    \/ \E k \in Plans : Preview(k) \/ Apply(k)
    \/ Resume \/ Rollback \/ Work \/ Refused \/ Mishap

\* A command goes on, and the operator tries both ways out in turn.
UpgradeFairness ==
    /\ WF_uvars(Work) /\ WF_uvars(Refused)
    /\ SF_uvars(~Open /\ Phase # "verified" /\ Resume)
    /\ SF_uvars(~Open /\ Phase # "verified" /\ Rollback)

UpgradeSpec == UpgradeInit /\ [][UpgradeNext]_uvars /\ UpgradeFairness

-----------------------------------------------------------------------------
(* Properties *)

\* A runtime is only admitted where configuration and state are of one
\* generation (assertActiveStateWriteAllowed reads journal and marker, not the
\* configuration), wherever an upgrade has stopped.
OnlyWholeGenerations ==
    upgrader = None /\ Admitted =>
        IF Marked THEN disk.config = Target(journal.plan) /\ disk.state \in News(journal.plan)
        ELSE disk.config \in Contents

\* What a runtime has written last, of either generation, is still there: in
\* place, in its backup or in quarantine.
NoStateLost ==
    /\ written.legacy > 0 =>
          \/ disk.state = Legacy(written.legacy)
          \/ \E k \in Plans : disk.stateBackup[k] = Legacy(written.legacy)
    /\ \A k \in Plans : written.new[k] > 0 =>
          New(k, written.new[k]) \in {disk.state, disk.stagedState[k]}

\* Until an upgrade is rolled back, the legacy configuration it has replaced or
\* may replace can be restored.
ConfigRecoverable ==
    ~Open => plans[journal.plan].config \in {disk.config, disk.configBackup[journal.plan]}

\* The plan under way is of a state that no recovery recognizes.
Misjudged == \E v \in Misread : ~Open /\ plans[journal.plan].state = Legacy(v)

\* An upgrade that stopped anywhere can be ended: by a resumption or by a
\* rollback, if each is tried, unless both take the old state for another one.
UpgradeSettles == ~Open ~> (Open \/ Phase = "verified" \/ Misjudged)

\* Wherever the upgrade stops, a runtime meets one generation, and nothing that was
\* written or configured is lost.
GenerationsAreSafe ==
    UpgradeTypeOK /\ OnlyWholeGenerations /\ NoStateLost /\ ConfigRecoverable
=============================================================================
