------------------------------ MODULE LocalGitFacts ------------------------------
(***************************************************************************)
(* What a sampling of the local Git state reports                          *)
(* (src/infra/local-git-sampler.ts).  One shell script runs the commands   *)
(* of a plane and prints a section for each, its exit code with its        *)
(* output; a parser tells a fact that is absent from a read that failed,   *)
(* and one failed required read makes the whole sample unknown.            *)
(*                                                                         *)
(* A scene is a repository, and a mishap is what happened to one command:  *)
(* it failed, or its section never arrived.  A probe may find nothing (a   *)
(* ref, HEAD, the default branch of the checkout), and when it fails the   *)
(* parser takes what it asked for to be absent.                            *)
(***************************************************************************)
EXTENDS Integers, NoValue

CONSTANTS
    MaxReadMishaps    \* bound: commands that go wrong in one sampling

VARIABLES
    scene,     \* the repository as it is
    mishap,    \* command -> "fails" or "lost", for the commands that go wrong
    report     \* what the parser of one plane reported

lfvars == <<scene, mishap, report>>

\* The worktree is on the branch of its workflow, or its HEAD is detached; a HEAD
\* without a commit is unborn.  The branch is known here, at origin, or in both.
Repositories ==
    [onBranch : BOOLEAN, born : BOOLEAN, dirty : BOOLEAN, main : BOOLEAN, base : BOOLEAN,
     frozen : BOOLEAN, upstream : BOOLEAN, local : BOOLEAN, remote : BOOLEAN, ahead : 0..1]

Possible(r) ==
    /\ r.onBranch => r.local = r.born
    /\ ~r.onBranch => r.born
    /\ r.onBranch /\ r.upstream => r.remote

\* The reads that must be answered, some of them only when a ref was found.
RequiredReads ==
    {"WT_GITDIR", "WT_STATUS", "WT_BRANCH", "WT_MAIN_COUNT", "WT_BASE_COUNT",
     "WT_UP_COUNT", "BR_DEFAULT", "BR_LOCAL", "BR_REMOTE", "BR_COMMIT_COUNT",
     "REPO_BRANCH", "REPO_MAIN_COUNT", "REPO_HEAD_COUNT",
     "ENUM_GITDIR", "ENUM_DEFAULT", "ENUM_REFS", "ENUM_COUNTS"}

\* The probes, whose failure is absence to the parser.  ENUM_HEADS, the list of the
\* loop, has no section; the others fail, or their section is lost.
Probes ==
    {"WT_HEAD", "WT_MAIN", "WT_UPSTREAM", "EFFECTIVE_BASE", "REPO_DEFAULT", "REPO_HEAD",
     "ENUM_HEAD", "ENUM_BASE_AVAILABLE", "ENUM_HEADS"}

LocalReads == RequiredReads \cup Probes

Unread == [state |-> "unread"]
Begun == [state |-> "begun"]
Unknown == [state |-> "unknown"]

\* What a known sample may leave open.
OptionalFacts == {"aheadOfUpstream", "aheadOfBase", "branchExists", "hasCommits"}

LocalFactsTypeOK ==
    /\ scene \in Repositories
    /\ DOMAIN mishap \subseteq LocalReads
    /\ \A read \in DOMAIN mishap : mishap[read] \in {"fails", "lost"}
    /\ report.state \in {"unread", "begun", "unknown", "known"}
    /\ \A field \in DOMAIN report \ OptionalFacts : report[field] # None

\* The absent value is none that a report carries.
ASSUME FactsAssumption ==
    /\ None \notin {"unread", "begun", "unknown", "known", "worktree", "repository",
                   "enumeration", "branch", "none"}
    /\ None \notin BOOLEAN /\ None \notin 0..2

Plain == [onBranch |-> TRUE, born |-> TRUE, dirty |-> FALSE, main |-> TRUE, base |-> TRUE,
          frozen |-> TRUE, upstream |-> TRUE, local |-> TRUE, remote |-> TRUE, ahead |-> 0]

\* Some commands, as many as the bound at most, each with what becomes of it.
Mishaps == {<<>>} \cup
    UNION {[{pick[n] : n \in 1..MaxReadMishaps} -> {"fails", "lost"}] :
              pick \in [1..MaxReadMishaps -> LocalReads]}

LocalFactsInit == scene = Plain /\ mishap = <<>> /\ report = Unread

\* The repository as a sampling may meet it, and what goes wrong in that sampling.
SetScene ==
    /\ report = Unread
    /\ scene' \in {r \in Repositories : Possible(r)}
    /\ mishap' \in Mishaps
    /\ report' = Begun

Fails(read) == read \in DOMAIN mishap /\ mishap[read] = "fails"
Lost(read) == read \in DOMAIN mishap /\ mishap[read] = "lost"

\* The section of a read: its exit code is 0, 1 for nothing found, or 128, and -1
\* stands for a section that did not arrive.
Section(read, code, value) ==
    IF read \notin DOMAIN mishap THEN [rc |-> code, value |-> value]
    ELSE IF mishap[read] = "fails" THEN [rc |-> 128, value |-> "error"]
    ELSE [rc |-> -1, value |-> None]

Skipped == [rc |-> 127, value |-> "none"]

\* The ref that both counts of the worktree plane compare with: the base branch if a
\* probe finds it, or else the frozen commit, or none.  The workflow names no branch
\* of its own, so that the base is the default branch, when that is read.
EffectiveBase ==
    IF scene.base /\ ~Fails("EFFECTIVE_BASE") /\ ~Fails("BR_DEFAULT") THEN "base"
    ELSE IF scene.frozen THEN "frozen" ELSE "none"

\* A count beyond another ref than the one that was meant, whatever it is.
OtherRef == 2

AheadOfBase == IF scene.base /\ EffectiveBase = "frozen" THEN OtherRef ELSE scene.ahead

RefCode(present) == IF present THEN 0 ELSE 128

NeitherFound(local, remote) == 1

Neither(local, remote) == IF 128 \in {local, remote} THEN 128 ELSE 1

\* The two show-ref commands share a section, which succeeds when either finds the
\* branch and fails when neither does and one could not be read.
BranchRef ==
    LET local == Section("BR_LOCAL", IF scene.local THEN 0 ELSE 1, "local")
        remote == Section("BR_REMOTE", IF scene.remote THEN 0 ELSE 1, "remote")
    IN  IF -1 \in {local.rc, remote.rc} THEN [rc |-> -1, value |-> None]
        ELSE IF local.rc = 0 THEN local
        ELSE IF remote.rc = 0 THEN remote
        ELSE [rc |-> Neither(local.rc, remote.rc), value |-> "none"]

WorktreeSections ==
    LET current == Section("WT_BRANCH", 0, IF scene.onBranch THEN "branch" ELSE "none")
    IN  [gitdir |-> Section("WT_GITDIR", 0, "dir"),
         status |-> Section("WT_STATUS", 0, scene.dirty),
         current |-> current,
         mainCount |-> Section("WT_MAIN_COUNT", RefCode(scene.main /\ scene.born), scene.ahead),
         baseCount |-> Section("WT_BASE_COUNT", RefCode(scene.born), AheadOfBase),
         upCount |-> IF current.value = "none" THEN Skipped
                     ELSE Section("WT_UP_COUNT", RefCode(scene.upstream /\ scene.born), scene.ahead),
         default |-> Section("BR_DEFAULT", 1, "none"),
         br |-> BranchRef,
         commits |-> IF BranchRef.rc = 0 /\ EffectiveBase # "none"
                     THEN Section("BR_COMMIT_COUNT", 0, AheadOfBase) ELSE Skipped]

Answered(section) == section.rc = 0

Probed(read, present) == present /\ read \notin DOMAIN mishap

\* A compare is required once HEAD and the ref that it compares with were found, the
\* branch count once there is a branch and a base; the compare with the base answers
\* for the commits of the branch before the count does.
Compares(s) ==
    [main |-> Probed("WT_HEAD", scene.born) /\ Probed("WT_MAIN", scene.main),
     base |-> Probed("WT_HEAD", scene.born) /\ EffectiveBase # "none",
     upstream |-> /\ Probed("WT_HEAD", scene.born) /\ s.current.value = "branch"
                  /\ Probed("WT_UPSTREAM", scene.upstream),
     commits |-> s.br.rc = 0 /\ EffectiveBase # "none"]

RequiredReadFailed(s) ==
    \/ ~Answered(s.gitdir) \/ ~Answered(s.status) \/ ~Answered(s.current)
    \/ Lost("WT_HEAD") \/ Lost("EFFECTIVE_BASE")
    \/ Compares(s).main /\ ~Answered(s.mainCount)
    \/ Compares(s).base /\ ~Answered(s.baseCount)
    \/ Compares(s).upstream /\ ~Answered(s.upCount)
    \/ s.br.rc # -1 /\ s.default.rc > 1
    \/ s.br.rc > 1
    \/ Compares(s).commits /\ ~Answered(s.commits)

ParseWorktreeSample(s) ==
    LET compares == Compares(s)
    IN  IF RequiredReadFailed(s) THEN Unknown
        ELSE [state |-> "known", plane |-> "worktree",
              dirty |-> s.status.value,
              branch |-> s.current.value,
              aheadOfMain |-> IF compares.main THEN s.mainCount.value ELSE 0,
              aheadOfBase |-> IF compares.base THEN s.baseCount.value ELSE 0,
              aheadOfUpstream |-> IF compares.upstream THEN s.upCount.value ELSE None,
              branchExists |-> IF s.br.rc = -1 THEN None ELSE s.br.rc = 0,
              hasCommits |-> IF ~compares.commits THEN None
                             ELSE IF compares.base THEN s.baseCount.value > 0
                             ELSE s.commits.value > 0]

\* The checkout compares with the default branch, which origin/main stands for when
\* it is not set or not read: without it neither count can be read.
ParseRepositorySample ==
    LET ahead == IF Fails("REPO_DEFAULT") THEN OtherRef ELSE scene.ahead
        current == Section("REPO_BRANCH", 0, IF scene.onBranch THEN "branch" ELSE "none")
        main == Section("REPO_MAIN_COUNT", RefCode(scene.base /\ scene.main), ahead)
        checkout == Section("REPO_HEAD_COUNT", RefCode(scene.base /\ scene.born), ahead)
    IN  IF \/ ~Answered(current) \/ ~Answered(main) \/ Lost("REPO_HEAD")
           \/ current.value # "none" /\ ~Answered(checkout)
        THEN Unknown
        ELSE [state |-> "known", plane |-> "repository",
              branch |-> current.value, aheadOfMain |-> main.value,
              aheadOfBase |-> IF current.value = "none" THEN None ELSE checkout.value]

\* The branches, and for each local one its commits beyond the default branch.
\* ENUM_COUNTS is the section of the loop and the count of a branch in it.
ParseRepositoryEnumeration ==
    LET gitdir == Section("ENUM_GITDIR", 0, "dir")
        default == Section("ENUM_DEFAULT", 1, "none")
        refs == Section("ENUM_REFS", 0, scene.local \/ scene.remote)
        counts == Section("ENUM_COUNTS", 0, scene.ahead)
        available == scene.base /\ ~Fails("ENUM_BASE_AVAILABLE")
    IN  IF \/ ~Answered(gitdir) \/ default.rc \notin {0, 1} \/ ~Answered(refs)
           \/ Lost("ENUM_HEAD") \/ Lost("ENUM_BASE_AVAILABLE")
           \/ available /\ ~Answered(counts)
        THEN Unknown
        ELSE [state |-> "known", plane |-> "enumeration", branchExists |-> refs.value,
              aheadOfBase |-> IF available /\ scene.local /\ ~Fails("ENUM_HEADS")
                              THEN counts.value ELSE None]

Sample(facts) ==
    /\ report = Begun
    /\ report' = facts
    /\ UNCHANGED <<scene, mishap>>

SampleWorktreeFacts == Sample(ParseWorktreeSample(WorktreeSections))

SampleRepositoryFacts == Sample(ParseRepositorySample)

SampleRepositoryEnumeration == Sample(ParseRepositoryEnumeration)

LocalFactsNext ==
    \/ SetScene
    \/ SampleWorktreeFacts \/ SampleRepositoryFacts \/ SampleRepositoryEnumeration

LocalFactsSpec == LocalFactsInit /\ [][LocalFactsNext]_lfvars

(***************************************************************************)
(* Properties                                                              *)
(***************************************************************************)

Shown(fact, truth) == fact \in {truth, None}

Amiss(probes) == \E probe \in probes : probe \in DOMAIN mishap

\* A failed required read is unknown, never clean: whatever commands fail or lose
\* their section, a sample that is reported shows no dirty worktree as clean and no
\* branch as missing, and a count of unmerged commits is the true one or none at all,
\* unless it was a probe for its refs that failed: of those the code makes 0, or a
\* count beyond another ref.
UnknownNeverClean ==
    /\ LocalFactsTypeOK
    /\ report.state = "known" =>
       LET onBranch == IF scene.onBranch THEN "branch" ELSE "none" IN
       CASE report.plane = "worktree" ->
              /\ report.dirty = scene.dirty
              /\ report.branch = onBranch
              /\ scene.born /\ scene.main =>
                    report.aheadOfMain = scene.ahead \/ Amiss({"WT_HEAD", "WT_MAIN"})
              /\ scene.born /\ (scene.base \/ scene.frozen) =>
                    \/ report.aheadOfBase = scene.ahead
                    \/ Amiss({"WT_HEAD", "EFFECTIVE_BASE", "BR_DEFAULT"})
              /\ Shown(report.aheadOfUpstream, scene.ahead)
              /\ Shown(report.branchExists, scene.local \/ scene.remote)
              /\ \/ Shown(report.hasCommits, scene.ahead > 0)
                 \/ Amiss({"EFFECTIVE_BASE", "BR_DEFAULT"})
         [] report.plane = "repository" ->
              /\ report.branch = onBranch
              /\ report.aheadOfMain = scene.ahead \/ Amiss({"REPO_DEFAULT"})
              /\ Shown(report.aheadOfBase, scene.ahead) \/ Amiss({"REPO_DEFAULT"})
         [] report.plane = "enumeration" ->
              /\ report.branchExists = (scene.local \/ scene.remote)
              /\ Shown(report.aheadOfBase, scene.ahead)
=============================================================================
