--------------------------- MODULE DeliveryProofs ---------------------------
(***************************************************************************)
(* Theorems about what is written to GitHub and to its remote:             *)
(* Publication, MergeCleanup and RemoteGit, which share no state.          *)
(*                                                                         *)
(* Publication, for any number of tasks, reviews and heads.  The argument  *)
(* rests on three things.  A task's write is its own: its marker says      *)
(* "none" until it is marked, and never again.  A recovery only has        *)
(* markers that were unsettled when its task claimed the workflow, and     *)
(* nobody else settles them while it has it.  A creation that finds its    *)
(* own marker goes on only when there is a pull request.                   *)
(***************************************************************************)
EXTENDS MCDelivery, TLAPS, SequenceTheorems

Touched(w) == w \in air \/ done[w] > 0

\* What the record says of the write of a task.
Marker(w) == IF w[1] = "comment" THEN pub[w[2]] ELSE appr[w[2]]

\* What a readback has found is so.
There(w) == done[w] > 0 /\ (w[1] = "approve" => on[w[2]] = reviewed[w[2]])

TaskWrites == {"comment", "approve"} \X Tasks

Own(t) == {Comment(t), Approval(t)}

Writing == {"ready", "marked", "sent", "answered", "store"}

TypeRecord ==
    /\ holder \in Tasks \cup {None}
    /\ events \subseteq Tasks /\ passed \subseteq events \cap Reviews
    /\ pub \in [Tasks -> {"none", "pending", "posted", "linked", "failed", "unknown"}]
    /\ appr \in [Tasks -> {"none", "pending"} \cup Outcomes]
    /\ prMarker \in BOOLEAN /\ prNumber \in BOOLEAN /\ locked \in BOOLEAN

TypeWriters ==
    /\ step \in [Writers -> {"idle", "done"} \cup Busy]
    /\ write \in [Writers -> Writes \cup {None}]
    /\ answer \in [Writers -> Answers \cup {None}]
    /\ result \in [Writers -> Outcomes \cup {None}]
    /\ todo \in [Tasks -> SUBSET Writes]
    /\ found \in [Tasks -> SUBSET (Writes \X Outcomes)]
    /\ reviewed \in [Tasks -> 0..MaxHead]

TypeGithub ==
    /\ head \in 1..MaxHead
    /\ prs \in Nat /\ done \in [Writes -> Nat]
    /\ on \in [Tasks -> 0..MaxHead]
    /\ edited \subseteq Reviews
    /\ air \subseteq Writes

Once(w) == done[w] + (IF w \in air THEN 1 ELSE 0) <= 1

\* The marker of a task's write says nothing that is not so.
MarkerTrue(w) ==
    /\ Touched(w) => Marker(w) # "none"
    /\ Marker(w) = "failed" => ~Touched(w)
    /\ Marker(w) \in {"posted", "linked", "confirmed"} => There(w)

\* Before its report a task has left no marker.
Unmarked(t) ==
    step[t] \in {"idle", "recover", "work"} => pub[t] = "none" /\ appr[t] = "none"

OwnWrite(t) ==
    step[t] \in Writing =>
        /\ write[t] \in Own(t)
        /\ write[t] = Comment(t) => appr[t] = "none"
        /\ Marker(write[t]) # "failed"
        /\ step[t] = "ready" => Marker(write[t]) = "none"
        /\ step[t] = "marked" => Marker(write[t]) # "none" /\ ~Touched(write[t])
        /\ step[t] = "answered" => ~NeverHappened(answer[t])
        /\ Holds(t) => Marker(write[t]) \in {"none", "pending"}
        /\ step[t] = "store" =>
              /\ result[t] \in Outcomes
              /\ result[t] = "failed" => ~Touched(write[t])
              /\ result[t] = "confirmed" => There(write[t])

\* A marker in the hands of a recovery was left, and is unsettled for as long as the
\* task of the recovery has the workflow.
Unsettles(t, w) ==
    /\ w \in TaskWrites /\ Marker(w) # "none"
    /\ Holds(t) => Marker(w) \in {"pending", "unknown"}

OwnRecovery(t) ==
    /\ step[t] # "recover" => todo[t] = {} /\ found[t] = {}
    /\ \A w \in todo[t] : Unsettles(t, w)
    /\ \A p \in found[t] : /\ Unsettles(t, p[1])
                           /\ p[2] \in {"confirmed", "unknown"}
                           /\ p[2] = "confirmed" => There(p[1])

TaskSound(t) == Unmarked(t) /\ OwnWrite(t) /\ OwnRecovery(t)

CreationSound ==
    /\ prNumber => prs > 0
    /\ Touched(Pr) => prMarker \/ prNumber
    /\ done[Pr] > 0 => prs > 0
    /\ step[Creation] # "idle" => write[Creation] = Pr
    /\ step[Creation] = "lookup" => (prMarker \/ result[Creation] # None => prs > 0)
    /\ step[Creation] \in {"ready", "marked"} => ~Touched(Pr)
    /\ step[Creation] = "marked" => prMarker
    /\ step[Creation] = "store" /\ result[Creation] = "confirmed" => prs > 0

PubInv ==
    /\ TypeRecord /\ TypeWriters /\ TypeGithub
    /\ \A w \in Writes : Once(w)
    /\ \A w \in TaskWrites : MarkerTrue(w)
    /\ \A t \in Tasks : TaskSound(t)
    /\ CreationSound

(***************************************************************************)
(* The writes                                                              *)
(***************************************************************************)

\* Tasks are positive numbers; the creation is none of them.
LEMMA TaskFacts ==
    /\ Creation \notin Tasks /\ None \notin Tasks /\ Creation \in Writers
    /\ \A t \in Tasks : t \in Nat /\ t # Creation /\ t \in Writers
<1>1. \A n : \A t \in 1..n : t \in Nat /\ t # 0
  OBVIOUS
<1>2. Tasks = 1..Cardinality(Tasks)
  BY PublicationAssumption
<1>3. \A t \in Tasks : t \in Nat /\ t # 0
  BY <1>1, <1>2
<1>4. QED
  BY <1>3, PublicationAssumption DEF Creation, Writers

\* A write is the comment or the approval of one task, or the creation.
LEMMA WriteForms ==
    /\ \A t \in Tasks : /\ Comment(t) \in TaskWrites /\ Approval(t) \in TaskWrites
                        /\ Comment(t)[1] = "comment" /\ Comment(t)[2] = t
                        /\ Approval(t)[1] = "approve" /\ Approval(t)[2] = t
                        /\ Comment(t) # Approval(t)
    /\ \A t, u \in Tasks : t # u => Own(t) \cap Own(u) = {}
    /\ \A w \in TaskWrites : w[1] \in {"comment", "approve"} /\ w[2] \in Tasks /\ w \in Own(w[2])
    /\ TaskWrites \subseteq Writes /\ Pr \in Writes /\ Pr \notin TaskWrites
    /\ Pr[1] = "create"
    /\ \A w \in Writes : w \in TaskWrites \/ w = Pr
  BY TaskFacts DEF Comment, Approval, Pr, Writes, TaskWrites, Own

\* The marker of a comment and of an approval.
LEMMA MarkerForms ==
    \A t \in Tasks : Marker(Comment(t)) = pub[t] /\ Marker(Approval(t)) = appr[t]
  BY WriteForms DEF Marker

LEMMA MarkerFormsNext ==
    \A t \in Tasks : Marker(Comment(t))' = pub'[t] /\ Marker(Approval(t))' = appr'[t]
  BY WriteForms DEF Marker

LEMMA ThereForms ==
    \A t \in Tasks : /\ There(Comment(t)) <=> done[Comment(t)] > 0
                     /\ There(Approval(t)) <=> done[Approval(t)] > 0 /\ on[t] = reviewed[t]
  BY WriteForms DEF There

\* What a readback sees is there.
LEMMA SeenIsThere ==
    /\ \A w \in TaskWrites : Sees(w) => There(w)
    /\ Sees(Pr) <=> prs > 0
<1>1. ASSUME NEW w \in TaskWrites, Sees(w) PROVE There(w)
  <2>1. CASE w[1] = "comment"
    BY <1>1, <2>1 DEF Sees, There
  <2>2. CASE w[1] = "approve"
    BY <1>1, <2>2 DEF Sees, There
  <2>3. QED
    BY <2>1, <2>2, WriteForms
<1>2. Sees(Pr) <=> prs > 0
  BY WriteForms DEF Sees
<1>3. QED
  BY <1>1, <1>2

\* The invariant says what was promised.
LEMMA PubInvImplies == PubInv => PublicationIsTrue
<1> SUFFICES ASSUME PubInv PROVE PublicationIsTrue
  OBVIOUS
<1>1. TypeOK
  BY DEF PubInv, TypeRecord, TypeWriters, TypeGithub, TypeOK
<1>2. OnceAtGithub
  BY DEF PubInv, Once, OnceAtGithub
<1>3. TraceLeft
  <2> SUFFICES ASSUME NEW w \in Writes, w \in air \/ done[w] > 0
               PROVE  CASE w[1] = "comment" -> pub[w[2]] # "none"
                        [] w[1] = "approve" -> appr[w[2]] # "none"
                        [] w[1] = "create"  -> prMarker \/ prNumber
    BY DEF TraceLeft
  <2>1. Touched(w)
    BY DEF Touched
  <2>2. CASE w \in TaskWrites
    <3>1. Marker(w) # "none" /\ w[1] \in {"comment", "approve"}
      BY <2>1, <2>2, WriteForms DEF PubInv, MarkerTrue
    <3>2. QED
      BY <3>1 DEF Marker
  <2>3. CASE w = Pr
    <3>1. (prMarker \/ prNumber) /\ w[1] = "create"
      BY <2>1, <2>3, WriteForms DEF PubInv, CreationSound
    <3>2. QED
      BY <3>1
  <2>4. QED
    BY <2>2, <2>3, WriteForms
<1>4. DoneIsThere
  <2>1. ASSUME NEW t \in Tasks, pub[t] \in {"posted", "linked"} PROVE done[Comment(t)] > 0
    BY <2>1, WriteForms, MarkerForms, ThereForms DEF PubInv, MarkerTrue
  <2>2. ASSUME NEW t \in Tasks, appr[t] = "confirmed"
        PROVE  done[Approval(t)] > 0 /\ on[t] = reviewed[t]
    BY <2>2, WriteForms, MarkerForms, ThereForms DEF PubInv, MarkerTrue
  <2>3. prNumber => prs > 0
    BY DEF PubInv, CreationSound
  <2>4. QED
    BY <2>1, <2>2, <2>3 DEF DoneIsThere
<1>5. FailedNeverHappens
  <2> SUFFICES ASSUME NEW t \in Tasks
               PROVE  /\ pub[t] = "failed" => done[Comment(t)] = 0 /\ Comment(t) \notin air
                      /\ appr[t] = "failed" => done[Approval(t)] = 0 /\ Approval(t) \notin air
    BY DEF FailedNeverHappens
  <2>1. Comment(t) \in TaskWrites /\ Approval(t) \in TaskWrites
        /\ done[Comment(t)] \in Nat /\ done[Approval(t)] \in Nat
    BY WriteForms DEF PubInv, TypeGithub
  <2>2. pub[t] = "failed" => ~Touched(Comment(t))
    BY <2>1, MarkerForms DEF PubInv, MarkerTrue
  <2>3. appr[t] = "failed" => ~Touched(Approval(t))
    BY <2>1, MarkerForms DEF PubInv, MarkerTrue
  <2>4. QED
    BY <2>1, <2>2, <2>3 DEF Touched
<1>6. QED
  BY <1>1, <1>2, <1>3, <1>4, <1>5 DEF PublicationIsTrue

\* At the start nothing was sent, and the record has no marker.
LEMMA PubInitial == Init => PubInv
<1> SUFFICES ASSUME Init PROVE PubInv
  OBVIOUS
<1>1. TypeRecord /\ TypeGithub
  <2>1. prs \in Nat
    BY DEF Init
  <2>2. TypeGithub
    BY <2>1, PublicationAssumption DEF Init, TypeGithub
  <2>3. TypeRecord
    BY DEF Init, TypeRecord
  <2>4. QED
    BY <2>2, <2>3
<1>2. TypeWriters
  BY PublicationAssumption DEF Init, TypeWriters
<1>3. \A w \in Writes : done[w] = 0 /\ w \notin air
  BY DEF Init
<1>4. \A w \in Writes : Once(w) /\ ~Touched(w)
  BY <1>3 DEF Once, Touched
<1>5. \A t \in Tasks : pub[t] = "none" /\ appr[t] = "none" /\ step[t] = "idle"
                       /\ todo[t] = {} /\ found[t] = {}
  BY TaskFacts DEF Init
<1>6. \A w \in TaskWrites : Marker(w) = "none"
  BY <1>5, WriteForms DEF Marker
<1>7. \A w \in TaskWrites : MarkerTrue(w)
  BY <1>4, <1>6, WriteForms DEF MarkerTrue
<1>8. \A t \in Tasks : TaskSound(t)
  BY <1>5 DEF TaskSound, Unmarked, OwnWrite, OwnRecovery, Writing
<1>9. CreationSound
  <2>1. step[Creation] = "idle" /\ ~Touched(Pr) /\ done[Pr] = 0
    BY <1>3, <1>4, TaskFacts, WriteForms DEF Init
  <2>2. prNumber => prs > 0
    BY DEF Init
  <2>3. QED
    BY <2>1, <2>2 DEF CreationSound
<1>10. QED
  BY <1>1, <1>2, <1>4, <1>7, <1>8, <1>9 DEF PubInv


(***************************************************************************)
(* What a step leaves alone                                                *)
(***************************************************************************)

\* A task that does not move stays sound, if its own markers only go from unsettled to
\* settled, and none at all while it has the workflow.
LEMMA OtherTask ==
    ASSUME NEW u \in Tasks, TaskSound(u),
           step'[u] = step[u], write'[u] = write[u],
           answer'[u] = answer[u], result'[u] = result[u],
           todo'[u] = todo[u], found'[u] = found[u],
           Holds(u)' => Holds(u) /\ \A w \in TaskWrites : Marker(w)' = Marker(w),
           \A w \in TaskWrites : Marker(w) # "none" => Marker(w)' # "none",
           \A w \in Own(u) : Marker(w)' = Marker(w)
                             \/ (Marker(w) # "none" /\ Marker(w)' \notin {"none", "failed"}),
           \A w \in Own(u) : Touched(w)' => Touched(w),
           \A w \in TaskWrites : There(w) => There(w)'
    PROVE  TaskSound(u)'
<1>1. /\ Comment(u) \in Own(u) /\ Approval(u) \in Own(u) /\ Own(u) \subseteq TaskWrites
      /\ \A w \in Own(u) : w = Comment(u) \/ w = Approval(u)
  BY WriteForms DEF Own
<1>2. Unmarked(u)'
  <2> SUFFICES ASSUME step[u] \in {"idle", "recover", "work"}
               PROVE  pub'[u] = "none" /\ appr'[u] = "none"
    BY DEF Unmarked
  <2>1. Marker(Comment(u)) = "none" /\ Marker(Approval(u)) = "none"
    BY MarkerForms DEF TaskSound, Unmarked
  <2>2. QED
    BY <1>1, <2>1, MarkerFormsNext
<1>3. OwnWrite(u)'
  <2> SUFFICES ASSUME step[u] \in Writing
               PROVE  /\ write[u] \in Own(u)
                      /\ write[u] = Comment(u) => appr'[u] = "none"
                      /\ Marker(write[u])' # "failed"
                      /\ step[u] = "ready" => Marker(write[u])' = "none"
                      /\ step[u] = "marked" => Marker(write[u])' # "none" /\ ~Touched(write[u])'
                      /\ step[u] = "answered" => ~NeverHappened(answer[u])
                      /\ Holds(u)' => Marker(write[u])' \in {"none", "pending"}
                      /\ step[u] = "store" =>
                            /\ result[u] \in Outcomes
                            /\ result[u] = "failed" => ~Touched(write[u])'
                            /\ result[u] = "confirmed" => There(write[u])'
    BY DEF OwnWrite, Marker, Touched, There, Holds, NeverHappened
  <2> DEFINE w == write[u]
  <2>1. w \in Own(u) /\ w \in TaskWrites
    BY <1>1 DEF TaskSound, OwnWrite
  <2>2. w = Comment(u) => appr'[u] = "none"
    <3>1. w = Comment(u) => Marker(Approval(u)) = "none"
      BY MarkerForms DEF TaskSound, OwnWrite
    <3>2. QED
      BY <1>1, <3>1, MarkerFormsNext
  <2>3. /\ Marker(w) # "failed"
        /\ step[u] = "ready" => Marker(w) = "none"
        /\ step[u] = "marked" => Marker(w) # "none" /\ ~Touched(w)
        /\ step[u] = "answered" => ~NeverHappened(answer[u])
        /\ Holds(u) => Marker(w) \in {"none", "pending"}
        /\ step[u] = "store" => /\ result[u] \in Outcomes
                                /\ result[u] = "failed" => ~Touched(w)
                                /\ result[u] = "confirmed" => There(w)
    BY DEF TaskSound, OwnWrite
  <2> DEFINE m == Marker(w)'
  <2> HIDE DEF w, m
  <2>4. m = Marker(w) \/ (Marker(w) # "none" /\ m \notin {"none", "failed"})
    BY <2>1 DEF w, m
  <2>5. Holds(u)' => Holds(u) /\ m = Marker(w)
    BY <2>1 DEF w, m
  <2>6. Touched(w)' => Touched(w)
    BY <2>1 DEF w
  <2>7. There(w) => There(w)'
    BY <2>1 DEF w
  <2>8. /\ m # "failed"
        /\ step[u] = "ready" => m = "none"
        /\ step[u] = "marked" => m # "none" /\ ~Touched(w)'
        /\ Holds(u)' => m \in {"none", "pending"}
        /\ step[u] = "store" => /\ result[u] \in Outcomes
                                /\ result[u] = "failed" => ~Touched(w)'
                                /\ result[u] = "confirmed" => There(w)'
    BY <2>3, <2>4, <2>5, <2>6, <2>7
  <2>9. QED
    BY <2>1, <2>2, <2>3, <2>8 DEF w, m
<1>4. \A w : Unsettles(u, w) => Unsettles(u, w)'
  BY DEF Unsettles
<1>5. OwnRecovery(u)'
  <2>1. step'[u] # "recover" => todo'[u] = {} /\ found'[u] = {}
    BY DEF TaskSound, OwnRecovery
  <2>2. \A w \in todo'[u] : Unsettles(u, w)'
    BY <1>4 DEF TaskSound, OwnRecovery
  <2>3. \A p \in found'[u] : /\ Unsettles(u, p[1])'
                             /\ p[2] \in {"confirmed", "unknown"}
                             /\ p[2] = "confirmed" => There(p[1])'
    BY <1>4 DEF TaskSound, OwnRecovery, Unsettles
  <2>4. QED
    BY <2>1, <2>2, <2>3 DEF OwnRecovery
<1>6. QED
  BY <1>2, <1>3, <1>5 DEF TaskSound

\* GitHub moves, the program does not.
LEMMA GithubMoves ==
    ASSUME PubInv, UNCHANGED <<record, locked, writers>>, TypeGithub',
           \A w \in Writes : Once(w)',
           \A w \in Writes : Touched(w)' => Touched(w),
           \A w \in TaskWrites : There(w) => There(w)',
           prs > 0 => prs' > 0, done'[Pr] > 0 => prs' > 0
    PROVE  PubInv'
<1> USE DEF record, writers
<1>1. TypeRecord' /\ TypeWriters'
  BY DEF PubInv, TypeRecord, TypeWriters
<1>2. \A w : Marker(w)' = Marker(w)
  BY DEF Marker
<1>3. \A w \in TaskWrites : MarkerTrue(w)'
  BY <1>2, WriteForms DEF PubInv, MarkerTrue
<1>4. ASSUME NEW u \in Tasks PROVE TaskSound(u)'
  <2>1. Own(u) \subseteq TaskWrites /\ TaskWrites \subseteq Writes
    BY WriteForms DEF Own
  <2>2. Holds(u)' => Holds(u)
    BY DEF Holds
  <2>3. TaskSound(u)
    BY DEF PubInv
  <2>4. QED
    BY <1>2, <2>1, <2>2, <2>3, OtherTask
<1>5. CreationSound'
  BY WriteForms DEF PubInv, CreationSound
<1>6. QED
  BY <1>1, <1>3, <1>4, <1>5 DEF PubInv

\* Of the steps of a task: the others are where they were.
OthersRest(t) ==
    /\ \A x \in Writers \ {t} :
          step'[x] = step[x] /\ write'[x] = write[x]
          /\ answer'[x] = answer[x] /\ result'[x] = result[x]
    /\ \A u \in Tasks \ {t} : todo'[u] = todo[u] /\ found'[u] = found[u]

\* A step of a task that leaves its own state sound leaves all sound.
LEMMA TaskActs ==
    ASSUME PubInv, NEW t \in Tasks, OthersRest(t),
           TypeRecord', TypeWriters', TypeGithub',
           UNCHANGED <<prMarker, prs, done>>, prNumber => prNumber', prNumber' => prs > 0,
           \A u \in Tasks \ {t} :
               Holds(u)' => Holds(u) /\ \A w \in TaskWrites : Marker(w)' = Marker(w),
           \A w \in TaskWrites : Marker(w) # "none" => Marker(w)' # "none",
           \A w \in TaskWrites \ Own(t) :
               Marker(w)' = Marker(w) \/ (Marker(w) # "none" /\ Marker(w)' \notin {"none", "failed"}),
           \A w \in Writes \ Own(t) : Touched(w)' => Touched(w),
           \A w \in TaskWrites : There(w) => There(w)',
           \A w \in TaskWrites : MarkerTrue(w)',
           \A w \in Writes : Once(w)',
           TaskSound(t)'
    PROVE  PubInv'
<1>1. ASSUME NEW u \in Tasks PROVE TaskSound(u)'
  <2>1. CASE u = t
    BY <2>1
  <2>2. CASE u # t
    <3>1. /\ step'[u] = step[u] /\ write'[u] = write[u]
          /\ answer'[u] = answer[u] /\ result'[u] = result[u]
          /\ todo'[u] = todo[u] /\ found'[u] = found[u]
      BY <2>2, TaskFacts DEF OthersRest
    <3>2. Own(u) \subseteq TaskWrites \ Own(t) /\ TaskWrites \subseteq Writes
      BY <2>2, WriteForms DEF Own
    <3>3. TaskSound(u)
      BY DEF PubInv
    <3>4. QED
      BY <2>2, <3>1, <3>2, <3>3, OtherTask
  <2>3. QED
    BY <2>1, <2>2
<1>2. CreationSound'
  <2>1. /\ step'[Creation] = step[Creation] /\ write'[Creation] = write[Creation]
        /\ result'[Creation] = result[Creation]
    BY TaskFacts DEF OthersRest
  <2>2. Pr \in Writes /\ Pr \notin Own(t)
    BY WriteForms DEF Own
  <2>3. Touched(Pr)' => Touched(Pr)
    BY <2>2
  <2>4. QED
    BY <2>1, <2>3 DEF PubInv, CreationSound
<1>3. QED
  BY <1>1, <1>2 DEF PubInv

\* The same of a creation, which touches no marker of a task.
LEMMA CreationActs ==
    ASSUME PubInv, TypeRecord', TypeWriters', TypeGithub',
           \A t \in Tasks : step'[t] = step[t] /\ write'[t] = write[t]
                              /\ answer'[t] = answer[t] /\ result'[t] = result[t],
           UNCHANGED <<holder, pub, appr, todo, found, reviewed, done, on>>,
           \A w \in TaskWrites : w \in air' <=> w \in air,
           Once(Pr)', CreationSound'
    PROVE  PubInv'
<1>1. \A w \in TaskWrites : /\ Marker(w)' = Marker(w) /\ (Touched(w)' <=> Touched(w))
                            /\ (There(w)' <=> There(w)) /\ (Once(w)' <=> Once(w))
  BY DEF Marker, Touched, There, Once
<1>2. \A w \in TaskWrites : MarkerTrue(w)'
  BY <1>1 DEF PubInv, MarkerTrue
<1>3. \A w \in Writes : Once(w)'
  BY <1>1, WriteForms DEF PubInv
<1>4. ASSUME NEW u \in Tasks PROVE TaskSound(u)'
  <2>1. Own(u) \subseteq TaskWrites
    BY WriteForms DEF Own
  <2>2. Holds(u)' => Holds(u)
    BY DEF Holds
  <2>3. TaskSound(u)
    BY DEF PubInv
  <2>4. QED
    BY <1>1, <2>1, <2>2, <2>3, OtherTask
<1>5. QED
  BY <1>2, <1>3, <1>4 DEF PubInv


(***************************************************************************)
(* GitHub, and whoever else uses it                                        *)
(***************************************************************************)

\* A write that takes effect was on its way, so it has not happened before.
LEMMA LandKeeps ==
    ASSUME PubInv, NEW v \in Writes, Land(v)
    PROVE  PubInv'
<1>1. /\ v \in air /\ air' = air \ {v}
      /\ done' = [done EXCEPT ![v] = @ + 1]
      /\ prs' = IF v = Pr THEN prs + 1 ELSE prs
      /\ on' = IF v[1] = "approve" THEN [on EXCEPT ![v[2]] = head] ELSE on
      /\ UNCHANGED <<record, locked, writers, head, edited>>
  BY DEF Land
<1>2. TypeGithub /\ Once(v)
  BY DEF PubInv
<1>3. done[v] \in Nat /\ done[v] = 0
  BY <1>1, <1>2 DEF TypeGithub, Once
<1>4. \A w \in Writes : done'[w] = IF w = v THEN 1 ELSE done[w]
  BY <1>1, <1>2, <1>3 DEF TypeGithub
<1>5. TypeGithub'
  <2>1. done' \in [Writes -> Nat]
    BY <1>1, <1>2 DEF TypeGithub
  <2>2. prs' \in Nat
    BY <1>1, <1>2 DEF TypeGithub
  <2>3. on' \in [Tasks -> 0..MaxHead]
    <3>1. head \in 0..MaxHead /\ on \in [Tasks -> 0..MaxHead]
      BY <1>2, PublicationAssumption DEF TypeGithub
    <3>2. \A i : [on EXCEPT ![i] = head] \in [Tasks -> 0..MaxHead]
      BY <3>1
    <3>3. QED
      BY <1>1, <3>1, <3>2
  <2>4. QED
    BY <1>1, <1>2, <2>1, <2>2, <2>3 DEF TypeGithub
<1>6. \A w \in Writes : Once(w)'
  BY <1>1, <1>4 DEF PubInv, Once
<1>7. \A w \in Writes : Touched(w)' => Touched(w)
  BY <1>1, <1>4 DEF Touched
<1>8. ASSUME NEW w \in TaskWrites, There(w) PROVE There(w)'
  <2>1. w # v /\ w \in Writes /\ w[2] \in Tasks /\ done[w] > 0
    BY <1>3, <1>8, WriteForms DEF There
  <2>2. done'[w] > 0
    BY <1>4, <2>1
  <2>3. w[1] = "approve" /\ v[1] = "approve" => w[2] # v[2]
    <3> SUFFICES ASSUME w[1] = "approve", v[1] = "approve", w[2] = v[2] PROVE FALSE
      OBVIOUS
    <3>1. v \in TaskWrites
      BY WriteForms
    <3>2. QED
      BY <2>1, <3>1 DEF TaskWrites
  <2>4. w[1] = "approve" => on'[w[2]] = on[w[2]]
    BY <1>1, <1>2, <2>1, <2>3 DEF TypeGithub
  <2>5. reviewed' = reviewed
    BY <1>1 DEF writers
  <2>6. QED
    BY <1>8, <2>2, <2>4, <2>5 DEF There
<1>9. prs > 0 => prs' > 0
  BY <1>1, <1>2 DEF TypeGithub
<1>10. done'[Pr] > 0 => prs' > 0
  <2>1. CASE v = Pr
    BY <1>1, <1>2, <2>1 DEF TypeGithub
  <2>2. CASE v # Pr
    BY <1>4, <1>9, <2>2, WriteForms DEF PubInv, CreationSound
  <2>3. QED
    BY <2>1, <2>2
<1>11. QED
  BY <1>1, <1>5, <1>6, <1>7, <1>8, <1>9, <1>10, GithubMoves

LEMMA DropKeeps ==
    ASSUME PubInv, NEW v \in Writes, Drop(v)
    PROVE  PubInv'
<1>1. /\ air' = air \ {v} /\ UNCHANGED <<record, locked, writers, head, prs, done, on, edited>>
  BY DEF Drop
<1>2. TypeGithub'
  BY <1>1 DEF PubInv, TypeGithub
<1>3. \A w \in Writes : done[w] \in Nat /\ Once(w)
  BY DEF PubInv, TypeGithub
<1>4. \A w \in Writes : Once(w)'
  BY <1>1, <1>3 DEF Once
<1>5. \A w \in Writes : Touched(w)' => Touched(w)
  BY <1>1 DEF Touched
<1>6. \A w \in TaskWrites : There(w) => There(w)'
  BY <1>1 DEF There, writers
<1>7. done'[Pr] > 0 => prs' > 0
  BY <1>1 DEF PubInv, CreationSound
<1>8. QED
  BY <1>1, <1>2, <1>4, <1>5, <1>6, <1>7, GithubMoves

LEMMA SomebodyKeeps ==
    ASSUME PubInv, SomebodyPushes \/ SomebodyOpens
    PROVE  PubInv'
<1>1. /\ UNCHANGED <<record, locked, writers, done, on, edited, air>>
      /\ head' \in 1..MaxHead /\ prs' \in Nat /\ (prs > 0 => prs' > 0)
  <2>1. CASE SomebodyPushes
    BY <2>1, PublicationAssumption DEF SomebodyPushes, PubInv, TypeGithub
  <2>2. CASE SomebodyOpens
    BY <2>2 DEF SomebodyOpens, PubInv, TypeGithub
  <2>3. QED
    BY <2>1, <2>2
<1>2. TypeGithub'
  BY <1>1 DEF PubInv, TypeGithub
<1>3. \A w \in Writes : Once(w)'
  BY <1>1 DEF PubInv, Once
<1>4. \A w \in Writes : Touched(w)' => Touched(w)
  BY <1>1 DEF Touched
<1>5. \A w \in TaskWrites : There(w) => There(w)'
  BY <1>1 DEF There, writers
<1>6. done'[Pr] > 0 => prs' > 0
  BY <1>1 DEF PubInv, CreationSound
<1>7. QED
  BY <1>1, <1>2, <1>3, <1>4, <1>5, <1>6, GithubMoves

(***************************************************************************)
(* Tasks                                                                   *)
(***************************************************************************)

\* What follows for all markers when a step leaves the record's and GitHub's as they are.
LEMMA NothingMarked ==
    ASSUME PubInv, UNCHANGED <<pub, appr, done, on, air>>,
           \A t \in Tasks : reviewed'[t] = reviewed[t] \/ appr[t] = "none"
    PROVE  /\ \A w : Marker(w)' = Marker(w) /\ (Touched(w)' <=> Touched(w)) /\ (Once(w)' <=> Once(w))
           /\ \A w \in TaskWrites : There(w) => There(w)'
           /\ \A w \in TaskWrites : MarkerTrue(w)'
           /\ \A w \in Writes : Once(w)'
<1>1. \A w : Marker(w)' = Marker(w) /\ (Touched(w)' <=> Touched(w)) /\ (Once(w)' <=> Once(w))
  BY DEF Marker, Touched, Once
<1>2. ASSUME NEW w \in TaskWrites, There(w) PROVE There(w)'
  <2>1. done[w] > 0 /\ Touched(w) /\ w[2] \in Tasks
    BY <1>2, WriteForms DEF There, Touched
  <2>2. Marker(w) # "none"
    BY <2>1 DEF PubInv, MarkerTrue
  <2>3. w[1] = "approve" => reviewed'[w[2]] = reviewed[w[2]]
    BY <2>1, <2>2 DEF Marker
  <2>4. QED
    BY <1>2, <2>3 DEF There
<1>3. \A w \in TaskWrites : MarkerTrue(w)'
  BY <1>1, <1>2 DEF PubInv, MarkerTrue
<1>4. QED
  BY <1>1, <1>2, <1>3 DEF PubInv

\* Who claims the workflow has left no marker yet; what it finds unsettled is its to settle.
LEMMA ClaimKeeps ==
    ASSUME PubInv, NEW t \in Tasks, Claim(t)
    PROVE  PubInv'
<1>1. /\ step[t] = "idle" /\ holder' = t
      /\ todo' = [todo EXCEPT ![t] = Unsettled]
      /\ reviewed' = [reviewed EXCEPT ![t] = IF t \in Reviews THEN head ELSE 0]
      /\ step' = [step EXCEPT ![t] = IF Unsettled = {} THEN "work" ELSE "recover"]
      /\ UNCHANGED <<events, passed, pub, appr, prMarker, prNumber, locked,
                     write, answer, result, found, github>>
  BY DEF Claim, Goes
<1>2. TypeRecord /\ TypeWriters /\ TypeGithub /\ TaskSound(t) /\ t \in Writers
  BY TaskFacts DEF PubInv
<1>3. pub[t] = "none" /\ appr[t] = "none" /\ found[t] = {}
  BY <1>1, <1>2 DEF TaskSound, Unmarked, OwnRecovery
<1>4. \A w \in Unsettled : w \in TaskWrites /\ Marker(w) \in {"pending", "unknown"}
  <2>1. ASSUME NEW w \in Unsettled
        PROVE  \E u \in Tasks : \/ w = Comment(u) /\ pub[u] \in {"pending", "unknown"}
                                \/ w = Approval(u) /\ appr[u] \in {"pending", "unknown"}
    BY <1>2 DEF Unsettled, TypeRecord
  <2>2. QED
    BY <2>1, WriteForms, MarkerForms
<1>5. TypeRecord' /\ TypeGithub'
  BY <1>1, <1>2 DEF TypeRecord, TypeGithub, github
<1>6. TypeWriters'
  <2>1. Unsettled \subseteq Writes
    BY <1>4, WriteForms
  <2>2. step' \in [Writers -> {"idle", "done"} \cup Busy]
    BY <1>1, <1>2 DEF TypeWriters, Busy
  <2>3. todo' \in [Tasks -> SUBSET Writes]
    BY <1>1, <1>2, <2>1 DEF TypeWriters
  <2>4. reviewed' \in [Tasks -> 0..MaxHead]
    BY <1>1, <1>2, PublicationAssumption DEF TypeWriters, TypeGithub
  <2>5. QED
    BY <1>1, <1>2, <2>2, <2>3, <2>4 DEF TypeWriters
<1>7. OthersRest(t)
  BY <1>1, <1>2 DEF OthersRest, TypeWriters
<1>8. /\ \A w : Marker(w)' = Marker(w) /\ (Touched(w)' <=> Touched(w))
      /\ \A w \in TaskWrites : There(w) => There(w)'
      /\ \A w \in TaskWrites : MarkerTrue(w)'
      /\ \A w \in Writes : Once(w)'
  <2>1. \A u \in Tasks : reviewed'[u] = reviewed[u] \/ appr[u] = "none"
    BY <1>1, <1>2, <1>3 DEF TypeWriters
  <2>2. QED
    BY <1>1, <2>1, NothingMarked DEF github
<1>9. TaskSound(t)'
  <2>1. step'[t] \in {"work", "recover"} /\ todo'[t] = Unsettled /\ found'[t] = {}
        /\ (step'[t] # "recover" => Unsettled = {})
    BY <1>1, <1>2, <1>3 DEF TypeWriters
  <2>2. Unmarked(t)' /\ OwnWrite(t)'
    BY <1>1, <1>3, <2>1 DEF Unmarked, OwnWrite, Writing
  <2>3. \A w \in Unsettled : Unsettles(t, w)'
    BY <1>4, <1>8 DEF Unsettles
  <2>4. OwnRecovery(t)'
    BY <2>1, <2>3 DEF OwnRecovery
  <2>5. QED
    BY <2>2, <2>4 DEF TaskSound
<1>10. \A u \in Tasks \ {t} : ~Holds(u)'
  BY <1>1 DEF Holds
<1>11. prNumber' = prNumber /\ (prNumber => prs > 0) /\ UNCHANGED <<prMarker, prs, done>>
  BY <1>1 DEF github, PubInv, CreationSound
<1>12. QED
  BY <1>5, <1>6, <1>7, <1>8, <1>9, <1>10, <1>11, TaskActs


LEMMA ReadMarkerKeeps ==
    ASSUME PubInv, NEW t \in Tasks, ReadMarker(t)
    PROVE  PubInv'
<1>1. /\ step[t] = "recover"
      /\ UNCHANGED <<record, locked, step, write, answer, result, reviewed, github>>
  BY DEF ReadMarker
<1>2. PICK w \in todo[t] :
         /\ todo' = [todo EXCEPT ![t] = @ \ {w}]
         /\ \/ \E sight \in Readings(Sees(w)) :
                  LET o == Recovered(sight)
                      old == IF w[1] = "comment" THEN pub[w[2]] ELSE appr[w[2]] IN
                  found' = IF o = "confirmed" \/ old = "pending"
                             THEN [found EXCEPT ![t] = @ \cup {<<w, o>>}] ELSE found
            \/ w[1] = "comment" /\ w[2] \notin Reviews /\ UNCHANGED found
  BY DEF ReadMarker
<1>3. TypeRecord /\ TypeWriters /\ TypeGithub /\ TaskSound(t) /\ t \in Writers
  BY TaskFacts DEF PubInv
<1>4. Unsettles(t, w) /\ w \in TaskWrites /\ w \in Writes
  BY <1>3, WriteForms DEF TaskSound, OwnRecovery, Unsettles
<1>5. \/ found' = found
      \/ \E o \in {"confirmed", "unknown"} :
            /\ found' = [found EXCEPT ![t] = @ \cup {<<w, o>>}]
            /\ o = "confirmed" => There(w)
  <2>1. ASSUME NEW sight \in Readings(Sees(w))
        PROVE  /\ Recovered(sight) \in {"confirmed", "unknown"}
               /\ Recovered(sight) = "confirmed" => There(w)
    <3>1. sight = "there" => Sees(w)
      BY DEF Readings
    <3>2. QED
      BY <1>4, <3>1, SeenIsThere DEF Recovered
  <2>2. CASE \E sight \in Readings(Sees(w)) :
               \/ found' = found
               \/ found' = [found EXCEPT ![t] = @ \cup {<<w, Recovered(sight)>>}]
    BY <2>1, <2>2
  <2>3. QED
    BY <1>2, <2>2
<1>6. todo'[t] \subseteq todo[t] /\ \A u \in Tasks \ {t} : todo'[u] = todo[u]
  BY <1>2, <1>3 DEF TypeWriters
<1>7. /\ \A u \in Tasks \ {t} : found'[u] = found[u]
      /\ \A p \in found'[t] : \/ p \in found[t]
                              \/ /\ p[1] = w /\ p[2] \in {"confirmed", "unknown"}
                                 /\ p[2] = "confirmed" => There(w)
  <2>1. CASE found' = found
    BY <2>1
  <2>2. CASE found' # found
    <3>1. PICK o \in {"confirmed", "unknown"} :
             /\ found' = [found EXCEPT ![t] = @ \cup {<<w, o>>}]
             /\ o = "confirmed" => There(w)
      BY <1>5, <2>2
    <3>2. found'[t] = found[t] \cup {<<w, o>>} /\ \A u \in Tasks \ {t} : found'[u] = found[u]
      BY <1>3, <3>1 DEF TypeWriters
    <3>3. QED
      BY <3>1, <3>2
  <2>3. QED
    BY <2>1, <2>2
<1>8. TypeRecord' /\ TypeGithub'
  BY <1>1, <1>3 DEF TypeRecord, TypeGithub, record, github
<1>9. TypeWriters'
  <2>1. todo' \in [Tasks -> SUBSET Writes]
    BY <1>2, <1>3 DEF TypeWriters
  <2>2. found' \in [Tasks -> SUBSET (Writes \X Outcomes)]
    <3>1. CASE found' = found
      BY <1>3, <3>1 DEF TypeWriters
    <3>2. ASSUME NEW o \in {"confirmed", "unknown"}, found' = [found EXCEPT ![t] = @ \cup {<<w, o>>}]
          PROVE  found' \in [Tasks -> SUBSET (Writes \X Outcomes)]
      <4>1. <<w, o>> \in Writes \X Outcomes
        BY <1>4 DEF Outcomes
      <4>2. found \in [Tasks -> SUBSET (Writes \X Outcomes)]
        BY <1>3 DEF TypeWriters
      <4>3. QED
        BY <3>2, <4>1, <4>2
    <3>3. QED
      BY <1>5, <3>1, <3>2
  <2>3. QED
    BY <1>1, <1>3, <2>1, <2>2 DEF TypeWriters
<1>10. OthersRest(t)
  BY <1>1, <1>6, <1>7 DEF OthersRest
<1>11. /\ \A v : Marker(v)' = Marker(v) /\ (Touched(v)' <=> Touched(v))
       /\ \A v \in TaskWrites : There(v) => There(v)'
       /\ \A v \in TaskWrites : MarkerTrue(v)'
       /\ \A v \in Writes : Once(v)'
  BY <1>1, NothingMarked DEF record, github
<1>12. holder' = holder /\ (Holds(t)' <=> Holds(t))
  BY <1>1 DEF record, Holds
<1>13. TaskSound(t)'
  <2>1. Unmarked(t)' /\ OwnWrite(t)'
    BY <1>1, <1>3 DEF record, Unmarked, OwnWrite, Writing, TaskSound
  <2>2. \A v : Unsettles(t, v) => Unsettles(t, v)'
    BY <1>11, <1>12 DEF Unsettles
  <2>3. \A v \in todo'[t] : Unsettles(t, v)'
    BY <1>3, <1>6, <2>2 DEF TaskSound, OwnRecovery
  <2>4. \A p \in found'[t] : /\ Unsettles(t, p[1])'
                             /\ p[2] \in {"confirmed", "unknown"}
                             /\ p[2] = "confirmed" => There(p[1])'
    <3> SUFFICES ASSUME NEW p \in found'[t]
                 PROVE  /\ Unsettles(t, p[1])' /\ p[2] \in {"confirmed", "unknown"}
                        /\ p[2] = "confirmed" => There(p[1])'
      OBVIOUS
    <3>1. CASE p \in found[t]
      <4>1. /\ Unsettles(t, p[1]) /\ p[2] \in {"confirmed", "unknown"}
            /\ p[2] = "confirmed" => There(p[1])
        BY <1>3, <3>1 DEF TaskSound, OwnRecovery
      <4>2. p[1] \in TaskWrites
        BY <4>1 DEF Unsettles
      <4>3. QED
        BY <1>11, <2>2, <4>1, <4>2
    <3>2. CASE p \notin found[t]
      BY <1>4, <1>7, <1>11, <2>2, <3>2
    <3>3. QED
      BY <3>1, <3>2
  <2>5. OwnRecovery(t)'
    BY <1>1, <2>3, <2>4 DEF OwnRecovery
  <2>6. QED
    BY <2>1, <2>5 DEF TaskSound
<1>14. prNumber' = prNumber /\ (prNumber => prs > 0) /\ UNCHANGED <<prMarker, prs, done>>
  BY <1>1 DEF record, github, PubInv, CreationSound
<1>15. \A u \in Tasks : Holds(u)' => Holds(u)
  BY <1>12 DEF Holds
<1>16. QED
  BY <1>8, <1>9, <1>10, <1>11, <1>13, <1>14, <1>15, TaskActs

\* What a recovery has read settles markers that were unsettled, and no other.
LEMMA SaveRecoveryKeeps ==
    ASSUME PubInv, NEW t \in Tasks, SaveRecovery(t)
    PROVE  PubInv'
<1>1. /\ step[t] = "recover" /\ todo[t] = {}
      /\ IF Holds(t)
           THEN /\ pub' = Applied(pub, t, "comment", "posted")
                /\ appr' = Applied(appr, t, "approve", "confirmed")
           ELSE UNCHANGED <<pub, appr>>
      /\ found' = [found EXCEPT ![t] = {}]
      /\ step' = [step EXCEPT ![t] = "work"]
      /\ UNCHANGED <<holder, events, passed, prMarker, prNumber, locked,
                     write, answer, result, todo, reviewed, github>>
  BY DEF SaveRecovery, Goes
<1>2. TypeRecord /\ TypeWriters /\ TypeGithub /\ TaskSound(t) /\ t \in Writers
  BY TaskFacts DEF PubInv
<1>3. ASSUME NEW u \in Tasks
      PROVE  /\ \/ pub'[u] = pub[u]
                \/ Holds(t) /\ <<Comment(u), "confirmed">> \in found[t] /\ pub'[u] = "posted"
                \/ Holds(t) /\ <<Comment(u), "unknown">> \in found[t] /\ pub'[u] = "unknown"
             /\ \/ appr'[u] = appr[u]
                \/ Holds(t) /\ <<Approval(u), "confirmed">> \in found[t] /\ appr'[u] = "confirmed"
                \/ Holds(t) /\ <<Approval(u), "unknown">> \in found[t] /\ appr'[u] = "unknown"
  <2>1. CASE Holds(t)
    <3>1. pub'[u] = IF <<Comment(u), "confirmed">> \in found[t] THEN "posted"
                    ELSE IF <<Comment(u), "unknown">> \in found[t] THEN "unknown" ELSE pub[u]
      BY <1>1, <2>1 DEF Applied, Comment
    <3>2. appr'[u] = IF <<Approval(u), "confirmed">> \in found[t] THEN "confirmed"
                     ELSE IF <<Approval(u), "unknown">> \in found[t] THEN "unknown" ELSE appr[u]
      BY <1>1, <2>1 DEF Applied, Approval
    <3>3. QED
      BY <2>1, <3>1, <3>2
  <2>2. CASE ~Holds(t)
    BY <1>1, <2>2
  <2>3. QED
    BY <2>1, <2>2
<1>4. \A w \in TaskWrites :
          \/ Marker(w)' = Marker(w)
          \/ Holds(t) /\ <<w, "confirmed">> \in found[t] /\ Marker(w)' \in {"posted", "confirmed"}
          \/ Holds(t) /\ <<w, "unknown">> \in found[t] /\ Marker(w)' = "unknown"
  <2> SUFFICES ASSUME NEW w \in TaskWrites
               PROVE  \/ Marker(w)' = Marker(w)
                      \/ Holds(t) /\ <<w, "confirmed">> \in found[t]
                         /\ Marker(w)' \in {"posted", "confirmed"}
                      \/ Holds(t) /\ <<w, "unknown">> \in found[t] /\ Marker(w)' = "unknown"
    OBVIOUS
  <2>1. PICK u \in Tasks : w = Comment(u) \/ w = Approval(u)
    BY WriteForms DEF Own
  <2>2. CASE w = Comment(u)
    BY <1>3, <2>2, MarkerForms, MarkerFormsNext
  <2>3. CASE w = Approval(u)
    BY <1>3, <2>3, MarkerForms, MarkerFormsNext
  <2>4. QED
    BY <2>1, <2>2, <2>3
<1>5. \A w, o : <<w, o>> \in found[t] =>
          /\ Unsettles(t, w) /\ (o = "confirmed" => There(w))
  BY <1>2 DEF TaskSound, OwnRecovery
<1>6. \A w \in TaskWrites :
          \/ Marker(w)' = Marker(w)
          \/ /\ Marker(w) \in {"pending", "unknown"} /\ Holds(t)
             /\ \/ Marker(w)' = "unknown"
                \/ Marker(w)' \in {"posted", "confirmed"} /\ There(w)
  BY <1>4, <1>5 DEF Unsettles
<1>7. \A w : (Touched(w)' <=> Touched(w)) /\ (There(w)' <=> There(w)) /\ (Once(w)' <=> Once(w))
  BY <1>1 DEF Touched, There, Once, github
<1>8. \A w \in TaskWrites : MarkerTrue(w)'
  <2> SUFFICES ASSUME NEW w \in TaskWrites PROVE MarkerTrue(w)'
    OBVIOUS
  <2>1. CASE Marker(w)' = Marker(w)
    BY <1>7, <2>1 DEF PubInv, MarkerTrue
  <2>2. CASE Marker(w)' = "unknown"
    BY <2>2 DEF MarkerTrue
  <2>3. CASE Marker(w)' \in {"posted", "confirmed"} /\ There(w)
    BY <1>7, <2>3 DEF MarkerTrue
  <2>4. QED
    BY <1>6, <2>1, <2>2, <2>3
<1>9. TypeRecord' /\ TypeGithub'
  <2>1. pub' \in [Tasks -> {"none", "pending", "posted", "linked", "failed", "unknown"}]
    <3>1. \A u \in Tasks : pub'[u] \in {"none", "pending", "posted", "linked", "failed", "unknown"}
      BY <1>2, <1>3 DEF TypeRecord
    <3>2. pub' = [u \in Tasks |-> pub'[u]]
      BY <1>1, <1>2 DEF Applied, TypeRecord
    <3>3. QED
      BY <3>1, <3>2
  <2>2. appr' \in [Tasks -> {"none", "pending"} \cup Outcomes]
    <3>1. \A u \in Tasks : appr'[u] \in {"none", "pending"} \cup Outcomes
      BY <1>2, <1>3 DEF TypeRecord, Outcomes
    <3>2. appr' = [u \in Tasks |-> appr'[u]]
      BY <1>1, <1>2 DEF Applied, TypeRecord
    <3>3. QED
      BY <3>1, <3>2
  <2>3. QED
    BY <1>1, <1>2, <2>1, <2>2 DEF TypeRecord, TypeGithub, github
<1>10. TypeWriters'
  BY <1>1, <1>2 DEF TypeWriters, Busy
<1>11. OthersRest(t)
  BY <1>1, <1>2 DEF OthersRest, TypeWriters
<1>12. TaskSound(t)'
  <2>1. step'[t] = "work" /\ todo'[t] = {} /\ found'[t] = {}
    BY <1>1, <1>2 DEF TypeWriters
  <2>2. Marker(Comment(t)) = "none" /\ Marker(Approval(t)) = "none"
    BY <1>1, <1>2, MarkerForms DEF TaskSound, Unmarked
  <2>3. Marker(Comment(t))' = "none" /\ Marker(Approval(t))' = "none"
    BY <1>6, <2>2, WriteForms
  <2>4. pub'[t] = "none" /\ appr'[t] = "none"
    BY <2>3, MarkerFormsNext
  <2>5. QED
    BY <2>1, <2>4 DEF TaskSound, Unmarked, OwnWrite, OwnRecovery, Writing
<1>13. ASSUME NEW u \in Tasks \ {t}, Holds(u)'
       PROVE  Holds(u) /\ \A w \in TaskWrites : Marker(w)' = Marker(w)
  <2>1. Holds(u) /\ ~Holds(t)
    BY <1>1, <1>13 DEF Holds
  <2>2. QED
    BY <1>6, <2>1
<1>14. prNumber' = prNumber /\ (prNumber => prs > 0) /\ UNCHANGED <<prMarker, prs, done>>
  BY <1>1 DEF github, PubInv, CreationSound
<1>15. \A w \in TaskWrites :
           /\ Marker(w) # "none" => Marker(w)' # "none"
           /\ Marker(w)' = Marker(w) \/ (Marker(w) # "none" /\ Marker(w)' \notin {"none", "failed"})
  BY <1>6
<1>16. \A w \in Writes : Once(w)'
  BY <1>7 DEF PubInv
<1>17. QED
  BY <1>7, <1>8, <1>9, <1>10, <1>11, <1>12, <1>13, <1>14, <1>15, <1>16, TaskActs

LEMMA StopKeeps ==
    ASSUME PubInv, NEW t \in Tasks, Stop(t)
    PROVE  PubInv'
<1>1. /\ holder' = None
      /\ UNCHANGED <<events, passed, pub, appr, prMarker, prNumber, locked, writers, github>>
  BY DEF Stop
<1>2. TypeRecord' /\ TypeWriters' /\ TypeGithub'
  BY <1>1 DEF PubInv, TypeRecord, TypeWriters, TypeGithub, writers, github
<1>3. OthersRest(t)
  BY <1>1 DEF OthersRest, writers
<1>4. /\ \A v : Marker(v)' = Marker(v) /\ (Touched(v)' <=> Touched(v))
      /\ \A v \in TaskWrites : There(v) => There(v)'
      /\ \A v \in TaskWrites : MarkerTrue(v)'
      /\ \A v \in Writes : Once(v)'
  BY <1>1, NothingMarked DEF writers, github
<1>5. \A u \in Tasks : ~Holds(u)'
  BY <1>1, TaskFacts DEF Holds
<1>6. TaskSound(t)'
  <2>1. TaskSound(t) /\ Own(t) \subseteq TaskWrites
    BY WriteForms DEF PubInv, Own
  <2>2. UNCHANGED <<step, write, answer, result, todo, found>>
    BY <1>1 DEF writers
  <2>3. QED
    BY <1>4, <1>5, <2>1, <2>2, OtherTask
<1>7. prNumber' = prNumber /\ (prNumber => prs > 0) /\ UNCHANGED <<prMarker, prs, done>>
  BY <1>1 DEF github, PubInv, CreationSound
<1>8. QED
  BY <1>2, <1>3, <1>4, <1>5, <1>6, <1>7, TaskActs


LEMMA ReportKeeps ==
    ASSUME PubInv, NEW t \in Tasks, Report(t)
    PROVE  PubInv'
<1>1. /\ step[t] = "work"
      /\ UNCHANGED <<holder, pub, appr, prMarker, locked, answer, result, todo, found, reviewed, github>>
  BY DEF Report
<1>2. \/ /\ events' = events \cup {t}
         /\ \E verdict \in IF t \in Reviews THEN BOOLEAN ELSE {FALSE} :
               passed' = IF verdict THEN passed \cup {t} ELSE passed
         /\ \E detected \in IF t \in Reviews \/ prs = 0 THEN {FALSE} ELSE BOOLEAN :
               prNumber' = (prNumber \/ detected)
         /\ write' = [write EXCEPT ![t] = Comment(t)]
         /\ step' = [step EXCEPT ![t] = "ready"]
      \/ /\ step' = [step EXCEPT ![t] = "done"]
         /\ UNCHANGED <<events, passed, write, prNumber>>
  BY DEF Report, Goes
<1>3. TypeRecord /\ TypeWriters /\ TypeGithub /\ TaskSound(t) /\ t \in Writers
  BY TaskFacts DEF PubInv
<1>4. prNumber => prs > 0
  BY DEF PubInv, CreationSound
<1>5. prNumber' \in BOOLEAN /\ (prNumber => prNumber') /\ (prNumber' => prs > 0)
  <2>1. CASE prNumber' = prNumber
    BY <1>3, <1>4, <2>1 DEF TypeRecord
  <2>2. ASSUME NEW detected \in IF t \in Reviews \/ prs = 0 THEN {FALSE} ELSE BOOLEAN,
               prNumber' = (prNumber \/ detected)
        PROVE  prNumber' \in BOOLEAN /\ (prNumber => prNumber') /\ (prNumber' => prs > 0)
    <3>1. detected \in BOOLEAN /\ (detected => prs # 0)
      OBVIOUS
    <3>2. prs # 0 => prs > 0
      BY <1>3 DEF TypeGithub
    <3>3. QED
      BY <1>3, <1>4, <2>2, <3>1, <3>2 DEF TypeRecord
  <2>3. QED
    BY <1>2, <2>1, <2>2
<1>6. events' \subseteq Tasks /\ passed' \subseteq events' \cap Reviews
  <2>1. CASE UNCHANGED <<events, passed>>
    BY <1>3, <2>1 DEF TypeRecord
  <2>2. ASSUME events' = events \cup {t},
               NEW verdict \in IF t \in Reviews THEN BOOLEAN ELSE {FALSE},
               passed' = IF verdict THEN passed \cup {t} ELSE passed
        PROVE  events' \subseteq Tasks /\ passed' \subseteq events' \cap Reviews
    <3>1. verdict => t \in Reviews
      OBVIOUS
    <3>2. passed \subseteq events \cap Reviews /\ events \subseteq Tasks
      BY <1>3 DEF TypeRecord
    <3>3. CASE verdict
      BY <2>2, <3>1, <3>2, <3>3
    <3>4. CASE ~verdict
      BY <2>2, <3>2, <3>4
    <3>5. QED
      BY <3>3, <3>4
  <2>3. QED
    BY <1>2, <2>1, <2>2
<1>7. /\ step'[t] \in {"ready", "done"} /\ (step'[t] = "ready" => write'[t] = Comment(t))
      /\ step' \in [Writers -> {"idle", "done"} \cup Busy]
      /\ write' \in [Writers -> Writes \cup {None}]
      /\ OthersRest(t)
  <2>1. CASE step' = [step EXCEPT ![t] = "ready"] /\ write' = [write EXCEPT ![t] = Comment(t)]
    BY <1>1, <1>3, <2>1, WriteForms DEF TypeWriters, Busy, OthersRest
  <2>2. CASE step' = [step EXCEPT ![t] = "done"] /\ write' = write
    BY <1>1, <1>3, <2>2 DEF TypeWriters, Busy, OthersRest
  <2>3. QED
    BY <1>2, <2>1, <2>2
<1>8. TypeRecord' /\ TypeGithub'
  BY <1>1, <1>3, <1>5, <1>6 DEF TypeRecord, TypeGithub, github
<1>9. TypeWriters'
  BY <1>1, <1>3, <1>7 DEF TypeWriters
<1>10. /\ \A v : Marker(v)' = Marker(v) /\ (Touched(v)' <=> Touched(v))
       /\ \A v \in TaskWrites : There(v) => There(v)'
       /\ \A v \in TaskWrites : MarkerTrue(v)'
       /\ \A v \in Writes : Once(v)'
  BY <1>1, NothingMarked DEF github
<1>11. TaskSound(t)'
  <2>1. pub'[t] = "none" /\ appr'[t] = "none" /\ todo'[t] = {} /\ found'[t] = {}
    BY <1>1, <1>3 DEF TaskSound, Unmarked, OwnRecovery
  <2>2. Marker(Comment(t))' = "none"
    BY <2>1, MarkerFormsNext
  <2>3. step'[t] # "ready" => OwnWrite(t)'
    BY <1>7 DEF OwnWrite, Writing
  <2>4. step'[t] = "ready" => OwnWrite(t)'
    <3>1. CASE write'[t] = Comment(t)
      <4>1. Marker(write[t])' = "none"
        BY <2>1, <3>1, WriteForms DEF Marker
      <4>2. QED
        BY <2>1, <3>1, <4>1 DEF OwnWrite, Own
    <3>2. QED
      BY <1>7, <3>1
  <2>5. QED
    BY <1>7, <2>1, <2>3, <2>4 DEF TaskSound, Unmarked, OwnRecovery
<1>12. \A u \in Tasks : Holds(u)' => Holds(u)
  BY <1>1 DEF Holds
<1>13. UNCHANGED <<prMarker, prs, done>>
  BY <1>1 DEF github
<1>14. QED
  BY <1>5, <1>7, <1>8, <1>9, <1>10, <1>11, <1>12, <1>13, TaskActs

\* The outcome goes into the record only while the task has the workflow, and its marker
\* was unsettled until then.
LEMMA StoreKeeps ==
    ASSUME PubInv, NEW t \in Tasks, Store(t)
    PROVE  PubInv'
<1>1. /\ step[t] = "store"
      /\ pub' = IF Holds(t) /\ write[t] = Comment(t) THEN [pub EXCEPT ![t] = Status(t)] ELSE pub
      /\ appr' = IF Holds(t) /\ write[t] = Approval(t) /\ appr[t] # "none"
                   THEN [appr EXCEPT ![t] = result[t]] ELSE appr
      /\ write' = [write EXCEPT ![t] = IF Approves(t) THEN Approval(t) ELSE None]
      /\ answer' = [answer EXCEPT ![t] = None]
      /\ result' = [result EXCEPT ![t] = None]
      /\ step' = [step EXCEPT ![t] = IF Approves(t) THEN "ready"
                                     ELSE IF t \in Reviews THEN "done" ELSE "edit"]
      /\ UNCHANGED <<holder, events, passed, prMarker, prNumber, locked, todo, found, reviewed, github>>
  BY DEF Store, Goes
<1>2. TypeRecord /\ TypeWriters /\ TypeGithub /\ TaskSound(t) /\ t \in Writers
  BY TaskFacts DEF PubInv
<1>3. /\ write[t] \in Own(t) /\ write[t] \in TaskWrites
      /\ write[t] = Comment(t) => appr[t] = "none"
      /\ Marker(write[t]) # "failed"
      /\ Holds(t) => Marker(write[t]) \in {"none", "pending"}
      /\ result[t] \in Outcomes
      /\ result[t] = "failed" => ~Touched(write[t])
      /\ result[t] = "confirmed" => There(write[t])
  BY <1>1, <1>2, WriteForms DEF TaskSound, OwnWrite, Writing, Own
<1>4. /\ Comment(t) # Approval(t) /\ (write[t] = Comment(t) \/ write[t] = Approval(t))
      /\ Status(t) \in {"failed", "unknown", "linked", "posted"}
      /\ Status(t) = "failed" <=> result[t] = "failed"
      /\ Status(t) \in {"linked", "posted"} <=> result[t] = "confirmed"
  BY <1>3, WriteForms DEF Own, Status, Outcomes
<1>5. \A u \in Tasks \ {t} : pub'[u] = pub[u] /\ appr'[u] = appr[u]
  BY <1>1, <1>2 DEF TypeRecord
<1>6. /\ pub'[t] = IF Holds(t) /\ write[t] = Comment(t) THEN Status(t) ELSE pub[t]
      /\ appr'[t] = IF Holds(t) /\ write[t] = Approval(t) /\ appr[t] # "none" THEN result[t] ELSE appr[t]
  BY <1>1, <1>2 DEF TypeRecord
<1>7. \A w \in TaskWrites \ Own(t) : Marker(w)' = Marker(w)
  <2> SUFFICES ASSUME NEW w \in TaskWrites \ Own(t) PROVE Marker(w)' = Marker(w)
    OBVIOUS
  <2>1. w[2] \in Tasks \ {t}
    BY WriteForms
  <2>2. QED
    BY <1>5, <2>1 DEF Marker
<1>8. \A w : (Touched(w)' <=> Touched(w)) /\ (There(w)' <=> There(w)) /\ (Once(w)' <=> Once(w))
  BY <1>1 DEF Touched, There, Once, github
<1>9. \A w \in Own(t) : \/ Marker(w)' = Marker(w)
                        \/ /\ w = write[t] /\ Marker(w)' # "none"
                           /\ Marker(w)' = "failed" => result[t] = "failed"
                           /\ Marker(w)' \in {"posted", "linked", "confirmed"} => result[t] = "confirmed"
  <2> SUFFICES ASSUME NEW w \in Own(t)
               PROVE  \/ Marker(w)' = Marker(w)
                      \/ /\ w = write[t] /\ Marker(w)' # "none"
                         /\ Marker(w)' = "failed" => result[t] = "failed"
                         /\ Marker(w)' \in {"posted", "linked", "confirmed"} => result[t] = "confirmed"
    OBVIOUS
  <2>1. CASE w = Comment(t)
    BY <1>4, <1>6, <2>1, MarkerForms, MarkerFormsNext
  <2>2. CASE w = Approval(t)
    BY <1>3, <1>4, <1>6, <2>2, MarkerForms, MarkerFormsNext DEF Outcomes
  <2>3. QED
    BY <2>1, <2>2 DEF Own
<1>10. \A w \in TaskWrites : MarkerTrue(w)'
  <2> SUFFICES ASSUME NEW w \in TaskWrites PROVE MarkerTrue(w)'
    OBVIOUS
  <2>1. CASE Marker(w)' = Marker(w)
    BY <1>8, <2>1 DEF PubInv, MarkerTrue
  <2>2. CASE Marker(w)' # Marker(w)
    <3>1. /\ w = write[t] /\ Marker(w)' # "none"
          /\ Marker(w)' = "failed" => result[t] = "failed"
          /\ Marker(w)' \in {"posted", "linked", "confirmed"} => result[t] = "confirmed"
      BY <1>7, <1>9, <2>2
    <3>2. QED
      BY <1>3, <1>8, <3>1 DEF MarkerTrue
  <2>3. QED
    BY <2>1, <2>2
<1>11. \A w \in TaskWrites : Marker(w) # "none" => Marker(w)' # "none"
  BY <1>7, <1>9
<1>12. TypeRecord' /\ TypeGithub'
  <2>1. pub' \in [Tasks -> {"none", "pending", "posted", "linked", "failed", "unknown"}]
    BY <1>1, <1>2, <1>4 DEF TypeRecord
  <2>2. appr' \in [Tasks -> {"none", "pending"} \cup Outcomes]
    BY <1>1, <1>2, <1>3 DEF TypeRecord
  <2>3. QED
    BY <1>1, <1>2, <2>1, <2>2 DEF TypeRecord, TypeGithub, github
<1>13. TypeWriters'
  <2>1. step' \in [Writers -> {"idle", "done"} \cup Busy]
    BY <1>1, <1>2 DEF TypeWriters, Busy
  <2>2. Approval(t) \in Writes
    BY WriteForms
  <2>3. write' \in [Writers -> Writes \cup {None}]
    BY <1>1, <1>2, <2>2 DEF TypeWriters
  <2>4. QED
    BY <1>1, <1>2, <2>1, <2>3 DEF TypeWriters
<1>14. OthersRest(t)
  BY <1>1, <1>2 DEF OthersRest, TypeWriters
<1>15. TaskSound(t)'
  <2>1. todo'[t] = {} /\ found'[t] = {}
    BY <1>1, <1>2 DEF TaskSound, OwnRecovery
  <2>2. CASE Approves(t)
    <3>1. step'[t] = "ready" /\ write'[t] = Approval(t)
      BY <1>1, <1>2, <2>2 DEF TypeWriters
    <3>2. appr'[t] = "none"
      BY <1>3, <1>4, <1>6, <2>2 DEF Approves
    <3>3. Marker(write[t])' = "none"
      BY <3>1, <3>2, WriteForms DEF Marker
    <3>4. OwnWrite(t)'
      BY <1>4, <3>1, <3>2, <3>3, WriteForms DEF OwnWrite, Own
    <3>5. QED
      BY <2>1, <3>1, <3>4 DEF TaskSound, Unmarked, OwnRecovery
  <2>3. CASE ~Approves(t)
    <3>1. step'[t] \in {"done", "edit"}
      BY <1>1, <1>2, <2>3 DEF TypeWriters
    <3>2. QED
      BY <2>1, <3>1 DEF TaskSound, Unmarked, OwnWrite, OwnRecovery, Writing
  <2>4. QED
    BY <2>2, <2>3
<1>16. ASSUME NEW u \in Tasks \ {t}, Holds(u)'
       PROVE  Holds(u) /\ \A w \in TaskWrites : Marker(w)' = Marker(w)
  <2>1. Holds(u) /\ ~Holds(t)
    BY <1>1, <1>16 DEF Holds
  <2>2. pub' = pub /\ appr' = appr
    BY <1>1, <2>1
  <2>3. QED
    BY <2>1, <2>2 DEF Marker
<1>17. prNumber' = prNumber /\ (prNumber => prs > 0) /\ UNCHANGED <<prMarker, prs, done>>
  BY <1>1 DEF github, PubInv, CreationSound
<1>18. \A w \in Writes : Once(w)'
  BY <1>8 DEF PubInv
<1>19. QED
  BY <1>7, <1>8, <1>10, <1>11, <1>12, <1>13, <1>14, <1>15, <1>16, <1>17, <1>18, TaskActs

LEMMA RemarkKeeps ==
    ASSUME PubInv, NEW t \in Tasks, Remark(t)
    PROVE  PubInv'
<1>1. /\ step[t] = "edit" /\ step' = [step EXCEPT ![t] = "done"]
      /\ UNCHANGED <<record, locked, write, answer, result, todo, found, reviewed,
                     head, prs, done, on, air>>
  BY DEF Remark, Goes
<1>2. TypeRecord /\ TypeWriters /\ TypeGithub /\ TaskSound(t) /\ t \in Writers
  BY TaskFacts DEF PubInv
<1>3. edited' \subseteq Reviews
  <2> DEFINE failed == {u \in events \cap Reviews : u < t /\ u \notin passed}
             last == {u \in failed : \A v \in failed : v <= u /\ pub[u] = "linked"}
  <2>1. \E marked \in {{}, last} : edited' = edited \cup marked
    BY DEF Remark
  <2>2. last \subseteq Reviews
    OBVIOUS
  <2>3. QED
    BY <1>2, <2>1, <2>2 DEF TypeGithub
<1>4. TypeRecord' /\ TypeWriters' /\ TypeGithub'
  <2>1. TypeWriters'
    BY <1>1, <1>2 DEF TypeWriters
  <2>2. TypeRecord' /\ TypeGithub'
    BY <1>1, <1>2, <1>3 DEF TypeRecord, TypeGithub, record
  <2>3. QED
    BY <2>1, <2>2
<1>5. OthersRest(t)
  BY <1>1, <1>2 DEF OthersRest, TypeWriters
<1>6. /\ \A v : Marker(v)' = Marker(v) /\ (Touched(v)' <=> Touched(v))
      /\ \A v \in TaskWrites : There(v) => There(v)'
      /\ \A v \in TaskWrites : MarkerTrue(v)'
      /\ \A v \in Writes : Once(v)'
  BY <1>1, NothingMarked DEF record
<1>7. TaskSound(t)'
  <2>1. step'[t] = "done" /\ todo'[t] = {} /\ found'[t] = {}
    BY <1>1, <1>2 DEF TypeWriters, TaskSound, OwnRecovery
  <2>2. QED
    BY <2>1 DEF TaskSound, Unmarked, OwnWrite, OwnRecovery, Writing
<1>8. \A u \in Tasks : Holds(u)' => Holds(u)
  BY <1>1 DEF Holds, record
<1>9. prNumber' = prNumber /\ (prNumber => prs > 0) /\ UNCHANGED <<prMarker, prs, done>>
  BY <1>1 DEF record, PubInv, CreationSound
<1>10. QED
  BY <1>4, <1>5, <1>6, <1>7, <1>8, <1>9, TaskActs



(***************************************************************************)
(* The write transaction of a task                                         *)
(***************************************************************************)

\* The state of a write under way, as the steps of the transaction need it.
LEMMA OwnWriteFacts ==
    ASSUME PubInv, NEW t \in Tasks, step[t] \in Writing
    PROVE  /\ write[t] \in Own(t) /\ write[t] \in TaskWrites /\ write[t] \in Writes
           /\ write[t] = Comment(t) \/ write[t] = Approval(t)
           /\ TaskSound(t) /\ t \in Writers /\ todo[t] = {} /\ found[t] = {}
<1>1. TaskSound(t) /\ t \in Writers
  BY TaskFacts DEF PubInv
<1>2. write[t] \in Own(t) /\ todo[t] = {} /\ found[t] = {}
  BY <1>1 DEF TaskSound, OwnWrite, OwnRecovery, Writing
<1>3. QED
  BY <1>1, <1>2, WriteForms DEF Own

\* What a task sends has left its marker; a mark that cannot be made ends the write, and
\* then nothing was sent.
LEMMA MarkKeeps ==
    ASSUME PubInv, NEW t \in Tasks, Mark(t)
    PROVE  PubInv'
<1>1. /\ step[t] = "ready" /\ t # Creation
      /\ \/ /\ Holds(t)
            /\ pub' = IF write[t] = Comment(t) THEN [pub EXCEPT ![t] = "pending"] ELSE pub
            /\ appr' = IF write[t] = Approval(t) /\ appr[t] = "none"
                         THEN [appr EXCEPT ![t] = "pending"] ELSE appr
            /\ prMarker' = prMarker
            /\ step' = [step EXCEPT ![t] = "marked"]
            /\ result' = result
         \/ /\ result' = [result EXCEPT ![t] = "failed"]
            /\ step' = [step EXCEPT ![t] = "store"]
            /\ UNCHANGED <<pub, appr, prMarker>>
      /\ UNCHANGED <<holder, events, passed, prNumber, locked, write, answer,
                     todo, found, reviewed, github>>
  <2>1. t # Creation /\ prMarker \in BOOLEAN
    BY TaskFacts DEF PubInv, TypeRecord
  <2>2. QED
    BY <2>1 DEF Mark, Ends, Goes
<1>2. /\ write[t] \in Own(t) /\ write[t] \in TaskWrites /\ write[t] \in Writes
      /\ write[t] = Comment(t) \/ write[t] = Approval(t)
      /\ TaskSound(t) /\ t \in Writers /\ todo[t] = {} /\ found[t] = {}
  BY <1>1, OwnWriteFacts DEF Writing
<1>3. TypeRecord /\ TypeWriters /\ TypeGithub
  BY DEF PubInv
<1>4. Marker(write[t]) = "none" /\ ~Touched(write[t]) /\ (write[t] = Comment(t) => appr[t] = "none")
  BY <1>1, <1>2 DEF TaskSound, OwnWrite, Writing, PubInv, MarkerTrue
<1>5. \A w : (Touched(w)' <=> Touched(w)) /\ (There(w)' <=> There(w)) /\ (Once(w)' <=> Once(w))
  BY <1>1 DEF Touched, There, Once, github
<1>6. /\ \A u \in Tasks \ {t} : pub'[u] = pub[u] /\ appr'[u] = appr[u]
      /\ pub'[t] = pub[t] \/ (Holds(t) /\ write[t] = Comment(t) /\ pub'[t] = "pending")
      /\ appr'[t] = appr[t] \/ (Holds(t) /\ write[t] = Approval(t) /\ appr'[t] = "pending")
      /\ step'[t] = "marked" /\ write[t] = Comment(t) => pub'[t] = "pending"
      /\ step'[t] = "marked" /\ write[t] = Approval(t) => appr'[t] = "pending"
  <2>1. write[t] = Approval(t) => appr[t] = "none"
    BY <1>4, MarkerForms
  <2>2. QED
    BY <1>1, <1>2, <1>3, <2>1, WriteForms DEF TypeRecord, TypeWriters
<1>7. \A w \in TaskWrites : Marker(w)' = Marker(w)
                            \/ (Holds(t) /\ w = write[t] /\ Marker(w)' = "pending")
  <2> SUFFICES ASSUME NEW w \in TaskWrites
               PROVE  Marker(w)' = Marker(w) \/ (Holds(t) /\ w = write[t] /\ Marker(w)' = "pending")
    OBVIOUS
  <2>1. w[2] \in Tasks /\ (w = Comment(w[2]) \/ w = Approval(w[2]))
    BY WriteForms DEF Own
  <2>2. CASE w[2] = t
    BY <1>6, <2>1, <2>2, MarkerForms, MarkerFormsNext
  <2>3. CASE w[2] # t
    BY <1>6, <2>1, <2>3 DEF Marker
  <2>4. QED
    BY <2>2, <2>3
<1>8. /\ \A w \in TaskWrites : MarkerTrue(w)'
      /\ \A w \in TaskWrites : Marker(w) # "none" => Marker(w)' # "none"
      /\ \A w \in TaskWrites \ Own(t) : Marker(w)' = Marker(w)
  <2>1. \A w \in TaskWrites : MarkerTrue(w)'
    BY <1>5, <1>7 DEF PubInv, MarkerTrue
  <2>2. QED
    BY <1>2, <1>7, <2>1
<1>9. TypeRecord' /\ TypeWriters' /\ TypeGithub'
  <2>1. pub' \in [Tasks -> {"none", "pending", "posted", "linked", "failed", "unknown"}]
        /\ appr' \in [Tasks -> {"none", "pending"} \cup Outcomes]
    BY <1>1, <1>3 DEF TypeRecord
  <2>2. TypeRecord' /\ TypeGithub'
    BY <1>1, <1>3, <2>1 DEF TypeRecord, TypeGithub, github
  <2>3. step' \in [Writers -> {"idle", "done"} \cup Busy] /\ result' \in [Writers -> Outcomes \cup {None}]
    BY <1>1, <1>3 DEF TypeWriters, Busy, Outcomes
  <2>4. TypeWriters'
    BY <1>1, <1>3, <2>3 DEF TypeWriters
  <2>5. QED
    BY <2>2, <2>4
<1>10. OthersRest(t)
  BY <1>1, <1>3 DEF OthersRest, TypeWriters
<1>11. TaskSound(t)'
  <2>1. todo'[t] = {} /\ found'[t] = {} /\ write'[t] = write[t] /\ (Holds(t)' <=> Holds(t))
    BY <1>1, <1>2 DEF Holds
  <2>2. \/ step'[t] = "marked"
        \/ step'[t] = "store" /\ result'[t] = "failed"
    BY <1>1, <1>2, <1>3 DEF TypeWriters
  <2>3. step'[t] = "marked" => Marker(write[t])' = "pending"
    <3>1. step'[t] = "marked" => (write[t] = Comment(t) => pub'[t] = "pending")
                                 /\ (write[t] = Approval(t) => appr'[t] = "pending")
      BY <1>6
    <3>2. Comment(t) = write[t] => Marker(write[t])' = pub'[t]
      BY <2>1, WriteForms DEF Marker
    <3>3. Approval(t) = write[t] => Marker(write[t])' = appr'[t]
      BY <2>1, WriteForms DEF Marker
    <3>4. QED
      BY <1>2, <3>1, <3>2, <3>3
  <2>4. Marker(write[t])' \in {"none", "pending"}
    BY <1>2, <1>4, <1>7, <2>1 DEF Marker
  <2>5. ~Touched(write[t])'
    BY <1>4, <1>5, <2>1 DEF Touched
  <2>6. write[t] = Comment(t) => appr'[t] = "none"
    BY <1>4, <1>6, WriteForms
  <2>7. OwnWrite(t)'
    BY <1>2, <2>1, <2>2, <2>3, <2>4, <2>5, <2>6 DEF OwnWrite, Writing, Outcomes
  <2>8. QED
    BY <2>1, <2>2, <2>7 DEF TaskSound, Unmarked, OwnRecovery
<1>12. ASSUME NEW u \in Tasks \ {t}, Holds(u)'
       PROVE  Holds(u) /\ \A w \in TaskWrites : Marker(w)' = Marker(w)
  <2>1. Holds(u) /\ ~Holds(t)
    BY <1>1, <1>12 DEF Holds
  <2>2. QED
    BY <1>7, <2>1
<1>13. prNumber' = prNumber /\ (prNumber => prs > 0) /\ UNCHANGED <<prMarker, prs, done>>
  BY <1>1 DEF github, PubInv, CreationSound
<1>14. \A w \in Writes : Once(w)'
  BY <1>5 DEF PubInv
<1>15. QED
  BY <1>5, <1>8, <1>9, <1>10, <1>11, <1>12, <1>13, <1>14, TaskActs


\* A task's write under way: only what GitHub may yet do with it changes, and what the
\* task knows of it.
LEMMA WriteMoves ==
    ASSUME PubInv, NEW t \in Tasks, step[t] \in Writing, OthersRest(t),
           UNCHANGED <<record, locked, write, todo, found, reviewed, head, prs, done, on, edited>>,
           TypeWriters', air' \subseteq Writes,
           \A w \in Writes : w # write[t] => (w \in air' <=> w \in air),
           Once(write[t])', Touched(write[t])' => Marker(write[t]) # "none",
           step'[t] \in {"sent", "answered", "store"},
           step'[t] = "answered" => ~NeverHappened(answer'[t]),
           step'[t] = "store" => /\ result'[t] \in Outcomes
                                 /\ result'[t] = "failed" => ~Touched(write[t])'
                                 /\ result'[t] = "confirmed" => There(write[t])
    PROVE  PubInv'
<1>1. /\ write[t] \in Own(t) /\ write[t] \in TaskWrites /\ write[t] \in Writes
      /\ write[t] = Comment(t) \/ write[t] = Approval(t)
      /\ TaskSound(t) /\ t \in Writers /\ todo[t] = {} /\ found[t] = {}
  BY OwnWriteFacts
<1>2. TypeRecord' /\ TypeGithub'
  BY DEF PubInv, TypeRecord, TypeGithub, record
<1>3. \A w : (Marker(w)' = Marker(w)) /\ (There(w)' <=> There(w))
  BY DEF Marker, There, record
<1>4. \A w \in Writes : w # write[t] => (Touched(w)' <=> Touched(w)) /\ (Once(w)' <=> Once(w))
  BY DEF Touched, Once
<1>5. \A w \in Writes : Once(w)'
  <2> SUFFICES ASSUME NEW w \in Writes PROVE Once(w)'
    OBVIOUS
  <2>1. CASE w = write[t]
    BY <2>1 DEF Once
  <2>2. CASE w # write[t]
    BY <1>4, <2>2 DEF PubInv
  <2>3. QED
    BY <2>1, <2>2
<1>6. Marker(write[t]) # "failed" /\ (Holds(t) => Marker(write[t]) \in {"none", "pending"})
      /\ (write[t] = Comment(t) => appr[t] = "none")
  BY <1>1 DEF TaskSound, OwnWrite
<1>7. \A w \in TaskWrites : MarkerTrue(w)'
  <2> SUFFICES ASSUME NEW w \in TaskWrites PROVE MarkerTrue(w)'
    OBVIOUS
  <2>1. MarkerTrue(w) /\ w \in Writes
    BY WriteForms DEF PubInv
  <2>2. CASE w = write[t]
    <3>1. Touched(w)' => Marker(w) # "none"
      BY <2>2 DEF Touched
    <3>2. QED
      BY <1>3, <1>6, <2>1, <2>2, <3>1 DEF MarkerTrue
  <2>3. CASE w # write[t]
    BY <1>3, <1>4, <2>1, <2>3 DEF MarkerTrue
  <2>4. QED
    BY <2>2, <2>3
<1>8. TaskSound(t)'
  <2>1. /\ todo'[t] = {} /\ found'[t] = {} /\ write'[t] = write[t] /\ appr' = appr
        /\ Holds(t)' <=> Holds(t)
    BY <1>1 DEF Holds, record
  <2>2. Marker(write[t])' = Marker(write[t]) /\ (There(write[t]) => There(write[t])')
    BY <2>1 DEF Marker, There, record
  <2>3. OwnWrite(t)'
    BY <1>1, <1>6, <2>1, <2>2 DEF OwnWrite, Writing, NeverHappened
  <2>4. QED
    BY <2>1, <2>3 DEF TaskSound, Unmarked, OwnRecovery
<1>9. \A u \in Tasks : Holds(u)' => Holds(u)
  BY DEF Holds, record
<1>10. prNumber' = prNumber /\ (prNumber => prs > 0) /\ UNCHANGED <<prMarker, prs, done>>
  BY DEF record, PubInv, CreationSound
<1>11. \A w \in Writes \ Own(t) : Touched(w)' => Touched(w)
  BY <1>1, <1>4
<1>12. QED
  BY <1>2, <1>3, <1>5, <1>7, <1>8, <1>9, <1>10, <1>11, TaskActs

\* What is sent was never sent before.
LEMMA SendKeeps ==
    ASSUME PubInv, NEW t \in Tasks, Send(t)
    PROVE  PubInv'
<1>1. /\ step[t] = "marked"
      /\ \/ /\ air' = air \cup {write[t]}
            /\ step' = [step EXCEPT ![t] = "sent"]
            /\ result' = result
         \/ /\ result' = [result EXCEPT ![t] = "failed"]
            /\ step' = [step EXCEPT ![t] = "store"]
            /\ air' = air
      /\ UNCHANGED <<record, locked, write, answer, todo, found, reviewed,
                     head, prs, done, on, edited>>
  BY DEF Send, Ends, Goes, Outcome, NeverHappened
<1>2. step[t] \in Writing
  BY <1>1 DEF Writing
<1>3. /\ write[t] \in Own(t) /\ write[t] \in TaskWrites /\ write[t] \in Writes
      /\ TaskSound(t) /\ t \in Writers
  BY <1>2, OwnWriteFacts
<1>4. TypeWriters /\ TypeGithub
  BY DEF PubInv
<1>5. Marker(write[t]) # "none" /\ ~Touched(write[t])
  BY <1>1, <1>2, <1>3 DEF TaskSound, OwnWrite
<1>6. done[write[t]] = 0 /\ write[t] \notin air
  BY <1>3, <1>4, <1>5 DEF Touched, TypeGithub
<1>7. TypeWriters'
  BY <1>1, <1>4 DEF TypeWriters, Busy, Outcomes
<1>8. OthersRest(t)
  BY <1>1, <1>4 DEF OthersRest, TypeWriters
<1>9. air' \subseteq Writes /\ \A w \in Writes : w # write[t] => (w \in air' <=> w \in air)
  BY <1>1, <1>3, <1>4 DEF TypeGithub
<1>10. Once(write[t])'
  BY <1>1, <1>6 DEF Once
<1>11. \/ step'[t] = "sent"
       \/ step'[t] = "store" /\ result'[t] = "failed" /\ air' = air
  BY <1>1, <1>3, <1>4 DEF TypeWriters
<1>12. air' = air => ~Touched(write[t])'
  BY <1>1, <1>5 DEF Touched
<1>13. QED
  BY <1>1, <1>2, <1>5, <1>7, <1>8, <1>9, <1>10, <1>11, <1>12, WriteMoves DEF Outcomes

\* A rejected write was on its way and is not any more: it has not happened.
LEMMA AnswerKeeps ==
    ASSUME PubInv, NEW t \in Tasks, Answer(t)
    PROVE  PubInv'
<1>1. PICK a \in Answers \ {"closed"} :
          /\ a = "rejected" => write[t] \in air
          /\ air' = IF a = "rejected" THEN air \ {write[t]} ELSE air
          /\ answer' = [answer EXCEPT ![t] = a]
          /\ IF NeverHappened(a)
               THEN /\ result' = [result EXCEPT ![t] = "failed"]
                    /\ step' = [step EXCEPT ![t] = "store"]
               ELSE step' = [step EXCEPT ![t] = "answered"] /\ result' = result
  BY DEF Answer, Ends, Goes, Outcome
<1>2. /\ step[t] = "sent"
      /\ UNCHANGED <<record, locked, write, todo, found, reviewed, head, prs, done, on, edited>>
  BY DEF Answer
<1>3. step[t] \in Writing
  BY <1>2 DEF Writing
<1>4. /\ write[t] \in Own(t) /\ write[t] \in TaskWrites /\ write[t] \in Writes
      /\ TaskSound(t) /\ t \in Writers
  BY <1>3, OwnWriteFacts
<1>5. TypeWriters /\ TypeGithub /\ MarkerTrue(write[t]) /\ Once(write[t])
  BY <1>4 DEF PubInv
<1>6. TypeWriters'
  BY <1>1, <1>2, <1>5 DEF TypeWriters, Busy, Outcomes
<1>7. OthersRest(t)
  BY <1>1, <1>2, <1>5 DEF OthersRest, TypeWriters
<1>8. air' \subseteq air /\ \A w \in Writes : w # write[t] => (w \in air' <=> w \in air)
  BY <1>1
<1>9. Touched(write[t])' => Touched(write[t])
  BY <1>2, <1>8 DEF Touched
<1>10. Touched(write[t])' => Marker(write[t]) # "none"
  BY <1>5, <1>9 DEF MarkerTrue
<1>11. done[write[t]] \in Nat
  BY <1>4, <1>5 DEF TypeGithub
<1>12. Once(write[t])'
  BY <1>2, <1>5, <1>8, <1>11 DEF Once
<1>13. /\ step'[t] \in {"answered", "store"} /\ answer'[t] = a
       /\ step'[t] = "answered" => ~NeverHappened(a)
       /\ step'[t] = "store" => NeverHappened(a) /\ result'[t] = "failed"
  BY <1>1, <1>4, <1>5 DEF TypeWriters
<1>14. NeverHappened(a) => ~Touched(write[t])'
  <2>1. NeverHappened(a) => a = "rejected"
    BY <1>1 DEF NeverHappened
  <2>2. a = "rejected" => write[t] \in air /\ write[t] \notin air'
    BY <1>1
  <2>3. write[t] \in air => done[write[t]] = 0
    BY <1>5, <1>11 DEF Once
  <2>4. QED
    BY <1>2, <2>1, <2>2, <2>3 DEF Touched
<1>15. air' \subseteq Writes
  BY <1>5, <1>8 DEF TypeGithub
<1>16. QED
  BY <1>2, <1>3, <1>6, <1>7, <1>8, <1>10, <1>12, <1>13, <1>14, <1>15, WriteMoves DEF Outcomes

\* A readback confirms what it sees, and what it sees is there.
LEMMA ReadBackKeeps ==
    ASSUME PubInv, NEW t \in Tasks, ReadBack(t)
    PROVE  PubInv'
<1>1. PICK sight \in Readings(Sees(write[t])) :
          /\ result' = [result EXCEPT ![t] = Outcome(answer[t], sight)]
          /\ step' = [step EXCEPT ![t] = "store"]
  BY DEF ReadBack, Ends, Goes
<1>2. /\ step[t] = "answered"
      /\ UNCHANGED <<record, locked, write, answer, todo, found, reviewed, github>>
  BY DEF ReadBack
<1>3. step[t] \in Writing
  BY <1>2 DEF Writing
<1>4. write[t] \in TaskWrites /\ write[t] \in Writes /\ TaskSound(t) /\ t \in Writers
  BY <1>3, OwnWriteFacts
<1>5. TypeWriters /\ TypeGithub /\ MarkerTrue(write[t]) /\ Once(write[t]) /\ ~NeverHappened(answer[t])
  BY <1>2, <1>3, <1>4 DEF PubInv, TaskSound, OwnWrite
<1>6. /\ Outcome(answer[t], sight) \in {"confirmed", "unknown"}
      /\ Outcome(answer[t], sight) = "confirmed" => There(write[t])
  <2>1. sight = "there" => Sees(write[t])
    BY <1>1 DEF Readings
  <2>2. QED
    BY <1>4, <1>5, <2>1, SeenIsThere DEF Outcome
<1>7. TypeWriters'
  BY <1>1, <1>2, <1>5, <1>6 DEF TypeWriters, Busy, Outcomes
<1>8. OthersRest(t)
  BY <1>1, <1>2, <1>5 DEF OthersRest, TypeWriters
<1>9. air' = air /\ air' \subseteq Writes /\ (Once(write[t])' <=> Once(write[t]))
      /\ (Touched(write[t])' <=> Touched(write[t]))
  BY <1>2, <1>5 DEF TypeGithub, Once, Touched, github
<1>10. Touched(write[t])' => Marker(write[t]) # "none"
  BY <1>5, <1>9 DEF MarkerTrue
<1>11. step'[t] = "store" /\ result'[t] = Outcome(answer[t], sight)
  BY <1>1, <1>4, <1>5 DEF TypeWriters
<1>12. UNCHANGED <<head, prs, done, on, edited>>
  BY <1>2 DEF github
<1>13. QED
  BY <1>2, <1>3, <1>5, <1>6, <1>7, <1>8, <1>9, <1>10, <1>11, <1>12, WriteMoves DEF Outcomes



(***************************************************************************)
(* The creation of the pull request                                        *)
(***************************************************************************)

\* The write of a creation is no write of a task.
LEMMA PrIsNoTasks ==
    ASSUME PubInv
    PROVE  /\ Pr # Comment(Creation) /\ Pr # Approval(Creation)
           /\ Pr \in Writes /\ Creation \in Writers /\ done[Pr] \in Nat
           /\ ~Touched(Pr) <=> done[Pr] = 0 /\ Pr \notin air
<1>1. Pr # Comment(Creation) /\ Pr # Approval(Creation)
  BY DEF Pr, Comment, Approval
<1>2. Pr \in Writes /\ Creation \in Writers /\ done[Pr] \in Nat
  BY WriteForms, TaskFacts DEF PubInv, TypeGithub
<1>3. QED
  BY <1>1, <1>2 DEF Touched

\* A creation leaves with what GitHub has executed on the record.
LEMMA CreationLeaves ==
    ASSUME PubInv, Leaves, UNCHANGED <<holder, events, passed, pub, appr>>,
           prNumber' \in BOOLEAN, prMarker' \in BOOLEAN, prNumber' => prs > 0,
           Touched(Pr) => prMarker' \/ prNumber'
    PROVE  PubInv'
<1>1. /\ step' = [step EXCEPT ![Creation] = "idle"] /\ locked' = FALSE
      /\ write' = [write EXCEPT ![Creation] = None]
      /\ answer' = [answer EXCEPT ![Creation] = None]
      /\ result' = [result EXCEPT ![Creation] = None]
      /\ UNCHANGED <<todo, found, reviewed, github>>
  BY DEF Leaves, Goes
<1>2. TypeRecord /\ TypeWriters /\ TypeGithub /\ CreationSound /\ Once(Pr)
  BY PrIsNoTasks DEF PubInv
<1>3. TypeRecord' /\ TypeGithub'
  BY <1>1, <1>2 DEF TypeRecord, TypeGithub, github
<1>4. TypeWriters'
  BY <1>1, <1>2, TaskFacts DEF TypeWriters
<1>5. \A t \in Tasks : step'[t] = step[t] /\ write'[t] = write[t]
                       /\ answer'[t] = answer[t] /\ result'[t] = result[t]
  BY <1>1, <1>2, TaskFacts DEF TypeWriters
<1>6. (Touched(Pr)' <=> Touched(Pr)) /\ (Once(Pr)' <=> Once(Pr)) /\ air' = air
  BY <1>1 DEF Touched, Once, github
<1>7. step'[Creation] = "idle"
  BY <1>1, <1>2, TaskFacts DEF TypeWriters
<1>8. CreationSound'
  BY <1>1, <1>2, <1>6, <1>7 DEF CreationSound, github
<1>9. QED
  BY <1>1, <1>2, <1>3, <1>4, <1>5, <1>6, <1>8, CreationActs DEF github

\* A creation goes on: to its write only when nothing was sent, with the result only when
\* there is a pull request.
LEMMA CreationWent ==
    ASSUME PubInv, NEW next \in {"recover", "lookup", "ready", "store"},
           NEW a \in Answers \cup {None}, NEW r \in Outcomes \cup {None},
           CreationGoes(next, a, r), UNCHANGED record,
           next = "lookup" /\ (prMarker \/ r # None) => prs > 0,
           next = "ready" => ~Touched(Pr),
           next = "store" /\ r = "confirmed" => prs > 0
    PROVE  PubInv'
<1>1. /\ step' = [step EXCEPT ![Creation] = next] /\ locked' = TRUE
      /\ write' = [write EXCEPT ![Creation] = Pr]
      /\ answer' = [answer EXCEPT ![Creation] = a]
      /\ result' = [result EXCEPT ![Creation] = r]
      /\ UNCHANGED <<todo, found, reviewed, github>>
  BY DEF CreationGoes, Goes
<1>2. TypeRecord /\ TypeWriters /\ TypeGithub /\ CreationSound /\ Once(Pr)
  BY PrIsNoTasks DEF PubInv
<1>3. TypeRecord' /\ TypeGithub'
  BY <1>1, <1>2 DEF TypeRecord, TypeGithub, github, record
<1>4. TypeWriters'
  <2>1. step' \in [Writers -> {"idle", "done"} \cup Busy]
    BY <1>1, <1>2, TaskFacts DEF TypeWriters, Busy
  <2>2. /\ write' \in [Writers -> Writes \cup {None}]
        /\ answer' \in [Writers -> Answers \cup {None}]
        /\ result' \in [Writers -> Outcomes \cup {None}]
    BY <1>1, <1>2, TaskFacts, PrIsNoTasks DEF TypeWriters
  <2>3. QED
    BY <1>1, <1>2, <2>1, <2>2 DEF TypeWriters
<1>5. \A t \in Tasks : step'[t] = step[t] /\ write'[t] = write[t]
                       /\ answer'[t] = answer[t] /\ result'[t] = result[t]
  BY <1>1, <1>2, TaskFacts DEF TypeWriters
<1>6. (Touched(Pr)' <=> Touched(Pr)) /\ (Once(Pr)' <=> Once(Pr)) /\ air' = air
  BY <1>1 DEF Touched, Once, github
<1>7. step'[Creation] = next /\ write'[Creation] = Pr /\ result'[Creation] = r
  BY <1>1, <1>2, TaskFacts DEF TypeWriters
<1>8. CreationSound'
  BY <1>1, <1>2, <1>6, <1>7 DEF CreationSound, github, record
<1>9. QED
  BY <1>1, <1>2, <1>3, <1>4, <1>5, <1>6, <1>8, CreationActs DEF github, record

\* Of a creation that finds its own marker, the readback alone lets it go on; and when
\* there is no pull request and no marker, nothing was sent.
LEMMA CreationKeeps ==
    ASSUME PubInv, CreationStep
    PROVE  PubInv'
<1>1. CreationSound /\ prNumber \in BOOLEAN /\ prMarker \in BOOLEAN /\ prs \in Nat
  BY DEF PubInv, TypeRecord, TypeGithub
<1>2. ASSUME Leaves, UNCHANGED record PROVE PubInv'
  <2>1. UNCHANGED <<holder, events, passed, pub, appr, prNumber, prMarker>>
    BY <1>2 DEF record
  <2>2. QED
    BY <1>1, <1>2, <2>1, CreationLeaves DEF CreationSound
<1>3. CASE CreationBegins
  <2>1. CASE prMarker
    <3>1. CreationGoes("recover", None, None) /\ UNCHANGED record
      BY <1>3, <2>1 DEF CreationBegins
    <3>2. QED
      BY <3>1, CreationWent
  <2>2. CASE ~prMarker
    <3>1. CreationGoes("lookup", None, None) /\ UNCHANGED record
      BY <1>3, <2>2 DEF CreationBegins
    <3>2. QED
      BY <2>2, <3>1, CreationWent
  <2>3. QED
    BY <2>1, <2>2
<1>4. CASE CreationRecovers
  <2>1. PICK sight \in Readings(Sees(Pr)) :
            IF Recovered(sight) = "confirmed" THEN CreationGoes("lookup", None, None) ELSE Leaves
    BY <1>4 DEF CreationRecovers
  <2>2. UNCHANGED record
    BY <1>4 DEF CreationRecovers
  <2>3. Recovered(sight) = "confirmed" => prs > 0
    BY <2>1, SeenIsThere DEF Readings, Recovered
  <2>4. CASE Recovered(sight) = "confirmed"
    <3>1. CreationGoes("lookup", None, None)
      BY <2>1, <2>4
    <3>2. QED
      BY <2>2, <2>3, <2>4, <3>1, CreationWent
  <2>5. CASE Recovered(sight) # "confirmed"
    BY <1>2, <2>1, <2>2, <2>5
  <2>6. QED
    BY <2>4, <2>5
<1>5. CASE CreationLooks
  <2>1. step[Creation] = "lookup" /\ UNCHANGED record
    BY <1>5 DEF CreationLooks
  <2>2. CASE prs > 0 /\ CreationGoes("store", "accepted", "confirmed")
    BY <2>1, <2>2, CreationWent DEF Answers, Outcomes
  <2>3. CASE prs = 0 /\ CreationGoes("ready", None, None)
    <3>1. ~(prs > 0) /\ CreationGoes("ready", None, None)
      BY <2>3
    <3>2. ~Touched(Pr)
      BY <1>1, <2>1, <3>1 DEF CreationSound
    <3>3. QED
      BY <2>1, <3>1, <3>2, CreationWent
  <2>4. CASE Leaves
    BY <1>2, <2>1, <2>4
  <2>5. QED
    BY <1>5, <2>2, <2>3, <2>4 DEF CreationLooks
<1>6. CASE CreationStores
  <2>1. /\ step[Creation] = "store" /\ UNCHANGED <<holder, events, passed, pub, appr>>
        /\ \/ /\ result[Creation] = "confirmed" /\ prNumber' = TRUE /\ prMarker' = FALSE /\ Leaves
           \/ /\ result[Creation] = "confirmed" /\ CreationGoes("lookup", None, "confirmed")
              /\ UNCHANGED <<prNumber, prMarker>>
           \/ Leaves /\ UNCHANGED <<prNumber, prMarker>>
    BY <1>6 DEF CreationStores
  <2>2. result[Creation] = "confirmed" => prs > 0
    BY <1>1, <2>1 DEF CreationSound
  <2>3. CASE result[Creation] = "confirmed" /\ prNumber' = TRUE /\ prMarker' = FALSE /\ Leaves
    BY <2>1, <2>2, <2>3, CreationLeaves
  <2>4. CASE /\ result[Creation] = "confirmed" /\ CreationGoes("lookup", None, "confirmed")
             /\ UNCHANGED <<prNumber, prMarker>>
    <3>1. UNCHANGED record
      BY <2>1, <2>4 DEF record
    <3>2. QED
      BY <2>2, <2>4, <3>1, CreationWent DEF Outcomes
  <2>5. CASE Leaves /\ UNCHANGED <<prNumber, prMarker>>
    BY <1>2, <2>1, <2>5 DEF record
  <2>6. QED
    BY <2>1, <2>3, <2>4, <2>5
<1>7. QED
  BY <1>3, <1>4, <1>5, <1>6 DEF CreationStep

\* The creation's write transaction, step by step as a task's.
LEMMA CreationWrites ==
    ASSUME PubInv, Mark(Creation) \/ Send(Creation) \/ Answer(Creation) \/ ReadBack(Creation)
    PROVE  PubInv'
<1>1. TypeRecord /\ TypeWriters /\ TypeGithub /\ CreationSound /\ Once(Pr)
  BY PrIsNoTasks DEF PubInv
<1>2. step[Creation] # "idle" /\ write[Creation] = Pr
  BY <1>1 DEF Mark, Send, Answer, ReadBack, CreationSound
<1>3. /\ UNCHANGED <<holder, events, passed, pub, appr, prNumber, locked, write,
                     todo, found, reviewed, head, prs, done, on, edited>>
      /\ \/ step[Creation] = "ready" /\ prMarker' = TRUE /\ UNCHANGED <<result, answer, air>>
            /\ step' = [step EXCEPT ![Creation] = "marked"]
         \/ step[Creation] = "marked" /\ air' = air \cup {Pr} /\ UNCHANGED <<prMarker, result, answer>>
            /\ step' = [step EXCEPT ![Creation] = "sent"]
         \/ /\ prMarker' = prMarker /\ (air' = air \/ air' = air \ {Pr})
            /\ \E a \in Answers \cup {None} :
                  answer' = answer \/ answer' = [answer EXCEPT ![Creation] = a]
            /\ \/ result' = result /\ step' = [step EXCEPT ![Creation] = "answered"]
               \/ \E r \in Outcomes : /\ result' = [result EXCEPT ![Creation] = r]
                                      /\ step' = [step EXCEPT ![Creation] = "store"]
                                      /\ r = "confirmed" => prs > 0
  <2>1. CASE Mark(Creation)
    BY <1>1, <1>2, <2>1, PrIsNoTasks DEF Mark, Ends, Goes, Outcomes, github, TypeRecord
  <2>2. CASE Send(Creation)
    BY <1>1, <1>2, <2>2 DEF Send, Ends, Goes, Outcome, NeverHappened, Outcomes, record
  <2>3. CASE Answer(Creation)
    BY <1>1, <1>2, <2>3 DEF Answer, Ends, Goes, Outcome, NeverHappened, Outcomes, record
  <2>4. CASE ReadBack(Creation)
    <3>1. PICK sight \in Readings(Sees(Pr)) :
              /\ result' = [result EXCEPT ![Creation] = Outcome(answer[Creation], sight)]
              /\ step' = [step EXCEPT ![Creation] = "store"]
      BY <1>2, <2>4 DEF ReadBack, Ends, Goes
    <3>2. /\ Outcome(answer[Creation], sight) \in Outcomes
          /\ Outcome(answer[Creation], sight) = "confirmed" => prs > 0
      BY <3>1, SeenIsThere DEF Outcome, Outcomes, Readings
    <3>3. UNCHANGED <<record, locked, write, answer, todo, found, reviewed, github>>
      BY <2>4 DEF ReadBack
    <3>4. QED
      BY <3>1, <3>2, <3>3 DEF record, github
  <2>5. QED
    BY <2>1, <2>2, <2>3, <2>4
<1>4. TypeRecord' /\ TypeGithub'
  BY <1>1, <1>3, PrIsNoTasks DEF TypeRecord, TypeGithub
<1>5. TypeWriters'
  <2>1. step' \in [Writers -> {"idle", "done"} \cup Busy]
    BY <1>1, <1>3, TaskFacts DEF TypeWriters, Busy
  <2>2. answer' \in [Writers -> Answers \cup {None}]
    BY <1>1, <1>3, TaskFacts DEF TypeWriters
  <2>3. result' \in [Writers -> Outcomes \cup {None}]
    BY <1>1, <1>3, TaskFacts DEF TypeWriters
  <2>4. QED
    BY <1>1, <1>3, <2>1, <2>2, <2>3 DEF TypeWriters
<1>6. \A t \in Tasks : step'[t] = step[t] /\ write'[t] = write[t]
                       /\ answer'[t] = answer[t] /\ result'[t] = result[t]
  BY <1>1, <1>3, TaskFacts DEF TypeWriters
<1>7. \A w \in TaskWrites : w \in air' <=> w \in air
  BY <1>3, WriteForms
<1>8. Once(Pr)' /\ CreationSound'
  <2>1. CASE step[Creation] = "marked" /\ air' = air \cup {Pr} /\ UNCHANGED <<prMarker, result, answer>>
             /\ step' = [step EXCEPT ![Creation] = "sent"]
    <3>1. step'[Creation] = "sent" /\ done[Pr] = 0 /\ Pr \notin air /\ prMarker
      BY <1>1, <2>1, PrIsNoTasks DEF CreationSound, TypeWriters
    <3>2. Once(Pr)'
      BY <1>3, <2>1, <3>1 DEF Once
    <3>3. QED
      BY <1>1, <1>2, <1>3, <2>1, <3>1, <3>2 DEF CreationSound
  <2>2. CASE step[Creation] = "ready" /\ prMarker' = TRUE /\ UNCHANGED <<result, answer, air>>
             /\ step' = [step EXCEPT ![Creation] = "marked"]
    <3>1. step'[Creation] = "marked" /\ ~Touched(Pr)
      BY <1>1, <2>2, PrIsNoTasks DEF CreationSound, TypeWriters
    <3>2. (Once(Pr)' <=> Once(Pr)) /\ (Touched(Pr)' <=> Touched(Pr))
      BY <1>3, <2>2 DEF Once, Touched
    <3>3. QED
      BY <1>1, <1>2, <1>3, <2>2, <3>1, <3>2 DEF CreationSound
  <2>3. CASE /\ prMarker' = prMarker /\ (air' = air \/ air' = air \ {Pr})
             /\ \/ result' = result /\ step' = [step EXCEPT ![Creation] = "answered"]
                \/ \E r \in Outcomes : /\ result' = [result EXCEPT ![Creation] = r]
                                       /\ step' = [step EXCEPT ![Creation] = "store"]
                                       /\ r = "confirmed" => prs > 0
    <3>1. \/ step'[Creation] = "answered"
          \/ step'[Creation] = "store" /\ (result'[Creation] = "confirmed" => prs > 0)
      BY <1>1, <2>3, PrIsNoTasks DEF TypeWriters
    <3>2. Touched(Pr)' => Touched(Pr)
      BY <1>3, <2>3 DEF Touched
    <3>3. Once(Pr)'
      BY <1>1, <1>3, <2>3, PrIsNoTasks DEF Once
    <3>4. QED
      BY <1>1, <1>2, <1>3, <2>3, <3>1, <3>2, <3>3 DEF CreationSound
  <2>4. QED
    BY <1>3, <2>1, <2>2, <2>3
<1>9. QED
  BY <1>3, <1>4, <1>5, <1>6, <1>7, <1>8, CreationActs



(***************************************************************************)
(* A crash, and all steps                                                  *)
(***************************************************************************)

\* A crash forgets the writers, not the record.
LEMMA CrashKeeps ==
    ASSUME PubInv, Crash
    PROVE  PubInv'
<1>1. /\ step' = [x \in Writers |-> IF x = Creation THEN "idle"
                                    ELSE IF step[x] = "idle" THEN "idle" ELSE "done"]
      /\ locked' = FALSE
      /\ write' = [x \in Writers |-> None]
      /\ answer' = [x \in Writers |-> None]
      /\ result' = [x \in Writers |-> None]
      /\ todo' = [t \in Tasks |-> {}] /\ found' = [t \in Tasks |-> {}]
      /\ UNCHANGED <<record, reviewed, github>>
  BY DEF Crash
<1>2. TypeRecord /\ TypeWriters /\ TypeGithub /\ CreationSound
  BY DEF PubInv
<1>3. TypeRecord' /\ TypeWriters' /\ TypeGithub'
  <2>1. step' \in [Writers -> {"idle", "done"} \cup Busy]
    BY <1>1
  <2>2. TypeWriters'
    BY <1>1, <1>2, <2>1 DEF TypeWriters
  <2>3. TypeRecord' /\ TypeGithub'
    BY <1>1, <1>2 DEF TypeRecord, TypeGithub, record, github
  <2>4. QED
    BY <2>2, <2>3
<1>4. /\ \A v : Marker(v)' = Marker(v) /\ (Touched(v)' <=> Touched(v))
      /\ \A v \in TaskWrites : MarkerTrue(v)'
      /\ \A v \in Writes : Once(v)'
  BY <1>1, NothingMarked DEF record, github
<1>5. ASSUME NEW u \in Tasks PROVE TaskSound(u)'
  <2>1. TaskSound(u)
    BY DEF PubInv
  <2>2. /\ step'[u] \in {"idle", "done"} /\ (step'[u] = "idle" => step[u] = "idle")
        /\ todo'[u] = {} /\ found'[u] = {} /\ pub' = pub /\ appr' = appr
    BY <1>1, TaskFacts DEF record
  <2>3. QED
    BY <2>1, <2>2 DEF TaskSound, Unmarked, OwnWrite, OwnRecovery, Writing
<1>6. CreationSound'
  <2>1. step'[Creation] = "idle"
    BY <1>1, TaskFacts
  <2>2. QED
    BY <1>1, <1>2, <1>4, <2>1 DEF CreationSound, record, github
<1>7. QED
  BY <1>3, <1>4, <1>5, <1>6 DEF PubInv

LEMMA PubUnchanged == PubInv /\ UNCHANGED vars => PubInv'
<1> SUFFICES ASSUME PubInv, UNCHANGED vars PROVE PubInv'
  OBVIOUS
<1>1. UNCHANGED <<record, locked, writers, head, prs, done, on, edited, air>>
  BY DEF vars, github
<1>2. TypeGithub'
  BY <1>1 DEF PubInv, TypeGithub
<1>3. \A w : (Once(w)' <=> Once(w)) /\ (Touched(w)' <=> Touched(w)) /\ (There(w)' <=> There(w))
  BY <1>1 DEF Once, Touched, There, writers
<1>4. done'[Pr] > 0 => prs' > 0
  BY <1>1 DEF PubInv, CreationSound
<1>5. \A w \in Writes : Once(w)'
  BY <1>3 DEF PubInv
<1>6. QED
  BY <1>1, <1>2, <1>3, <1>4, <1>5, GithubMoves

LEMMA PubStep == PubInv /\ [Next]_vars => PubInv'
<1> SUFFICES ASSUME PubInv, [Next]_vars PROVE PubInv'
  OBVIOUS
<1>1. ASSUME NEW t \in Tasks, TaskStep(t) PROVE PubInv'
  BY <1>1, ClaimKeeps, ReadMarkerKeeps, SaveRecoveryKeeps, ReportKeeps, StoreKeeps,
     RemarkKeeps, StopKeeps DEF TaskStep
<1>2. CASE CreationStep
  BY <1>2, CreationKeeps
<1>3. ASSUME NEW x \in Writers, Mark(x) \/ Send(x) \/ Answer(x) \/ ReadBack(x) PROVE PubInv'
  <2>1. CASE x \in Tasks
    BY <1>3, <2>1, MarkKeeps, SendKeeps, AnswerKeeps, ReadBackKeeps
  <2>2. CASE x = Creation
    BY <1>3, <2>2, CreationWrites
  <2>3. QED
    BY <2>1, <2>2 DEF Writers
<1>4. ASSUME NEW w \in Writes, Land(w) \/ Drop(w) PROVE PubInv'
  BY <1>4, LandKeeps, DropKeeps
<1>5. CASE SomebodyPushes \/ SomebodyOpens
  BY <1>5, SomebodyKeeps
<1>6. CASE Crash
  BY <1>6, CrashKeeps
<1>7. CASE UNCHANGED vars
  BY <1>7, PubUnchanged
<1>8. QED
  BY <1>1, <1>2, <1>3, <1>4, <1>5, <1>6, <1>7 DEF Next

(***************************************************************************)
(* The theorems                                                            *)
(***************************************************************************)

\* Whatever crashes, is stopped or gets lost: a task's write and the creation are where
\* their markers say, and a recovery only settles what is unsettled.
THEOREM PublicationInvariant == Spec => []PubInv
<1>1. Init => PubInv
  BY PubInitial
<1>2. PubInv /\ [Next]_vars => PubInv'
  BY PubStep
<1>3. QED
  BY <1>1, <1>2, PTL DEF Spec

\* Comments, approvals and the creation of the pull request happen at most once at GitHub,
\* and the record is true of them (src/workflow/delivery-publish.ts, write-recovery.ts).
THEOREM PublicationAlwaysTrue == Spec => []PublicationIsTrue
<1>1. PubInv => PublicationIsTrue
  BY PubInvImplies
<1>2. QED
  BY <1>1, PublicationInvariant, PTL

\* A step that changes the marker of a task's write is one of three: a mark, a recovery
\* that is saved, an outcome that is stored.
LEMMA WhoMarks ==
    ASSUME Next, pub' # pub \/ appr' # appr
    PROVE  \/ \E t \in Tasks : SaveRecovery(t) \/ Store(t)
           \/ \E x \in Writers : Mark(x)
<1>1. ASSUME NEW t \in Tasks, TaskStep(t) PROVE SaveRecovery(t) \/ Store(t)
  BY <1>1 DEF TaskStep, Claim, ReadMarker, Report, Remark, Stop, record
<1>2. ~CreationStep
  BY DEF CreationStep, CreationBegins, CreationRecovers, CreationLooks, CreationStores, record
<1>3. \A x \in Writers : ~Send(x) /\ ~Answer(x) /\ ~ReadBack(x)
  BY DEF Send, Answer, ReadBack, record
<1>4. (\A w \in Writes : ~Land(w) /\ ~Drop(w)) /\ ~SomebodyPushes /\ ~SomebodyOpens /\ ~Crash
  BY DEF Land, Drop, SomebodyPushes, SomebodyOpens, Crash, record
<1>5. QED
  BY <1>1, <1>2, <1>3, <1>4 DEF Next


\* None of the three touches a settled marker.
LEMMA SettledStep ==
    ASSUME PubInv, Next, NEW t \in Tasks
    PROVE  /\ pub[t] \in {"posted", "linked"} => pub'[t] = pub[t]
           /\ appr[t] = "confirmed" => appr'[t] = appr[t]
<1> DEFINE Goal == /\ pub[t] \in {"posted", "linked"} => pub'[t] = pub[t]
                   /\ appr[t] = "confirmed" => appr'[t] = appr[t]
<1>1. TypeRecord /\ CreationSound /\ TaskSound(t)
  BY DEF PubInv
<1>2. ASSUME NEW x \in Writers, Mark(x) PROVE Goal
  <2>1. /\ step[x] = "ready"
        /\ pub' = pub \/ (write[x] = Comment(x) /\ pub' = [pub EXCEPT ![x] = "pending"])
        /\ appr' = appr \/ (appr[x] = "none" /\ write[x] = Approval(x)
                            /\ appr' = [appr EXCEPT ![x] = "pending"])
    BY <1>2 DEF Mark
  <2>2. CASE x = t
    <3>1. write[t] = Comment(t) => pub[t] = "none"
      BY <1>1, <2>1, <2>2, MarkerForms DEF TaskSound, OwnWrite, Writing
    <3>2. QED
      BY <1>1, <2>1, <2>2, <3>1 DEF TypeRecord
  <2>3. CASE x # t
    BY <1>1, <2>1, <2>3 DEF TypeRecord
  <2>4. QED
    BY <2>2, <2>3
<1>3. ASSUME NEW u \in Tasks, Store(u) PROVE Goal
  <2>1. /\ step[u] = "store"
        /\ pub' = pub \/ (Holds(u) /\ write[u] = Comment(u) /\ pub' = [pub EXCEPT ![u] = Status(u)])
        /\ appr' = appr \/ (Holds(u) /\ write[u] = Approval(u)
                            /\ appr' = [appr EXCEPT ![u] = result[u]])
    BY <1>3 DEF Store
  <2>2. TaskSound(u)
    BY DEF PubInv
  <2>3. Holds(u) => Marker(write[u]) \in {"none", "pending"}
    BY <2>1, <2>2 DEF TaskSound, OwnWrite, Writing
  <2>4. CASE u = t
    BY <1>1, <2>1, <2>3, <2>4, MarkerForms DEF TypeRecord
  <2>5. CASE u # t
    BY <1>1, <2>1, <2>5 DEF TypeRecord
  <2>6. QED
    BY <2>4, <2>5
<1>4. ASSUME NEW u \in Tasks, SaveRecovery(u) PROVE Goal
  <2>1. CASE ~Holds(u)
    BY <1>4, <2>1 DEF SaveRecovery
  <2>2. CASE Holds(u)
    <3>1. /\ pub' = Applied(pub, u, "comment", "posted")
          /\ appr' = Applied(appr, u, "approve", "confirmed")
      BY <1>4, <2>2 DEF SaveRecovery
    <3>2. \A o : \A w : <<w, o>> \in found[u] => Marker(w) \in {"pending", "unknown"}
      <4>1. TaskSound(u)
        BY DEF PubInv
      <4>2. \A p \in found[u] : Unsettles(u, p[1])
        BY <4>1 DEF TaskSound, OwnRecovery
      <4>3. QED
        BY <2>2, <4>2 DEF Unsettles
    <3>3. pub[t] \in {"posted", "linked"} => \A o : <<Comment(t), o>> \notin found[u]
      BY <3>2, MarkerForms
    <3>4. appr[t] = "confirmed" => \A o : <<Approval(t), o>> \notin found[u]
      BY <3>2, MarkerForms
    <3>5. pub[t] \in {"posted", "linked"} => pub'[t] = pub[t]
      BY <3>1, <3>3 DEF Applied, Comment
    <3>6. appr[t] = "confirmed" => appr'[t] = appr[t]
      BY <3>1, <3>4 DEF Applied, Approval
    <3>7. QED
      BY <3>5, <3>6
  <2>3. QED
    BY <2>1, <2>2
<1>5. CASE pub' = pub /\ appr' = appr
  BY <1>5
<1>6. QED
  BY <1>2, <1>3, <1>4, <1>5, WhoMarks

\* What the record says is settled is never unsettled: not by the late answer of a task
\* that has lost the workflow, nor by a recovery that read before
\* (src/workflow/write-recovery.ts, delivery-publish.ts).
THEOREM SettledAlwaysStays == Spec => SettledStays
<1>1. PubInv /\ [Next]_vars =>
          [\A t \in Tasks : /\ pub[t] \in {"posted", "linked"} => pub'[t] = pub[t]
                            /\ appr[t] = "confirmed" => appr'[t] = appr[t]]_vars
  <2> SUFFICES ASSUME PubInv, Next, NEW t \in Tasks
               PROVE  /\ pub[t] \in {"posted", "linked"} => pub'[t] = pub[t]
                      /\ appr[t] = "confirmed" => appr'[t] = appr[t]
    OBVIOUS
  <2>1. QED
    BY SettledStep
<1>2. QED
  BY <1>1, PublicationInvariant, PTL DEF Spec, SettledStays

-----------------------------------------------------------------------------
(***************************************************************************)
(* Theorems about MergeCleanup, for any heads, bases and synchronisations. *)
(* The argument has two halves.  Up to the record of the merge, whatever   *)
(* is sent has passed the gates and what was read as merged stays so.      *)
(* From the record on, the record and the copy of the attempt only say     *)
(* what is so: what they call done stays done, and a comment that may have *)
(* been sent is on both.                                                   *)
(***************************************************************************)
Early == {"looked", "merge", "sent", "answered", "confirm", "freeze"}
Late == {"worktree", "local", "remote", "issue", "comment", "comment sent",
         "comment answered", "close", "close sent", "close answered", "close refused",
         "issue done", "archive"}

CommentSent == comments > 0 \/ Closing \in flying

\* What a delivery says is so.
SaysSo(d) ==
    /\ d \in Deliveries
    /\ d.head = pr.head
    /\ "worktree" \in d.done => worktree = "gone"
    /\ "local" \in d.done => ~local
    /\ "remote" \in d.done => remote = 0
    /\ "issue" \in d.done => issue = "CLOSED"
    /\ CommentSent => d.comment # "none"

\* The steps a place of the cleanup has behind it.
Behind(place, d) ==
    /\ place # "worktree" => "worktree" \in d.done
    /\ place \notin {"worktree", "local"} => "local" \in d.done
    /\ place \notin {"worktree", "local", "remote"} => "remote" \in d.done
    /\ place = "archive" => "issue" \in d.done
    /\ place = "comment" => d.comment = "none"
    /\ place = "issue done" => issue = "CLOSED"

GatesSound ==
    /\ ours => pr.state = "MERGED" /\ pr.head \in gated
    /\ \A h \in Heads : Merge(h) \in flying => h \in gated
    /\ at = "merge" => fact.head \in gated

EarlySound ==
    at \in Early =>
        /\ delivery = None /\ run \in Grants /\ fact \in Facts
        /\ fact.state = "MERGED" => pr.state = "MERGED" /\ pr.head = fact.head
        /\ at = "freeze" => fact.state = "MERGED"

LateSound ==
    at \in Late =>
        /\ delivery # None /\ ~delivery.archived
        /\ SaysSo(mem) /\ ~mem.archived /\ Behind(at, mem)

DiskSound ==
    delivery # None =>
        /\ pr.state = "MERGED" /\ SaysSo(delivery)
        /\ delivery.archived => delivery.done = Steps /\ autoRun # "running"

\* What is gone or sent has a record.
TraceSound ==
    worktree = "gone" \/ ~local \/ CommentSent => delivery # None

MergeInv ==
    /\ MergeTypeOK
    /\ GatesSound /\ EarlySound /\ LateSound /\ DiskSound /\ TraceSound
    /\ ClosingOnce /\ RunEndsWithArchive

-----------------------------------------------------------------------------

\* An attempt is nowhere, before the record of the merge, or after it.
LEMMA PlaceFacts ==
    /\ Places = {"idle"} \cup Early \cup Late
    /\ "idle" \notin Early /\ "idle" \notin Late /\ Early \cap Late = {}
BY DEF Places, Early, Late

LEMMA WriteFacts ==
    /\ Closing # Close
    /\ Closing[1] = "comment" /\ Close[1] = "close"
    /\ \A h \in Heads : Merge(h)[1] = "merge" /\ Merge(h)[2] = h
    /\ \A h \in Heads : Merge(h) # Closing /\ Merge(h) # Close
    /\ \A g, h \in Heads : Merge(g) = Merge(h) => g = h
    /\ Closing \in MergeWrites /\ Close \in MergeWrites
    /\ \A h \in Heads : Merge(h) \in MergeWrites
BY DEF Closing, Close, Merge, MergeWrites

\* A readback that finds the issue closed has proved it.
LEMMA ClosedFacts ==
    ASSUME NEW s \in Readings(IsSo(Close)), s = "there"
    PROVE  issue = "CLOSED"
<1>1. IsSo(Close) <=> issue = "CLOSED"
  BY WriteFacts DEF IsSo
<1>2. QED
  BY <1>1 DEF Readings

LEMMA MergeInitial == MergeInit => MergeInv
<1> SUFFICES ASSUME MergeInit PROVE MergeInv
  OBVIOUS
<1> USE MergeAssumption DEF MergeInit
<1>1. MergeTypeOK
  <2>1. /\ pr \in [state : {"OPEN", "CLOSED", "MERGED"}, head : Heads]
        /\ base \in 1..MaxBase /\ remote \in 0..MaxMerge
    BY DEF Heads
  <2>2. at \in Places
    BY DEF Places
  <2>3. /\ contract \in {1, 2} /\ issue \in {"OPEN", "CLOSED"} /\ comments \in Nat
        /\ flying \subseteq MergeWrites /\ worktree \in {"clean", "dirty", "loose", "gone"}
        /\ gated \subseteq Heads /\ strayed \subseteq Heads
    OBVIOUS
  <2>4. local \in BOOLEAN /\ judged \in BOOLEAN /\ ours \in BOOLEAN
    BY Zenon
  <2>5. QED
    BY <2>1, <2>2, <2>3, <2>4 DEF MergeTypeOK
<1>2. GatesSound /\ EarlySound /\ LateSound /\ DiskSound /\ TraceSound
  BY DEF GatesSound, EarlySound, LateSound, DiskSound, TraceSound, CommentSent, Early, Late
<1>3. ClosingOnce /\ RunEndsWithArchive
  BY DEF ClosingOnce, RunEndsWithArchive
<1>4. QED
  BY <1>1, <1>2, <1>3 DEF MergeInv

-----------------------------------------------------------------------------
(* How an attempt moves *)

\* An attempt that ends leaves the record as it is, or saves its copy.
LEMMA AttemptEnds ==
    ASSUME MergeInv, Quits, UNCHANGED <<world, judged, autoRun>>,
           flying' \subseteq flying, gated \subseteq gated', gated' \subseteq Heads,
           UNCHANGED <<strayed, ours>>, auth' \in {auth, None},
           delivery' = delivery \/ (at \in Late /\ delivery' = mem)
    PROVE  MergeInv'
<1> USE DEF MergeInv, Quits, world
<1>1. MergeTypeOK'
  <2>1. delivery' \in Deliveries \cup {None}
    BY DEF MergeTypeOK, LateSound, SaysSo
  <2>2. at' \in Places
    BY DEF Places
  <2>3. /\ flying' \subseteq MergeWrites /\ gated' \subseteq Heads
        /\ auth' \in Grants \cup {None}
    BY DEF MergeTypeOK
  <2>4. QED
    BY <2>1, <2>2, <2>3 DEF MergeTypeOK
<1>2. GatesSound' /\ EarlySound' /\ LateSound'
  BY DEF GatesSound, EarlySound, LateSound, Early, Late
<1>3. delivery' # None => SaysSo(delivery)'
  BY DEF LateSound, DiskSound, SaysSo, CommentSent
<1>4. DiskSound'
  BY <1>3 DEF LateSound, DiskSound
<1>5. TraceSound'
  BY DeliveryAssumption DEF TraceSound, CommentSent, LateSound, SaysSo
<1>6. ClosingOnce'
  BY DEF ClosingOnce, MergeTypeOK
<1>7. RunEndsWithArchive'
  BY DEF RunEndsWithArchive, LateSound
<1>8. QED
  BY <1>1, <1>2, <1>4, <1>5, <1>6, <1>7

\* A step before the record of the merge, with the facts it goes by.
LEMMA EarlyGoesOn ==
    ASSUME MergeInv, at' \in Early,
           UNCHANGED <<world, judged, delivery, autoRun, ours>>,
           \/ flying' \subseteq flying
           \/ at = "merge" /\ flying' \subseteq flying \cup {Merge(fact.head)},
           gated \subseteq gated', gated' \subseteq Heads, strayed' \subseteq Heads,
           auth' \in Grants \cup {None}, mem' \in Deliveries \cup {None},
           reply' \in Answers \cup {None}, at = "merge" => fact \in Facts,
           delivery = None, run' \in Grants, fact' \in Facts,
           fact'.state = "MERGED" => pr.state = "MERGED" /\ pr.head = fact'.head,
           at' = "freeze" => fact'.state = "MERGED",
           at' = "merge" => fact'.head \in gated'
    PROVE  MergeInv'
<1> USE DEF MergeInv, world
<1>1. at = "merge" => Merge(fact.head) \in MergeWrites /\ Merge(fact.head) # Closing
                      /\ fact.head \in Heads
  BY WriteFacts DEF Facts
<1>2. flying' \subseteq MergeWrites
  BY <1>1 DEF MergeTypeOK
<1>3. MergeTypeOK'
  BY <1>2, PlaceFacts DEF MergeTypeOK
<1>4. \A h \in Heads : Merge(h) \in flying' => h \in gated'
  BY <1>1, WriteFacts DEF GatesSound
<1>5. GatesSound'
  BY <1>4 DEF GatesSound
<1>6. EarlySound' /\ LateSound' /\ DiskSound'
  BY PlaceFacts DEF EarlySound, LateSound, DiskSound
<1>7. Closing \in flying' => Closing \in flying
  BY <1>1
<1>8. TraceSound' /\ ClosingOnce' /\ RunEndsWithArchive'
  BY <1>7 DEF TraceSound, CommentSent, ClosingOnce, RunEndsWithArchive, MergeTypeOK
<1>9. QED
  BY <1>3, <1>5, <1>6, <1>8

\* A step of the cleanup that does and records nothing.
LEMMA LateGoesOn ==
    ASSUME MergeInv, at \in Late, at' \in Late,
           UNCHANGED <<world, disk, auth, run, fact, mem, history>>,
           flying' \subseteq flying \cup {Close}, reply' \in Answers \cup {None},
           Behind(at', mem)
    PROVE  MergeInv'
<1> USE DEF MergeInv, world, disk, history
<1>1. MergeTypeOK'
  BY WriteFacts, PlaceFacts DEF MergeTypeOK
<1>2. GatesSound'
  BY WriteFacts, PlaceFacts DEF GatesSound, Late
<1>3. CommentSent' => CommentSent
  BY WriteFacts DEF CommentSent
<1>4. EarlySound' /\ DiskSound' /\ TraceSound'
  BY <1>3, PlaceFacts DEF EarlySound, DiskSound, TraceSound, SaysSo
<1>5. LateSound'
  BY <1>3 DEF LateSound, SaysSo, Behind
<1>6. ClosingOnce' /\ RunEndsWithArchive'
  BY WriteFacts DEF ClosingOnce, RunEndsWithArchive, MergeTypeOK
<1>7. QED
  BY <1>1, <1>2, <1>4, <1>5, <1>6

\* A step of the cleanup that has done its part commits a copy that says so.
LEMMA CommitKeeps ==
    ASSUME MergeInv, at \in Late, NEW copy, NEW next \in Late, Commit(copy, next),
           UNCHANGED <<pr, base, contract, issue, comments, flying, judged, autoRun, auth,
                       history>>,
           worktree' \in {worktree, "gone"}, local' \in BOOLEAN, local' => local,
           remote' \in {remote, 0},
           SaysSo(copy)', ~copy.archived, Behind(next, copy)
    PROVE  MergeInv'
<1> USE MergeAssumption, DeliveryAssumption DEF MergeInv, history
<1>1. CommentSent' <=> CommentSent
  BY DEF CommentSent
<1>2. SaysSo(copy)' /\ ~copy.archived /\ Behind(next, copy)
  OBVIOUS
<1>3. copy \in Deliveries /\ copy # None
  BY <1>2 DEF SaysSo
<1>4. delivery # None /\ ~delivery.archived /\ delivery \in Deliveries
  BY DEF LateSound, DiskSound, SaysSo
<1>5. delivery' \in {delivery, copy} /\ delivery' # None /\ ~delivery'.archived
  BY <1>2, <1>3, <1>4 DEF Commit
<1>6. at' = next \/ at' = "idle"
  BY DEF Commit, Quits
<1>7. MergeTypeOK'
  <2>1. /\ worktree' \in {"clean", "dirty", "loose", "gone"} /\ local' \in BOOLEAN
        /\ remote' \in 0..MaxMerge
    BY DEF MergeTypeOK
  <2>2. /\ at' \in Places /\ mem' \in Deliveries \cup {None} /\ run' \in Grants \cup {None}
        /\ fact' \in Facts \cup {None} /\ reply' \in Answers \cup {None}
    BY <1>3, <1>6, PlaceFacts DEF Commit, Quits, MergeTypeOK
  <2>3. delivery' \in Deliveries \cup {None}
    BY <1>3, <1>4, <1>5
  <2>4. QED
    BY <2>1, <2>2, <2>3 DEF MergeTypeOK
<1>8. GatesSound' /\ EarlySound'
  BY <1>6, PlaceFacts DEF GatesSound, EarlySound, Late
<1>9. SaysSo(delivery)'
  <2>1. CASE delivery' = copy
    BY <1>2, <2>1 DEF SaysSo
  <2>2. CASE delivery' = delivery
    BY <1>1, <1>4, <2>2 DEF DiskSound, SaysSo, MergeTypeOK
  <2>3. QED
    BY <1>5, <2>1, <2>2
<1>10. DiskSound'
  BY <1>4, <1>5, <1>9 DEF DiskSound
<1>11. LateSound'
  BY <1>2, <1>5, PlaceFacts DEF Commit, Quits, LateSound, SaysSo, Behind
<1>12. TraceSound' /\ ClosingOnce' /\ RunEndsWithArchive'
  BY <1>4, <1>5 DEF TraceSound, ClosingOnce, RunEndsWithArchive
<1>13. QED
  BY <1>7, <1>8, <1>10, <1>11, <1>12

-----------------------------------------------------------------------------
(* What each action does to the invariant: up to the record of the merge *)

\* What an attempt before the record of the merge rests on.
LEMMA EarlyFacts ==
    ASSUME MergeInv, at \in Early
    PROVE  /\ delivery = None /\ run \in Grants /\ fact \in Facts /\ fact.head \in Heads
           /\ fact.state = "MERGED" => pr.state = "MERGED" /\ pr.head = fact.head
           /\ at = "freeze" => fact.state = "MERGED"
           /\ gated \subseteq Heads /\ strayed \subseteq Heads
           /\ auth \in Grants \cup {None} /\ mem \in Deliveries \cup {None}
           /\ reply \in Answers \cup {None}
BY DEF MergeInv, EarlySound, MergeTypeOK, Facts

LEMMA AuthorizeKeeps == ASSUME MergeInv, Authorize PROVE MergeInv'
<1> USE DEF MergeInv, Authorize, world, disk, history
<1>1. auth' \in Grants
  <2>1. PICK readable \in BOOLEAN :
          auth' = [head |-> pr.head, base |-> base,
                   skipped |-> IF delivery = None
                                 THEN Failures(pr.head, base, readable) ELSE {}]
    OBVIOUS
  <2>2. Failures(pr.head, base, readable) \subseteq Gates
    BY DEF Failures, Gates
  <2>3. pr.head \in Heads /\ base \in 1..MaxBase
    BY DEF MergeTypeOK
  <2>4. QED
    BY <2>1, <2>2, <2>3 DEF Grants
<1>2. MergeTypeOK'
  BY <1>1 DEF MergeTypeOK
<1>3. GatesSound' /\ EarlySound' /\ LateSound' /\ DiskSound' /\ TraceSound'
  BY DEF GatesSound, EarlySound, LateSound, DiskSound, TraceSound, CommentSent, SaysSo, Behind
<1>4. ClosingOnce' /\ RunEndsWithArchive'
  BY DEF ClosingOnce, RunEndsWithArchive
<1>5. QED
  BY <1>2, <1>3, <1>4

\* Without a record the attempt begins with the gates, with one at the cleanup.
LEMMA BeginKeeps ==
    ASSUME MergeInv, NEW grant \in {auth, Unattended}, Begin(grant) PROVE MergeInv'
<1> USE MergeAssumption DEF Begin
<1>1. UNCHANGED <<world, flying, disk, history>> /\ auth' \in {auth, None} /\ at = "idle"
  OBVIOUS
<1>2. CASE Quits
  <2>1. gated \subseteq Heads
    BY DEF MergeInv, MergeTypeOK
  <2>2. QED
    BY <1>1, <1>2, <2>1, AttemptEnds DEF disk, history
<1>3. CASE /\ pr.state # "CLOSED"
           /\ delivery # None => pr.state = "MERGED" /\ ~delivery.archived
           /\ at' = IF delivery = None THEN "looked" ELSE "worktree"
           /\ run' = grant
           /\ fact' = [state |-> pr.state, head |-> pr.head, base |-> base]
           /\ mem' = delivery
           /\ UNCHANGED reply
  <2>1. grant \in Grants
    BY DEF MergeInv, MergeTypeOK, Unattended, Grants
  <2>2. fact' \in Facts /\ fact'.state = pr.state /\ fact'.head = pr.head
    BY <1>3 DEF MergeInv, MergeTypeOK, Facts
  <2>3. CASE delivery = None
    <3>1. /\ at' \in Early /\ at' # "freeze" /\ at' # "merge" /\ at # "merge"
      BY <1>1, <1>3, <2>3 DEF Early
    <3>2. /\ gated \subseteq Heads /\ strayed \subseteq Heads
          /\ auth' \in Grants \cup {None} /\ mem' \in Deliveries \cup {None}
          /\ reply' \in Answers \cup {None}
      BY <1>1, <1>3 DEF MergeInv, MergeTypeOK
    <3>3. QED
      BY <1>1, <1>3, <2>1, <2>2, <2>3, <3>1, <3>2, EarlyGoesOn DEF disk, history
  <2>4. CASE delivery # None
    <3> USE DEF MergeInv
    <3>1. at' = "worktree" /\ mem' = delivery /\ ~delivery.archived
      BY <1>3, <2>4
    <3>2. MergeTypeOK'
      BY <1>1, <1>3, <2>1, <2>2, <3>1 DEF world, disk, history, MergeTypeOK, Places
    <3>3. GatesSound' /\ EarlySound'
      BY <1>1, <3>1 DEF world, disk, history, GatesSound, EarlySound, Early
    <3>4. LateSound' /\ DiskSound'
      BY <1>1, <2>4, <3>1
         DEF world, disk, history, LateSound, DiskSound, SaysSo, Behind, CommentSent
    <3>5. TraceSound' /\ ClosingOnce' /\ RunEndsWithArchive'
      BY <1>1 DEF world, disk, TraceSound, CommentSent, ClosingOnce, RunEndsWithArchive
    <3>6. QED
      BY <3>2, <3>3, <3>4, <3>5
  <2>5. QED
    BY <2>3, <2>4
<1>4. QED
  BY <1>2, <1>3

\* The head goes among the gated ones before anything is sent.
LEMMA CheckGatesKeeps == ASSUME MergeInv, CheckGates PROVE MergeInv'
<1> USE DEF CheckGates
<1>1. at = "looked" /\ at \in Early
  BY DEF Early
<1>2. UNCHANGED <<world, flying, disk, auth, strayed, ours>>
  OBVIOUS
<1>3. CASE Quits /\ UNCHANGED gated
  <2>1. gated \subseteq Heads
    BY DEF MergeInv, MergeTypeOK
  <2>2. QED
    BY <1>2, <1>3, <2>1, AttemptEnds DEF disk
<1>4. CASE /\ gated' = gated \cup {fact.head}
           /\ GoesTo(IF fact.state = "MERGED" THEN "freeze" ELSE "merge")
  <2>1. /\ at' \in Early /\ (at' = "freeze" => fact.state = "MERGED")
        /\ UNCHANGED <<run, fact, mem, reply>>
    BY <1>4 DEF GoesTo, Early
  <2>2. gated' \subseteq Heads /\ gated \subseteq gated' /\ fact.head \in gated'
    BY <1>1, <1>4, EarlyFacts
  <2>3. QED
    BY <1>1, <1>2, <2>1, <2>2, EarlyFacts, EarlyGoesOn DEF disk
<1>5. QED
  BY <1>3, <1>4

LEMMA SendMergeKeeps == ASSUME MergeInv, SendMerge PROVE MergeInv'
<1> USE DEF SendMerge, Dispatch, GoesTo
<1>1. at = "merge" /\ at \in Early /\ at' = "sent" /\ at' \in Early
  BY DEF Early
<1>2. strayed' \subseteq Heads
  BY <1>1, EarlyFacts
<1>3. QED
  BY <1>1, <1>2, EarlyFacts, EarlyGoesOn DEF disk

LEMMA MergeAnsweredKeeps == ASSUME MergeInv, MergeAnswered PROVE MergeInv'
<1> USE DEF MergeAnswered, Answered
<1>1. at = "sent" /\ at \in Early
  BY DEF Early
<1>2. UNCHANGED <<world, disk, auth, history>>
  OBVIOUS
<1>3. PICK a \in Answers :
        /\ flying' = IF NeverHappened(a) THEN flying \ {Merge(fact.head)} ELSE flying
        /\ IF ~NeverHappened(a)
             THEN at' = "answered" /\ reply' = a /\ UNCHANGED <<run, fact, mem>>
             ELSE Quits
  OBVIOUS
<1>4. CASE NeverHappened(a)
  <2>1. gated \subseteq Heads /\ Quits /\ flying' \subseteq flying
    BY <1>3, <1>4 DEF MergeInv, MergeTypeOK
  <2>2. QED
    BY <1>2, <2>1, AttemptEnds DEF disk, history
<1>5. CASE ~NeverHappened(a)
  <2>1. at' = "answered" /\ at' \in Early /\ flying' = flying
    BY <1>3, <1>5 DEF Early
  <2>2. QED
    BY <1>1, <1>2, <1>3, <1>5, <2>1, EarlyFacts, EarlyGoesOn DEF disk, history
<1>6. QED
  BY <1>4, <1>5

LEMMA MergeReadBackKeeps == ASSUME MergeInv, MergeReadBack PROVE MergeInv'
<1> USE DEF MergeReadBack
<1>1. at = "answered" /\ at \in Early
  BY DEF Early
<1>2. UNCHANGED <<world, flying, disk, auth, history>>
  OBVIOUS
<1>3. CASE Quits
  <2>1. gated \subseteq Heads
    BY DEF MergeInv, MergeTypeOK
  <2>2. QED
    BY <1>2, <1>3, <2>1, AttemptEnds DEF disk, history
<1>4. CASE GoesTo("confirm")
  <2>1. at' = "confirm" /\ at' \in Early /\ UNCHANGED <<run, fact, mem, reply>>
    BY <1>4 DEF GoesTo, Early
  <2>2. QED
    BY <1>1, <1>2, <2>1, EarlyFacts, EarlyGoesOn DEF disk, history
<1>5. QED
  BY <1>3, <1>4

\* What is merged stays merged, at the head it was merged at.
LEMMA ConfirmKeeps == ASSUME MergeInv, Confirm PROVE MergeInv'
<1> USE DEF Confirm
<1>1. at = "confirm" /\ at \in Early
  BY DEF Early
<1>2. UNCHANGED <<world, flying, disk, auth, history>>
  OBVIOUS
<1>3. CASE Quits
  <2>1. gated \subseteq Heads
    BY DEF MergeInv, MergeTypeOK
  <2>2. QED
    BY <1>2, <1>3, <2>1, AttemptEnds DEF disk, history
<1>4. CASE /\ pr.state = "MERGED"
           /\ fact' = [fact EXCEPT !.state = "MERGED", !.head = pr.head]
           /\ at' = "freeze"
           /\ UNCHANGED <<run, mem, reply>>
  <2>1. fact \in Facts /\ pr.head \in Heads
    BY <1>1, EarlyFacts DEF MergeInv, MergeTypeOK
  <2>2. fact' = [state |-> "MERGED", head |-> pr.head, base |-> fact.base]
    BY <1>4, <2>1, Zenon DEF Facts
  <2>3. fact' \in Facts /\ fact'.state = "MERGED" /\ fact'.head = pr.head
    BY <2>1, <2>2 DEF Facts
  <2>4. at' \in Early /\ at' # "merge" /\ at # "merge"
    BY <1>1, <1>4 DEF Early
  <2>5. QED
    BY <1>1, <1>2, <1>4, <2>3, <2>4, EarlyFacts, EarlyGoesOn DEF disk, history
<1>5. QED
  BY <1>3, <1>4

\* The record names the merged head, and nothing as done.
LEMMA FreezeKeeps == ASSUME MergeInv, Freeze PROVE MergeInv'
<1> DEFINE frozen == [head |-> fact.head, done |-> {}, archived |-> FALSE, comment |-> "none"]
<1> USE DEF Freeze
<1>1. at = "freeze" /\ at \in Early
  BY DEF Early
<1>2. UNCHANGED <<world, flying, judged, autoRun, auth, history>>
  OBVIOUS
<1>3. CASE Quits /\ UNCHANGED delivery
  <2>1. gated \subseteq Heads
    BY DEF MergeInv, MergeTypeOK
  <2>2. QED
    BY <1>2, <1>3, <2>1, AttemptEnds DEF history
<1>4. CASE delivery' = frozen /\ mem' = frozen /\ at' = "worktree" /\ UNCHANGED <<run, fact, reply>>
  <2> USE DEF MergeInv
  <2>1. pr.state = "MERGED" /\ pr.head = fact.head /\ fact.head \in Heads /\ delivery = None
    BY <1>1, EarlyFacts
  <2>2. frozen \in Deliveries /\ frozen # None
    <3>1. frozen \in Deliveries
      BY <2>1 DEF Deliveries
    <3>2. QED
      BY <3>1, DeliveryAssumption
  <2>3. MergeTypeOK'
    BY <1>2, <1>4, <2>2 DEF world, history, MergeTypeOK, Places
  <2>4. GatesSound' /\ EarlySound'
    BY <1>2, <1>4 DEF world, history, GatesSound, EarlySound, Early
  <2>5. ~CommentSent'
    BY <1>2, <2>1 DEF world, TraceSound, CommentSent
  <2>6. SaysSo(delivery)'
    BY <1>2, <1>4, <2>1, <2>2, <2>5 DEF world, SaysSo
  <2>7. LateSound' /\ DiskSound'
    BY <1>2, <1>4, <2>1, <2>2, <2>6 DEF world, LateSound, DiskSound, Behind, SaysSo
  <2>8. TraceSound' /\ ClosingOnce' /\ RunEndsWithArchive'
    BY <1>2, <1>4, <2>1, <2>2
       DEF world, TraceSound, ClosingOnce, RunEndsWithArchive
  <2>9. QED
    BY <2>3, <2>4, <2>7, <2>8
<1>5. QED
  BY <1>3, <1>4

-----------------------------------------------------------------------------
(* What each action does to the invariant: the cleanup *)

\* What an attempt of the cleanup rests on.
LEMMA LateFacts ==
    ASSUME MergeInv, at \in Late
    PROVE  /\ mem \in Deliveries /\ mem # None /\ SaysSo(mem) /\ ~mem.archived
           /\ mem.done \subseteq Steps
           /\ delivery \in Deliveries /\ delivery # None /\ SaysSo(delivery)
           /\ ~delivery.archived /\ pr.state = "MERGED" /\ Behind(at, mem)
           /\ gated \subseteq Heads /\ reply \in Answers \cup {None}
           /\ CommentSent => mem.comment # "none"
BY DeliveryAssumption DEF MergeInv, LateSound, DiskSound, MergeTypeOK, SaysSo, Deliveries

LEMMA MarksFacts ==
    ASSUME mem \in Deliveries, NEW s \in Steps
    PROVE  /\ Marks(s) \in Deliveries
           /\ Marks(s).head = mem.head /\ Marks(s).archived = mem.archived
           /\ Marks(s).comment = mem.comment /\ Marks(s).done = mem.done \cup {s}
BY DEF Marks, Deliveries

LEMMA CommentedFacts ==
    ASSUME mem \in Deliveries, NEW c \in {"pending", "confirmed"},
           NEW copy, copy = [mem EXCEPT !.comment = c]
    PROVE  /\ copy \in Deliveries
           /\ copy.head = mem.head /\ copy.archived = mem.archived
           /\ copy.comment = c /\ copy.done = mem.done
BY DEF Deliveries

LEMMA FailsKeeps == ASSUME MergeInv, Fails PROVE MergeInv'
<1>1. at \in Late
  BY DEF Fails, Steps, Late
<1>2. /\ Quits /\ UNCHANGED <<world, judged, autoRun>> /\ flying' = flying
      /\ UNCHANGED history /\ auth' = auth /\ delivery' \in {delivery, mem}
  BY DEF Fails
<1>3. QED
  BY <1>1, <1>2, LateFacts, AttemptEnds DEF history

LEMMA SkipKeeps == ASSUME MergeInv, Skip PROVE MergeInv'
<1>1. at \in Steps /\ at \in mem.done /\ at \in Late
  BY DEF Skip, Steps, Late
<1>2. /\ UNCHANGED <<world, flying, disk, auth, history, run, fact, mem, reply>>
      /\ \/ at = "worktree" /\ at' = "local"
         \/ at = "local" /\ at' = "remote"
         \/ at = "remote" /\ at' = "issue"
         \/ at = "issue" /\ at' = "archive"
  BY <1>1 DEF Skip, GoesTo, Steps
<1>3. Behind(at', mem) /\ at' \in Late
  BY <1>1, <1>2, LateFacts DEF Behind, Late
<1>4. QED
  BY <1>1, <1>2, <1>3, LateFacts, LateGoesOn

\* A step that removes something records it once it is gone.
LEMMA CleanWorktreeKeeps == ASSUME MergeInv, CleanWorktree PROVE MergeInv'
<1> USE DEF CleanWorktree
<1>1. at = "worktree" /\ at \in Late /\ "local" \in Late /\ "worktree" \in Steps
  BY DEF Late, Steps
<1>2. PICK copy : copy = Marks("worktree")
  OBVIOUS
<1>3. SaysSo(copy)' /\ ~copy.archived /\ Behind("local", copy)
  BY <1>1, <1>2, LateFacts, MarksFacts DEF SaysSo, Behind, CommentSent
<1>4. local' \in BOOLEAN /\ remote' \in {remote, 0} /\ worktree' \in {worktree, "gone"}
  BY DEF MergeInv, MergeTypeOK
<1>5. Commit(copy, "local")
  BY <1>2
<1>6. QED
  BY <1>1, <1>3, <1>4, <1>5, CommitKeeps

LEMMA CleanLocalKeeps == ASSUME MergeInv, CleanLocal PROVE MergeInv'
<1> USE DEF CleanLocal
<1>1. at = "local" /\ at \in Late /\ "remote" \in Late /\ "local" \in Steps
  BY DEF Late, Steps
<1>2. PICK copy : copy = Marks("local")
  OBVIOUS
<1>3. SaysSo(copy)' /\ ~copy.archived /\ Behind("remote", copy)
  BY <1>1, <1>2, LateFacts, MarksFacts DEF SaysSo, Behind, CommentSent
<1>4. Commit(copy, "remote")
  BY <1>2
<1>5. local' \in BOOLEAN /\ (local' => local)
  OBVIOUS
<1>6. QED
  BY <1>1, <1>3, <1>4, <1>5, CommitKeeps

LEMMA CleanRemoteKeeps == ASSUME MergeInv, CleanRemote PROVE MergeInv'
<1> USE DEF CleanRemote
<1>1. at = "remote" /\ at \in Late /\ "issue" \in Late /\ "remote" \in Steps
  BY DEF Late, Steps
<1>2. PICK copy : copy = Marks("remote")
  OBVIOUS
<1>3. SaysSo(copy)' /\ ~copy.archived /\ Behind("issue", copy)
  BY <1>1, <1>2, LateFacts, MarksFacts DEF SaysSo, Behind, CommentSent
<1>4. local' \in BOOLEAN
  BY DEF MergeInv, MergeTypeOK
<1>5. Commit(copy, "issue")
  BY <1>2
<1>6. QED
  BY <1>1, <1>3, <1>4, <1>5, CommitKeeps

\* A command whose end is unknown only takes away what the record does not deny.
LEMMA CommandUnknownKeeps == ASSUME MergeInv, CommandUnknown PROVE MergeInv'
<1> USE MergeAssumption DEF MergeInv, CommandUnknown, history
<1>1. at \in Late
  BY DEF Late
<1>2. /\ worktree' \in {worktree, "gone"} /\ local' \in BOOLEAN /\ (local' => local)
      /\ remote' \in {remote, 0} /\ remote' \in 0..MaxMerge
      /\ worktree' \in {"clean", "dirty", "loose", "gone"}
  <2>1. worktree' \in {worktree, "gone"} /\ remote' \in {remote, 0}
    OBVIOUS
  <2>2. local' = local \/ local' = FALSE
    OBVIOUS
  <2>3. worktree \in {"clean", "dirty", "loose", "gone"} /\ remote \in 0..MaxMerge
    BY DEF MergeTypeOK
  <2>4. local \in BOOLEAN
    BY DEF MergeTypeOK
  <2>5. local' \in BOOLEAN /\ (local' => local)
    <3>1. CASE local' = local
      BY <2>4, <3>1
    <3>2. CASE local' = FALSE
      BY <3>2
    <3>3. QED
      BY <2>2, <3>1, <3>2
  <2>6. QED
    BY <2>1, <2>3, <2>5
<1>3. Quits /\ delivery' \in {delivery, mem}
  OBVIOUS
<1>4. CommentSent' <=> CommentSent
  BY DEF CommentSent
<1>5. SaysSo(delivery)' /\ delivery' # None /\ ~delivery'.archived
  BY <1>1, <1>2, <1>3, <1>4, LateFacts DEF SaysSo
<1>6. delivery' \in Deliveries
  BY <1>5 DEF SaysSo
<1>7. MergeTypeOK'
  BY <1>2, <1>3, <1>6 DEF Quits, MergeTypeOK, Places
<1>8. GatesSound' /\ EarlySound' /\ LateSound'
  BY <1>3 DEF Quits, GatesSound, EarlySound, LateSound, Early, Late
<1>9. DiskSound' /\ TraceSound'
  BY <1>1, <1>5, LateFacts DEF DiskSound, TraceSound
<1>10. ClosingOnce' /\ RunEndsWithArchive'
  BY <1>1, LateFacts DEF ClosingOnce, RunEndsWithArchive
<1>11. QED
  BY <1>7, <1>8, <1>9, <1>10

LEMMA LookAtIssueKeeps == ASSUME MergeInv, LookAtIssue PROVE MergeInv'
<1> USE DEF LookAtIssue
<1>1. at = "issue" /\ at \in Late
  BY DEF Late
<1>2. mem.comment \in {"none", "pending", "confirmed"}
  BY <1>1, LateFacts DEF Deliveries
<1>3. UNCHANGED <<world, flying, disk, auth, history, run, fact, mem, reply>>
  BY DEF GoesTo
<1>4. /\ at' \in {"issue done", "comment", "comment answered", "close"}
      /\ at' = "issue done" => issue = "CLOSED"
      /\ at' = "comment" => mem.comment = "none"
  BY <1>2 DEF GoesTo
<1>5. Behind(at', mem) /\ at' \in Late
  BY <1>1, <1>4, LateFacts DEF Behind, Late
<1>6. QED
  BY <1>1, <1>3, <1>5, LateFacts, LateGoesOn

\* The only dispatch of a closing comment: the record had none, so none was sent.
LEMMA SendCommentKeeps == ASSUME MergeInv, SendComment PROVE MergeInv'
<1>1. at = "comment" /\ at \in Late
  BY DEF SendComment, Late
<1>2. mem.comment = "none" /\ ~CommentSent
  BY <1>1, LateFacts DEF Behind
<1>3. /\ mem' \in Deliveries /\ mem'.head = mem.head /\ mem'.archived = mem.archived
      /\ mem'.comment = "pending" /\ mem'.done = mem.done
  BY <1>1, LateFacts, CommentedFacts DEF SendComment
<1>4. UNCHANGED <<pr, base, contract, issue, comments, worktree, local, remote, judged,
                  autoRun, auth, run, fact, reply, gated, strayed, ours>>
  BY DEF SendComment, world, history
<1>5. SaysSo(mem) /\ ~mem.archived /\ Behind(at, mem)
  BY <1>1, LateFacts
<1>6. SaysSo(mem)' /\ ~mem'.archived /\ mem' # None
  BY <1>3, <1>4, <1>5, DeliveryAssumption DEF SaysSo
<1>7. at' \in {"close", "comment sent"} /\ at' \in Late
  BY DEF SendComment, Late
<1>8. Behind(at, mem)'
  BY <1>1, <1>3, <1>5, <1>7 DEF Behind
<1>9. \/ delivery' = mem' /\ flying' = flying \cup {Closing}
      \/ delivery' = delivery /\ flying' = flying
  BY DEF SendComment
<1>10. delivery' # None /\ ~delivery'.archived /\ SaysSo(delivery)'
  <2>1. CASE delivery' = mem'
    BY <1>6, <2>1 DEF SaysSo
  <2>2. CASE delivery' = delivery /\ flying' = flying
    BY <1>1, <1>4, <2>2, LateFacts DEF SaysSo, CommentSent
  <2>3. QED
    BY <1>9, <2>1, <2>2
<1>11. MergeTypeOK'
  <2>1. flying' \subseteq MergeWrites
    BY <1>9, WriteFacts DEF MergeInv, MergeTypeOK
  <2>2. delivery' \in Deliveries /\ at' \in Places
    BY <1>7, <1>10, PlaceFacts DEF SaysSo
  <2>3. QED
    BY <1>3, <1>4, <2>1, <2>2 DEF MergeInv, MergeTypeOK
<1>12. GatesSound' /\ EarlySound'
  <2>1. \A h \in Heads : Merge(h) \in flying' => Merge(h) \in flying
    BY <1>9, WriteFacts
  <2>2. QED
    BY <1>4, <1>7, <2>1, PlaceFacts DEF MergeInv, GatesSound, EarlySound
<1>13. pr.state = "MERGED"
  BY <1>1, LateFacts
<1>14. LateSound' /\ DiskSound' /\ TraceSound'
  BY <1>4, <1>6, <1>8, <1>10, <1>13 DEF LateSound, DiskSound, TraceSound
<1>15. ClosingOnce'
  BY <1>2, <1>4, <1>9 DEF MergeInv, ClosingOnce, CommentSent, MergeTypeOK
<1>16. RunEndsWithArchive'
  BY <1>1, <1>4, LateFacts DEF MergeInv, RunEndsWithArchive
<1>17. QED
  BY <1>11, <1>12, <1>14, <1>15, <1>16 DEF MergeInv

LEMMA CommentAnsweredKeeps == ASSUME MergeInv, CommentAnswered PROVE MergeInv'
<1> USE DEF CommentAnswered, Answered
<1>1. at = "comment sent" /\ at \in Late
  BY DEF Late
<1>2. UNCHANGED <<world, disk, auth, history, run, fact, mem>>
      /\ flying' \subseteq flying /\ reply' \in Answers \cup {None}
      /\ at' \in {"comment answered", "close"}
  BY <1>1, LateFacts DEF GoesTo
<1>3. Behind(at', mem) /\ at' \in Late
  BY <1>1, <1>2, LateFacts DEF Behind, Late
<1>4. QED
  BY <1>1, <1>2, <1>3, LateGoesOn

LEMMA CommentReadBackKeeps == ASSUME MergeInv, CommentReadBack PROVE MergeInv'
<1>1. at = "comment answered" /\ at \in Late /\ "close" \in Late
  BY DEF CommentReadBack, Late
<1>2. PICK copy : copy = [mem EXCEPT !.comment = "confirmed"]
  OBVIOUS
<1>3. UNCHANGED <<pr, base, contract, issue, comments, worktree, local, remote, flying,
                  judged, autoRun, auth, history>>
  BY DEF CommentReadBack, world
<1>4. Behind(at, mem) /\ Behind("close", mem)
  BY <1>1, LateFacts DEF Behind
<1>5. CASE Commit(copy, "close")
  <2>1. /\ copy \in Deliveries /\ copy.head = mem.head /\ copy.archived = mem.archived
        /\ copy.comment = "confirmed" /\ copy.done = mem.done
    BY <1>1, <1>2, LateFacts, CommentedFacts
  <2>2. SaysSo(mem) /\ ~mem.archived
    BY <1>1, LateFacts
  <2>3. SaysSo(copy)'
    BY <1>3, <2>1, <2>2 DEF SaysSo
  <2>4. ~copy.archived /\ Behind("close", copy)
    BY <1>4, <2>1, <2>2 DEF Behind
  <2>5. local' \in BOOLEAN /\ (local' => local)
    BY <1>3 DEF MergeInv, MergeTypeOK
  <2>6. QED
    BY <1>1, <1>3, <1>5, <2>3, <2>4, <2>5, CommitKeeps
<1>6. CASE GoesTo("close") /\ UNCHANGED delivery
  BY <1>1, <1>3, <1>4, <1>6, LateFacts, LateGoesOn DEF GoesTo, disk, world
<1>7. QED
  BY <1>2, <1>5, <1>6 DEF CommentReadBack

LEMMA SendCloseKeeps == ASSUME MergeInv, SendClose PROVE MergeInv'
<1>1. at = "close" /\ at \in Late /\ at' = "close sent" /\ at' \in Late
  BY DEF SendClose, Dispatch, GoesTo, Late
<1>2. /\ UNCHANGED <<world, disk, auth, run, fact, mem, history>>
      /\ flying' = flying \cup {Close} /\ reply' = reply
  BY DEF SendClose, Dispatch, GoesTo, history
<1>3. Behind(at', mem)
  BY <1>1, LateFacts DEF Behind
<1>4. QED
  BY <1>1, <1>2, <1>3, LateFacts, LateGoesOn

LEMMA CloseAnsweredKeeps == ASSUME MergeInv, CloseAnswered PROVE MergeInv'
<1>1. at = "close sent" /\ at \in Late
  BY DEF CloseAnswered, Answered, Late
<1>2. UNCHANGED <<world, disk, auth, history, run, fact, mem>>
      /\ flying' \subseteq flying /\ reply' \in Answers \cup {None}
      /\ at' \in {"close answered", "close refused"}
  BY <1>1, LateFacts DEF CloseAnswered, Answered, GoesTo
<1>3. Behind(at', mem) /\ at' \in Late
  BY <1>1, <1>2, LateFacts DEF Behind, Late
<1>4. QED
  BY <1>1, <1>2, <1>3, LateGoesOn

\* A closed issue is one that was read as closed.
LEMMA CloseReadBackKeeps == ASSUME MergeInv, CloseReadBack PROVE MergeInv'
<1>1. at = "close answered" /\ at \in Late
  BY DEF CloseReadBack, Late
<1>2. UNCHANGED <<world, flying, judged, autoRun, auth, history>>
  BY DEF CloseReadBack
<1>3. PICK s \in Readings(IsSo(Close)) :
        IF Outcome(reply, s) = "confirmed"
          THEN GoesTo("issue done") /\ UNCHANGED delivery
          ELSE delivery' \in {delivery, mem} /\ Quits
  BY DEF CloseReadBack
<1>4. CASE Outcome(reply, s) = "confirmed"
  <2>1. issue = "CLOSED"
    BY <1>4, ClosedFacts DEF Outcome
  <2>2. at' = "issue done" /\ UNCHANGED <<delivery, run, fact, mem, reply>>
    BY <1>3, <1>4 DEF GoesTo
  <2>3. Behind(at', mem) /\ at' \in Late
    BY <1>1, <2>1, <2>2, LateFacts DEF Behind, Late
  <2>4. QED
    BY <1>1, <1>2, <2>2, <2>3, LateFacts, LateGoesOn DEF disk
<1>5. CASE Outcome(reply, s) # "confirmed"
  BY <1>1, <1>2, <1>3, <1>5, LateFacts, AttemptEnds DEF history
<1>6. QED
  BY <1>4, <1>5

LEMMA IssueDoneKeeps == ASSUME MergeInv, IssueDone PROVE MergeInv'
<1>1. at = "issue done" /\ at \in Late /\ "archive" \in Late /\ "issue" \in Steps
  BY DEF IssueDone, Late, Steps
<1>2. UNCHANGED <<pr, base, contract, issue, comments, worktree, local, remote, flying,
                  judged, autoRun, auth, history>>
  BY DEF IssueDone, world
<1>3. PICK copy : copy = Marks("issue")
  OBVIOUS
<1>4. issue = "CLOSED" /\ SaysSo(mem) /\ ~mem.archived /\ Behind(at, mem)
  BY <1>1, LateFacts DEF Behind
<1>5. /\ copy \in Deliveries /\ copy.head = mem.head /\ copy.archived = mem.archived
      /\ copy.comment = mem.comment /\ copy.done = mem.done \cup {"issue"}
  BY <1>1, <1>3, LateFacts, MarksFacts
<1>6. SaysSo(copy)'
  BY <1>2, <1>4, <1>5 DEF SaysSo, CommentSent
<1>7. ~copy.archived /\ Behind("archive", copy)
  BY <1>1, <1>4, <1>5 DEF Behind
<1>8. local' \in BOOLEAN /\ (local' => local)
  BY <1>2 DEF MergeInv, MergeTypeOK
<1>9. Commit(copy, "archive")
  BY <1>3 DEF IssueDone
<1>10. QED
  BY <1>1, <1>2, <1>6, <1>7, <1>8, <1>9, CommitKeeps

\* The archive has the four steps behind it, and takes the run along.
LEMMA ArchiveKeeps == ASSUME MergeInv, Archive PROVE MergeInv'
<1>1. at = "archive" /\ at \in Late
  BY DEF Archive, Late
<1>2. UNCHANGED <<world, flying, judged, auth, history>> /\ Quits
  BY DEF Archive
<1>3. CASE delivery' \in {delivery, mem} /\ UNCHANGED autoRun
  BY <1>1, <1>2, <1>3, LateFacts, AttemptEnds DEF history
<1>4. CASE /\ delivery' = [mem EXCEPT !.archived = TRUE]
           /\ autoRun' = IF autoRun = "running" THEN "completed" ELSE autoRun
  <2> USE DEF MergeInv
  <2>1. /\ delivery' \in Deliveries /\ delivery'.archived /\ delivery'.head = mem.head
        /\ delivery'.comment = mem.comment /\ delivery'.done = mem.done
    BY <1>1, <1>4, LateFacts DEF Deliveries
  <2>2. mem.done = Steps
    BY <1>1, LateFacts DEF Behind, Steps
  <2>3. delivery' # None
    BY <2>1, DeliveryAssumption
  <2>4. SaysSo(delivery)'
    BY <1>1, <1>2, <2>1, LateFacts DEF world, SaysSo, CommentSent
  <2>5. autoRun' \in {"none", "completed"}
    BY <1>4 DEF MergeTypeOK
  <2>6. MergeTypeOK'
    BY <1>2, <2>1, <2>5 DEF world, history, Quits, MergeTypeOK, Places
  <2>7. GatesSound' /\ EarlySound' /\ LateSound'
    BY <1>2 DEF world, history, Quits, GatesSound, EarlySound, LateSound, Early, Late
  <2>8. pr.state = "MERGED"
    BY <1>1, LateFacts
  <2>9. DiskSound' /\ TraceSound'
    BY <1>2, <2>1, <2>2, <2>3, <2>4, <2>5, <2>8 DEF world, DiskSound, TraceSound
  <2>10. ClosingOnce' /\ RunEndsWithArchive'
    BY <1>2, <2>1, <2>3 DEF world, ClosingOnce, RunEndsWithArchive
  <2>11. QED
    BY <2>6, <2>7, <2>9, <2>10
<1>5. QED
  BY <1>3, <1>4 DEF Archive

-----------------------------------------------------------------------------
(* GitHub and whoever else is there *)

\* GitHub merges only the head that was sent, and that has passed the gates.
LEMMA ExecutesKeeps ==
    ASSUME MergeInv, NEW w \in MergeWrites, Executes(w) PROVE MergeInv'
<1>1. w \in flying /\ flying' = flying \ {w}
  BY DEF Executes
<1>2. UNCHANGED <<base, contract, worktree, local, remote, judged, delivery, autoRun,
                  auth, at, run, fact, mem, reply, gated, strayed>>
  BY DEF Executes, disk, server
<1>3. (\E h \in Heads : w = Merge(h)) \/ w = Closing \/ w = Close
  BY DEF MergeWrites
<1> USE DEF MergeInv
<1>4. CASE \E h \in Heads : w = Merge(h)
  <2>1. PICK h \in Heads : w = Merge(h)
    BY <1>4
  <2>2. /\ w[1] = "merge" /\ w[2] = h /\ w # Closing /\ w # Close
    BY <2>1, WriteFacts
  <2>3. pr.state = "OPEN" /\ pr.head = h /\ h \in gated
    BY <1>1, <2>1, <2>2 DEF Executes, Takes, GatesSound
  <2>4. /\ pr' = [pr EXCEPT !.state = "MERGED"] /\ comments' = comments /\ issue' = issue
        /\ ours' = TRUE
    BY <2>2 DEF Executes
  <2>5. /\ pr' \in [state : {"OPEN", "CLOSED", "MERGED"}, head : Heads]
        /\ pr'.state = "MERGED" /\ pr'.head = h
    BY <2>3, <2>4 DEF MergeTypeOK
  <2>6. delivery = None /\ at \notin Late
    BY <2>3 DEF DiskSound, LateSound
  <2>7. MergeTypeOK'
    BY <1>1, <1>2, <2>4, <2>5 DEF MergeTypeOK
  <2>8. GatesSound'
    BY <1>1, <1>2, <2>3, <2>5 DEF GatesSound
  <2>9. EarlySound'
    BY <1>2, <2>3, <2>5 DEF EarlySound
  <2>10. LateSound' /\ DiskSound'
    BY <1>2, <2>6 DEF LateSound, DiskSound
  <2>11. TraceSound' /\ ClosingOnce' /\ RunEndsWithArchive'
    BY <1>1, <1>2, <2>2, <2>4 DEF TraceSound, CommentSent, ClosingOnce, RunEndsWithArchive
  <2>12. QED
    BY <2>7, <2>8, <2>9, <2>10, <2>11
<1>5. CASE w = Closing
  <2>1. w[1] # "merge" /\ w # Close
    BY <1>5, WriteFacts
  <2>2. pr' = pr /\ comments' = comments + 1 /\ issue' = issue /\ ours' = ours
    BY <1>5, <2>1 DEF Executes, MergeTypeOK
  <2>3. CommentSent /\ comments = 0 /\ Closing \notin flying'
    BY <1>1, <1>5 DEF CommentSent, ClosingOnce, MergeTypeOK
  <2>4. MergeTypeOK'
    BY <1>1, <1>2, <2>2 DEF MergeTypeOK
  <2>5. GatesSound' /\ EarlySound'
    BY <1>1, <1>2, <2>2 DEF GatesSound, EarlySound
  <2>6. LateSound' /\ DiskSound' /\ TraceSound'
    BY <1>1, <1>2, <2>2, <2>3 DEF LateSound, DiskSound, TraceSound, SaysSo, Behind
  <2>7. ClosingOnce' /\ RunEndsWithArchive'
    BY <1>2, <2>2, <2>3 DEF ClosingOnce, RunEndsWithArchive
  <2>8. QED
    BY <2>4, <2>5, <2>6, <2>7
<1>6. CASE w = Close
  <2>1. w[1] # "merge" /\ w # Closing
    BY <1>6, WriteFacts
  <2>2. pr' = pr /\ comments' = comments /\ issue' = "CLOSED" /\ ours' = ours
    BY <1>6, <2>1 DEF Executes, MergeTypeOK
  <2>3. CommentSent' <=> CommentSent
    BY <1>1, <2>1, <2>2 DEF CommentSent
  <2>4. MergeTypeOK'
    BY <1>1, <1>2, <2>2 DEF MergeTypeOK
  <2>5. GatesSound' /\ EarlySound'
    BY <1>1, <1>2, <2>2 DEF GatesSound, EarlySound
  <2>6. LateSound' /\ DiskSound' /\ TraceSound'
    BY <1>2, <2>2, <2>3 DEF LateSound, DiskSound, TraceSound, SaysSo, Behind
  <2>7. ClosingOnce' /\ RunEndsWithArchive'
    BY <1>1, <1>2, <2>1, <2>2 DEF ClosingOnce, RunEndsWithArchive
  <2>8. QED
    BY <2>4, <2>5, <2>6, <2>7
<1>7. QED
  BY <1>3, <1>4, <1>5, <1>6

LEMMA VanishesKeeps ==
    ASSUME MergeInv, NEW w \in MergeWrites, Vanishes(w) PROVE MergeInv'
<1> USE DEF MergeInv, Vanishes, world, disk, server, history
<1>1. CommentSent' => CommentSent
  BY DEF CommentSent
<1>2. MergeTypeOK'
  BY DEF MergeTypeOK
<1>3. GatesSound' /\ EarlySound'
  BY DEF GatesSound, EarlySound
<1>4. LateSound' /\ DiskSound' /\ TraceSound'
  BY <1>1 DEF LateSound, DiskSound, TraceSound, SaysSo, Behind
<1>5. ClosingOnce' /\ RunEndsWithArchive'
  BY DEF ClosingOnce, RunEndsWithArchive, MergeTypeOK
<1>6. QED
  BY <1>2, <1>3, <1>4, <1>5

\* Nobody takes back a merge, a removal or the close of the issue.
LEMMA SomebodyFacts ==
    ASSUME MergeTypeOK, SomebodyActs
    PROVE  /\ pr' \in [state : {"OPEN", "CLOSED", "MERGED"}, head : Heads]
           /\ base' \in 1..MaxBase /\ contract' \in {1, 2} /\ issue' \in {"OPEN", "CLOSED"}
           /\ worktree' \in {"clean", "dirty", "loose", "gone"} /\ remote' \in 0..MaxMerge
           /\ pr.state = "MERGED" => pr' = pr /\ (remote = 0 => remote' = 0)
           /\ worktree = "gone" => worktree' = "gone"
           /\ worktree' = "gone" => worktree = "gone" \/ delivery # None
           /\ issue = "CLOSED" => issue' = "CLOSED"
<1> USE MergeAssumption DEF Heads
<1>1. /\ pr \in [state : {"OPEN", "CLOSED", "MERGED"}, head : Heads] /\ pr.head \in Heads
      /\ base \in 1..MaxBase /\ contract \in {1, 2} /\ issue \in {"OPEN", "CLOSED"}
      /\ worktree \in {"clean", "dirty", "loose", "gone"} /\ remote \in 0..MaxMerge
  BY DEF MergeTypeOK
<1>2. CASE /\ pr.state = "OPEN" /\ pr.head < MaxMerge
           /\ pr' = [pr EXCEPT !.head = @ + 1] /\ remote' = pr.head + 1
           /\ UNCHANGED <<base, contract, issue, worktree>>
  <2>1. pr.head + 1 \in 1..MaxMerge
    BY <1>1, <1>2
  <2>2. QED
    BY <1>1, <1>2, <2>1
<1>3. CASE /\ pr.state = "OPEN"
           /\ pr' \in {[pr EXCEPT !.state = s] : s \in {"CLOSED", "MERGED"}}
           /\ UNCHANGED <<base, contract, issue, worktree, remote>>
  <2>1. PICK s \in {"CLOSED", "MERGED"} : pr' = [pr EXCEPT !.state = s]
    BY <1>3
  <2>2. pr' \in [state : {"OPEN", "CLOSED", "MERGED"}, head : Heads]
    BY <1>1, <2>1
  <2>3. QED
    BY <1>1, <1>3, <2>2
<1>4. CASE /\ base < MaxBase /\ base' = base + 1
           /\ UNCHANGED <<pr, contract, issue, worktree, remote>>
  BY <1>1, <1>4
<1>5. CASE /\ contract = 1 /\ contract' = 2
           /\ UNCHANGED <<pr, base, issue, worktree, remote>>
  BY <1>1, <1>5
<1>6. CASE /\ worktree = "dirty" /\ worktree' \in {"clean", "loose"}
           /\ UNCHANGED <<pr, base, contract, issue, remote>>
  BY <1>1, <1>6
<1>7. CASE /\ worktree = "loose" /\ delivery # None /\ worktree' = "gone"
           /\ UNCHANGED <<pr, base, contract, issue, remote>>
  BY <1>1, <1>7
<1>8. CASE /\ pr.state = "MERGED"
           /\ issue' \in {issue, "CLOSED"}
           /\ remote' \in {remote, IF remote = pr.head THEN 0 ELSE remote}
           /\ UNCHANGED <<pr, base, contract, worktree>>
  <2>1. remote' \in {remote, 0}
    BY <1>8
  <2>2. QED
    BY <1>1, <1>8, <2>1
<1>9. QED
  BY <1>2, <1>3, <1>4, <1>5, <1>6, <1>7, <1>8 DEF SomebodyActs

LEMMA SomebodyActsKeeps == ASSUME MergeInv, SomebodyActs PROVE MergeInv'
<1> USE DEF MergeInv
<1>1. UNCHANGED <<comments, local, flying, judged, delivery, autoRun, auth, at, run, fact,
                  mem, reply, gated, strayed, ours>>
  BY DEF SomebodyActs, disk, server, history
<1>2. /\ pr.state = "MERGED" => pr' = pr /\ (remote = 0 => remote' = 0)
      /\ worktree = "gone" => worktree' = "gone"
      /\ worktree' = "gone" => worktree = "gone" \/ delivery # None
      /\ issue = "CLOSED" => issue' = "CLOSED"
  BY SomebodyFacts
<1>3. MergeTypeOK'
  BY <1>1, SomebodyFacts DEF MergeTypeOK
<1>4. GatesSound' /\ EarlySound'
  BY <1>1, <1>2 DEF GatesSound, EarlySound
<1>5. CommentSent' <=> CommentSent
  BY <1>1 DEF CommentSent
<1>6. pr.state = "MERGED" /\ SaysSo(delivery) => SaysSo(delivery)'
  BY <1>1, <1>2, <1>5 DEF SaysSo
<1>7. pr.state = "MERGED" /\ SaysSo(mem) => SaysSo(mem)'
  BY <1>1, <1>2, <1>5 DEF SaysSo
<1>8. DiskSound'
  BY <1>1, <1>2, <1>6 DEF DiskSound
<1>9. LateSound'
  BY <1>1, <1>2, <1>7 DEF LateSound, DiskSound, Behind
<1>10. TraceSound'
  BY <1>1, <1>2, <1>5 DEF TraceSound
<1>11. ClosingOnce' /\ RunEndsWithArchive'
  BY <1>1 DEF ClosingOnce, RunEndsWithArchive
<1>12. QED
  BY <1>3, <1>4, <1>8, <1>9, <1>10, <1>11

LEMMA DiesKeeps == ASSUME MergeInv, Dies PROVE MergeInv'
<1>1. gated \subseteq Heads
  BY DEF MergeInv, MergeTypeOK
<1>2. QED
  BY <1>1, AttemptEnds DEF Dies, disk, history

LEMMA MergeStep == MergeInv /\ [MergeNext]_mvars => MergeInv'
<1> SUFFICES ASSUME MergeInv, [MergeNext]_mvars PROVE MergeInv'
  OBVIOUS
<1>1. CASE UNCHANGED mvars
  <2>1. UNCHANGED <<pr, base, contract, issue, comments, flying, worktree, local, remote,
                    judged, delivery, autoRun, auth, at, run, fact, mem, reply,
                    gated, strayed, ours>>
    BY <1>1 DEF mvars, world, disk, server, history
  <2>2. MergeTypeOK'
    BY <2>1 DEF MergeInv, MergeTypeOK
  <2>3. GatesSound' /\ EarlySound' /\ ClosingOnce' /\ RunEndsWithArchive'
    BY <2>1 DEF MergeInv, GatesSound, EarlySound, ClosingOnce, RunEndsWithArchive
  <2>4. LateSound' /\ DiskSound' /\ TraceSound'
    BY <2>1 DEF MergeInv, LateSound, DiskSound, TraceSound, SaysSo, Behind, CommentSent
  <2>5. QED
    BY <2>2, <2>3, <2>4 DEF MergeInv
<1>2. CASE ToMerge
  BY <1>2, BeginKeeps, CheckGatesKeeps, SendMergeKeeps, MergeAnsweredKeeps,
     MergeReadBackKeeps, ConfirmKeeps, FreezeKeeps DEF ToMerge
<1>3. CASE Cleanup
  BY <1>3, SkipKeeps, FailsKeeps, CleanWorktreeKeeps, CleanLocalKeeps, CleanRemoteKeeps,
     CommandUnknownKeeps, LookAtIssueKeeps, SendCommentKeeps, CommentAnsweredKeeps,
     CommentReadBackKeeps, SendCloseKeeps, CloseAnsweredKeeps, CloseReadBackKeeps,
     IssueDoneKeeps, ArchiveKeeps DEF Cleanup
<1>4. QED
  BY <1>1, <1>2, <1>3, AuthorizeKeeps, ExecutesKeeps, VanishesKeeps, SomebodyActsKeeps,
     DiesKeeps DEF MergeNext

-----------------------------------------------------------------------------

\* The invariant of the merge: what is sent has passed the gates; what the record and
\* the copy of the attempt say is so, whatever failed, died or was resumed.
THEOREM MergeInvariant == MergeSpec => []MergeInv
BY MergeInitial, MergeStep, PTL DEF MergeSpec

\* What our write merges has passed the gates, and nothing is taken away before the
\* record names the merged head.
THEOREM MergeAlwaysGated == MergeSpec => []MergeIsGated
<1>1. MergeInv => MergedWasGated
  BY DEF MergeInv, GatesSound, MergedWasGated
<1>2. MergeInv => NothingGoneBeforeMerge
  BY DEF MergeInv, TraceSound, DiskSound, SaysSo, CommentSent, NothingGoneBeforeMerge
<1>3. MergeInv => MergeIsGated
  BY <1>1, <1>2 DEF MergeInv, MergeIsGated
<1>4. QED
  BY <1>3, MergeInvariant, PTL

\* What the record calls done is done, the issue is commented once, and a run ends
\* with the archive, however often the cleanup is tried.
THEOREM CleanupAlwaysTrue == MergeSpec => []CleanupIsTrue
<1>1. MergeInv => StepsAreDone
  BY DEF MergeInv, DiskSound, SaysSo, StepsAreDone
<1>2. MergeInv => CleanupIsTrue
  BY <1>1 DEF MergeInv, CleanupIsTrue
<1>3. QED
  BY <1>2, MergeInvariant, PTL

-----------------------------------------------------------------------------
(***************************************************************************)
(* RemoteGit, for any number of callers, branches and commits.  The        *)
(* argument: an action writes only when no attempt of its record is open,  *)
(* an attempt that is open is the one its action has in hand, if it is at  *)
(* work at all, and while it is open the record of what the remote has     *)
(* held is kept; a fetch that others join waits in the queue or is under   *)
(* way until they are told of its end.                                     *)
(***************************************************************************)

\* A fetch that others may wait for.
Leads(d) == pc[d] \in {"queued", "fetching"} /\ job[d] = "fetch"

QueueSound ==
    /\ \A c \in Callers : pc[c] = "queued" <=> \E i \in DOMAIN queue : queue[i] = c
    /\ \A i, j \in DOMAIN queue : i # j => queue[i] # queue[j]
    /\ \A c \in Callers : pc[c] \in Active <=> c = active \/ c \in late
    /\ queue # <<>> => active # None

FetchSound ==
    /\ \A c \in Callers : pc[c] = "joined" => leader[c] # None /\ Leads(leader[c])
    /\ flight # None => Leads(flight)

\* A caller is where its job may be.
JobOf(c) ==
    /\ pc[c] = "idle" <=> job[c] = None
    /\ pc[c] \in {"joined", "fetching"} => job[c] = "fetch"
    /\ pc[c] \in {"validating", "marking", "marked", "sent"} => job[c] = "write"
    /\ pc[c] \in {"reading", "settling"} => job[c] \in {"recover", "write"}
    /\ job[c] \in {"recover", "write"} => c \in Actors

\* The record before an action writes, and while its attempt is in hand.
Before(a) == job[a] = "fetch" \/ (job[a] = "write" /\ pc[a] \in {"ready", "queued", "validating", "marking"})
InHand(a) == job[a] = "recover" \/ pc[a] \in {"marked", "sent", "reading", "settling"}

AttemptOf(a) ==
    /\ Before(a) => ~Open(a)
    /\ InHand(a) => Open(a) /\ mark[a].oid = plan[a].oid
    /\ Kind[a] = "cleanup" => plan[a].oid = None /\ mark[a].oid = None
    /\ plan[a].lease # Foreign
    /\ pc[a] = "settling" /\ Confirmed(a) => witness[a]

WitnessOf(a) ==
    /\ Open(a) /\ ref[Branch[a]] = mark[a].oid => witness[a]
    /\ mark[a].status = "confirmed" => witness[a]
    /\ Kind[a] = "cleanup" /\ (witness[a] \/ ref[Branch[a]] = None) => Branch[a] \in gone
    /\ cleaned[a] => Branch[a] \in gone

WireSound == \A c \in wire : mark[c.actor].status # "none" /\ c.lease # Foreign

RemoteInv ==
    /\ RemoteTypeOK /\ QueueSound /\ FetchSound /\ WireSound
    /\ \A c \in Callers : JobOf(c)
    /\ \A a \in Actors : AttemptOf(a) /\ WitnessOf(a)


LEMMA ConstantsOf ==
    /\ Actors \subseteq Callers /\ Fetchers \subseteq Callers
    /\ Kind \in [Actors -> {"sync", "pr", "restore", "cleanup"}]
    /\ Branch \in [Actors -> Branches] /\ Frozen \in [Actors -> Oids]
    /\ None \in Values /\ Foreign \in Values /\ Oids \subseteq Values
    /\ None \notin Callers /\ None \notin Oids /\ Foreign \notin Oids
    /\ Foreign # None /\ Error \notin Values /\ 1 \in Oids
  BY RemoteGitAssumption DEF Callers, Values, Oids

LEMMA NoneIsNoJob == None \notin {"fetch", "recover", "write"}
  BY RemoteGitAssumption

LEMMA TypesOf ==
    ASSUME RemoteTypeOK
    PROVE  /\ ref \in [Branches -> Values] /\ tip \in [Branches -> Oids] /\ wire \subseteq Commands
           /\ mark \in [Actors -> [oid : Values,
                                   status : {"none", "prepared", "confirmed", "unknown"}]]
           /\ plan \in [Actors -> Attempts] /\ queue \in Seq(Callers)
  BY DEF RemoteTypeOK

-----------------------------------------------------------------------------
(* Callers who leave *)

Leaving(ended) == ended \cup {c \in Callers : pc[c] = "joined" /\ leader[c] \in ended}

LEMMA LeaveIs ==
    ASSUME RemoteTypeOK, NEW ended \in SUBSET Callers, NEW ok \in BOOLEAN,
           NEW started \in SUBSET Callers, Leave(ended, ok, started)
    PROVE  /\ \A c \in Leaving(ended) :
                 /\ pc'[c] = IF GoesOn(c, ok) THEN "ready" ELSE "idle"
                 /\ job'[c] = IF GoesOn(c, ok) THEN "write" ELSE None
                 /\ leader'[c] = None
           /\ \A a \in Actors \cap Leaving(ended) :
                 /\ plan'[a] = IF GoesOn(a, ok) THEN Candidate(a) ELSE NoPlan
                 /\ seen'[a] = None
           /\ \A c \in Callers \ Leaving(ended) :
                 /\ pc'[c] = IF c \in started THEN First(c) ELSE pc[c]
                 /\ job'[c] = job[c] /\ leader'[c] = leader[c]
           /\ \A a \in Actors \ Leaving(ended) : plan'[a] = plan[a] /\ seen'[a] = seen[a]
  BY ConstantsOf DEF Leave, Leaving, RemoteTypeOK

LEMMA FirstIs ==
    ASSUME NEW c \in Callers, job[c] \in {"fetch", "recover", "write"}
    PROVE  /\ First(c) \in {"fetching", "reading", "validating"}
           /\ job[c] = "fetch" => First(c) = "fetching"
           /\ job[c] = "recover" => First(c) = "reading"
           /\ job[c] = "write" => First(c) = "validating"
  BY DEF First

LEMMA CandidateIs ==
    ASSUME RemoteTypeOK, NEW a \in Actors
    PROVE  /\ Candidate(a) \in Attempts /\ Candidate(a).lease = None
           /\ Kind[a] = "cleanup" => Candidate(a).oid = None
           /\ NoPlan \in Attempts /\ NoPlan.lease = None /\ NoPlan.oid = None
<1>1. Branch[a] \in Branches /\ tip[Branch[a]] \in Values /\ Frozen[a] \in Values /\ None \in Values
  BY ConstantsOf DEF RemoteTypeOK
<1>2. Kind[a] \in {"sync", "pr", "restore", "cleanup"}
  BY ConstantsOf
<1>3. (CASE Pushes(a) -> tip[Branch[a]] [] Kind[a] = "restore" -> Frozen[a] [] OTHER -> None) \in Values
  BY <1>1, <1>2 DEF Pushes
<1>4. QED
  BY <1>1, <1>2, <1>3 DEF Candidate, Attempts, NoPlan, Pushes

LEMMA LeaveTypes ==
    ASSUME RemoteTypeOK, NEW ended \in SUBSET Callers, NEW ok \in BOOLEAN,
           NEW started \in SUBSET Callers, Leave(ended, ok, started),
           \A c \in started : job[c] \in {"fetch", "recover", "write"}
    PROVE  /\ pc' \in [Callers -> {"idle", "ready", "queued", "joined"} \cup Active]
           /\ job' \in [Callers -> {"fetch", "recover", "write", None}]
           /\ plan' \in [Actors -> Attempts]
           /\ seen' \in [Actors -> Values \cup {Error}]
           /\ leader' \in [Callers -> Callers \cup {None}]
<1>1. \A c \in started : First(c) \in Active
  BY FirstIs DEF Active
<1>2. \A a \in Actors : Candidate(a) \in Attempts /\ NoPlan \in Attempts
  BY CandidateIs
<1>3. pc' \in [Callers -> {"idle", "ready", "queued", "joined"} \cup Active]
  BY <1>1 DEF Leave, RemoteTypeOK
<1>4. plan' \in [Actors -> Attempts]
  BY <1>2 DEF Leave, RemoteTypeOK
<1>5. QED
  BY <1>3, <1>4, ConstantsOf DEF Leave, RemoteTypeOK

\* Who was at work for its job is told, goes on to write, or is where it was.
LEMMA LeaveJobs ==
    ASSUME RemoteInv, NEW ended \in SUBSET Callers, NEW ok \in BOOLEAN,
           NEW started \in SUBSET Callers, Leave(ended, ok, started),
           \A c \in started : pc[c] = "queued"
    PROVE  \A c \in Callers : JobOf(c)'
<1>1. SUFFICES ASSUME NEW c \in Callers PROVE JobOf(c)'
  OBVIOUS
<1>2. JobOf(c) /\ job[c] \in {"fetch", "recover", "write", None}
  BY DEF RemoteInv, RemoteTypeOK
<1>3. CASE c \in Leaving(ended)
  <2>1. GoesOn(c, ok) => c \in Actors
    BY DEF GoesOn
  <2>2. \/ pc'[c] = "ready" /\ job'[c] = "write" /\ c \in Actors
        \/ pc'[c] = "idle" /\ job'[c] = None
    BY <1>3, <2>1, LeaveIs DEF RemoteInv
  <2>3. QED
    BY <2>2, NoneIsNoJob DEF JobOf
<1>4. CASE c \notin Leaving(ended) /\ c \in started
  <2>1. pc[c] = "queued" /\ job[c] # None
    BY <1>2, <1>4 DEF JobOf
  <2>2. pc'[c] = First(c) /\ job'[c] = job[c]
    BY <1>4, LeaveIs DEF RemoteInv
  <2>3. QED
    BY <1>2, <2>1, <2>2, FirstIs DEF JobOf
<1>5. CASE c \notin Leaving(ended) /\ c \notin started
  BY <1>2, <1>5, LeaveIs DEF RemoteInv, JobOf
<1>6. QED
  BY <1>3, <1>4, <1>5

LEMMA LeaveAttempts ==
    ASSUME RemoteInv, NEW ended \in SUBSET Callers, NEW ok \in BOOLEAN,
           NEW started \in SUBSET Callers, Leave(ended, ok, started),
           \A c \in started : pc[c] = "queued",
           \A a \in Actors \ Leaving(ended) : mark'[a] = mark[a] /\ witness'[a] = witness[a],
           \A a \in Actors \cap Leaving(ended) : GoesOn(a, ok) => ~Open(a)',
           \A a \in Actors : Kind[a] = "cleanup" => mark'[a].oid = None
    PROVE  \A a \in Actors : AttemptOf(a)'
<1>1. SUFFICES ASSUME NEW a \in Actors PROVE AttemptOf(a)'
  OBVIOUS
<1>2. a \in Callers /\ JobOf(a) /\ AttemptOf(a) /\ job[a] \in {"fetch", "recover", "write", None}
  BY ConstantsOf DEF RemoteInv, RemoteTypeOK
<1>3. CASE a \in Leaving(ended)
  <2>1. \/ GoesOn(a, ok) /\ pc'[a] = "ready" /\ job'[a] = "write" /\ plan'[a] = Candidate(a)
        \/ ~GoesOn(a, ok) /\ pc'[a] = "idle" /\ job'[a] = None /\ plan'[a] = NoPlan
    BY <1>3, LeaveIs DEF RemoteInv
  <2>2. plan'[a].lease = None /\ (Kind[a] = "cleanup" => plan'[a].oid = None)
    BY <2>1, CandidateIs DEF RemoteInv
  <2>3. ~InHand(a)' /\ pc'[a] # "settling"
    BY <2>1, NoneIsNoJob DEF InHand
  <2>4. Before(a)' => ~Open(a)'
    BY <1>3, <2>1, NoneIsNoJob DEF Before
  <2>5. QED
    BY <2>2, <2>3, <2>4, ConstantsOf DEF AttemptOf
<1>4. CASE a \notin Leaving(ended) /\ a \in started
  <2>1. pc[a] = "queued" /\ job[a] # None
    BY <1>2, <1>4 DEF JobOf
  <2>2. pc'[a] = First(a) /\ job'[a] = job[a] /\ plan'[a] = plan[a] /\ mark'[a] = mark[a]
    BY <1>4, LeaveIs DEF RemoteInv
  <2>3. QED
    BY <1>2, <2>1, <2>2, FirstIs DEF AttemptOf, Before, InHand, Open
<1>5. CASE a \notin Leaving(ended) /\ a \notin started
  <2>1. /\ pc'[a] = pc[a] /\ job'[a] = job[a] /\ plan'[a] = plan[a] /\ mark'[a] = mark[a]
        /\ seen'[a] = seen[a] /\ witness'[a] = witness[a]
    BY <1>2, <1>5, LeaveIs DEF RemoteInv
  <2>2. QED
    BY <1>2, <2>1 DEF AttemptOf, Before, InHand, Open, Confirmed
<1>6. QED
  BY <1>3, <1>4, <1>5

\* Nobody who joined is left behind by the fetch it joined.
LEMMA LeaveFetches ==
    ASSUME RemoteInv, NEW ended \in SUBSET Callers, NEW ok \in BOOLEAN,
           NEW started \in SUBSET Callers, Leave(ended, ok, started),
           \A c \in started : pc[c] = "queued"
    PROVE  /\ \A c \in Callers : pc'[c] = "joined" => leader'[c] # None /\ Leads(leader[c])' /\ leader'[c] = leader[c]
           /\ \A d \in Callers \ ended : Leads(d) => Leads(d)'
<1>1. ASSUME NEW d \in Callers \ ended, Leads(d) PROVE Leads(d)'
  <2>1. d \notin Leaving(ended)
    BY <1>1 DEF Leads, Leaving
  <2>2. pc'[d] = (IF d \in started THEN First(d) ELSE pc[d]) /\ job'[d] = job[d]
    BY <2>1, LeaveIs DEF RemoteInv
  <2>3. QED
    BY <1>1, <2>2, FirstIs DEF Leads
<1>2. ASSUME NEW c \in Callers, pc'[c] = "joined" PROVE leader'[c] # None /\ Leads(leader[c])' /\ leader'[c] = leader[c]
  <2>1. c \notin Leaving(ended)
    BY <1>2, LeaveIs DEF RemoteInv
  <2>2. pc'[c] = (IF c \in started THEN First(c) ELSE pc[c]) /\ leader'[c] = leader[c]
    BY <2>1, LeaveIs DEF RemoteInv
  <2>3. c \notin started
    <3>1. SUFFICES ASSUME c \in started PROVE FALSE
      OBVIOUS
    <3>2. job[c] \in {"fetch", "recover", "write"}
      BY <3>1 DEF RemoteInv, RemoteTypeOK, JobOf
    <3>3. QED
      BY <1>2, <2>2, <3>1, <3>2, FirstIs
  <2>4. pc[c] = "joined" /\ leader[c] \in Callers /\ leader[c] \notin ended
    BY <1>2, <2>1, <2>2, <2>3 DEF RemoteInv, RemoteTypeOK, FetchSound, Leaving
  <2>5. Leads(leader[c]) /\ leader[c] # None
    BY <2>4, ConstantsOf DEF RemoteInv, FetchSound
  <2>6. QED
    BY <1>1, <2>2, <2>4, <2>5
<1>3. QED
  BY <1>1, <1>2

-----------------------------------------------------------------------------
(* The queue *)

\* The first of the queue goes.
LEMMA TailIs ==
    ASSUME queue \in Seq(Callers), queue # <<>>
    PROVE  /\ 1 \in DOMAIN queue /\ Head(queue) = queue[1] /\ Head(queue) \in Callers
           /\ Tail(queue) \in Seq(Callers)
           /\ DOMAIN Tail(queue) = 1..(Len(queue) - 1)
           /\ \A i \in 1..(Len(queue) - 1) :
                 /\ i + 1 \in DOMAIN queue /\ Tail(queue)[i] = queue[i + 1]
           /\ \A i \in DOMAIN queue : i = 1 \/ i - 1 \in 1..(Len(queue) - 1)
<1>1. /\ Head(queue) = queue[1] /\ Tail(queue) \in Seq(Callers) /\ Len(Tail(queue)) = Len(queue) - 1
      /\ \A i \in 1..Len(Tail(queue)) : Tail(queue)[i] = queue[i + 1]
  BY HeadTailProperties
<1>2. Len(queue) \in Nat /\ DOMAIN queue = 1..Len(queue) /\ Len(queue) # 0 /\ queue \in [1..Len(queue) -> Callers]
  BY LenProperties, EmptySeq
<1>3. DOMAIN Tail(queue) = 1..Len(Tail(queue))
  BY <1>1, LenProperties
<1>4. QED
  BY <1>1, <1>2, <1>3

LEMMA TailHolds ==
    ASSUME RemoteTypeOK, QueueSound, queue # <<>>
    PROVE  /\ \A c \in Callers : (\E i \in DOMAIN Tail(queue) : Tail(queue)[i] = c)
                                    <=> pc[c] = "queued" /\ c # Head(queue)
           /\ \A i, j \in DOMAIN Tail(queue) : i # j => Tail(queue)[i] # Tail(queue)[j]
           /\ pc[Head(queue)] = "queued"
<1> DEFINE q == Tail(queue)
           n == Len(queue) - 1
<1>1. /\ 1 \in DOMAIN queue /\ Head(queue) = queue[1] /\ Head(queue) \in Callers
      /\ DOMAIN q = 1..n /\ \A i \in 1..n : i + 1 \in DOMAIN queue /\ q[i] = queue[i + 1]
      /\ \A i \in DOMAIN queue : i = 1 \/ i - 1 \in 1..n
  BY TailIs DEF RemoteTypeOK
<1>2. \A i, j \in DOMAIN queue : i # j => queue[i] # queue[j]
  BY DEF QueueSound
<1>3. \A c \in Callers : pc[c] = "queued" <=> \E i \in DOMAIN queue : queue[i] = c
  BY DEF QueueSound
<1>4. Len(queue) \in Nat /\ DOMAIN queue = 1..Len(queue)
  BY LenProperties DEF RemoteTypeOK
<1>5. \A i, j \in DOMAIN q : i # j => q[i] # q[j]
  <2>1. SUFFICES ASSUME NEW i \in 1..n, NEW j \in 1..n, i # j PROVE q[i] # q[j]
    BY <1>1
  <2>2. i + 1 \in DOMAIN queue /\ j + 1 \in DOMAIN queue /\ i + 1 # j + 1
    BY <1>1, <2>1
  <2>3. QED
    BY <1>1, <1>2, <2>1, <2>2
<1>6. ASSUME NEW c \in Callers, NEW i \in DOMAIN q, q[i] = c PROVE pc[c] = "queued" /\ c # Head(queue)
  <2>1. i \in 1..n /\ i + 1 \in DOMAIN queue /\ queue[i + 1] = c /\ i + 1 # 1
    BY <1>1, <1>6
  <2>2. QED
    BY <1>1, <1>2, <1>3, <2>1
<1>7. ASSUME NEW c \in Callers, pc[c] = "queued", c # Head(queue) PROVE \E i \in DOMAIN q : q[i] = c
  <2>1. PICK k \in DOMAIN queue : queue[k] = c
    BY <1>3, <1>7
  <2>2. k - 1 \in 1..n
    BY <1>1, <1>7, <2>1
  <2>3. q[k - 1] = queue[k]
    BY <1>1, <1>4, <2>1, <2>2
  <2>4. QED
    BY <1>1, <2>1, <2>2, <2>3
<1>8. pc[Head(queue)] = "queued"
  BY <1>1, <1>3
<1>9. QED
  BY <1>5, <1>6, <1>7, <1>8

LEMMA FinishKeeps ==
    ASSUME RemoteInv, NEW c \in Callers, pc[c] \in Active, NEW ok \in BOOLEAN, Finish(c, ok)
    PROVE  /\ QueueSound' /\ FetchSound'
           /\ queue' \in Seq(Callers) /\ active' \in Callers \cup {None}
           /\ flight' \in Callers \cup {None} /\ late' \in SUBSET Callers
           /\ \E started \in SUBSET Callers :
                 /\ Leave({c}, ok, started) /\ \A d \in started : pc[d] = "queued"
<1> DEFINE turn == c = active /\ queue # <<>>
           started == IF turn THEN {Head(queue)} ELSE {}
<1>1. RemoteTypeOK /\ QueueSound /\ FetchSound
  BY DEF RemoteInv
<1>2. turn => pc[Head(queue)] = "queued" /\ Head(queue) \in Callers
  BY <1>1, TailHolds, TailIs DEF RemoteTypeOK
<1>3. started \in SUBSET Callers /\ \A d \in started : pc[d] = "queued"
  BY <1>2
<1>4. Leave({c}, ok, started) /\ flight' = (IF flight \in {c} THEN None ELSE flight)
  BY DEF Finish, Resolve
<1>5. /\ active' = IF c # active THEN active ELSE IF turn THEN Head(queue) ELSE None
      /\ queue' = IF turn THEN Tail(queue) ELSE queue
      /\ late' = late \ {c}
  BY DEF Finish
<1>6. \A d \in started : First(d) \in {"fetching", "reading", "validating"}
  <2>1. \A d \in started : job[d] \in {"fetch", "recover", "write"}
    BY <1>3 DEF RemoteInv, RemoteTypeOK, JobOf
  <2>2. QED
    BY <1>3, <2>1, FirstIs
<1>7. \A d \in Leaving({c}) : pc[d] # "queued" /\ (pc[d] \in Active => d = c) /\ pc'[d] \in {"ready", "idle"}
  <2>1. {c} \in SUBSET Callers
    OBVIOUS
  <2>2. \A d \in Leaving({c}) : pc'[d] = IF GoesOn(d, ok) THEN "ready" ELSE "idle"
    BY <1>1, <1>3, <1>4, <2>1, LeaveIs
  <2>3. pc[c] # "queued"
    BY DEF Active
  <2>4. \A d \in Leaving({c}) : d = c \/ pc[d] = "joined"
    BY DEF Leaving
  <2>5. "joined" \notin Active
    BY DEF Active
  <2>6. QED
    BY <2>2, <2>3, <2>4, <2>5
<1>8. \A d \in Callers \ Leaving({c}) : pc'[d] = IF d \in started THEN First(d) ELSE pc[d]
  BY <1>1, <1>3, <1>4, LeaveIs
<1>9. c \in Leaving({c})
  BY DEF Leaving
<1>10. \A d \in Callers : pc'[d] = "queued" <=> pc[d] = "queued" /\ d \notin started
  BY <1>3, <1>6, <1>7, <1>8
<1>11. \A d \in Callers : pc'[d] \in Active <=> (pc[d] \in Active /\ d # c) \/ d \in started
  <2>1. \A d \in Callers : pc[d] = "queued" => pc[d] \notin Active
    BY DEF Active
  <2>2. {"fetching", "reading", "validating"} \subseteq Active /\ "ready" \notin Active /\ "idle" \notin Active
    BY DEF Active
  <2>3. QED
    BY <1>3, <1>6, <1>7, <1>8, <1>9, <2>1, <2>2
<1>12. QueueSound'
  <2>1. \A d \in Callers : pc[d] = "queued" <=> \E i \in DOMAIN queue : queue[i] = d
    BY <1>1 DEF QueueSound
  <2>2. \A d \in Callers : pc[d] \in Active <=> d = active \/ d \in late
    BY <1>1 DEF QueueSound
  <2>3. CASE turn
    <3>1. queue' = Tail(queue) /\ started = {Head(queue)} /\ active' = Head(queue) /\ active' # None
      BY <1>2, <1>5, <2>3, ConstantsOf
    <3>2. \A d \in Callers : pc'[d] = "queued" <=> \E i \in DOMAIN queue' : queue'[i] = d
      BY <1>1, <1>10, <2>3, <3>1, TailHolds
    <3>3. \A i, j \in DOMAIN queue' : i # j => queue'[i] # queue'[j]
      BY <1>1, <2>3, <3>1, TailHolds
    <3>4. \A d \in Callers : pc'[d] \in Active <=> d = active' \/ d \in late'
      BY <1>5, <1>11, <2>2, <2>3, <3>1
    <3>5. QED
      BY <3>1, <3>2, <3>3, <3>4 DEF QueueSound
  <2>4. CASE ~turn
    <3>1. queue' = queue /\ started = {} /\ active' = (IF c # active THEN active ELSE None)
      BY <1>5, <2>4
    <3>2. \A d \in Callers : pc'[d] \in Active <=> d = active' \/ d \in late'
      BY <1>5, <1>11, <2>2, <3>1, ConstantsOf
    <3>3. queue' # <<>> => active' # None
      BY <1>1, <2>4, <3>1 DEF QueueSound
    <3>4. QED
      BY <1>1, <1>10, <3>1, <3>2, <3>3 DEF QueueSound
  <2>5. QED
    BY <2>3, <2>4
<1>13. FetchSound'
  <2>1. {c} \in SUBSET Callers
    OBVIOUS
  <2>2. /\ \A d \in Callers : pc'[d] = "joined" => leader'[d] # None /\ Leads(leader[d])'
        /\ \A d \in Callers \ {c} : Leads(d) => Leads(d)'
    BY <1>3, <1>4, <2>1, LeaveFetches
  <2>3. flight' # None => flight' = flight /\ flight # c /\ flight \in Callers /\ Leads(flight)
    BY <1>1, <1>4 DEF FetchSound, RemoteTypeOK
  <2>4. ASSUME flight' # None PROVE Leads(flight)'
    BY <2>2, <2>3, <2>4 DEF Leads
  <2>5. QED
    BY <2>2, <2>4 DEF FetchSound
<1>14. /\ queue' \in Seq(Callers) /\ active' \in Callers \cup {None}
       /\ flight' \in Callers \cup {None} /\ late' \in SUBSET Callers
  BY <1>1, <1>2, <1>4, <1>5, TailIs DEF RemoteTypeOK
<1>15. QED
  BY <1>3, <1>4, <1>12, <1>13, <1>14

-----------------------------------------------------------------------------
(* What an end leaves, and what is recorded with it *)

CallerTypes ==
    /\ pc \in [Callers -> {"idle", "ready", "queued", "joined"} \cup Active]
    /\ job \in [Callers -> {"fetch", "recover", "write", None}]
    /\ plan \in [Actors -> Attempts]
    /\ seen \in [Actors -> Values \cup {Error}]
    /\ leader \in [Callers -> Callers \cup {None}]
    /\ queue \in Seq(Callers)
    /\ active \in Callers \cup {None}
    /\ flight \in Callers \cup {None}
    /\ late \in SUBSET Callers

WorldTypes ==
    /\ ref \in [Branches -> Values] /\ tip \in [Branches -> Oids] /\ wire \in SUBSET Commands
    /\ mark \in [Actors -> [oid : Values, status : {"none", "prepared", "confirmed", "unknown"}]]
    /\ cleaned \in [Actors -> BOOLEAN] /\ witness \in [Actors -> BOOLEAN]
    /\ gone \in SUBSET Branches

LEMMA TypesAre == RemoteTypeOK <=> CallerTypes /\ WorldTypes
  BY DEF RemoteTypeOK, CallerTypes, WorldTypes

CallersSound ==
    /\ CallerTypes /\ QueueSound /\ FetchSound
    /\ \A c \in Callers : JobOf(c)

WorldSound == WorldTypes /\ WireSound /\ \A a \in Actors : WitnessOf(a)

LEMMA InvIs == RemoteInv <=> CallersSound /\ WorldSound /\ \A a \in Actors : AttemptOf(a)
  BY TypesAre DEF RemoteInv, CallersSound, WorldSound

LEMMA InvNext ==
    ASSUME CallersSound', WorldSound', \A a \in Actors : AttemptOf(a)'
    PROVE  RemoteInv'
  BY DEF RemoteInv, RemoteTypeOK, CallersSound, WorldSound, CallerTypes, WorldTypes

LEMMA EndKeeps ==
    ASSUME RemoteInv, NEW c \in Callers, pc[c] \in Active, NEW ok \in BOOLEAN, Finish(c, ok),
           \A a \in Actors \ {c} : mark'[a] = mark[a] /\ witness'[a] = witness[a],
           c \in Actors /\ GoesOn(c, ok) => ~Open(c)',
           \A a \in Actors : Kind[a] = "cleanup" => mark'[a].oid = None
    PROVE  CallersSound' /\ \A a \in Actors : AttemptOf(a)'
<1>1. PICK started \in SUBSET Callers :
         Leave({c}, ok, started) /\ \A d \in started : pc[d] = "queued"
  BY FinishKeeps
<1>2. {c} \in SUBSET Callers /\ RemoteTypeOK
  BY DEF RemoteInv
<1>3. \A d \in started : job[d] \in {"fetch", "recover", "write"}
  BY <1>1 DEF RemoteInv, RemoteTypeOK, JobOf
<1>4. CallerTypes'
  BY <1>1, <1>2, <1>3, LeaveTypes, FinishKeeps DEF CallerTypes
<1>5. \A d \in Callers : JobOf(d)'
  BY <1>1, <1>2, LeaveJobs
<1>6. \A a \in Actors \cap Leaving({c}) : GoesOn(a, ok) => ~Open(a)'
  <2>1. SUFFICES ASSUME NEW a \in Actors \cap Leaving({c}), GoesOn(a, ok), a # c PROVE ~Open(a)'
    OBVIOUS
  <2>2. pc[a] = "joined" /\ a \in Callers
    BY <2>1 DEF Leaving
  <2>3. job[a] = "fetch" /\ ~Open(a)
    BY <2>1, <2>2 DEF RemoteInv, JobOf, AttemptOf, Before
  <2>4. QED
    BY <2>1, <2>3 DEF Open
<1>7. \A a \in Actors \ Leaving({c}) : mark'[a] = mark[a] /\ witness'[a] = witness[a]
  BY DEF Leaving
<1>8. \A a \in Actors : AttemptOf(a)'
  BY <1>1, <1>2, <1>6, <1>7, LeaveAttempts
<1>9. QED
  BY <1>4, <1>5, <1>8, FinishKeeps DEF CallersSound

LEMMA RecordIs ==
    ASSUME RemoteInv, NEW a \in Actors, NEW status \in {"prepared", "confirmed", "unknown"},
           Record(a, Marked(plan[a], status)), UNCHANGED <<ref, tip, wire, gone>>,
           status = "confirmed" => witness[a],
           cleaned' \in [Actors -> BOOLEAN],
           \A b \in Actors : cleaned'[b] => Branch[b] \in gone
    PROVE  /\ WorldSound'
           /\ \A b \in Actors \ {a} : mark'[b] = mark[b] /\ witness'[b] = witness[b]
           /\ mark'[a] = [oid |-> plan[a].oid, status |-> status]
           /\ \A b \in Actors : Kind[b] = "cleanup" => mark'[b].oid = None
<1>1. mark' = [mark EXCEPT ![a] = [oid |-> plan[a].oid, status |-> status]]
  BY DEF Record, Marked
<1>2. witness' = [witness EXCEPT ![a] = CASE status = "prepared" -> ref[Branch[a]] = plan[a].oid
                                          [] status = "confirmed" -> @
                                          [] OTHER -> FALSE]
  BY DEF Record, Marked
<1>3. WorldTypes /\ plan[a] \in Attempts /\ AttemptOf(a) /\ WitnessOf(a)
  BY DEF RemoteInv, RemoteTypeOK, WorldTypes
<1>4. \A b \in Actors \ {a} : mark'[b] = mark[b] /\ witness'[b] = witness[b]
  BY <1>1, <1>2, <1>3 DEF WorldTypes
<1>5. mark'[a] = [oid |-> plan[a].oid, status |-> status]
  BY <1>1, <1>3 DEF WorldTypes
<1>6. \A b \in Actors : Kind[b] = "cleanup" => mark'[b].oid = None
  BY <1>4, <1>5, <1>3 DEF RemoteInv, AttemptOf
<1>7. witness'[a] = IF status = "prepared" THEN ref[Branch[a]] = plan[a].oid ELSE status = "confirmed"
  <2>1. CASE status = "prepared"
    BY <1>2, <1>3, <2>1 DEF WorldTypes
  <2>2. CASE status = "confirmed"
    <3>1. witness[a] = TRUE
      BY <1>3, <2>2 DEF WorldTypes
    <3>2. QED
      BY <1>2, <1>3, <2>2, <3>1 DEF WorldTypes
  <2>3. CASE status = "unknown"
    BY <1>2, <1>3, <2>3 DEF WorldTypes
  <2>4. QED
    BY <2>1, <2>2, <2>3
<1>13. /\ status = "prepared" /\ ref[Branch[a]] = plan[a].oid => witness'[a]
       /\ status = "confirmed" => witness'[a]
       /\ witness'[a] => (status = "prepared" /\ ref[Branch[a]] = plan[a].oid) \/ status = "confirmed"
  BY <1>7
<1>8. plan[a].oid \in Values
  BY <1>3 DEF Attempts
<1>9. WorldTypes'
  <2>1. witness' \in [Actors -> BOOLEAN]
    BY <1>2, <1>3, <1>7 DEF WorldTypes
  <2>2. QED
    BY <1>1, <1>3, <1>8, <2>1 DEF WorldTypes
<1>10. WireSound'
  <2>1. \A c \in wire : c.actor \in Actors
    BY <1>3 DEF WorldTypes, Commands
  <2>2. QED
    BY <1>4, <1>5, <2>1 DEF RemoteInv, WireSound
<1>11. ASSUME NEW b \in Actors PROVE WitnessOf(b)'
  <2>1. CASE b = a
    <3>1. Kind[a] = "cleanup" => plan[a].oid = None
      BY <1>3 DEF AttemptOf
    <3>2. Kind[a] = "cleanup" /\ (witness'[a] \/ ref[Branch[a]] = None) => Branch[a] \in gone
      BY <1>3, <1>13, <3>1 DEF WitnessOf
    <3>3. Open(a)' /\ ref[Branch[a]] = mark'[a].oid => witness'[a]
      BY <1>5, <1>13 DEF Open
    <3>4. mark'[a].status = "confirmed" => witness'[a]
      BY <1>5, <1>13
    <3>5. QED
      BY <2>1, <3>2, <3>3, <3>4 DEF WitnessOf
  <2>2. CASE b # a
    BY <1>4, <2>2 DEF RemoteInv, WitnessOf, Open
  <2>3. QED
    BY <2>1, <2>2
<1>12. QED
  BY <1>4, <1>5, <1>6, <1>9, <1>10, <1>11 DEF WorldSound

\* Nothing that the remote or a record holds changes.
LEMMA WorldStays ==
    ASSUME RemoteInv, UNCHANGED <<ref, tip, wire, records, gitHistory>>
    PROVE  WorldSound'
  BY InvIs DEF records, gitHistory, WorldSound, WorldTypes, WireSound, WitnessOf, Open

-----------------------------------------------------------------------------
(* The steps of a job at work *)

LEMMA OthersStay ==
    ASSUME RemoteInv, NEW a \in Actors, NEW next,
           pc' = [pc EXCEPT ![a] = next], UNCHANGED job,
           \A b \in Actors \ {a} : /\ plan'[b] = plan[b] /\ seen'[b] = seen[b]
                                   /\ mark'[b] = mark[b] /\ witness'[b] = witness[b]
    PROVE  \A b \in Actors \ {a} : AttemptOf(b)'
<1>1. SUFFICES ASSUME NEW b \in Actors \ {a} PROVE AttemptOf(b)'
  OBVIOUS
<1>2. pc'[b] = pc[b] /\ AttemptOf(b)
  BY DEF RemoteInv, RemoteTypeOK
<1>3. QED
  BY <1>2 DEF AttemptOf, Before, InHand, Open, Confirmed

LEMMA MoveKeeps ==
    ASSUME RemoteInv, NEW a \in Actors, NEW next \in Active \ {"fetching"},
           pc[a] \in Active \ {"fetching"}, pc' = [pc EXCEPT ![a] = next],
           UNCHANGED <<job, leader, scope>>,
           plan' \in [Actors -> Attempts], seen' \in [Actors -> Values \cup {Error}],
           next \in {"validating", "marking", "marked", "sent"} => job[a] = "write"
    PROVE  CallersSound'
<1>1. a \in Callers /\ RemoteTypeOK /\ JobOf(a)
  BY ConstantsOf DEF RemoteInv
<1>2. CallerTypes'
  BY <1>1 DEF RemoteTypeOK, CallerTypes, scope
<1>3. \A c \in Callers : pc'[c] = IF c = a THEN next ELSE pc[c]
  BY <1>1 DEF RemoteTypeOK
<1>4. pc[a] \notin {"queued", "joined", "fetching", "idle", "ready"} /\ next \notin {"queued", "joined", "fetching", "idle", "ready"}
  BY DEF Active
<1>5. QueueSound'
  <2>1. \A c \in Callers : pc'[c] = "queued" <=> pc[c] = "queued"
    BY <1>3, <1>4
  <2>2. \A c \in Callers : pc'[c] \in Active <=> pc[c] \in Active
    BY <1>3
  <2>3. QED
    BY <2>1, <2>2 DEF RemoteInv, QueueSound, scope
<1>6. \A d \in Callers : Leads(d) => Leads(d)'
  BY <1>3, <1>4 DEF Leads
<1>7. FetchSound'
  <2>1. FetchSound /\ flight' = flight /\ leader' = leader
    BY DEF RemoteInv, scope
  <2>2. ASSUME NEW c \in Callers, pc'[c] = "joined" PROVE leader'[c] # None /\ Leads(leader[c])'
    <3>1. pc[c] = "joined" /\ leader[c] \in Callers
      BY <1>1, <1>3, <1>4, <2>1, <2>2 DEF RemoteTypeOK, FetchSound
    <3>2. Leads(leader[c]) /\ leader[c] # None
      BY <2>1, <3>1 DEF FetchSound
    <3>3. QED
      BY <1>6, <2>1, <3>1, <3>2
  <2>3. ASSUME flight' # None PROVE Leads(flight)'
    <3>1. flight \in Callers /\ Leads(flight)
      BY <1>1, <2>1, <2>3 DEF RemoteTypeOK, FetchSound
    <3>2. QED
      BY <1>6, <2>1, <3>1
  <2>4. QED
    BY <2>2, <2>3 DEF FetchSound
<1>8. ASSUME NEW c \in Callers PROVE JobOf(c)'
  <2>1. CASE c = a
    <3>1. job[a] \in {"write", "recover"} /\ job[a] # None
      BY <1>1, <1>4, NoneIsNoJob DEF JobOf, Active
    <3>2. QED
      BY <1>1, <1>3, <1>4, <2>1, <3>1 DEF JobOf
  <2>2. CASE c # a
    BY <1>3, <2>2 DEF RemoteInv, JobOf
  <2>3. QED
    BY <2>1, <2>2
<1>9. QED
  BY <1>2, <1>5, <1>7, <1>8 DEF CallersSound

LEMMA ValidatingKeeps ==
    ASSUME RemoteInv, NEW a \in Actors, ValidatePush(a) \/ PreRead(a)
    PROVE  RemoteInv'
<1>1. /\ pc[a] = "validating" /\ pc' = [pc EXCEPT ![a] = "marking"]
      /\ UNCHANGED <<ref, tip, wire, records, job, seen, leader, scope, gitHistory>>
      /\ plan' = plan \/ (plan' = [plan EXCEPT ![a].lease = ref[Branch[a]]] /\ ref[Branch[a]] \in {Frozen[a], None})
  BY DEF ValidatePush, PreRead
<1>2. a \in Callers /\ RemoteTypeOK /\ JobOf(a) /\ AttemptOf(a) /\ CallerTypes
  BY ConstantsOf, TypesAre DEF RemoteInv
<1>3. Frozen[a] \in Values /\ Frozen[a] # Foreign /\ None \in Values /\ None # Foreign
  BY ConstantsOf
<1>4. /\ plan' \in [Actors -> Attempts]
      /\ \A b \in Actors \ {a} : plan'[b] = plan[b]
      /\ plan'[a].oid = plan[a].oid /\ plan'[a].lease # Foreign
  <2>1. CASE plan' = plan
    BY <1>2, <2>1 DEF CallerTypes, AttemptOf
  <2>2. CASE plan' = [plan EXCEPT ![a].lease = ref[Branch[a]]] /\ ref[Branch[a]] \in {Frozen[a], None}
    <3>1. plan[a] \in [oid : Values, lease : Values]
      BY <1>2 DEF CallerTypes, Attempts
    <3>2. plan'[a] = [plan[a] EXCEPT !.lease = ref[Branch[a]]]
      BY <1>2, <2>2 DEF CallerTypes
    <3>3. plan'[a].lease = ref[Branch[a]] /\ plan'[a].oid = plan[a].oid /\ plan'[a] \in Attempts
      BY <1>3, <2>2, <3>1, <3>2 DEF Attempts
    <3>4. QED
      BY <1>2, <1>3, <2>2, <3>3 DEF CallerTypes
  <2>3. QED
    BY <1>1, <2>1, <2>2
<1>5. job[a] = "write"
  BY <1>1, <1>2 DEF JobOf
<1>6. CallersSound'
  <2>1. seen' \in [Actors -> Values \cup {Error}]
    BY <1>1, <1>2 DEF CallerTypes
  <2>2. "validating" \in Active \ {"fetching"} /\ "marking" \in Active \ {"fetching"}
    BY DEF Active
  <2>3. QED
    BY <1>1, <1>4, <1>5, <2>1, <2>2, MoveKeeps
<1>7. WorldSound'
  BY <1>1, WorldStays
<1>8. \A b \in Actors \ {a} : AttemptOf(b)'
  BY <1>1, <1>4, OthersStay DEF records, gitHistory
<1>9. AttemptOf(a)'
  <2>1. pc'[a] = "marking" /\ mark' = mark
    BY <1>1, <1>2 DEF CallerTypes, records
  <2>2. ~Open(a)
    BY <1>1, <1>2, <1>5 DEF AttemptOf, Before
  <2>3. QED
    BY <1>1, <1>2, <1>4, <1>5, <2>1, <2>2 DEF AttemptOf, Before, InHand, Open
<1>10. QED
  BY <1>6, <1>7, <1>8, <1>9, InvNext

LEMMA PersistKeeps == ASSUME RemoteInv, NEW a \in Actors, Persist(a) PROVE RemoteInv'
<1>1. /\ pc[a] = "marking" /\ pc' = [pc EXCEPT ![a] = "marked"]
      /\ Record(a, Marked(plan[a], "prepared"))
      /\ UNCHANGED <<ref, tip, wire, cleaned, job, plan, seen, leader, scope, gone>>
  BY DEF Persist
<1>2. a \in Callers /\ RemoteTypeOK /\ JobOf(a) /\ AttemptOf(a) /\ CallerTypes
  BY ConstantsOf, TypesAre DEF RemoteInv
<1>3. cleaned' \in [Actors -> BOOLEAN] /\ \A b \in Actors : cleaned'[b] => Branch[b] \in gone
  BY <1>1 DEF RemoteInv, RemoteTypeOK, WitnessOf
<1>4. /\ WorldSound'
      /\ \A b \in Actors \ {a} : mark'[b] = mark[b] /\ witness'[b] = witness[b]
      /\ mark'[a] = [oid |-> plan[a].oid, status |-> "prepared"]
      /\ \A b \in Actors : Kind[b] = "cleanup" => mark'[b].oid = None
  BY <1>1, <1>3, RecordIs
<1>5. job[a] = "write"
  BY <1>1, <1>2 DEF JobOf
<1>6. CallersSound'
  <2>1. "marking" \in Active \ {"fetching"} /\ "marked" \in Active \ {"fetching"}
    BY DEF Active
  <2>2. plan' \in [Actors -> Attempts] /\ seen' \in [Actors -> Values \cup {Error}]
    BY <1>1, <1>2 DEF CallerTypes
  <2>3. QED
    BY <1>1, <1>5, <2>1, <2>2, MoveKeeps
<1>7. \A b \in Actors \ {a} : AttemptOf(b)'
  BY <1>1, <1>4, OthersStay
<1>8. AttemptOf(a)'
  <2>1. pc'[a] = "marked" /\ plan' = plan /\ job'[a] = "write"
    BY <1>1, <1>2, <1>5 DEF CallerTypes
  <2>2. ~Before(a)' /\ Open(a)' /\ mark'[a].oid = plan'[a].oid
    BY <1>4, <2>1 DEF Before, Open
  <2>3. QED
    BY <1>2, <1>4, <2>1, <2>2 DEF AttemptOf
<1>9. QED
  BY <1>4, <1>6, <1>7, <1>8, InvNext

LEMMA SendGitKeeps == ASSUME RemoteInv, NEW a \in Actors, SendGit(a) PROVE RemoteInv'
<1>1. /\ pc[a] = "marked" /\ pc' = [pc EXCEPT ![a] = "sent"]
      /\ wire' = wire \cup {[actor |-> a, oid |-> plan[a].oid, lease |-> plan[a].lease]}
      /\ UNCHANGED <<ref, tip, records, job, plan, seen, leader, scope, gitHistory>>
  BY DEF SendGit
<1>2. a \in Callers /\ RemoteTypeOK /\ JobOf(a) /\ AttemptOf(a) /\ CallerTypes
  BY ConstantsOf, TypesAre DEF RemoteInv
<1>3. job[a] = "write"
  BY <1>1, <1>2 DEF JobOf
<1>4. CallersSound'
  <2>1. "sent" \in Active \ {"fetching"} /\ "marked" \in Active \ {"fetching"}
    BY DEF Active
  <2>2. plan' \in [Actors -> Attempts] /\ seen' \in [Actors -> Values \cup {Error}]
    BY <1>1, <1>2 DEF CallerTypes
  <2>3. QED
    BY <1>1, <1>3, <2>1, <2>2, MoveKeeps
<1>5. Open(a) /\ plan[a] \in Attempts /\ plan[a].lease # Foreign
  BY <1>1, <1>2 DEF AttemptOf, InHand, CallerTypes
<1>6. WorldSound'
  <2>1. [actor |-> a, oid |-> plan[a].oid, lease |-> plan[a].lease] \in Commands
    BY <1>5 DEF Attempts, Commands
  <2>2. WorldTypes'
    BY <1>1, <2>1, InvIs DEF WorldSound, WorldTypes, records, gitHistory
  <2>3. WireSound'
    BY <1>1, <1>5 DEF RemoteInv, WireSound, records, Open
  <2>4. \A b \in Actors : WitnessOf(b)'
    BY <1>1 DEF RemoteInv, WitnessOf, Open, records, gitHistory
  <2>5. QED
    BY <2>2, <2>3, <2>4 DEF WorldSound
<1>7. \A b \in Actors \ {a} : AttemptOf(b)'
  BY <1>1, OthersStay DEF records, gitHistory
<1>8. AttemptOf(a)'
  <2>1. pc'[a] = "sent"
    BY <1>1, <1>2 DEF CallerTypes
  <2>2. QED
    BY <1>1, <1>2, <1>3, <2>1 DEF AttemptOf, Before, InHand, Open, records
<1>9. QED
  BY <1>4, <1>6, <1>7, <1>8, InvNext

LEMMA ReadingKeeps ==
    ASSUME RemoteInv, NEW a \in Actors, CommandEnds(a) \/ ReadRef(a) PROVE RemoteInv'
<1>1. /\ pc[a] \in {"sent", "reading"}
      /\ UNCHANGED <<ref, tip, wire, records, job, plan, leader, scope, gitHistory>>
      /\ \/ pc' = [pc EXCEPT ![a] = "reading"] /\ seen' = seen
         \/ /\ pc' = [pc EXCEPT ![a] = "settling"]
            /\ seen' \in {[seen EXCEPT ![a] = ref[Branch[a]]], [seen EXCEPT ![a] = Error]}
  BY DEF CommandEnds, ReadRef
<1>2. a \in Callers /\ RemoteTypeOK /\ JobOf(a) /\ AttemptOf(a) /\ CallerTypes /\ WitnessOf(a)
  BY ConstantsOf, TypesAre DEF RemoteInv
<1>3. ref[Branch[a]] \in Values
  BY <1>2, ConstantsOf DEF RemoteTypeOK
<1>4. /\ seen' \in [Actors -> Values \cup {Error}]
      /\ \A b \in Actors \ {a} : seen'[b] = seen[b]
      /\ seen' = seen \/ seen'[a] \in {ref[Branch[a]], Error}
  BY <1>1, <1>2, <1>3 DEF CallerTypes
<1>5. CallersSound'
  <2>1. {"sent", "reading", "settling"} \subseteq Active \ {"fetching"}
    BY DEF Active
  <2>2. plan' \in [Actors -> Attempts]
    BY <1>1, <1>2 DEF CallerTypes
  <2>3. QED
    BY <1>1, <1>4, <2>1, <2>2, MoveKeeps
<1>6. WorldSound'
  BY <1>1, WorldStays
<1>7. \A b \in Actors \ {a} : AttemptOf(b)'
  BY <1>1, <1>4, OthersStay DEF records, gitHistory
<1>8. AttemptOf(a)'
  <2>1. Open(a) /\ mark[a].oid = plan[a].oid
    BY <1>1, <1>2 DEF AttemptOf, InHand
  <2>2. /\ pc'[a] \in {"reading", "settling"}
        /\ pc'[a] = "settling" => seen'[a] \in {ref[Branch[a]], Error}
    BY <1>1, <1>2, <1>4 DEF CallerTypes
  <2>3. job[a] \in {"write", "recover"}
    BY <1>1, <1>2 DEF JobOf
  <2>4. ~Before(a)' /\ InHand(a)'
    BY <1>1, <2>2, <2>3 DEF Before, InHand
  <2>5. pc'[a] = "settling" /\ Confirmed(a)' => witness'[a]
    BY <1>1, <1>2, <2>1, <2>2 DEF WitnessOf, Confirmed, gitHistory
  <2>6. QED
    BY <1>1, <1>2, <2>1, <2>4, <2>5 DEF AttemptOf, Open, records
<1>9. QED
  BY <1>5, <1>6, <1>7, <1>8, InvNext

-----------------------------------------------------------------------------
(* The ends of a job *)

\* An end that records nothing.
LEMMA QuietEndKeeps ==
    ASSUME RemoteInv, NEW c \in Callers, pc[c] \in Active, NEW ok \in BOOLEAN, Finish(c, ok),
           UNCHANGED <<ref, tip, wire, mark, gitHistory>>,
           c \in Actors /\ GoesOn(c, ok) => ~Open(c),
           cleaned' \in [Actors -> BOOLEAN],
           \A b \in Actors : cleaned'[b] => Branch[b] \in gone
    PROVE  RemoteInv'
<1>1. \A a \in Actors : Kind[a] = "cleanup" => mark'[a].oid = None
  BY DEF RemoteInv, AttemptOf
<1>2. CallersSound' /\ \A a \in Actors : AttemptOf(a)'
  BY <1>1, EndKeeps DEF gitHistory, Open
<1>3. WorldSound'
  BY InvIs DEF gitHistory, WorldSound, WorldTypes, WireSound, WitnessOf, Open
<1>4. QED
  BY <1>2, <1>3, InvNext

LEMMA FetchEndKeeps ==
    ASSUME RemoteInv, NEW c \in Callers, NEW ok \in BOOLEAN, FetchEnds(c, ok) PROVE RemoteInv'
<1>1. /\ pc[c] = "fetching" /\ Finish(c, ok)
      /\ UNCHANGED <<ref, tip, wire, records, gitHistory>>
  BY DEF FetchEnds
<1>2. c \in Actors => ~Open(c)
  BY <1>1 DEF RemoteInv, JobOf, AttemptOf, Before
<1>3. cleaned' \in [Actors -> BOOLEAN] /\ \A b \in Actors : cleaned'[b] => Branch[b] \in gone
  BY <1>1 DEF RemoteInv, RemoteTypeOK, WitnessOf, records
<1>4. pc[c] \in Active
  BY <1>1 DEF Active
<1>5. QED
  BY <1>1, <1>2, <1>3, <1>4, QuietEndKeeps DEF records

LEMMA RefusalKeeps ==
    ASSUME RemoteInv, NEW a \in Actors, AlreadyGone(a) \/ Refuse(a) PROVE RemoteInv'
<1>1. a \in Callers /\ RemoteTypeOK /\ JobOf(a) /\ AttemptOf(a) /\ WitnessOf(a)
  BY ConstantsOf DEF RemoteInv
<1>2. PICK ok \in BOOLEAN : Finish(a, ok)
  BY DEF AlreadyGone, Refuse
<1>3. /\ pc[a] = "validating" /\ UNCHANGED <<ref, tip, wire, mark, gitHistory>>
      /\ \/ cleaned' = cleaned
         \/ cleaned' = [cleaned EXCEPT ![a] = TRUE] /\ Kind[a] = "cleanup" /\ ref[Branch[a]] = None
  BY DEF AlreadyGone, Refuse, records
<1>4. ~Open(a) /\ pc[a] \in Active
  BY <1>1, <1>3 DEF JobOf, AttemptOf, Before, Active
<1>5. cleaned' \in [Actors -> BOOLEAN]
  BY <1>1, <1>3 DEF RemoteTypeOK
<1>6. \A b \in Actors : cleaned'[b] => Branch[b] \in gone
  BY <1>1, <1>3 DEF RemoteInv, RemoteTypeOK, WitnessOf
<1>7. QED
  BY <1>1, <1>2, <1>3, <1>4, <1>5, <1>6, QuietEndKeeps

\* An end that records the attempt in hand.
LEMMA RecordedEndKeeps ==
    ASSUME RemoteInv, NEW a \in Actors, NEW ok \in BOOLEAN, Finish(a, ok), pc[a] \in Active,
           NEW status \in {"prepared", "confirmed", "unknown"},
           Record(a, Marked(plan[a], status)), UNCHANGED <<ref, tip, wire, gone>>,
           status = "confirmed" => witness[a],
           GoesOn(a, ok) => status # "prepared",
           cleaned' \in [Actors -> BOOLEAN],
           \A b \in Actors : cleaned'[b] => Branch[b] \in gone
    PROVE  RemoteInv'
<1>1. /\ WorldSound'
      /\ \A b \in Actors \ {a} : mark'[b] = mark[b] /\ witness'[b] = witness[b]
      /\ mark'[a] = [oid |-> plan[a].oid, status |-> status]
      /\ \A b \in Actors : Kind[b] = "cleanup" => mark'[b].oid = None
  BY RecordIs
<1>2. a \in Callers
  BY ConstantsOf
<1>3. GoesOn(a, ok) => ~Open(a)'
  BY <1>1 DEF Open
<1>4. CallersSound' /\ \A b \in Actors : AttemptOf(b)'
  BY <1>1, <1>2, <1>3, EndKeeps
<1>5. QED
  BY <1>1, <1>4, InvNext

LEMMA PersistFailsKeeps ==
    ASSUME RemoteInv, NEW a \in Actors, PersistFails(a) PROVE RemoteInv'
<1>1. /\ pc[a] = "marking" /\ Leftover(a, Marked(plan[a], "prepared")) /\ Finish(a, FALSE)
      /\ UNCHANGED <<ref, tip, wire, cleaned, gone>>
  BY DEF PersistFails
<1>2. a \in Callers /\ pc[a] \in Active /\ ~GoesOn(a, FALSE)
  BY <1>1, ConstantsOf DEF Active, GoesOn
<1>3. cleaned' \in [Actors -> BOOLEAN] /\ \A b \in Actors : cleaned'[b] => Branch[b] \in gone
  BY <1>1 DEF RemoteInv, RemoteTypeOK, WitnessOf
<1>4. CASE UNCHANGED <<mark, witness>>
  BY <1>1, <1>2, <1>3, <1>4, QuietEndKeeps DEF gitHistory
<1>5. CASE Record(a, Marked(plan[a], "prepared"))
  BY <1>1, <1>2, <1>3, <1>5, RecordedEndKeeps
<1>6. QED
  BY <1>1, <1>4, <1>5 DEF Leftover

LEMMA SettlingKeeps ==
    ASSUME RemoteInv, NEW a \in Actors, Settle(a) \/ SettleFails(a) PROVE RemoteInv'
<1> DEFINE status == IF Confirmed(a) THEN "confirmed" ELSE "unknown"
<1>1. a \in Callers /\ RemoteTypeOK /\ AttemptOf(a) /\ WitnessOf(a)
  BY ConstantsOf DEF RemoteInv
<1>2. pc[a] = "settling" /\ pc[a] \in Active /\ UNCHANGED <<ref, tip, wire, gone>>
  BY DEF Settle, SettleFails, Active
<1>3. AttemptOutcome(a) = Marked(plan[a], status) /\ status \in {"confirmed", "unknown"}
  BY DEF AttemptOutcome
<1>4. Confirmed(a) => witness[a] /\ Open(a)
  BY <1>1, <1>2 DEF AttemptOf, InHand
<1>5. /\ cleaned' \in {cleaned} \cup
                    (IF Confirmed(a) /\ Kind[a] = "cleanup"
                       THEN {[cleaned EXCEPT ![a] = TRUE]} ELSE {})
  BY DEF Settle, SettleFails
<1>6. cleaned' \in [Actors -> BOOLEAN]
  BY <1>1, <1>5 DEF RemoteTypeOK
<1>7. \A b \in Actors : cleaned'[b] => Branch[b] \in gone
  <2>1. Confirmed(a) /\ Kind[a] = "cleanup" => Branch[a] \in gone
    BY <1>1, <1>4 DEF WitnessOf
  <2>2. \A b \in Actors : cleaned[b] => Branch[b] \in gone
    BY DEF RemoteInv, WitnessOf
  <2>3. QED
    BY <1>1, <1>5, <2>1, <2>2 DEF RemoteTypeOK
<1>8. status = "confirmed" => witness[a]
  BY <1>4
<1>9. CASE Settle(a)
  <2>1. Record(a, Marked(plan[a], status)) /\ Finish(a, Confirmed(a))
    BY <1>3, <1>9 DEF Settle
  <2>2. PICK ok \in BOOLEAN : Finish(a, ok)
    <3>1. Confirmed(a) \in BOOLEAN
      BY DEF Confirmed
    <3>2. QED
      BY <2>1, <3>1
  <2>3. QED
    BY <1>1, <1>2, <1>3, <1>6, <1>7, <1>8, <2>1, <2>2, RecordedEndKeeps
<1>10. CASE SettleFails(a)
  <2>1. Leftover(a, Marked(plan[a], status)) /\ Finish(a, FALSE) /\ FALSE \in BOOLEAN
    BY <1>3, <1>10 DEF SettleFails
  <2>2. CASE UNCHANGED <<mark, witness>>
    <3>1. ~GoesOn(a, FALSE)
      BY DEF GoesOn
    <3>2. QED
      BY <1>1, <1>2, <1>6, <1>7, <2>1, <2>2, <3>1, QuietEndKeeps DEF gitHistory
  <2>3. CASE Record(a, Marked(plan[a], status))
    BY <1>1, <1>2, <1>3, <1>6, <1>7, <1>8, <2>1, <2>3, RecordedEndKeeps
  <2>4. QED
    BY <2>1, <2>2, <2>3 DEF Leftover
<1>11. QED
  BY <1>9, <1>10

-----------------------------------------------------------------------------
(* What comes to the queue and leaves it *)

\* A caller takes a step by itself: what it joins or leads stays.
LEMMA FetchesStay ==
    ASSUME RemoteInv, NEW c \in Callers, NEW next \in {"ready", "joined", "queued"} \cup Active,
           pc[c] \in {"idle", "ready"}, pc' = [pc EXCEPT ![c] = next],
           \A d \in Callers \ {c} : job'[d] = job[d] /\ leader'[d] = leader[d],
           next = "joined" => \E d \in Callers \ {c} : leader'[c] = d /\ Leads(d),
           flight' # flight => flight' = c /\ next \in {"queued", "fetching"} /\ job'[c] = "fetch"
    PROVE  FetchSound'
<1>1. RemoteTypeOK /\ FetchSound
  BY DEF RemoteInv
<1>2. \A d \in Callers : pc'[d] = IF d = c THEN next ELSE pc[d]
  BY <1>1 DEF RemoteTypeOK
<1>3. \A d \in Callers \ {c} : Leads(d) => Leads(d)'
  BY <1>2 DEF Leads
<1>4. ~Leads(c)
  BY DEF Leads
<1>5. ASSUME NEW d \in Callers, pc'[d] = "joined" PROVE leader'[d] # None /\ Leads(leader[d])'
  <2>1. CASE d = c
    <3>1. PICK e \in Callers \ {c} : leader'[c] = e /\ Leads(e)
      BY <1>2, <1>5, <2>1
    <3>2. QED
      BY <1>3, <2>1, <3>1, ConstantsOf
  <2>2. CASE d # c
    <3>1. pc[d] = "joined" /\ leader'[d] = leader[d] /\ leader[d] \in Callers
      BY <1>1, <1>2, <1>5, <2>2 DEF RemoteTypeOK, FetchSound
    <3>2. leader[d] # None /\ Leads(leader[d]) /\ leader[d] # c
      BY <1>1, <1>4, <3>1 DEF FetchSound
    <3>3. QED
      BY <1>3, <3>1, <3>2
  <2>3. QED
    BY <2>1, <2>2
<1>6. ASSUME flight' # None PROVE Leads(flight)'
  <2>1. CASE flight' = flight
    <3>1. flight \in Callers /\ Leads(flight) /\ flight # c
      BY <1>1, <1>4, <1>6, <2>1 DEF RemoteTypeOK, FetchSound
    <3>2. QED
      BY <1>3, <2>1, <3>1
  <2>2. CASE flight' # flight
    BY <1>2, <2>2 DEF Leads
  <2>3. QED
    BY <2>1, <2>2
<1>7. QED
  BY <1>5, <1>6 DEF FetchSound

LEMMA AppendHolds ==
    ASSUME RemoteTypeOK, NEW c \in Callers
    PROVE  /\ Append(queue, c) \in Seq(Callers) /\ Append(queue, c) # <<>>
           /\ Len(queue) \in Nat /\ DOMAIN queue = 1..Len(queue)
           /\ DOMAIN Append(queue, c) = 1..(Len(queue) + 1)
           /\ \A i \in 1..Len(queue) : Append(queue, c)[i] = queue[i]
           /\ Append(queue, c)[Len(queue) + 1] = c
<1>1. queue \in Seq(Callers)
  BY DEF RemoteTypeOK
<1>2. QED
  BY <1>1, AppendProperties, LenProperties

LEMMA EnqueueKeeps == ASSUME RemoteInv, NEW c \in Callers, Enqueue(c) PROVE RemoteInv'
<1>1. RemoteTypeOK /\ JobOf(c) /\ QueueSound /\ pc[c] = "ready" /\ CallerTypes
  BY TypesAre DEF RemoteInv, Enqueue
<1>2. job[c] \in {"fetch", "recover", "write"}
  BY <1>1 DEF RemoteTypeOK, JobOf
<1>3. First(c) \in {"fetching", "reading", "validating"} /\ (job[c] = "fetch" => First(c) = "fetching")
      /\ (job[c] = "recover" => First(c) = "reading") /\ (job[c] = "write" => First(c) = "validating")
  BY <1>2, FirstIs
<1>4. /\ UNCHANGED <<ref, tip, wire, records, job, plan, seen, leader, late, gitHistory>>
      /\ flight' = IF job[c] = "fetch" THEN c ELSE flight
  BY DEF Enqueue
<1>5. PICK next \in {First(c), "queued"} : pc' = [pc EXCEPT ![c] = next]
  BY DEF Enqueue
<1>6. \A d \in Callers : pc'[d] = IF d = c THEN next ELSE pc[d]
  BY <1>1, <1>5 DEF RemoteTypeOK
<1>7. next \in Active \cup {"queued"} /\ {"fetching", "reading", "validating"} \subseteq Active
      /\ "queued" \notin Active /\ "ready" \notin Active
  BY <1>3, <1>5 DEF Active
<1>8. FetchSound'
  <2>1. job[c] = "fetch" => next \in {"queued", "fetching"}
    BY <1>3, <1>5
  <2>2. next # "joined"
    BY <1>3, <1>5
  <2>3. next \in {"ready", "joined", "queued"} \cup Active
    BY <1>7
  <2>4. \A d \in Callers \ {c} : job'[d] = job[d] /\ leader'[d] = leader[d]
    BY <1>4
  <2>5. flight' # flight => flight' = c /\ next \in {"queued", "fetching"} /\ job'[c] = "fetch"
    BY <1>4, <2>1
  <2>6. QED
    BY <1>1, <1>5, <2>2, <2>3, <2>4, <2>5, FetchesStay
<1>9. QueueSound' /\ queue' \in Seq(Callers) /\ active' \in Callers \cup {None}
  <2>1. CASE active = None
    <3>1. active' = c /\ queue' = queue /\ pc' = [pc EXCEPT ![c] = First(c)]
      BY <2>1 DEF Enqueue
    <3>2. \A d \in Callers : pc'[d] = IF d = c THEN First(c) ELSE pc[d]
      BY <1>1, <3>1 DEF RemoteTypeOK
    <3>3. \A d \in Callers : pc'[d] = "queued" <=> pc[d] = "queued"
      BY <1>1, <1>3, <3>2
    <3>4. \A d \in Callers : pc'[d] \in Active <=> d = active' \/ d \in late'
      BY <1>1, <1>3, <1>4, <1>7, <2>1, <3>1, <3>2, ConstantsOf DEF QueueSound
    <3>5. QED
      BY <1>1, <3>1, <3>3, <3>4, ConstantsOf DEF QueueSound, RemoteTypeOK
  <2>2. CASE active # None
    <3>1. active' = active /\ queue' = Append(queue, c) /\ pc' = [pc EXCEPT ![c] = "queued"]
      BY <2>2 DEF Enqueue
    <3>2. \A d \in Callers : pc'[d] = IF d = c THEN "queued" ELSE pc[d]
      BY <1>1, <3>1 DEF RemoteTypeOK
    <3>3. \A i \in DOMAIN queue : queue[i] # c
      BY <1>1 DEF QueueSound
    <3>4. \A d \in Callers : pc'[d] = "queued" <=> \E i \in DOMAIN queue' : queue'[i] = d
      <4>1. ASSUME NEW d \in Callers, pc'[d] = "queued" PROVE \E i \in DOMAIN queue' : queue'[i] = d
        <5>1. CASE d = c
          BY <1>1, <3>1, <5>1, AppendHolds
        <5>2. CASE d # c
          <6>1. PICK i \in DOMAIN queue : queue[i] = d
            BY <1>1, <3>2, <4>1, <5>2 DEF QueueSound
          <6>2. QED
            BY <1>1, <3>1, <6>1, AppendHolds
        <5>3. QED
          BY <5>1, <5>2
      <4>2. ASSUME NEW d \in Callers, NEW i \in DOMAIN queue', queue'[i] = d PROVE pc'[d] = "queued"
        <5>1. CASE d = c
          BY <3>2, <5>1
        <5>2. CASE d # c
          <6>1. i \in DOMAIN queue /\ queue[i] = d
            BY <1>1, <3>1, <4>2, <5>2, AppendHolds
          <6>2. QED
            BY <1>1, <3>2, <6>1 DEF QueueSound
        <5>3. QED
          BY <5>1, <5>2
      <4>3. QED
        BY <4>1, <4>2
    <3>5. \A i, j \in DOMAIN queue' : i # j => queue'[i] # queue'[j]
      BY <1>1, <3>1, <3>3, AppendHolds DEF QueueSound
    <3>6. \A d \in Callers : pc'[d] \in Active <=> d = active' \/ d \in late'
      BY <1>1, <1>4, <1>7, <3>1, <3>2 DEF QueueSound
    <3>7. queue' \in Seq(Callers)
      BY <1>1, <3>1, AppendHolds
    <3>8. QED
      BY <1>1, <2>2, <3>1, <3>4, <3>5, <3>6, <3>7 DEF QueueSound, RemoteTypeOK
  <2>3. QED
    BY <2>1, <2>2
<1>10. CallerTypes'
  BY <1>1, <1>4, <1>5, <1>7, <1>9 DEF CallerTypes
<1>11. ASSUME NEW d \in Callers PROVE JobOf(d)'
  <2>1. CASE d = c
    BY <1>1, <1>2, <1>3, <1>4, <1>5, <1>6, <2>1, NoneIsNoJob DEF JobOf
  <2>2. CASE d # c
    BY <1>4, <1>6, <2>2 DEF RemoteInv, JobOf
  <2>3. QED
    BY <2>1, <2>2
<1>12. CallersSound'
  BY <1>8, <1>9, <1>10, <1>11 DEF CallersSound
<1>13. ASSUME NEW a \in Actors PROVE AttemptOf(a)'
  <2>1. a \in Callers /\ AttemptOf(a)
    BY ConstantsOf DEF RemoteInv
  <2>2. CASE a = c
    <3>1. Before(a)' => Before(a)
      BY <1>1, <1>4, <2>2 DEF Before
    <3>2. InHand(a)' => InHand(a)
      BY <1>2, <1>3, <1>4, <1>5, <1>6, <2>2 DEF InHand
    <3>3. pc'[a] # "settling"
      BY <1>3, <1>5, <1>6, <2>2
    <3>4. QED
      BY <1>4, <2>1, <3>1, <3>2, <3>3 DEF AttemptOf, Open, records
  <2>3. CASE a # c
    BY <1>4, <1>6, <2>1, <2>3 DEF AttemptOf, Before, InHand, Open, Confirmed, records, gitHistory
  <2>4. QED
    BY <2>2, <2>3
<1>14. WorldSound'
  BY <1>4, WorldStays
<1>15. QED
  BY <1>12, <1>13, <1>14, InvNext

\* A caller who waits begins or joins: nothing of the queue is touched.
LEMMA WaiterKeeps ==
    ASSUME RemoteInv, NEW c \in Callers, NEW next \in {"ready", "joined"},
           pc[c] \in {"idle", "ready"}, pc' = [pc EXCEPT ![c] = next],
           \A d \in Callers \ {c} : job'[d] = job[d] /\ leader'[d] = leader[d],
           next = "joined" => \E d \in Callers \ {c} : leader'[c] = d /\ Leads(d),
           UNCHANGED <<ref, tip, wire, records, scope, gitHistory, seen>>,
           CallerTypes', JobOf(c)',
           \A a \in Actors \ {c} : plan'[a] = plan[a],
           c \in Actors => AttemptOf(c)'
    PROVE  RemoteInv'
<1>1. RemoteTypeOK /\ QueueSound
  BY DEF RemoteInv
<1>2. \A d \in Callers : pc'[d] = IF d = c THEN next ELSE pc[d]
  BY <1>1 DEF RemoteTypeOK
<1>3. FetchSound'
  <2>1. flight' = flight
    BY DEF scope
  <2>2. pc' = [pc EXCEPT ![c] = next] /\ pc[c] \in {"idle", "ready"}
    OBVIOUS
  <2>3. \A d \in Callers \ {c} : job'[d] = job[d] /\ leader'[d] = leader[d]
    OBVIOUS
  <2>4. next = "joined" => \E d \in Callers \ {c} : leader'[c] = d /\ Leads(d)
    OBVIOUS
  <2>5. QED
    BY <2>1, <2>2, <2>3, <2>4, FetchesStay DEF Active
<1>4. QueueSound'
  <2>1. \A d \in Callers : pc'[d] = "queued" <=> pc[d] = "queued"
    BY <1>2
  <2>2. \A d \in Callers : pc'[d] \in Active <=> pc[d] \in Active
    BY <1>2 DEF Active
  <2>3. QED
    BY <1>1, <2>1, <2>2 DEF QueueSound, scope
<1>5. \A d \in Callers : JobOf(d)'
  BY <1>2 DEF RemoteInv, JobOf
<1>6. CallersSound'
  BY <1>3, <1>4, <1>5 DEF CallersSound
<1>7. ASSUME NEW a \in Actors PROVE AttemptOf(a)'
  <2>1. a \in Callers /\ AttemptOf(a)
    BY ConstantsOf DEF RemoteInv
  <2>2. CASE a # c
    BY <1>2, <2>1, <2>2 DEF AttemptOf, Before, InHand, Open, Confirmed, records, gitHistory
  <2>3. QED
    BY <2>2
<1>8. WorldSound'
  BY WorldStays
<1>9. QED
  BY <1>6, <1>7, <1>8, InvNext

LEMMA JoinKeeps == ASSUME RemoteInv, NEW c \in Callers, JoinFetch(c) PROVE RemoteInv'
<1>1. RemoteTypeOK /\ JobOf(c) /\ FetchSound /\ CallerTypes
  BY TypesAre DEF RemoteInv
<1>2. /\ pc[c] = "ready" /\ job[c] = "fetch" /\ flight # None
      /\ pc' = [pc EXCEPT ![c] = "joined"] /\ leader' = [leader EXCEPT ![c] = flight]
      /\ UNCHANGED <<ref, tip, wire, records, job, plan, seen, scope, gitHistory>>
  BY DEF JoinFetch
<1>3. flight \in Callers /\ Leads(flight) /\ flight # c
  BY <1>1, <1>2 DEF FetchSound, RemoteTypeOK, Leads
<1>4. CallerTypes'
  BY <1>1, <1>2, <1>3 DEF CallerTypes, scope
<1>5. pc'[c] = "joined" /\ leader'[c] = flight /\ \A d \in Callers \ {c} : leader'[d] = leader[d]
  BY <1>1, <1>2 DEF RemoteTypeOK
<1>6. JobOf(c)'
  BY <1>1, <1>2, <1>5, NoneIsNoJob DEF JobOf
<1>7. c \in Actors => AttemptOf(c)'
  <2>1. SUFFICES ASSUME c \in Actors PROVE AttemptOf(c)'
    OBVIOUS
  <2>2. AttemptOf(c)
    BY <2>1 DEF RemoteInv
  <2>3. QED
    BY <1>2, <1>5, <2>2 DEF AttemptOf, Before, InHand, Open, records
<1>8. QED
  BY <1>2, <1>3, <1>4, <1>5, <1>6, <1>7, WaiterKeeps

LEMMA BeginFetchKeeps == ASSUME RemoteInv, NEW f \in Callers, BeginFetch(f) PROVE RemoteInv'
<1>1. /\ f \in Fetchers /\ pc[f] = "idle"
      /\ pc' = [pc EXCEPT ![f] = "ready"] /\ job' = [job EXCEPT ![f] = "fetch"]
      /\ UNCHANGED <<ref, tip, wire, records, plan, seen, leader, scope, gitHistory>>
  BY DEF BeginFetch
<1>2. CallerTypes /\ RemoteTypeOK /\ f \notin Actors
  BY <1>1, TypesAre, RemoteGitAssumption DEF RemoteInv
<1>3. CallerTypes'
  BY <1>1, <1>2 DEF CallerTypes, scope
<1>4. pc'[f] = "ready" /\ job'[f] = "fetch" /\ \A d \in Callers \ {f} : job'[d] = job[d]
  BY <1>1, <1>2 DEF CallerTypes
<1>5. JobOf(f)'
  BY <1>4, NoneIsNoJob DEF JobOf
<1>6. QED
  BY <1>1, <1>2, <1>3, <1>4, <1>5, WaiterKeeps

LEMMA ReadyKeeps ==
    ASSUME RemoteInv, NEW a \in Actors, NEW next \in {"fetch", "recover", "write"},
           NEW attempt \in Attempts, Ready(a, next, attempt), pc[a] = "idle",
           UNCHANGED <<ref, tip, wire, records, scope, gitHistory>>,
           next \in {"fetch", "write"} => ~Open(a),
           next = "recover" => Open(a) /\ mark[a].oid = attempt.oid,
           attempt.lease # Foreign, Kind[a] = "cleanup" => attempt.oid = None
    PROVE  RemoteInv'
<1>1. /\ pc' = [pc EXCEPT ![a] = "ready"] /\ job' = [job EXCEPT ![a] = next]
      /\ plan' = [plan EXCEPT ![a] = attempt] /\ UNCHANGED <<seen, leader>>
  BY DEF Ready
<1>2. CallerTypes /\ RemoteTypeOK /\ a \in Callers /\ AttemptOf(a)
  BY TypesAre, ConstantsOf DEF RemoteInv
<1>3. CallerTypes'
  BY <1>1, <1>2 DEF CallerTypes, scope
<1>4. /\ pc'[a] = "ready" /\ job'[a] = next /\ plan'[a] = attempt
      /\ \A d \in Callers \ {a} : job'[d] = job[d] /\ leader'[d] = leader[d]
      /\ \A b \in Actors \ {a} : plan'[b] = plan[b]
  BY <1>1, <1>2 DEF CallerTypes
<1>5. JobOf(a)'
  BY <1>4, NoneIsNoJob DEF JobOf
<1>6. AttemptOf(a)'
  BY <1>2, <1>4 DEF AttemptOf, Before, InHand, Open, records
<1>7. QED
  BY <1>1, <1>2, <1>3, <1>4, <1>5, <1>6, WaiterKeeps

LEMMA BeginningsOfJobs ==
    ASSUME RemoteInv, NEW a \in Actors, BeginRecovery(a) \/ BeginWrite(a) PROVE RemoteInv'
<1>1. pc[a] = "idle" /\ UNCHANGED <<ref, tip, wire, records, scope, gitHistory>>
  BY DEF BeginRecovery, BeginWrite
<1>2. RemoteTypeOK /\ AttemptOf(a)
  BY DEF RemoteInv
<1>3. None # Foreign /\ None \in Values
  BY ConstantsOf
<1>4. CASE BeginRecovery(a)
  <2>1. Ready(a, "recover", [oid |-> mark[a].oid, lease |-> None]) /\ Open(a)
    BY <1>4 DEF BeginRecovery
  <2>2. [oid |-> mark[a].oid, lease |-> None] \in Attempts
    BY <1>2, <1>3 DEF RemoteTypeOK, Attempts
  <2>3. Kind[a] = "cleanup" => mark[a].oid = None
    BY <1>2 DEF AttemptOf
  <2>4. QED
    BY ReadyKeeps, <1>1, <1>3, <2>1, <2>2, <2>3
<1>5. CASE BeginWrite(a)
  <2>1. /\ ~Open(a)
        /\ Ready(a, "fetch", NoPlan) \/ Ready(a, "write", Candidate(a))
    BY <1>5 DEF BeginWrite
  <2>2. /\ Candidate(a) \in Attempts /\ Candidate(a).lease = None
        /\ Kind[a] = "cleanup" => Candidate(a).oid = None
        /\ NoPlan \in Attempts /\ NoPlan.lease = None /\ NoPlan.oid = None
    BY <1>2, CandidateIs
  <2>3. QED
    BY ReadyKeeps, <1>1, <1>3, <2>1, <2>2
<1>6. QED
  BY <1>4, <1>5

LEMMA NoteKeeps == ASSUME RemoteInv, NEW a \in Actors, NoteDeletion(a) PROVE RemoteInv'
<1>1. /\ Kind[a] = "cleanup" /\ mark[a].status = "confirmed"
      /\ cleaned' = [cleaned EXCEPT ![a] = TRUE]
      /\ UNCHANGED <<ref, tip, wire, mark, callers, scope, gitHistory>>
  BY DEF NoteDeletion, Settled
<1>2. Branch[a] \in gone /\ RemoteTypeOK
  BY <1>1 DEF RemoteInv, WitnessOf
<1>3. cleaned' \in [Actors -> BOOLEAN] /\ \A b \in Actors : cleaned'[b] => Branch[b] \in gone
  BY <1>1, <1>2 DEF RemoteInv, RemoteTypeOK, WitnessOf
<1>4. CallersSound' /\ \A b \in Actors : AttemptOf(b)'
  BY <1>1, InvIs DEF CallersSound, CallerTypes, QueueSound, FetchSound, Leads, JobOf, AttemptOf,
     Before, InHand, Open, Confirmed, callers, scope, gitHistory
<1>5. WorldSound'
  BY <1>1, <1>3, InvIs DEF WorldSound, WorldTypes, WireSound, WitnessOf, Open, gitHistory
<1>6. QED
  BY <1>4, <1>5, InvNext

\* Callers leave and nothing is recorded.
LEMMA QuietLeaveKeeps ==
    ASSUME RemoteInv, NEW ended \in SUBSET Callers, Leave(ended, FALSE, {}),
           UNCHANGED <<ref, tip, wire, records, gitHistory>>,
           QueueSound', FetchSound', queue' \in Seq(Callers), active' \in Callers \cup {None},
           flight' \in Callers \cup {None}, late' \in SUBSET Callers
    PROVE  RemoteInv'
<1>1. {} \in SUBSET Callers /\ FALSE \in BOOLEAN /\ RemoteTypeOK
  BY DEF RemoteInv
<1>2. CallerTypes'
  BY <1>1, LeaveTypes DEF CallerTypes
<1>3. \A c \in Callers : JobOf(c)'
  BY <1>1, LeaveJobs
<1>4. \A a \in Actors : AttemptOf(a)'
  <2>1. \A a \in Actors : mark'[a] = mark[a] /\ witness'[a] = witness[a] /\ ~GoesOn(a, FALSE)
    BY DEF records, gitHistory, GoesOn
  <2>2. \A a \in Actors : Kind[a] = "cleanup" => mark'[a].oid = None
    BY <2>1 DEF RemoteInv, AttemptOf
  <2>3. QED
    BY <1>1, <2>1, <2>2, LeaveAttempts
<1>5. CallersSound'
  BY <1>2, <1>3 DEF CallersSound
<1>6. QED
  BY <1>4, <1>5, WorldStays, InvNext

LEMMA FailuresAre ==
    ASSUME RemoteTypeOK, NEW ended \in SUBSET Callers, Leave(ended, FALSE, {})
    PROVE  /\ \A d \in Leaving(ended) : pc'[d] = "idle"
           /\ \A d \in Callers \ Leaving(ended) : pc'[d] = pc[d]
  BY DEF Leave, Leaving, GoesOn, RemoteTypeOK

LEMMA WithoutHolds ==
    ASSUME RemoteTypeOK, QueueSound, NEW i \in DOMAIN queue
    PROVE  /\ Without(i) \in Seq(Callers)
           /\ \A c \in Callers : (\E j \in DOMAIN Without(i) : Without(i)[j] = c)
                                    <=> pc[c] = "queued" /\ c # queue[i]
           /\ \A j, k \in DOMAIN Without(i) : j # k => Without(i)[j] # Without(i)[k]
<1> DEFINE n == Len(queue) - 1
<1>1. Len(queue) \in Nat /\ DOMAIN queue = 1..Len(queue) /\ queue \in [1..Len(queue) -> Callers]
  BY LenProperties DEF RemoteTypeOK
<1>2. n \in Nat /\ i \in 1..Len(queue)
  BY <1>1
<1>3. /\ DOMAIN Without(i) = 1..n
      /\ \A j \in 1..n : /\ j < i => Without(i)[j] = queue[j] /\ j \in DOMAIN queue
                         /\ ~(j < i) => Without(i)[j] = queue[j + 1] /\ j + 1 \in DOMAIN queue
  BY <1>1, <1>2 DEF Without
<1>4. \A j \in 1..n : Without(i)[j] \in Callers
  BY <1>1, <1>3
<1>5. Without(i) \in [1..n -> Callers]
  BY <1>3, <1>4 DEF Without
<1>6. Without(i) \in Seq(Callers)
  BY <1>2, <1>5, SeqDef
<1>7. \A j, k \in DOMAIN queue : j # k => queue[j] # queue[k]
  BY DEF QueueSound
<1>8. \A c \in Callers : pc[c] = "queued" <=> \E j \in DOMAIN queue : queue[j] = c
  BY DEF QueueSound
<1>9. ASSUME NEW j \in 1..n
      PROVE  \E k \in DOMAIN queue : k # i /\ Without(i)[j] = queue[k] /\ k = (IF j < i THEN j ELSE j + 1)
  <2>1. CASE j < i
    BY <1>2, <1>3, <2>1
  <2>2. CASE ~(j < i)
    BY <1>2, <1>3, <2>2
  <2>3. QED
    BY <2>1, <2>2
<1>10. ASSUME NEW c \in Callers, NEW j \in DOMAIN Without(i), Without(i)[j] = c
       PROVE  pc[c] = "queued" /\ c # queue[i]
  <2>1. PICK k \in DOMAIN queue : k # i /\ Without(i)[j] = queue[k]
    BY <1>3, <1>9
  <2>2. QED
    BY <1>7, <1>8, <1>10, <2>1
<1>11. ASSUME NEW c \in Callers, pc[c] = "queued", c # queue[i]
       PROVE  \E j \in DOMAIN Without(i) : Without(i)[j] = c
  <2>1. PICK k \in DOMAIN queue : queue[k] = c /\ k # i
    BY <1>8, <1>11
  <2>2. CASE k < i
    <3>1. k \in 1..n
      BY <1>1, <1>2, <2>2
    <3>2. QED
      BY <1>3, <2>1, <2>2, <3>1
  <2>3. CASE ~(k < i)
    <3>1. k - 1 \in 1..n /\ ~(k - 1 < i) /\ (k - 1) + 1 = k
      BY <1>1, <1>2, <2>1, <2>3
    <3>2. Without(i)[k - 1] = queue[k]
      BY <1>3, <3>1
    <3>3. QED
      BY <1>3, <2>1, <3>1, <3>2
  <2>4. QED
    BY <2>2, <2>3
<1>12. ASSUME NEW j \in 1..n, NEW k \in 1..n, j # k PROVE Without(i)[j] # Without(i)[k]
  <2>1. PICK x \in DOMAIN queue : Without(i)[j] = queue[x] /\ x = (IF j < i THEN j ELSE j + 1)
    BY <1>9
  <2>2. PICK y \in DOMAIN queue : Without(i)[k] = queue[y] /\ y = (IF k < i THEN k ELSE k + 1)
    BY <1>9
  <2>3. x # y
    BY <1>2, <1>12, <2>1, <2>2
  <2>4. QED
    BY <1>7, <2>1, <2>2, <2>3
<1>13. QED
  BY <1>3, <1>6, <1>10, <1>11, <1>12

LEMMA TimeoutKeeps == ASSUME RemoteInv, NEW c \in Callers, QueueTimeout(c) PROVE RemoteInv'
<1>1. RemoteTypeOK /\ QueueSound /\ FetchSound
  BY DEF RemoteInv
<1>2. /\ pc[c] = "queued" /\ Leave({c}, FALSE, {})
      /\ flight' = (IF flight \in {c} THEN None ELSE flight)
      /\ UNCHANGED <<ref, tip, wire, records, active, late, gitHistory>>
  BY DEF QueueTimeout, Resolve
<1>3. PICK i \in DOMAIN queue : queue[i] = c /\ queue' = Without(i)
  BY DEF QueueTimeout
<1>4. {c} \in SUBSET Callers /\ {} \in SUBSET Callers /\ FALSE \in BOOLEAN
  OBVIOUS
<1>5. \A d \in Leaving({c}) : pc'[d] = "idle"
  BY <1>1, <1>2, <1>4, FailuresAre
<1>6. \A d \in Callers \ Leaving({c}) : pc'[d] = pc[d]
  BY <1>1, <1>2, <1>4, FailuresAre
<1>7. \A d \in Leaving({c}) : (d = c \/ pc[d] = "joined") /\ pc'[d] \in {"ready", "idle"}
  BY <1>5 DEF Leaving
<1>8. c \in Leaving({c})
  BY DEF Leaving
<1>9. "joined" \notin Active /\ "queued" \notin Active /\ "ready" \notin Active /\ "idle" \notin Active
  BY DEF Active
<1>10. \A d \in Callers : pc'[d] = "queued" <=> pc[d] = "queued" /\ d # c
  BY <1>6, <1>7, <1>8
<1>11. \A d \in Callers : pc'[d] \in Active <=> pc[d] \in Active
  BY <1>2, <1>6, <1>7, <1>8, <1>9
<1>12. QueueSound'
  <2>1. \A d \in Callers : pc'[d] = "queued" <=> \E j \in DOMAIN queue' : queue'[j] = d
    BY <1>1, <1>3, <1>10, WithoutHolds
  <2>2. \A j, k \in DOMAIN queue' : j # k => queue'[j] # queue'[k]
    BY <1>1, <1>3, WithoutHolds
  <2>3. \A d \in Callers : pc'[d] \in Active <=> d = active' \/ d \in late'
    BY <1>1, <1>2, <1>11 DEF QueueSound
  <2>4. active' # None
    <3>1. queue # <<>>
      BY <1>3
    <3>2. QED
      BY <1>1, <1>2, <3>1 DEF QueueSound
  <2>5. QED
    BY <2>1, <2>2, <2>3, <2>4 DEF QueueSound
<1>13. FetchSound'
  <2>1. /\ \A d \in Callers : pc'[d] = "joined" => leader'[d] # None /\ Leads(leader[d])'
        /\ \A d \in Callers \ {c} : Leads(d) => Leads(d)'
    BY <1>2, <1>4, LeaveFetches
  <2>2. flight' # None => flight' = flight /\ flight # c /\ flight \in Callers /\ Leads(flight)
    BY <1>1, <1>2 DEF FetchSound, RemoteTypeOK
  <2>3. ASSUME flight' # None PROVE Leads(flight)'
    BY <2>1, <2>2, <2>3 DEF Leads
  <2>4. QED
    BY <2>1, <2>3 DEF FetchSound
<1>14. queue' \in Seq(Callers)
  BY <1>1, <1>3, WithoutHolds
<1>15. flight' \in Callers \cup {None} /\ active' \in Callers \cup {None} /\ late' \in SUBSET Callers
  BY <1>1, <1>2 DEF RemoteTypeOK
<1>16. QED
  BY <1>2, <1>4, <1>12, <1>13, <1>14, <1>15, QuietLeaveKeeps

LEMMA CloseKeeps == ASSUME RemoteInv, CloseCoordinator PROVE RemoteInv'
<1> DEFINE waiting == {c \in Callers : pc[c] = "queued"}
<1>1. RemoteTypeOK /\ QueueSound /\ FetchSound
  BY DEF RemoteInv
<1>2. /\ Leave(waiting, FALSE, {})
      /\ flight' = None /\ queue' = <<>> /\ active' = None
      /\ late' = late \cup ({active} \ {None})
      /\ UNCHANGED <<ref, tip, wire, records, gitHistory>>
  BY DEF CloseCoordinator
<1>3. waiting \in SUBSET Callers /\ {} \in SUBSET Callers /\ FALSE \in BOOLEAN
  OBVIOUS
<1>4. \A d \in Leaving(waiting) : pc'[d] = "idle"
  BY <1>1, <1>2, <1>3, FailuresAre
<1>5. \A d \in Callers \ Leaving(waiting) : pc'[d] = pc[d]
  BY <1>1, <1>2, <1>3, FailuresAre
<1>6. \A d \in Leaving(waiting) : pc[d] \in {"queued", "joined"} /\ pc'[d] \in {"ready", "idle"}
  BY <1>4 DEF Leaving
<1>7. \A d \in Callers : pc[d] = "queued" => d \in Leaving(waiting)
  BY DEF Leaving
<1>8. "joined" \notin Active /\ "queued" \notin Active /\ "ready" \notin Active /\ "idle" \notin Active
  BY DEF Active
<1>9. \A d \in Callers : pc'[d] # "queued"
  BY <1>5, <1>6, <1>7
<1>10. \A d \in Callers : pc'[d] \in Active <=> pc[d] \in Active
  BY <1>5, <1>6, <1>8
<1>11. DOMAIN queue' = {} /\ queue' \in Seq(Callers)
  BY <1>2, EmptySeq
<1>12. QueueSound'
  <2>1. \A d \in Callers : pc'[d] \in Active <=> d = active' \/ d \in late'
    BY <1>1, <1>2, <1>10, ConstantsOf DEF QueueSound
  <2>2. QED
    BY <1>2, <1>9, <1>11, <2>1 DEF QueueSound
<1>13. FetchSound'
  <2>1. \A d \in Callers : pc'[d] = "joined" => leader'[d] # None /\ Leads(leader[d])'
    BY <1>2, <1>3, LeaveFetches
  <2>2. QED
    BY <1>2, <2>1 DEF FetchSound
<1>14. flight' \in Callers \cup {None} /\ active' \in Callers \cup {None} /\ late' \in SUBSET Callers
  BY <1>1, <1>2 DEF RemoteTypeOK
<1>15. QED
  BY <1>2, <1>3, <1>11, <1>12, <1>13, <1>14, QuietLeaveKeeps

LEMMA GitCrashKeeps == ASSUME RemoteInv, GitCrash PROVE RemoteInv'
<1>1. CallerTypes /\ None \in Values /\ NoPlan \in Attempts /\ NoPlan.oid = None /\ NoPlan.lease = None
  BY TypesAre, ConstantsOf DEF RemoteInv, NoPlan, Attempts
<1>2. /\ queue' = <<>> /\ active' = None /\ flight' = None /\ late' = {}
      /\ pc' = [c \in Callers |-> "idle"] /\ job' = [c \in Callers |-> None]
      /\ plan' = [a \in Actors |-> NoPlan] /\ seen' = [a \in Actors |-> None]
      /\ leader' = [c \in Callers |-> None]
      /\ UNCHANGED <<ref, tip, wire, records, gitHistory>>
  BY DEF GitCrash
<1>3. queue' \in Seq(Callers) /\ DOMAIN queue' = {}
  BY <1>2, EmptySeq
<1>4. CallerTypes'
  BY <1>1, <1>2, <1>3 DEF CallerTypes
<1>5. \A c \in Callers : pc'[c] = "idle" /\ job'[c] = None
  BY <1>2
<1>6. QueueSound' /\ FetchSound' /\ \A c \in Callers : JobOf(c)'
  BY <1>2, <1>3, <1>5, ConstantsOf, NoneIsNoJob DEF QueueSound, FetchSound, JobOf, Active
<1>7. ASSUME NEW a \in Actors PROVE AttemptOf(a)'
  <2>1. pc'[a] = "idle" /\ job'[a] = None /\ plan'[a] = NoPlan /\ AttemptOf(a)
    BY <1>2, <1>5, ConstantsOf DEF RemoteInv
  <2>2. QED
    BY <1>1, <1>2, <2>1, NoneIsNoJob, ConstantsOf DEF AttemptOf, Before, InHand, records
<1>8. QED
  BY <1>2, <1>4, <1>6, <1>7, WorldStays, InvNext DEF CallersSound

-----------------------------------------------------------------------------
(* The remote *)

\* What a command becomes there, and what somebody else does.
LEMMA RefKeeps ==
    ASSUME RemoteInv, NEW b \in Branches, NEW value \in Values, RefBecomes(b, value),
           UNCHANGED <<tip, records, callers, scope>>, wire' \subseteq wire
    PROVE  RemoteInv'
<1>1. /\ ref' = [ref EXCEPT ![b] = value]
      /\ witness' = [a \in Actors |->
                     witness[a] \/ (Branch[a] = b /\ Open(a) /\ mark[a].oid = value)]
      /\ gone' = IF value = None /\ \E a \in Actors : Kind[a] = "cleanup" /\ Branch[a] = b
                 THEN gone \cup {b} ELSE gone
  BY DEF RefBecomes
<1>2. WorldTypes /\ WireSound /\ CallersSound
  BY InvIs DEF WorldSound
<1>3. WorldTypes'
  BY <1>1, <1>2 DEF WorldTypes, records
<1>4. WireSound'
  BY <1>2 DEF WireSound, records
<1>5. ASSUME NEW a \in Actors PROVE AttemptOf(a)' /\ WitnessOf(a)'
  <2>1. AttemptOf(a) /\ WitnessOf(a) /\ Branch[a] \in Branches
    BY ConstantsOf DEF RemoteInv
  <2>2. witness'[a] <=> witness[a] \/ (Branch[a] = b /\ Open(a) /\ mark[a].oid = value)
    BY <1>1
  <2>3. ref'[Branch[a]] = IF Branch[a] = b THEN value ELSE ref[Branch[a]]
    BY <1>1, <1>2, <2>1 DEF WorldTypes
  <2>4. gone \subseteq gone' /\ (value = None /\ Kind[a] = "cleanup" /\ Branch[a] = b => b \in gone')
    BY <1>1
  <2>5. AttemptOf(a)'
    BY <2>1, <2>2 DEF AttemptOf, Before, InHand, Open, Confirmed, records, callers
  <2>6. mark' = mark /\ cleaned' = cleaned
    BY DEF records
  <2>7. Open(a)' /\ ref'[Branch[a]] = mark'[a].oid => witness'[a]
    BY <2>1, <2>2, <2>3, <2>6 DEF WitnessOf, Open
  <2>8. mark'[a].status = "confirmed" => witness'[a]
    BY <2>1, <2>2, <2>6 DEF WitnessOf
  <2>9. Kind[a] = "cleanup" /\ (witness'[a] \/ ref'[Branch[a]] = None) => Branch[a] \in gone'
    BY <2>1, <2>2, <2>3, <2>4 DEF WitnessOf, AttemptOf
  <2>10. cleaned'[a] => Branch[a] \in gone'
    BY <2>1, <2>4, <2>6 DEF WitnessOf
  <2>11. QED
    BY <2>5, <2>7, <2>8, <2>9, <2>10 DEF WitnessOf
<1>6. CallersSound'
  BY <1>2 DEF CallersSound, CallerTypes, QueueSound, FetchSound, Leads, JobOf, callers, scope
<1>7. QED
  BY <1>3, <1>4, <1>5, <1>6, InvNext DEF WorldSound

LEMMA RemoteKeeps ==
    ASSUME RemoteInv,
           \/ \E c \in wire : LandGit(c) \/ LoseGit(c)
           \/ \E b \in Branches : CommitTo(b) \/ Elsewhere(b)
    PROVE  RemoteInv'
<1>1. WorldTypes /\ RemoteTypeOK
  BY InvIs DEF WorldSound, RemoteInv
<1>2. ASSUME UNCHANGED <<ref, records, callers, scope, gitHistory>>, wire' \subseteq wire,
             tip' \in [Branches -> Oids]
      PROVE  RemoteInv'
  <2>1. CallersSound' /\ \A a \in Actors : AttemptOf(a)'
    BY <1>2, InvIs DEF CallersSound, CallerTypes, QueueSound, FetchSound, Leads, JobOf, AttemptOf,
       Before, InHand, Open, Confirmed, callers, scope, gitHistory, records
  <2>2. WorldSound'
    BY <1>1, <1>2, InvIs DEF WorldSound, WorldTypes, WireSound, WitnessOf, Open, gitHistory, records
  <2>3. QED
    BY <2>1, <2>2, InvNext
<1>3. ASSUME NEW c \in wire, LandGit(c) PROVE RemoteInv'
  <2>1. c \in Commands /\ c.actor \in Actors /\ c.oid \in Values /\ Branch[c.actor] \in Branches
    BY <1>1, ConstantsOf DEF WorldTypes, Commands
  <2>2. wire' \subseteq wire /\ UNCHANGED <<tip, records, callers, scope>>
    BY <1>3 DEF LandGit
  <2>3. CASE Accepts(c)
    BY <1>3, <2>1, <2>2, <2>3, RefKeeps DEF LandGit
  <2>4. CASE ~Accepts(c)
    BY <1>1, <1>2, <1>3, <2>2, <2>4 DEF LandGit, WorldTypes
  <2>5. QED
    BY <2>3, <2>4
<1>4. ASSUME NEW c \in wire, LoseGit(c) PROVE RemoteInv'
  BY <1>1, <1>2, <1>4 DEF LoseGit, WorldTypes
<1>5. ASSUME NEW b \in Branches, CommitTo(b) PROVE RemoteInv'
  <2>1. tip' \in [Branches -> Oids]
    <3>1. tip[b] \in 1..MaxOid /\ tip[b] < MaxOid /\ MaxOid \in Nat
      BY <1>1, <1>5, RemoteGitAssumption DEF CommitTo, WorldTypes, Oids
    <3>2. tip[b] + 1 \in Oids
      BY <3>1 DEF Oids
    <3>3. QED
      BY <1>1, <1>5, <3>2 DEF CommitTo, WorldTypes
  <2>2. QED
    BY <1>2, <1>5, <2>1 DEF CommitTo
<1>6. ASSUME NEW b \in Branches, Elsewhere(b) PROVE RemoteInv'
  <2>1. tip[b] \in 1..MaxOid /\ MaxOid \in Nat
    BY <1>1, RemoteGitAssumption DEF WorldTypes, Oids
  <2>2. {None, Foreign} \cup 1..tip[b] \subseteq Values
    BY <2>1 DEF Values, Oids
  <2>3. PICK value \in Values : RefBecomes(b, value)
    BY <1>6, <2>2 DEF Elsewhere
  <2>4. wire' = wire /\ UNCHANGED <<tip, records, callers, scope>>
    BY <1>6 DEF Elsewhere
  <2>5. QED
    BY <2>3, <2>4, RefKeeps
<1>7. QED
  BY <1>3, <1>4, <1>5, <1>6

-----------------------------------------------------------------------------

LEMMA RemoteStarts == RemoteInit => RemoteInv
<1>1. SUFFICES ASSUME RemoteInit PROVE RemoteInv
  OBVIOUS
<1>2. <<>> \in Seq(Callers) /\ DOMAIN <<>> = {}
  BY EmptySeq
<1>3. NoPlan \in Attempts /\ NoPlan.oid = None /\ NoPlan.lease = None /\ NoMark.oid = None
      /\ NoMark \in [oid : Values, status : {"none", "prepared", "confirmed", "unknown"}]
      /\ NoMark.status = "none"
  BY ConstantsOf DEF NoPlan, NoMark, Attempts
<1>4. CallerTypes
  BY <1>1, <1>2, <1>3, ConstantsOf DEF RemoteInit, CallerTypes
<1>5. ref \in [Branches -> Values]
  BY <1>1, ConstantsOf DEF RemoteInit
<1>6. WorldTypes
  BY <1>1, <1>3, <1>5, ConstantsOf DEF RemoteInit, WorldTypes
<1>7. \A c \in Callers : pc[c] = "idle" /\ job[c] = None
  BY <1>1 DEF RemoteInit
<1>8. QueueSound /\ FetchSound /\ \A c \in Callers : JobOf(c)
  BY <1>1, <1>2, <1>7, ConstantsOf, NoneIsNoJob DEF RemoteInit, QueueSound, FetchSound, JobOf, Active
<1>9. ASSUME NEW a \in Actors PROVE AttemptOf(a) /\ WitnessOf(a)
  <2>1. /\ pc[a] = "idle" /\ job[a] = None /\ plan[a] = NoPlan /\ mark[a] = NoMark
        /\ witness[a] = FALSE /\ cleaned[a] = FALSE
    BY <1>1, <1>7, ConstantsOf DEF RemoteInit
  <2>2. Branch[a] \in Branches
    BY ConstantsOf
  <2>3. Kind[a] = "cleanup" => ref[Branch[a]] = 1
    BY <1>1, <2>2 DEF RemoteInit
  <2>4. AttemptOf(a)
    BY <1>3, <2>1, NoneIsNoJob, ConstantsOf DEF AttemptOf, Before, InHand
  <2>5. 1 # None
    BY RemoteGitAssumption
  <2>6. WitnessOf(a)
    BY <1>3, <2>1, <2>3, <2>5 DEF WitnessOf, Open
  <2>7. QED
    BY <2>4, <2>6
<1>10. WireSound
  BY <1>1 DEF RemoteInit, WireSound
<1>11. QED
  BY <1>4, <1>6, <1>8, <1>9, <1>10, TypesAre DEF RemoteInv

LEMMA RemoteInvKeeps == RemoteInv /\ [RemoteNext]_rgvars => RemoteInv'
<1>1. ASSUME RemoteInv, UNCHANGED rgvars PROVE RemoteInv'
  <2>1. CallersSound' /\ \A a \in Actors : AttemptOf(a)'
    BY <1>1, InvIs DEF CallersSound, CallerTypes, QueueSound, FetchSound, Leads, JobOf, AttemptOf,
       Before, InHand, Open, Confirmed, rgvars, callers, scope, gitHistory, records
  <2>2. WorldSound'
    BY <1>1, WorldStays DEF rgvars
  <2>3. QED
    BY <2>1, <2>2, InvNext
<1>2. ASSUME RemoteInv, NEW a \in Callers, a \in Actors, WriteStep(a) PROVE RemoteInv'
  <2>1. CASE ValidatePush(a) \/ PreRead(a) \/ AlreadyGone(a) \/ Refuse(a)
    BY <1>2, <2>1, ValidatingKeeps, RefusalKeeps
  <2>2. CASE Persist(a) \/ PersistFails(a) \/ SendGit(a)
    BY <1>2, <2>2, PersistKeeps, PersistFailsKeeps, SendGitKeeps
  <2>3. CASE CommandEnds(a) \/ ReadRef(a) \/ Settle(a) \/ SettleFails(a)
    BY <1>2, <2>3, ReadingKeeps, SettlingKeeps
  <2>4. QED
    BY <1>2, <2>1, <2>2, <2>3 DEF WriteStep
<1>3. ASSUME RemoteInv, NEW c \in Callers, FetchStep(c) PROVE RemoteInv'
  <2>1. TRUE \in BOOLEAN /\ FALSE \in BOOLEAN
    OBVIOUS
  <2>2. CASE Enqueue(c) \/ JoinFetch(c)
    BY <1>3, <2>2, EnqueueKeeps, JoinKeeps
  <2>3. CASE FetchEnds(c, TRUE)
    BY <1>3, <2>1, <2>3, FetchEndKeeps
  <2>4. CASE FetchEnds(c, FALSE)
    BY <1>3, <2>1, <2>4, FetchEndKeeps
  <2>5. QED
    BY <1>3, <2>2, <2>3, <2>4 DEF FetchStep
<1>4. ASSUME RemoteInv, NEW c \in Callers, GoOn(c) \/ QueueTimeout(c) PROVE RemoteInv'
  BY <1>2, <1>3, <1>4, TimeoutKeeps DEF GoOn
<1>5. ASSUME RemoteInv, NEW a \in Actors, BeginWrite(a) \/ BeginRecovery(a) \/ NoteDeletion(a)
      PROVE  RemoteInv'
  BY <1>5, BeginningsOfJobs, NoteKeeps
<1>6. ASSUME RemoteInv, NEW f \in Fetchers, BeginFetch(f) PROVE RemoteInv'
  BY <1>6, BeginFetchKeeps, ConstantsOf
<1>7. ASSUME RemoteInv, RemoteNext PROVE RemoteInv'
  BY <1>4, <1>5, <1>6, <1>7, RemoteKeeps, CloseKeeps, GitCrashKeeps DEF RemoteNext
<1>8. QED
  BY <1>1, <1>7

LEMMA InvGivesTruth == RemoteInv => AttemptsAreTrue
<1>1. SUFFICES ASSUME RemoteInv PROVE AttemptsAreTrue
  OBVIOUS
<1>2. WriteAhead
  <2>1. ASSUME NEW a \in Actors, pc[a] = "sent" PROVE mark[a] = Marked(plan[a], "prepared")
    <3>1. Open(a) /\ mark[a].oid = plan[a].oid
      BY <1>1, <2>1 DEF RemoteInv, AttemptOf, InHand
    <3>2. mark[a] \in [oid : Values, status : {"none", "prepared", "confirmed", "unknown"}]
      BY <1>1 DEF RemoteInv, RemoteTypeOK
    <3>3. QED
      BY <3>1, <3>2 DEF Open, Marked
  <2>2. QED
    BY <1>1, <2>1 DEF RemoteInv, WireSound, WriteAhead
<1>3. ConfirmedWasSeen /\ CleanedWasGone
  BY <1>1 DEF RemoteInv, WitnessOf, ConfirmedWasSeen, CleanedWasGone
<1>4. NobodyStranded
  BY <1>1 DEF RemoteInv, QueueSound, FetchSound, Leads, NobodyStranded
<1>5. QED
  BY <1>1, <1>2, <1>3, <1>4 DEF RemoteInv, AttemptsAreTrue

\* What the coordinator and its callers rely on at each step, whoever crashed or closed
\* before it: persistAttempt before execute, the open attempt settled before the next.
THEOREM RemoteInvariant == RemoteSpec => []RemoteInv
<1>1. QED
  BY RemoteStarts, RemoteInvKeeps, PTL DEF RemoteSpec

\* An attempt on a record is true to the remote: written before it is sent, confirmed and
\* cleaned only by what was read; and nobody waits in the coordinator for good.
THEOREM AttemptsAlwaysTrue == RemoteSpec => []AttemptsAreTrue
<1>1. QED
  BY RemoteInvariant, InvGivesTruth, PTL

LEMMA WhoChangesRef ==
    ASSUME [RemoteNext]_rgvars
    PROVE  \/ ref' = ref
           \/ \E c \in wire : LandGit(c)
           \/ \E b \in Branches : Elsewhere(b)
<1>1. ASSUME NEW c \in Callers, GoOn(c) PROVE ref' = ref
  <2>1. FetchStep(c) => ref' = ref
    BY DEF FetchStep, Enqueue, JoinFetch, FetchEnds
  <2>2. ValidatePush(c) \/ PreRead(c) \/ AlreadyGone(c) \/ Refuse(c) => ref' = ref
    BY DEF ValidatePush, PreRead, AlreadyGone, Refuse
  <2>3. Persist(c) \/ PersistFails(c) \/ SendGit(c) \/ CommandEnds(c) => ref' = ref
    BY DEF Persist, PersistFails, SendGit, CommandEnds
  <2>4. ReadRef(c) \/ Settle(c) \/ SettleFails(c) => ref' = ref
    BY DEF ReadRef, Settle, SettleFails
  <2>5. QED
    BY <1>1, <2>1, <2>2, <2>3, <2>4 DEF GoOn, WriteStep
<1>2. ASSUME NEW c \in Callers, QueueTimeout(c) PROVE ref' = ref
  BY <1>2 DEF QueueTimeout
<1>3. ASSUME NEW a \in Actors, BeginWrite(a) \/ BeginRecovery(a) \/ NoteDeletion(a) PROVE ref' = ref
  BY <1>3 DEF BeginWrite, BeginRecovery, NoteDeletion
<1>4. ASSUME NEW f \in Fetchers, BeginFetch(f) PROVE ref' = ref
  BY <1>4 DEF BeginFetch
<1>5. ASSUME NEW c \in wire, LoseGit(c) PROVE ref' = ref
  BY <1>5 DEF LoseGit
<1>6. ASSUME NEW b \in Branches, CommitTo(b) PROVE ref' = ref
  BY <1>6 DEF CommitTo
<1>7. CloseCoordinator \/ GitCrash => ref' = ref
  BY DEF CloseCoordinator, GitCrash
<1>8. UNCHANGED rgvars => ref' = ref
  BY DEF rgvars
<1>9. QED
  BY <1>1, <1>2, <1>3, <1>4, <1>5, <1>6, <1>7, <1>8 DEF RemoteNext

\* An open attempt is settled before another is made, and no command of ours, however
\* late it lands, takes away a commit of somebody else.
THEOREM RemoteAlwaysKept == RemoteSpec => RemoteIsKept
<1>1. ASSUME RemoteInv, [RemoteNext]_rgvars PROVE [SettledFirst /\ ForeignIsKept]_rgvars
  <2>1. SettledFirst
    <3>1. SUFFICES ASSUME NEW a \in Actors, pc[a] = "marking" PROVE mark[a].status # "prepared"
      BY DEF SettledFirst
    <3>2. JobOf(a) /\ AttemptOf(a)
      BY <1>1, ConstantsOf DEF RemoteInv
    <3>3. Before(a)
      BY <3>1, <3>2 DEF JobOf, Before
    <3>4. QED
      BY <3>2, <3>3 DEF AttemptOf, Open
  <2>2. ForeignIsKept
    <3>1. SUFFICES ASSUME NEW b \in Branches, ref[b] = Foreign, ref'[b] # Foreign PROVE wire' = wire
      BY DEF ForeignIsKept
    <3>2. CASE ref' = ref
      BY <3>1, <3>2
    <3>3. ASSUME NEW e \in Branches, Elsewhere(e) PROVE wire' = wire
      BY <3>3 DEF Elsewhere
    <3>4. ASSUME NEW c \in wire, LandGit(c) PROVE FALSE
      <4>1. ref' # ref
        BY <3>1
      <4>2. Accepts(c) /\ RefBecomes(Branch[c.actor], c.oid)
        BY <3>4, <4>1 DEF LandGit
      <4>3. ref' = [ref EXCEPT ![Branch[c.actor]] = c.oid]
        BY <4>2 DEF RefBecomes
      <4>4. b = Branch[c.actor]
        <5>1. ref \in [Branches -> Values]
          BY <1>1 DEF RemoteInv, RemoteTypeOK
        <5>2. QED
          BY <3>1, <4>3, <5>1
      <4>5. c.lease # Foreign
        BY <1>1, <3>4 DEF RemoteInv, WireSound
      <4>6. QED
        BY <3>1, <4>2, <4>4, <4>5, ConstantsOf DEF Accepts
    <3>5. QED
      BY <1>1, <3>2, <3>3, <3>4, WhoChangesRef
  <2>3. QED
    BY <2>1, <2>2
<1>2. QED
  BY <1>1, RemoteInvariant, PTL DEF RemoteSpec, RemoteIsKept
=============================================================================
