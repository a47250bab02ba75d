--------------------------- MODULE LinkLockProofs ---------------------------
(***************************************************************************)
(* What the link lock gives its callers when those of a process are queued *)
(* one after the other, as workflow-persistence.ts queues them, and        *)
(* processes may end at any point of any call.                             *)
(*                                                                         *)
(* The argument: tokens are never shared, and the stale link of a token is *)
(* made by one recoverer, when nobody uses the token any more.  So of all  *)
(* who hold a token or are about to unlink its file there is one at most;  *)
(* an unlink that hits another file than it meant passes the loss on to    *)
(* one caller, and the first of such a chain has left a misnamed link.     *)
(***************************************************************************)
EXTENDS LinkLock, FiniteSetTheorems, TLAPS

Waiting == {"try", "recRead", "recCheck", "recLink", "recUnlink"}
Releasing == {"relRead", "relUnlink"}
Finishing == {"finRead", "finUnlink"}

\* Only one client of a process is inside acquireLinkLock, its section or
\* the release, and its process lives.
OnePerProcess ==
    /\ \A c, d \in Clients :
          c # d /\ ProcOf[c] = ProcOf[d] => pc[c] = "idle" \/ pc[d] = "idle"
    /\ \A c \in Clients : pc[c] # "idle" => alive[ProcOf[c]]

\* A client owns its token from the candidate file to the end of the release.
TokensOwned ==
    \A c \in Clients :
        /\ token[c] = None <=> pc[c] \in {"idle"} \cup Finishing
        /\ token[c] # None =>
              /\ token[c] \in 1..Len(owner)
              /\ owner[token[c]] = ProcOf[c]
              /\ stale[token[c]] = None

\* An unfinished release is that of a token of its process.
PendingOwned ==
    /\ \A p \in Procs : pending[p] # None =>
          /\ alive[p]
          /\ pending[p] \in 1..Len(owner)
          /\ owner[pending[p]] = p
          /\ stale[pending[p]] = None
    /\ \A c \in Clients :
          /\ pc[c] \in Waiting \cup {"held"} => pending[ProcOf[c]] = None
          /\ pc[c] \in Releasing => seen[c] = token[c] /\ pending[ProcOf[c]] = token[c]
          /\ pc[c] \in Finishing => seen[c] # None /\ pending[ProcOf[c]] = seen[c]

\* Nobody can use token t any more.
Gone(t) ==
    /\ t \in 1..Len(owner)
    /\ \A c \in Clients : token[c] # t
    /\ \A p \in Procs : pending[p] # t

\* A token is recovered by one recoverer, when nobody can use it any more.
RecoveryInv ==
    /\ lockFile <= Len(owner)
    /\ \A t \in Token : stale[t] # None => Gone(t)
    /\ \A c \in Clients :
          /\ pc[c] = "recCheck" => seen[c] \in 1..Len(owner)
          /\ pc[c] = "recLink" => Gone(seen[c])
          /\ pc[c] = "recUnlink" =>
                /\ stale[seen[c]] # None
                /\ Gone(seen[c])
                /\ \A d \in Clients : pc[d] = "recUnlink" /\ seen[d] = seen[c] => d = c

\* Who holds the lock, or is about to unlink it.
Gripping == {"held", "recUnlink", "relUnlink", "finUnlink"}

\* The token whose file such a caller counts on.
Meant(c) == IF pc[c] = "held" THEN token[c] ELSE seen[c]

\* Those for whom the file is not there.
Losers == {c \in Clients : pc[c] \in Gripping /\ lockFile # Meant(c)}

LockInv ==
    /\ TypeOK
    /\ OnePerProcess
    /\ TokensOwned
    /\ PendingOwned
    /\ RecoveryInv

-----------------------------------------------------------------------------

\* A fresh token is one more than the last, and leaves the others alone.
LEMMA FreshToken ==
    ASSUME TypeOK, NEW c \in Clients, WriteCandidate(c)
    PROVE  /\ owner' \in Seq(Procs)
           /\ Len(owner') <= MaxTokens
           /\ Len(owner) \in Nat
           /\ Len(owner') = Len(owner) + 1
           /\ owner'[Len(owner) + 1] = ProcOf[c]
           /\ \A i \in 1..Len(owner) : owner'[i] = owner[i]
           /\ token' \in [Clients -> Token \cup {None}]
           /\ token'[c] = Len(owner) + 1
           /\ \A d \in Clients \ {c} : token'[d] = token[d]
<1> USE LockAssumption DEF LockAssumption, WriteCandidate, TypeOK, Token
<1>0. ProcOf[c] \in Procs /\ owner \in Seq(Procs) /\ MaxTokens \in Nat
  BY DEF LockAssumption
<1>1a. Len(owner) \in Nat /\ Len(owner) < MaxTokens
  BY <1>0
<1>1. ProcOf[c] \in Procs /\ Len(owner) \in Nat /\ Len(owner) + 1 \in Token
  BY <1>0, <1>1a
<1>2. owner' = Append(owner, ProcOf[c])
  OBVIOUS
<1>3. owner' \in Seq(Procs) /\ Len(owner') = Len(owner) + 1
  BY <1>1, <1>2
<1>4. owner'[Len(owner) + 1] = ProcOf[c] /\ \A i \in 1..Len(owner) : owner'[i] = owner[i]
  BY <1>1, <1>2
<1>5. token' \in [Clients -> Token \cup {None}]
  BY <1>1
<1>6. QED
  BY <1>1, <1>3, <1>4, <1>5

\* Init establishes LockInv.
LEMMA InitLockInv == Init => LockInv
  BY LockAssumption DEF Init, LockInv, TypeOK, OnePerProcess, TokensOwned, PendingOwned,
        RecoveryInv, Gone, Token, None, Label, Waiting, Releasing, Finishing

\* Begin preserves LockInv.
LEMMA BeginStep ==
    ASSUME Queued, LockInv,
           NEW c \in Clients, Begin(c)
    PROVE  LockInv'
<1> USE LockAssumption DEF LockAssumption, LockInv, TypeOK, Token, None, Label, Begin, Step, QueueAllows, Goto, disk, procs
<1>1. TypeOK'
  <2>1. ProcOf[c] \in Procs
    OBVIOUS
  <2>2. CASE pending[ProcOf[c]] = None
    BY <2>1, <2>2, FreshToken
  <2>3. CASE pending[ProcOf[c]] # None
    BY <2>1, <2>3
  <2>4. QED
    BY <2>2, <2>3
<1>2. OnePerProcess'
  BY DEF OnePerProcess
<1>3. TokensOwned'
  BY FreshToken DEF OnePerProcess, TokensOwned, PendingOwned, RecoveryInv, Gone, Waiting, Releasing, Finishing
<1>4. PendingOwned'
  <2> USE DEF OnePerProcess, TokensOwned, PendingOwned, RecoveryInv, Gone, Waiting, Releasing, Finishing
  <2>1. ProcOf[c] \in Procs
    OBVIOUS
  <2>2. CASE pending[ProcOf[c]] = None
    <3>1. pending' = pending /\ alive' = alive /\ stale' = stale /\ seen' = seen
      BY <2>2
    <3>2. ASSUME NEW p \in Procs, pending'[p] # None
          PROVE  /\ alive'[p]
                 /\ pending'[p] \in 1..Len(owner')
                 /\ owner'[pending'[p]] = p
                 /\ stale'[pending'[p]] = None
      BY <2>1, <2>2, <3>1, <3>2, FreshToken
    <3>3. ASSUME NEW d \in Clients
          PROVE  /\ pc'[d] \in Waiting \cup {"held"} => pending'[ProcOf[d]] = None
                 /\ pc'[d] \in Releasing => seen'[d] = token'[d] /\ pending'[ProcOf[d]] = token'[d]
                 /\ pc'[d] \in Finishing => seen'[d] # None /\ pending'[ProcOf[d]] = seen'[d]
      BY <2>1, <2>2, <3>1, FreshToken
    <3>4. QED
      BY <3>2, <3>3
  <2>3. CASE pending[ProcOf[c]] # None
    BY <2>1, <2>3
  <2>4. QED
    BY <2>2, <2>3
<1>6. RecoveryInv'
  <2> USE DEF OnePerProcess, TokensOwned, PendingOwned, RecoveryInv, Gone, Waiting, Releasing, Finishing
  <2>1. ProcOf[c] \in Procs
    OBVIOUS
  <2>2. CASE pending[ProcOf[c]] = None
    <3>1. (lockFile <= Len(owner))'
      BY <2>1, <2>2, FreshToken
    <3>2. ASSUME NEW t, Gone(t) PROVE Gone(t)'
      BY <2>1, <2>2, <3>2, FreshToken
    <3>3. \A d \in Clients : pc'[d] \in {"recCheck", "recLink", "recUnlink"} =>
             pc[d] = pc'[d] /\ seen'[d] = seen[d]
      BY <2>1, <2>2
    <3>4. 1..Len(owner) \subseteq 1..Len(owner') /\ stale' = stale
      BY <2>1, <2>2, FreshToken
    <3>5. ASSUME NEW d \in Clients, pc'[d] = "recLink" \/ pc'[d] = "recUnlink"
          PROVE  Gone(seen[d])'
      <4>1. Gone(seen[d]) /\ seen'[d] = seen[d]
        BY <3>3, <3>5
      <4>2. QED
        BY <3>2, <4>1
    <3>6. \A t \in Token : stale'[t] # None => Gone(t)'
      <4>1. \A t \in Token : stale'[t] # None => Gone(t)
        BY <3>4
      <4>2. QED
        BY <3>2, <4>1
    <3>7. QED
      BY <3>1, <3>3, <3>4, <3>5, <3>6
  <2>3. CASE pending[ProcOf[c]] # None
    <3>1. lockFile' = lockFile /\ owner' = owner /\ stale' = stale /\ pending' = pending /\ token' = token
      BY <2>3
    <3>2. \A d \in Clients : pc'[d] \in {"recCheck", "recLink", "recUnlink"} =>
             pc[d] = pc'[d] /\ seen'[d] = seen[d]
      BY <2>1, <2>3
    <3>3. ASSUME NEW t, Gone(t) PROVE Gone(t)'
      BY <3>1, <3>3
    <3>4. ASSUME NEW d \in Clients, pc'[d] = "recLink" \/ pc'[d] = "recUnlink"
          PROVE  Gone(seen[d])'
      BY <3>1, <3>2, <3>4
    <3>5. \A t \in Token : stale'[t] # None => Gone(t)'
      <4>1. \A t \in Token : stale'[t] # None => Gone(t)
        BY <3>1
      <4>2. QED
        BY <3>3, <4>1
    <3>6. (lockFile <= Len(owner))'
      BY <3>1
    <3>7. QED
      BY <3>1, <3>2, <3>4, <3>5, <3>6
  <2>4. QED
    BY <2>2, <2>3
<1>7. QED
  BY <1>1, <1>2, <1>3, <1>4, <1>6

\* A client that is inside moves on: its process stays its own.
LEMMA StaysAlone ==
    ASSUME OnePerProcess, pc \in [Clients -> Label], NEW c \in Clients, pc[c] # "idle",
           NEW l, pc' = [pc EXCEPT ![c] = l], alive' = alive
    PROVE  OnePerProcess'
BY DEF OnePerProcess

\* TryLink preserves LockInv.
LEMMA TryLinkStep ==
    ASSUME Queued, LockInv,
           NEW c \in Clients, TryLink(c)
    PROVE  LockInv'
<1> USE LockAssumption DEF LockAssumption, LockInv, TypeOK, Token, None, Label, TryLink, Step, Goto, procs
<1>1. TypeOK'
  OBVIOUS
<1>2. OnePerProcess'
  <2>1. pc[c] # "idle" /\ alive' = alive
    OBVIOUS
  <2>2. \E l \in Label : pc' = [pc EXCEPT ![c] = l]
    OBVIOUS
  <2>3. QED
    BY <2>1, <2>2, StaysAlone
<1>3. TokensOwned'
  BY DEF OnePerProcess, TokensOwned, PendingOwned, RecoveryInv, Gone, Waiting, Releasing, Finishing
<1>4. PendingOwned'
  BY DEF OnePerProcess, TokensOwned, PendingOwned, RecoveryInv, Gone, Waiting, Releasing, Finishing
<1>6. RecoveryInv'
  BY DEF OnePerProcess, TokensOwned, PendingOwned, RecoveryInv, Gone, Waiting, Releasing, Finishing
<1>7. QED
  BY <1>1, <1>2, <1>3, <1>4, <1>6

\* RecoverRead preserves LockInv.
LEMMA RecoverReadStep ==
    ASSUME Queued, LockInv,
           NEW c \in Clients, RecoverRead(c)
    PROVE  LockInv'
<1> USE LockAssumption DEF LockAssumption, LockInv, TypeOK, Token, None, Label, RecoverRead, AfterRecovery, Step, Goto, disk, procs
<1>1. TypeOK'
  OBVIOUS
<1>2. OnePerProcess'
  <2>1. pc[c] # "idle" /\ alive' = alive
    OBVIOUS
  <2>2. \E l \in Label : pc' = [pc EXCEPT ![c] = l]
    OBVIOUS
  <2>3. QED
    BY <2>1, <2>2, StaysAlone
<1>3. TokensOwned'
  BY DEF OnePerProcess, TokensOwned, PendingOwned, RecoveryInv, Gone, Waiting, Releasing, Finishing
<1>4. PendingOwned'
  BY DEF OnePerProcess, TokensOwned, PendingOwned, RecoveryInv, Gone, Waiting, Releasing, Finishing
<1>6. RecoveryInv'
  BY DEF OnePerProcess, TokensOwned, PendingOwned, RecoveryInv, Gone, Waiting, Releasing, Finishing
<1>7. QED
  BY <1>1, <1>2, <1>3, <1>4, <1>6

\* RecoverCheck preserves LockInv.
LEMMA RecoverCheckStep ==
    ASSUME Queued, LockInv,
           NEW c \in Clients, RecoverCheck(c)
    PROVE  LockInv'
<1> USE LockAssumption DEF LockAssumption, LockInv, TypeOK, Token, None, Label, RecoverCheck, AfterRecovery, Step, Goto, disk, procs
<1>1. TypeOK'
  OBVIOUS
<1>2. OnePerProcess'
  <2>1. pc[c] # "idle" /\ alive' = alive
    OBVIOUS
  <2>2. \E l \in Label : pc' = [pc EXCEPT ![c] = l]
    OBVIOUS
  <2>3. QED
    BY <2>1, <2>2, StaysAlone
<1>3. TokensOwned'
  BY DEF OnePerProcess, TokensOwned, PendingOwned, RecoveryInv, Gone, Waiting, Releasing, Finishing
<1>4. PendingOwned'
  BY DEF OnePerProcess, TokensOwned, PendingOwned, RecoveryInv, Gone, Waiting, Releasing, Finishing
<1>6. RecoveryInv'
  BY DEF OnePerProcess, TokensOwned, PendingOwned, RecoveryInv, Gone, Waiting, Releasing, Finishing
<1>7. QED
  BY <1>1, <1>2, <1>3, <1>4, <1>6

\* RecoverLink preserves LockInv.
LEMMA RecoverLinkStep ==
    ASSUME Queued, LockInv,
           NEW c \in Clients, RecoverLink(c)
    PROVE  LockInv'
<1> USE LockAssumption DEF LockAssumption, LockInv, TypeOK, Token, None, Label, RecoverLink, AfterRecovery, Step, Goto, procs
<1>1. TypeOK'
  <2>1. pc[c] = "recLink" /\ seen[c] \in Token
    BY DEF RecoveryInv, Gone
  <2>2. stale' \in [Token -> Token \cup {None}]
    <3>1. CASE stale' = stale
      BY <3>1
    <3>2. CASE lockFile # None /\ stale' = [stale EXCEPT ![seen[c]] = lockFile]
      BY <3>2
    <3>3. QED
      BY <3>1, <3>2
  <2>3. pc' \in [Clients -> Label]
    <3>1. \E l \in Label : pc' = [pc EXCEPT ![c] = l]
      OBVIOUS
    <3>2. QED
      BY <3>1
  <2>4. token' \in [Clients -> Token \cup {None}]
    OBVIOUS
  <2>5. QED
    BY <2>2, <2>3, <2>4
<1>2. OnePerProcess'
  BY DEF OnePerProcess
<1>3. TokensOwned'
  BY DEF OnePerProcess, TokensOwned, PendingOwned, RecoveryInv, Gone, Waiting, Releasing, Finishing
<1>4. PendingOwned'
  BY DEF OnePerProcess, TokensOwned, PendingOwned, RecoveryInv, Gone, Waiting, Releasing, Finishing
<1>6. RecoveryInv'
  <2> USE DEF OnePerProcess, TokensOwned, PendingOwned, RecoveryInv, Gone, Waiting, Releasing, Finishing
  <2>1. (lockFile <= Len(owner))'
    OBVIOUS
  <2>2. \A t \in Token : stale'[t] # None => Gone(t)'
    OBVIOUS
  <2>3. ASSUME NEW d \in Clients, pc'[d] = "recCheck"
        PROVE  seen'[d] \in 1..Len(owner')
    BY <2>3
  <2>4. ASSUME NEW d \in Clients, pc'[d] = "recLink"
        PROVE  Gone(seen[d])'
    BY <2>4
  <2>5. ASSUME NEW d \in Clients, pc'[d] = "recUnlink"
        PROVE  /\ stale'[seen'[d]] # None
               /\ Gone(seen[d])'
               /\ \A e \in Clients : pc'[e] = "recUnlink" /\ seen'[e] = seen'[d] => e = d
    BY <2>5
  <2>6. QED
    BY <2>1, <2>2, <2>3, <2>4, <2>5
<1>7. QED
  BY <1>1, <1>2, <1>3, <1>4, <1>6

\* RecoverUnlink preserves LockInv.
LEMMA RecoverUnlinkStep ==
    ASSUME Queued, LockInv,
           NEW c \in Clients, RecoverUnlink(c)
    PROVE  LockInv'
<1> USE LockAssumption DEF LockAssumption, LockInv, TypeOK, Token, None, Label, RecoverUnlink, AfterRecovery, Step, Goto, procs
<1>1. TypeOK'
  OBVIOUS
<1>2. OnePerProcess'
  <2>1. pc[c] # "idle" /\ alive' = alive
    OBVIOUS
  <2>2. \E l \in Label : pc' = [pc EXCEPT ![c] = l]
    OBVIOUS
  <2>3. QED
    BY <2>1, <2>2, StaysAlone
<1>3. TokensOwned'
  BY DEF OnePerProcess, TokensOwned, PendingOwned, RecoveryInv, Gone, Waiting, Releasing, Finishing
<1>4. PendingOwned'
  BY DEF OnePerProcess, TokensOwned, PendingOwned, RecoveryInv, Gone, Waiting, Releasing, Finishing
<1>6. RecoveryInv'
  <2> USE DEF OnePerProcess, TokensOwned, PendingOwned, RecoveryInv, Gone, Waiting, Releasing, Finishing
  <2>1. (lockFile <= Len(owner))'
    OBVIOUS
  <2>2. \A t \in Token : stale'[t] # None => Gone(t)'
    OBVIOUS
  <2>3. ASSUME NEW d \in Clients, pc'[d] = "recCheck"
        PROVE  seen'[d] \in 1..Len(owner')
    BY <2>3
  <2>4. ASSUME NEW d \in Clients, pc'[d] = "recLink"
        PROVE  Gone(seen[d])'
    BY <2>4
  <2>5. ASSUME NEW d \in Clients, pc'[d] = "recUnlink"
        PROVE  /\ stale'[seen'[d]] # None
               /\ Gone(seen[d])'
               /\ \A e \in Clients : pc'[e] = "recUnlink" /\ seen'[e] = seen'[d] => e = d
    BY <2>5
  <2>6. QED
    BY <2>1, <2>2, <2>3, <2>4, <2>5
<1>7. QED
  BY <1>1, <1>2, <1>3, <1>4, <1>6

\* Release preserves LockInv.
LEMMA ReleaseStep ==
    ASSUME Queued, LockInv,
           NEW c \in Clients, Release(c)
    PROVE  LockInv'
<1> USE LockAssumption DEF LockAssumption, LockInv, TypeOK, Token, None, Label, Release, Step, Goto, disk, procs
<1>1. TypeOK'
  OBVIOUS
<1>2. OnePerProcess'
  BY DEF OnePerProcess
<1>3. TokensOwned'
  BY DEF OnePerProcess, TokensOwned, PendingOwned, RecoveryInv, Gone, Waiting, Releasing, Finishing
<1>4. PendingOwned'
  BY DEF OnePerProcess, TokensOwned, PendingOwned, RecoveryInv, Gone, Waiting, Releasing, Finishing
<1>6. RecoveryInv'
  BY DEF OnePerProcess, TokensOwned, PendingOwned, RecoveryInv, Gone, Waiting, Releasing, Finishing
<1>7. QED
  BY <1>1, <1>2, <1>3, <1>4, <1>6

\* The end of a release, or of one that was left behind, leaves the tokens with
\* their owners, whether it could be finished or not.
LEMMA FinishingKeepsTokens ==
    ASSUME Queued, LockInv, NEW c \in Clients,
           pc[c] \in Finishing \cup Releasing,
           \/ Finished(c)
           \/ FinishFails(c)
           \/ /\ \E l \in {"relUnlink", "finUnlink"} :
                    /\ pc' = [pc EXCEPT ![c] = l]
                    /\ l = "relUnlink" <=> pc[c] \in Releasing
              /\ UNCHANGED <<owner, pending, token>>,
           UNCHANGED <<stale, alive, seen>>
    PROVE  TokensOwned' /\ PendingOwned'
<1> USE LockAssumption DEF LockAssumption, LockInv, TypeOK, Token, None, Label, Finishing, Releasing, Waiting
<1>1. ProcOf[c] \in Procs /\ pending[ProcOf[c]] # None
  BY DEF PendingOwned, TokensOwned
<1>2. CASE Finished(c) /\ pc[c] \in Releasing
  BY <1>1, <1>2 DEF Finished, Goto, OnePerProcess, TokensOwned, PendingOwned
<1>3. CASE Finished(c) /\ pc[c] \in Finishing
  <2>1. WriteCandidate(c) /\ pc' = [pc EXCEPT ![c] = "try"]
    BY <1>3 DEF Finished, Goto
  <2>2. pending' = [pending EXCEPT ![ProcOf[c]] = None]
    BY <1>3 DEF Finished
  <2>3. stale[Len(owner) + 1] = None
    BY <2>1, FreshToken DEF RecoveryInv, Gone, WriteCandidate
  <2>4. \A t \in 1..Len(owner) : t \in 1..Len(owner') /\ owner'[t] = owner[t]
    BY <2>1, FreshToken
  <2>5. /\ token'[c] = Len(owner) + 1 /\ token'[c] \in 1..Len(owner')
        /\ owner'[token'[c]] = ProcOf[c]
        /\ \A d \in Clients \ {c} : token'[d] = token[d]
    BY <2>1, FreshToken
  <2>6. TokensOwned'
    <3>1. ASSUME NEW d \in Clients \ {c}
          PROVE  (/\ token[d] = None <=> pc[d] \in {"idle"} \cup Finishing
                  /\ token[d] # None =>
                        /\ token[d] \in 1..Len(owner)
                        /\ owner[token[d]] = ProcOf[d]
                        /\ stale[token[d]] = None)'
      BY <2>1, <2>4, <2>5 DEF TokensOwned
    <3>2. (/\ token[c] = None <=> pc[c] \in {"idle"} \cup Finishing
           /\ token[c] # None =>
                 /\ token[c] \in 1..Len(owner)
                 /\ owner[token[c]] = ProcOf[c]
                 /\ stale[token[c]] = None)'
      BY <2>1, <2>3, <2>5
    <3>3. QED
      BY <3>1, <3>2 DEF TokensOwned
  <2>7. \A p \in Procs : pending'[p] # None => p # ProcOf[c] /\ pending'[p] = pending[p]
    BY <2>2
  <2>8. ASSUME NEW d \in Clients
        PROVE  /\ pc'[d] \in Waiting \cup {"held"} => pending'[ProcOf[d]] = None
               /\ pc'[d] \in Releasing => seen'[d] = token'[d] /\ pending'[ProcOf[d]] = token'[d]
               /\ pc'[d] \in Finishing => seen'[d] # None /\ pending'[ProcOf[d]] = seen'[d]
    BY <1>3, <2>1, <2>2, <2>5 DEF PendingOwned, OnePerProcess
  <2>9. PendingOwned'
    BY <2>4, <2>7, <2>8 DEF PendingOwned
  <2>10. QED
    BY <2>6, <2>9
<1>4. CASE FinishFails(c)
  BY <1>1, <1>4 DEF FinishFails, Goto, OnePerProcess, TokensOwned, PendingOwned
<1>5. CASE UNCHANGED <<owner, pending, token>> /\ ~Finished(c) /\ ~FinishFails(c)
  BY <1>1, <1>5 DEF OnePerProcess, TokensOwned, PendingOwned
<1>6. QED
  BY <1>2, <1>3, <1>4, <1>5

\* FinishRead preserves LockInv.
LEMMA FinishReadStep ==
    ASSUME Queued, LockInv,
           NEW c \in Clients, FinishRead(c)
    PROVE  LockInv'
<1> USE LockAssumption DEF LockAssumption, LockInv, TypeOK, Token, None, Label, FinishRead, Finished, FinishFails, Step, Goto, disk, procs
<1>1. TypeOK'
  BY FreshToken
<1>2. OnePerProcess'
  <2>1. pc[c] # "idle" /\ alive' = alive
    OBVIOUS
  <2>2. \E l \in Label : pc' = [pc EXCEPT ![c] = l]
    OBVIOUS
  <2>3. QED
    BY <2>1, <2>2, StaysAlone
<1>3. TokensOwned' /\ PendingOwned'
  BY FinishingKeepsTokens DEF Releasing, Finishing
<1>6. RecoveryInv'
  BY FreshToken DEF OnePerProcess, TokensOwned, PendingOwned, RecoveryInv, Gone, Waiting, Releasing, Finishing
<1>7. QED
  BY <1>1, <1>2, <1>3, <1>6

\* FinishUnlink preserves LockInv.
LEMMA FinishUnlinkStep ==
    ASSUME Queued, LockInv,
           NEW c \in Clients, FinishUnlink(c)
    PROVE  LockInv'
<1> USE LockAssumption DEF LockAssumption, LockInv, TypeOK, Token, None, Label, FinishUnlink, Finished, FinishFails, Step, Goto, disk, procs
<1>1. TypeOK'
  BY FreshToken
<1>2. OnePerProcess'
  <2>1. pc[c] # "idle" /\ alive' = alive
    OBVIOUS
  <2>2. \E l \in Label : pc' = [pc EXCEPT ![c] = l]
    OBVIOUS
  <2>3. QED
    BY <2>1, <2>2, StaysAlone
<1>3. TokensOwned' /\ PendingOwned'
  BY FinishingKeepsTokens DEF Releasing, Finishing
<1>6. RecoveryInv'
  <2> USE DEF OnePerProcess, TokensOwned, PendingOwned, RecoveryInv, Gone, Waiting, Releasing, Finishing
  <2>1. (lockFile <= Len(owner))'
    BY FreshToken
  <2>2. \A t \in Token : stale'[t] # None => Gone(t)'
    BY FreshToken
  <2>3. ASSUME NEW d \in Clients, pc'[d] = "recCheck"
        PROVE  seen'[d] \in 1..Len(owner')
    BY <2>3, FreshToken
  <2>4. ASSUME NEW d \in Clients, pc'[d] = "recLink"
        PROVE  Gone(seen[d])'
    BY <2>4, FreshToken
  <2>5. ASSUME NEW d \in Clients, pc'[d] = "recUnlink"
        PROVE  /\ stale'[seen'[d]] # None
               /\ Gone(seen[d])'
               /\ \A e \in Clients : pc'[e] = "recUnlink" /\ seen'[e] = seen'[d] => e = d
    BY <2>5, FreshToken
  <2>6. QED
    BY <2>1, <2>2, <2>3, <2>4, <2>5
<1>7. QED
  BY <1>1, <1>2, <1>3, <1>6

\* Die preserves LockInv.
LEMMA DieStep ==
    ASSUME Queued, LockInv,
           NEW p \in Procs, Die(p)
    PROVE  LockInv'
<1> USE LockAssumption DEF LockAssumption, LockInv, TypeOK, Token, None, Label, Die, disk
<1>1. TypeOK'
  OBVIOUS
<1>2. OnePerProcess'
  BY DEF OnePerProcess
<1>3. TokensOwned'
  BY DEF OnePerProcess, TokensOwned, PendingOwned, RecoveryInv, Gone, Waiting, Releasing, Finishing
<1>4. PendingOwned'
  BY DEF OnePerProcess, TokensOwned, PendingOwned, RecoveryInv, Gone, Waiting, Releasing, Finishing
<1>6. RecoveryInv'
  BY DEF OnePerProcess, TokensOwned, PendingOwned, RecoveryInv, Gone, Waiting, Releasing, Finishing
<1>7. QED
  BY <1>1, <1>2, <1>3, <1>4, <1>6

\* Restart preserves LockInv.
LEMMA RestartStep ==
    ASSUME Queued, LockInv,
           NEW p \in Procs, Restart(p)
    PROVE  LockInv'
<1> USE LockAssumption DEF LockAssumption, LockInv, TypeOK, Token, None, Label, Restart, disk
<1>1. TypeOK'
  OBVIOUS
<1>2. OnePerProcess'
  BY DEF OnePerProcess
<1>3. TokensOwned'
  BY DEF OnePerProcess, TokensOwned, PendingOwned, RecoveryInv, Gone, Waiting, Releasing, Finishing
<1>4. PendingOwned'
  BY DEF OnePerProcess, TokensOwned, PendingOwned, RecoveryInv, Gone, Waiting, Releasing, Finishing
<1>6. RecoveryInv'
  BY DEF OnePerProcess, TokensOwned, PendingOwned, RecoveryInv, Gone, Waiting, Releasing, Finishing
<1>7. QED
  BY <1>1, <1>2, <1>3, <1>4, <1>6

-----------------------------------------------------------------------------

\* Every step of a system with queues preserves LockInv.
LEMMA NextLockInv ==
    ASSUME Queued, LockInv, [Next]_vars
    PROVE  LockInv'
<1>1. CASE \E c \in Clients : Begin(c) \/ TryLink(c) \/ Release(c)
  BY <1>1, BeginStep, TryLinkStep, ReleaseStep
<1>2. CASE \E c \in Clients : Recover(c)
  BY <1>2, RecoverReadStep, RecoverCheckStep, RecoverLinkStep, RecoverUnlinkStep DEF Recover
<1>3. CASE \E c \in Clients : Finish(c)
  BY <1>3, FinishReadStep, FinishUnlinkStep DEF Finish
<1>4. CASE \E p \in Procs : Die(p) \/ Restart(p)
  BY <1>4, DieStep, RestartStep
<1>5. CASE UNCHANGED vars
  BY <1>5 DEF vars, LockInv, TypeOK, OnePerProcess, TokensOwned, PendingOwned,
        RecoveryInv, Gone
<1>6. QED
  BY <1>1, <1>2, <1>3, <1>4, <1>5 DEF Next

\* The invariant of the tokens holds in every reachable state.
THEOREM LockInvariant ==
    ASSUME Queued
    PROVE  Spec => []LockInv
<1>1. Init => LockInv
  BY InitLockInv
<1>2. LockInv /\ [Next]_vars => LockInv'
  BY NextLockInv
<1>3. QED
  BY <1>1, <1>2, PTL DEF Spec

-----------------------------------------------------------------------------
(* Thefts *)

\* Of all who count on the file of one token there is one at most.
LEMMA OneGrip ==
    ASSUME LockInv, NEW c \in Clients, NEW d \in Clients,
           pc[c] \in Gripping, pc[d] \in Gripping, Meant(c) = Meant(d)
    PROVE  c = d
<1> USE LockAssumption DEF LockAssumption, LockInv, TypeOK, Token, None, Gripping, Meant
<1>1. ASSUME NEW e \in Clients, pc[e] \in {"held", "relUnlink", "finUnlink"}
      PROVE  /\ ~Gone(Meant(e)) /\ owner[Meant(e)] = ProcOf[e]
             /\ pc[e] # "idle"
  BY <1>1 DEF TokensOwned, PendingOwned, Gone, Waiting, Releasing, Finishing
<1>2. ASSUME NEW e \in Clients, pc[e] = "recUnlink"
      PROVE  Gone(Meant(e))
  BY <1>2 DEF RecoveryInv
<1>3. CASE pc[c] = "recUnlink" /\ pc[d] = "recUnlink"
  BY <1>3 DEF RecoveryInv
<1>4. CASE pc[c] # "recUnlink" /\ pc[d] # "recUnlink"
  <2>1. ProcOf[c] = ProcOf[d] /\ pc[c] # "idle" /\ pc[d] # "idle"
    BY <1>1, <1>4
  <2>2. QED
    BY <2>1 DEF OnePerProcess
<1>5. QED
  BY <1>1, <1>2, <1>3, <1>4

\* Misnamed and the clients are finite.
LEMMA AllFinite ==
    /\ IsFiniteSet(Losers) /\ Cardinality(Losers) \in Nat
    /\ IsFiniteSet(Misnamed) /\ Cardinality(Misnamed) \in Nat
<1>1. IsFiniteSet(Losers)
  BY LockAssumption, FS_Subset DEF LockAssumption, Losers
<1>2. IsFiniteSet(Token)
  BY LockAssumption, FS_Interval DEF LockAssumption, Token
<1>3. IsFiniteSet(Misnamed)
  BY <1>2, FS_Subset DEF Misnamed
<1>4. QED
  BY <1>1, <1>3, FS_CardinalityType

\* Whoever loses in the place of another makes no more losers.
LEMMA SwapLosers ==
    ASSUME NEW S, IsFiniteSet(S), NEW T, NEW c \in S, NEW d, T \subseteq (S \ {c}) \cup {d}
    PROVE  Cardinality(T) <= Cardinality(S)
<1>1. IsFiniteSet(S \ {c}) /\ Cardinality(S \ {c}) = Cardinality(S) - 1
  BY FS_RemoveElement
<1>2. /\ IsFiniteSet((S \ {c}) \cup {d})
      /\ Cardinality((S \ {c}) \cup {d}) \in {Cardinality(S) - 1, Cardinality(S)}
  <2>1. CASE d \in S \ {c}
    <3>1. (S \ {c}) \cup {d} = S \ {c}
      BY <2>1
    <3>2. QED
      BY <1>1, <3>1
  <2>2. CASE d \notin S \ {c}
    <3>1. /\ IsFiniteSet((S \ {c}) \cup {d})
          /\ Cardinality((S \ {c}) \cup {d}) = Cardinality(S \ {c}) + 1
      BY <1>1, <2>2, FS_AddElement
    <3>2. Cardinality(S) \in Nat
      BY FS_CardinalityType
    <3>3. QED
      BY <1>1, <3>1, <3>2
  <2>3. QED
    BY <2>1, <2>2
<1>3. Cardinality(T) <= Cardinality((S \ {c}) \cup {d})
  BY <1>2, FS_Subset
<1>4. Cardinality(S) \in Nat /\ Cardinality(T) \in Nat
  BY <1>2, FS_Subset, FS_CardinalityType
<1>5. QED
  BY <1>2, <1>3, <1>4

\* There are no more losers than misnamed links.
Paid == Cardinality(Losers) <= Cardinality(Misnamed)

\* A step that adds no loser and takes away no link keeps the balance.
LEMMA FewerLosers ==
    ASSUME Paid, Losers' \subseteq Losers, Misnamed' = Misnamed
    PROVE  Paid'
<1>1. Cardinality(Losers') <= Cardinality(Losers) /\ Cardinality(Losers') \in Nat
  BY AllFinite, FS_Subset, FS_CardinalityType
<1>2. QED
  BY <1>1, AllFinite DEF Paid

\* The unlink of a lock file, whoever does it: the file was the one of at most one
\* other caller, and then not the one that was meant.
LEMMA UnlinkStep ==
    ASSUME Queued, LockInv, Paid, NEW c \in Clients,
           pc[c] \in {"recUnlink", "relUnlink", "finUnlink"},
           lockFile' = None,
           \E l \in Label \ Gripping : pc' = [pc EXCEPT ![c] = l],
           \A d \in Clients \ {c} : token'[d] = token[d],
           UNCHANGED <<stale, seen>>
    PROVE  Paid'
<1> DEFINE Others == {d \in Clients \ {c} : pc[d] \in Gripping /\ Meant(d) = lockFile}
<1> USE DEF Gripping
<1>0. pc \in [Clients -> Label] /\ pc'[c] \notin Gripping
  BY DEF LockInv, TypeOK
<1>1. Misnamed' = Misnamed
  BY DEF Misnamed
<1>2. \A d \in Clients \ {c} : pc'[d] = pc[d] /\ Meant(d)' = Meant(d)
  BY <1>0 DEF Meant
<1>3. Losers' \subseteq (Losers \ {c}) \cup Others
  <2>1. ASSUME NEW d \in Losers' PROVE d \in (Losers \ {c}) \cup Others
    <3>1. d \in Clients /\ pc'[d] \in Gripping
      BY <2>1 DEF Losers
    <3>2. d # c
      BY <1>0, <3>1
    <3>3. QED
      BY <1>2, <3>1, <3>2 DEF Losers
  <2>2. QED
    BY <2>1
<1>4. CASE lockFile = seen[c]
  <2>1. Others = {}
    BY <1>4, OneGrip DEF Meant
  <2>2. QED
    BY <1>1, <1>3, <2>1, FewerLosers
<1>5. CASE lockFile # seen[c]
  <2>1. c \in Losers
    BY <1>5 DEF Losers, Meant
  <2>2. \A d, e \in Others : d = e
    BY OneGrip
  <2>3. \E d : Others \subseteq {d}
    BY <2>2
  <2>4. PICK d : Others \subseteq {d}
    BY <2>3
  <2>5. Cardinality(Losers') <= Cardinality(Losers)
    <3>1. Losers' \subseteq (Losers \ {c}) \cup {d}
      BY <1>3, <2>4
    <3> HIDE DEF Others
    <3>2. QED
      BY <2>1, <3>1, AllFinite, SwapLosers
  <2>6. Cardinality(Losers') \in Nat
    <3>1. Losers' \subseteq Clients
      BY DEF Losers
    <3>2. QED
      BY <3>1, LockAssumption, FS_Subset, FS_CardinalityType DEF LockAssumption
  <2>7. QED
    BY <1>1, <2>5, <2>6, AllFinite DEF Paid
<1>6. QED
  BY <1>4, <1>5

\* Taking the lock: the file of the new holder was nobody's before.
LEMMA TakeStep ==
    ASSUME LockInv, Paid, NEW c \in Clients, TryLink(c)
    PROVE  Paid'
<1> USE DEF Gripping
<1>1. Misnamed' = Misnamed /\ pc \in [Clients -> Label]
  BY DEF TryLink, Misnamed, LockInv, TypeOK
<1>2. CASE lockFile # None
  <2>1. Losers' \subseteq Losers
    BY <1>1, <1>2 DEF TryLink, Goto, Losers, Meant
  <2>2. QED
    BY <1>1, <2>1, FewerLosers
<1>3. CASE lockFile = None
  <2>1. lockFile' = token[c] /\ pc' = [pc EXCEPT ![c] = "held"] /\ UNCHANGED <<token, seen>>
    BY <1>3 DEF TryLink, Goto
  <2>2. ASSUME NEW d \in Clients \ {c}, pc[d] \in Gripping
        PROVE  Meant(d) # None
    BY <2>2, LockAssumption DEF LockInv, TypeOK, TokensOwned, PendingOwned, RecoveryInv, Gone, Meant,
         Waiting, Releasing, Finishing, None, LockAssumption
  <2>3. Losers' \subseteq Losers
    BY <1>1, <1>3, <2>1, <2>2 DEF Losers, Meant
  <2>4. QED
    BY <1>1, <2>3, FewerLosers
<1>4. QED
  BY <1>2, <1>3

\* The link of a recoverer: either it is of the file that was read, or there is one
\* more misnamed link for the one more caller that may unlink in vain.
LEMMA RecoverLinkPaid ==
    ASSUME LockInv, Paid, NEW c \in Clients, RecoverLink(c)
    PROVE  Paid'
<1> USE LockAssumption DEF LockAssumption, Gripping
<1>0. pc \in [Clients -> Label] /\ pc[c] = "recLink" /\ lockFile' = lockFile /\ seen' = seen
  BY DEF LockInv, TypeOK, RecoverLink, Step
<1>1. seen[c] \in Token /\ stale \in [Token -> Token \cup {None}] /\ lockFile \in Token \cup {None}
  BY <1>0 DEF LockInv, TypeOK, RecoveryInv, Gone, Token
<1>2. CASE stale' = stale /\ AfterRecovery(c)
  <2>1. Misnamed' = Misnamed
    BY <1>2 DEF Misnamed
  <2>2. \A d \in Clients \ {c} : pc'[d] = pc[d] /\ token'[d] = token[d]
    BY <1>0, <1>2 DEF AfterRecovery, Goto, LockInv, TypeOK
  <2>3. pc'[c] \in {"try", "idle"}
    BY <1>0, <1>2 DEF AfterRecovery, Goto
  <2>4. Losers' \subseteq Losers
    BY <1>0, <2>2, <2>3 DEF Losers, Meant
  <2>5. QED
    BY <2>1, <2>4, FewerLosers
<1>3. CASE /\ lockFile # None /\ stale[seen[c]] = None
           /\ stale' = [stale EXCEPT ![seen[c]] = lockFile]
           /\ Goto(c, "recUnlink") /\ UNCHANGED token
  <2>1. \A d \in Clients \ {c} : pc'[d] = pc[d] /\ Meant(d)' = Meant(d)
    BY <1>0, <1>3 DEF Goto, Meant
  <2>2. Meant(c)' = seen[c]
    BY <1>0, <1>3 DEF Goto, Meant
  <2>3. CASE lockFile = seen[c]
    <3>1. Losers' \subseteq Losers
      BY <1>0, <2>1, <2>2, <2>3 DEF Losers
    <3>2. Misnamed' = Misnamed
      BY <1>1, <1>3, <2>3 DEF Misnamed
    <3>3. QED
      BY <3>1, <3>2, FewerLosers
  <2>4. CASE lockFile # seen[c]
    <3>1. Losers' \subseteq Losers \cup {c} /\ c \notin Losers
      BY <1>0, <2>1 DEF Losers
    <3>2. Misnamed' = Misnamed \cup {seen[c]} /\ seen[c] \notin Misnamed
      BY <1>1, <1>3, <2>4 DEF Misnamed, None
    <3>3. Cardinality(Losers \cup {c}) = Cardinality(Losers) + 1 /\ IsFiniteSet(Losers \cup {c})
      BY <3>1, AllFinite, FS_AddElement
    <3>4. Cardinality(Losers') <= Cardinality(Losers) + 1 /\ Cardinality(Losers') \in Nat
      BY <3>1, <3>3, FS_Subset, FS_CardinalityType
    <3>5. Cardinality(Misnamed') = Cardinality(Misnamed) + 1
      BY <3>2, AllFinite, FS_AddElement
    <3>6. QED
      BY <3>4, <3>5, AllFinite DEF Paid
  <2>5. QED
    BY <2>3, <2>4
<1>4. QED
  BY <1>2, <1>3 DEF RecoverLink

\* The other steps of a client, but for those that unlink the file, make no loser.
LEMMA QuietStep ==
    ASSUME LockInv, Paid, NEW c \in Clients,
           \/ Begin(c) \/ RecoverRead(c) \/ RecoverCheck(c) \/ Release(c) \/ FinishRead(c)
           \/ (RecoverUnlink(c) \/ FinishUnlink(c)) /\ lockFile' = lockFile
    PROVE  Paid'
<1> USE LockAssumption DEF LockAssumption, Gripping
<1>0. pc \in [Clients -> Label] /\ seen \in [Clients -> Token \cup {None}] /\ token \in [Clients -> Token \cup {None}]
  BY DEF LockInv, TypeOK
<1>1. Misnamed' = Misnamed /\ lockFile' = lockFile
  BY DEF Begin, RecoverRead, RecoverCheck, Release, FinishRead, RecoverUnlink, FinishUnlink, disk, Misnamed
<1>2. \A d \in Clients \ {c} : pc'[d] = pc[d] /\ token'[d] = token[d] /\ seen'[d] = seen[d]
  BY <1>0 DEF Begin, WriteCandidate, RecoverRead, RecoverCheck, AfterRecovery, Release, FinishRead,
       RecoverUnlink, FinishUnlink, Finished, FinishFails, Goto
<1>3. pc'[c] \in Gripping => /\ FinishRead(c) /\ pc'[c] \in {"relUnlink", "finUnlink"}
                             /\ lockFile = seen[c] /\ seen' = seen
  BY <1>0 DEF Begin, WriteCandidate, RecoverRead, RecoverCheck, AfterRecovery, Release, FinishRead,
       RecoverUnlink, FinishUnlink, Finished, FinishFails, Goto
<1>4. Losers' \subseteq Losers
  BY <1>1, <1>2, <1>3 DEF Losers, Meant
<1>5. QED
  BY <1>1, <1>4, FewerLosers

\* Every step keeps the balance.
LEMMA NextPaid ==
    ASSUME Queued, LockInv, Paid, [Next]_vars
    PROVE  Paid'
<1>0. pc \in [Clients -> Label] /\ token \in [Clients -> Token \cup {None}]
  BY DEF LockInv, TypeOK
<1>1. ASSUME NEW c \in Clients, RecoverUnlink(c), lockFile' # lockFile
      PROVE  Paid'
  <2>1. lockFile' = None /\ pc[c] = "recUnlink" /\ UNCHANGED <<stale, seen>>
    BY <1>1 DEF RecoverUnlink, Step
  <2>2. \A d \in Clients \ {c} : token'[d] = token[d]
    BY <1>0, <1>1 DEF RecoverUnlink, AfterRecovery
  <2>3. \E l \in Label \ Gripping : pc' = [pc EXCEPT ![c] = l]
    BY <1>1 DEF RecoverUnlink, AfterRecovery, Goto, Label, Gripping
  <2>4. QED
    BY <2>1, <2>2, <2>3, UnlinkStep
<1>2. ASSUME NEW c \in Clients, FinishUnlink(c), lockFile' # lockFile
      PROVE  Paid'
  <2>1. /\ lockFile' = None /\ pc[c] \in {"finUnlink", "relUnlink"} /\ UNCHANGED <<stale, seen>>
        /\ Finished(c)
    BY <1>2 DEF FinishUnlink, FinishFails, Step
  <2>2. \A d \in Clients \ {c} : token'[d] = token[d]
    BY <1>0, <2>1 DEF Finished, WriteCandidate
  <2>3. \E l \in Label \ Gripping : pc' = [pc EXCEPT ![c] = l]
    BY <2>1 DEF Finished, Goto, Label, Gripping
  <2>4. QED
    BY <2>1, <2>2, <2>3, UnlinkStep
<1>3. ASSUME NEW p \in Procs, Die(p)
      PROVE  Paid'
  <2>1. \A c \in Clients : pc'[c] \in Gripping =>
           pc'[c] = pc[c] /\ token'[c] = token[c] /\ seen'[c] = seen[c]
    BY <1>0, <1>3 DEF Die, Gripping
  <2>2. Losers' \subseteq Losers /\ Misnamed' = Misnamed
    BY <1>3, <2>1 DEF Die, disk, Losers, Misnamed, Meant
  <2>3. QED
    BY <2>2, FewerLosers
<1>4. CASE \E p \in Procs : Restart(p)
  BY <1>4, FewerLosers DEF Restart, disk, Losers, Misnamed, Meant
<1>5. CASE UNCHANGED vars
  BY <1>5, FewerLosers DEF vars, Losers, Misnamed, Meant
<1>6. QED
  BY <1>1, <1>2, <1>3, <1>4, <1>5, TakeStep, RecoverLinkPaid, QuietStep DEF Next, Recover, Finish

\* The callers the property speaks of.
LEMMA LosersAre == Robbed \cup Astray = Losers
  BY DEF Robbed, Astray, Held, Losers, Gripping, Meant

\* A living holder's lock is taken away only by a recovery that acted on a token out of
\* date, one holder for each, whatever the number of processes, callers, acquisitions and
\* process deaths.
THEOREM LockTheftsLeaveTraces ==
    ASSUME Queued
    PROVE  Spec => []TheftsLeaveTraces
<1>1. Init => Paid
  <2>1. ASSUME Init PROVE Losers = {}
    BY <2>1 DEF Init, Losers, Gripping
  <2>2. QED
    BY <2>1, AllFinite, FS_EmptySet DEF Paid
<1>2. LockInv /\ Paid /\ [Next]_vars => Paid'
  BY NextPaid
<1>3. Paid => TheftsLeaveTraces
  BY LosersAre DEF Paid, TheftsLeaveTraces
<1>4. QED
  BY <1>1, <1>2, <1>3, LockInvariant, PTL DEF Spec

\* The balance holds in every reachable state.
LEMMA LockPaid ==
    ASSUME Queued
    PROVE  Spec => []Paid
<1>1. TheftsLeaveTraces => Paid
  BY LosersAre DEF Paid, TheftsLeaveTraces
<1>2. QED
  BY <1>1, LockTheftsLeaveTraces, PTL

\* As long as no recovery has acted on a token out of date, no two callers of
\* acquireLinkLock are in their sections at once, and the lock file is the holder's.
THEOREM LockMutualExclusion ==
    ASSUME Queued
    PROVE  Spec => []MutualExclusion
<1>1. ASSUME LockInv, Paid, Misnamed = {}, NEW c \in Held, NEW d \in Held
      PROVE  c = d /\ lockFile = token[c]
  <2>1. Cardinality(Losers) = 0
    BY <1>1, AllFinite, FS_EmptySet DEF Paid
  <2>2. Losers = {}
    BY <2>1, AllFinite, FS_EmptySet
  <2>3. lockFile = token[c] /\ lockFile = token[d]
    BY <2>2 DEF Losers, Held, Gripping, Meant
  <2>4. QED
    BY <1>1, <2>3, OneGrip DEF Held, Gripping, Meant
<1>2. LockInv /\ Paid => MutualExclusion
  BY <1>1 DEF MutualExclusion
<1>3. QED
  BY <1>2, LockInvariant, LockPaid, PTL

-----------------------------------------------------------------------------
(* Refinement *)

\* The mutex counts as the lock does.
LEMMA SameCount == \A S : M!Cardinality(S) = Cardinality(S)
  BY DEF M!Cardinality, Cardinality

\* A caller that makes the lock file has room: who still holds has lost the file.
LEMMA TakeRefines ==
    ASSUME LockInv, Paid, NEW c \in Clients, TryLink(c), lockFile = None
    PROVE  M!Enter(c)
<1>0. pc \in [Clients -> Label] /\ pc[c] = "try"
  BY DEF LockInv, TypeOK, TryLink, Step
<1>1. Held \subseteq Losers
  BY DEF Held, Losers, Gripping, Meant, LockInv, TokensOwned, Finishing
<1>2. Cardinality(Held) <= Cardinality(Misnamed)
  <2>1. Cardinality(Held) <= Cardinality(Losers) /\ Cardinality(Held) \in Nat
    BY <1>1, AllFinite, FS_Subset, FS_CardinalityType
  <2>2. QED
    BY <2>1, AllFinite DEF Paid
<1>3. c \notin Held /\ Held' = Held \cup {c}
  BY <1>0 DEF Held, TryLink, Goto
<1>4. Misnamed' = Misnamed
  BY DEF TryLink, Misnamed
<1>5. UNCHANGED Cardinality(Misnamed)
  BY <1>4
<1> HIDE DEF Held, Misnamed
<1>6. QED
  BY <1>2, <1>3, <1>5, SameCount DEF M!Enter

\* A recoverer's link is a possible theft, or nothing to the mutex.
LEMMA RecoverLinkRefines ==
    ASSUME LockInv, NEW c \in Clients, RecoverLink(c)
    PROVE  M!Steal \/ UNCHANGED <<Held, Cardinality(Misnamed)>>
<1> USE LockAssumption DEF LockAssumption
<1>1. /\ pc \in [Clients -> Label] /\ pc[c] = "recLink" /\ seen[c] \in Token
      /\ stale \in [Token -> Token \cup {None}] /\ lockFile \in Token \cup {None}
  BY DEF LockInv, TypeOK, RecoverLink, Step, RecoveryInv, Gone, Token
<1>2. Held' = Held
  BY <1>1 DEF Held, RecoverLink, AfterRecovery, Goto
<1>3. CASE stale' = stale
  BY <1>2, <1>3 DEF Misnamed
<1>4. CASE /\ lockFile # None /\ stale[seen[c]] = None
           /\ stale' = [stale EXCEPT ![seen[c]] = lockFile]
  <2>1. CASE lockFile = seen[c]
    <3>1. Misnamed' = Misnamed
      BY <1>1, <1>4, <2>1 DEF Misnamed
    <3>2. QED
      BY <1>2, <3>1
  <2>2. CASE lockFile # seen[c]
    <3>1. Misnamed' = Misnamed \cup {seen[c]} /\ seen[c] \notin Misnamed
      BY <1>1, <1>4, <2>2 DEF Misnamed, None
    <3>2. Cardinality(Misnamed') = Cardinality(Misnamed) + 1
      BY <3>1, AllFinite, FS_AddElement
    <3>3. QED
      BY <1>2, <3>2 DEF M!Steal
  <2>3. QED
    BY <2>1, <2>2
<1>5. QED
  BY <1>3, <1>4 DEF RecoverLink

\* Every step of the link lock is a step of the mutex, or none.
LEMMA LockStepRefines ==
    ASSUME LockInv, Paid, [Next]_vars
    PROVE  [M!Next]_<<Held, Cardinality(Misnamed)>>
<1>0. pc \in [Clients -> Label]
  BY DEF LockInv, TypeOK
<1>1. ASSUME NEW c \in Clients, TryLink(c)
      PROVE  M!Enter(c) \/ UNCHANGED <<Held, Cardinality(Misnamed)>>
  <2>1. CASE lockFile # None
    BY <1>0, <1>1, <2>1 DEF TryLink, Held, Goto, Step, Misnamed
  <2>2. QED
    BY <1>1, <2>1, TakeRefines
<1>2. ASSUME NEW c \in Clients, Release(c)
      PROVE  M!Leave(c)
  BY <1>0, <1>2 DEF Release, Step, Goto, Held, disk, Misnamed, M!Leave
<1>3. ASSUME NEW p \in Procs, Die(p)
      PROVE  (\E c \in Clients : M!Leave(c)) \/ UNCHANGED <<Held, Cardinality(Misnamed)>>
  <2>1. Held' = {c \in Held : ProcOf[c] # p} /\ Misnamed' = Misnamed
    BY <1>0, <1>3 DEF Die, Held, disk, Misnamed
  <2>2. CASE \E c \in Held : ProcOf[c] = p
    <3>1. PICK c \in Held : ProcOf[c] = p
      BY <2>2
    <3>2. \A d \in Held : ProcOf[d] = p => d = c
      BY <3>1 DEF LockInv, OnePerProcess, Held
    <3>3. Held' = Held \ {c}
      BY <2>1, <3>1, <3>2
    <3>4. QED
      BY <2>1, <3>1, <3>3 DEF M!Leave, Held
  <2>3. CASE ~ \E c \in Held : ProcOf[c] = p
    BY <2>1, <2>3
  <2>4. QED
    BY <2>2, <2>3
<1>4. ASSUME NEW c \in Clients,
             Begin(c) \/ RecoverRead(c) \/ RecoverCheck(c) \/ RecoverUnlink(c) \/ Finish(c)
      PROVE  UNCHANGED <<Held, Cardinality(Misnamed)>>
  <2>1. pc[c] # "held" /\ \E l \in Label \ {"held"} : pc' = [pc EXCEPT ![c] = l]
    BY <1>0, <1>4 DEF Begin, RecoverRead, RecoverCheck, RecoverUnlink, Goto, Step,
         AfterRecovery, Finish, FinishRead, FinishUnlink, Finished, FinishFails, Label
  <2>2. stale' = stale
    BY <1>4 DEF Begin, RecoverRead, RecoverCheck, RecoverUnlink, Finish, FinishRead, FinishUnlink, disk
  <2>3. QED
    BY <1>0, <2>1, <2>2 DEF Held, Misnamed
<1>5. ASSUME UNCHANGED <<pc, stale>>
      PROVE  UNCHANGED <<Held, Cardinality(Misnamed)>>
  BY <1>5 DEF Held, Misnamed
<1>6. ASSUME NEW c \in Clients, M!Enter(c) \/ M!Leave(c) \/ M!Steal
      PROVE  M!Next
  BY <1>6 DEF M!Next
<1>7. CASE \E c \in Clients : Begin(c) \/ TryLink(c) \/ Recover(c) \/ Release(c) \/ Finish(c)
  BY <1>7, <1>1, <1>2, <1>4, <1>6, RecoverLinkRefines DEF Recover
<1>8. CASE \E p \in Procs : Die(p)
  BY <1>8, <1>3, <1>6
<1>9. QED
  BY <1>5, <1>7, <1>8 DEF Next, Restart, disk, vars

\* link-lock.ts implements a mutex from which a lock is taken away no more often than it
\* has left misnamed links.
THEOREM LockImplementsMutex ==
    ASSUME Queued
    PROVE  Spec => ImplementsMutex
<1>1. Init => M!Init
  <2>1. ASSUME Init PROVE Held = {} /\ Misnamed = {}
    BY <2>1 DEF Init, Held, Misnamed
  <2>2. QED
    BY <2>1, FS_EmptySet DEF M!Init
<1>2. LockInv /\ Paid /\ [Next]_vars => [M!Next]_<<Held, Cardinality(Misnamed)>>
  BY LockStepRefines
<1>3. QED
  BY <1>1, <1>2, LockInvariant, LockPaid, PTL DEF Spec, ImplementsMutex, M!Spec
=============================================================================
