------------------------------- MODULE MCStorage -------------------------------
(***************************************************************************)
(* The state directory, in parts that share no state: the two upgrades of  *)
(* its layout, and the lock file of the first.                             *)
(***************************************************************************)
EXTENDS V02Upgrade, UpgradeLock, RecoveryUpgrade

VARIABLE part

Parts == {"upgrade", "lock", "recovery"}

Rest == <<uvars, lockvars, rvars, part>>

MCInit == /\ UpgradeInit /\ LockInit /\ RecoveryInit
          /\ part \in Parts

MCNext ==
    \/ part = "upgrade" /\ UpgradeNext /\ UNCHANGED <<lockvars, rvars, part>>
    \/ part = "lock" /\ LockNext /\ UNCHANGED <<uvars, rvars, part>>
    \/ part = "recovery" /\ RecoveryNext /\ UNCHANGED <<uvars, lockvars, part>>

MCSpec == /\ MCInit /\ [][MCNext]_Rest
          /\ UpgradeFairness /\ RecoveryFairness

\* The generations of the state are whole, and of the lock that guards their exchange
\* a live owner is robbed only by a process that another has overtaken.
LayoutIsSafe == GenerationsAreSafe /\ LockTypeOK /\ LiveLockStays

\* Either upgrade, stopped anywhere, can be ended, with the two exceptions stated.
UpgradesEnd == UpgradeSettles /\ ResumeCompletes
=============================================================================
