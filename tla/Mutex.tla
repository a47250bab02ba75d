-------------------------------- MODULE Mutex --------------------------------
(***************************************************************************)
(* What src/infra/link-lock.ts promises its callers: at most one client is *)
(* inside the section between acquireLinkLock and its release function,    *)
(* and one more for each time that the lock was taken from somebody alive. *)
(* A client enters when there is room, and leaves by releasing or because  *)
(* its process died.                                                       *)
(***************************************************************************)
EXTENDS Naturals, FiniteSets

CONSTANT Clients

VARIABLES
    holders,   \* the clients inside the section
    thefts     \* how often the lock may have been taken from a live owner

Init == holders = {} /\ thefts = 0

Enter(c) ==
    /\ c \notin holders
    /\ Cardinality(holders) <= thefts
    /\ holders' = holders \cup {c}
    /\ UNCHANGED thefts

Leave(c) == c \in holders /\ holders' = holders \ {c} /\ UNCHANGED thefts

Steal == thefts' = thefts + 1 /\ UNCHANGED holders

Next == Steal \/ \E c \in Clients : Enter(c) \/ Leave(c)

Spec == Init /\ [][Next]_<<holders, thefts>>
=============================================================================
