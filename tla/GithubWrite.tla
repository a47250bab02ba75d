------------------------------ MODULE GithubWrite ------------------------------
(***************************************************************************)
(* What a write transaction of src/github/writes.ts makes of what it       *)
(* learns.  A write is dispatched once; its answer alone confirms nothing: *)
(* a readback of the authoritative state decides, and what neither proves  *)
(* nor excludes the write is unknown.                                      *)
(***************************************************************************)

EXTENDS NoValue

\* "rejected": GitHub answered with a 4xx other than 429; "closed": the gateway
\* did not dispatch; "lost": any other error, after which the write may still
\* take effect.
Answers == {"accepted", "lost", "rejected", "closed"}

\* What a readback finds of the expected fact; "error" when the read fails.
Observations == {"there", "absent", "error"}

Outcomes == {"confirmed", "failed", "unknown"}

NeverHappened(answer) == answer \in {"rejected", "closed"}

Outcome(answer, seen) ==
    IF NeverHappened(answer) THEN "failed"
    ELSE IF seen = "there" THEN "confirmed" ELSE "unknown"

\* A recovery dispatches nothing and only reads.
Recovered(seen) == IF seen = "there" THEN "confirmed" ELSE "unknown"

\* What a readback may find when the fact holds, or does not.
Readings(holds) == {"error"} \cup (IF holds THEN {"there"} ELSE {"absent"})
=============================================================================
