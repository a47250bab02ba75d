----------------------------- MODULE MCLinkLock -----------------------------
(* LinkLock for TLC: three processes with a caller each.                   *)
EXTENDS LinkLock

MCProcs == 1..3
MCClients == 1..3
MCProcOf == <<1, 2, 3>>
=============================================================================
