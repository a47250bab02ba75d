--------------------------- MODULE MCGatewayCache ---------------------------
(* GatewayCache for TLC *)
EXTENDS GatewayCache

CONSTANTS r1, r2, w1, w2, issue, panel, list, issueLease, repoLease

MCRoot == [k \in Keys |-> IF k = list THEN repoLease ELSE issueLease]
MCPart == [k \in Keys |-> IF k = panel THEN issue ELSE None]
MCLease == [w \in Writers |-> IF w = w1 THEN {issueLease, repoLease} ELSE {repoLease}]
MCAskAll == [r \in Readers |-> Keys \X BOOLEAN]
\* The panel and the list as views ask for them; the issue also as a gate does.
MCAskApart == [r \in Readers |->
    IF r = r1 THEN {<<panel, FALSE>>, <<list, FALSE>>}
              ELSE {<<issue, TRUE>>, <<issue, FALSE>>}]
=============================================================================
