SPECIFICATION Spec
CONSTANTS
    r1 = r1
    r2 = r2
    w1 = w1
    w2 = w2
    issue = issue
    panel = panel
    list = list
    issueLease = issueLease
    repoLease = repoLease
    None = None
    Readers = {r1, r2}
    Asks <- MCAskApart
    Writers = {w1, w2}
    Resources = {issue, panel}
    Aggregates = {list}
    Roots = {issueLease, repoLease}
    Root <- MCRoot
    Part <- MCPart
    Lease <- MCLease
    MaxVersion = 1
    MaxWrites = 1
INVARIANTS NoStaleResource NobodyForgotten
PROPERTIES ForcedIsFresh
