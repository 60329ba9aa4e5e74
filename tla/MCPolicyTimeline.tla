-------------------------- MODULE MCPolicyTimeline --------------------------
EXTENDS PolicyTimeline

CONSTANTS limit, deductible

\* A limit costs 3 and a deductible takes 1 off.
Premiums == [p \in [{limit, deductible} -> 0..1] |-> 5 + 3 * p[limit] - p[deductible]]
DayBefore == -1
AsWritten == [f \in {limit, deductible} |-> 0]
=============================================================================
