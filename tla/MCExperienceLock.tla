-------------------------- MODULE MCExperienceLock --------------------------
\* Three processes, one of them with two callers: enough for a holder that
\* dies, two recoveries at odds, and a holder that comes after them, also
\* under the pid of the dead one.
EXTENDS ExperienceLock

CONSTANTS c1, c2, c3, c4, p1, p2, p3

MCCaller == {c1, c2, c3, c4}
MCPid == {p1, p2, p3}
MCPidOf == [c \in MCCaller |-> CASE c \in {c1, c4} -> p1 [] c = c2 -> p2 [] OTHER -> p3]
=============================================================================
