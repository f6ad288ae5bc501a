------------------------------ MODULE MCProcess ------------------------------
(***************************************************************************)
(* An instance of the process for TLC.  The clock is scaled down; the      *)
(* order of the timeouts is that of the defaults: 5, 10, 30 and 60 s.      *)
(***************************************************************************)
EXTENDS ProcessProperties

CONSTANTS r1, r2

Defaults == [write |-> 1, shutdown |-> 2, operation |-> 3, long |-> 4,
             maxConnections |-> 4]

\* Two connections are configured; the timeouts are left to the defaults.
TwoConnections == [write |-> 0, shutdown |-> 0, operation |-> 0, long |-> 0,
                   maxConnections |-> 2]
\* A deactivation reads the team, and inside Do makes its two calls and one in the
\* loop; another request makes one call.
FewCalls == [long |-> 4, short |-> 1]
==============================================================================
