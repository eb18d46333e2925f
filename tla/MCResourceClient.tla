--------------------------- MODULE MCResourceClient ---------------------------
(***************************************************************************)
(* Instances of ResourceClient small enough for TLC.                       *)
(***************************************************************************)
EXTENDS ResourceClient

CONSTANTS r1, r2, r3

Setting(oncePerName, reliable, durable, crashes) ==
    [oncePerName |-> oncePerName, reliable |-> reliable, durable |-> durable,
     restarts |-> crashes]

\* Calls that fail, with either kind of server; a restart that loses the store,
\* and one that keeps it.
MCSettings ==
    {Setting(FALSE, FALSE, TRUE, 0), Setting(TRUE, FALSE, TRUE, 0),
     Setting(FALSE, TRUE, FALSE, 1), Setting(TRUE, TRUE, TRUE, 1)}
===============================================================================
