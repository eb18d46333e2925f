------------------------------ MODULE MCRoundTrip ------------------------------
(***************************************************************************)
(* Instances of RoundTrip small enough for TLC.                            *)
(***************************************************************************)
EXTENDS RoundTrip, TLC

CONSTANTS q1, q2

\* Two resources of an origin, one below the other.
MCUrl == q1 :> <<"mcp">> @@ q2 :> <<"mcp", "search">>

Setting(resource, metadata, audience, stated, account, reliable) ==
    [resource |-> resource, metadata |-> metadata, audience |-> audience, stated |-> stated,
     account |-> account, reliable |-> reliable]

\* The first request may be sent twice.
MCMaxSends == q1 :> 2 @@ q2 :> 1

\* Every kind of resource and account, with servers that answer and that fail.
MCSettings ==
    {Setting("open", "origin", FALSE, FALSE, "signer", FALSE),
     Setting("checked", "path", TRUE, TRUE, "hosted", TRUE),
     Setting("checked", "path", FALSE, TRUE, "hybrid", FALSE),
     Setting("checked", "origin", TRUE, TRUE, "signer", TRUE),
     Setting("middleware", "origin", FALSE, FALSE, "hosted", TRUE)}
===============================================================================
