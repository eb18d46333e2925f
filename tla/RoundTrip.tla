------------------------------ MODULE RoundTrip ------------------------------
(***************************************************************************)
(* transport.go, oauth.go and store.go: the client's http.RoundTripper,    *)
(* against a resource that checks its tokens with server/token.go.         *)
(* Concurrent requests of one account, to paths of one origin, share a     *)
(* store.  Each sends the request, answers a 401 with the whole OAuth      *)
(* handshake (discovery, client registration, PKCE, authorization, code    *)
(* exchange) and a second attempt, and answers a payment challenge by      *)
(* authorizing a payment and making a last attempt, whose response it      *)
(* returns whatever it is.  The caller may send the same request again.    *)
(*                                                                         *)
(* A step is one access to the store, one HTTP call or one step of the     *)
(* resource.  The authorization and accounts servers are modelled from     *)
(* what the code relies on.                                                *)
(***************************************************************************)
EXTENDS Integers, Sequences, FiniteSets

CONSTANTS
    Trips,        \* the requests
    Url,          \* the path of each, a sequence of names
    MaxSends,     \* bounds on how often each is sent
    MaxExpired,   \* bound on the access tokens that expire
    Settings,     \* the environments to consider
    None          \* no access token, no client

\* The resource is open, or checks tokens and answers a problem with its
\* ChallengeResponse, or, behind a middleware, with a 401.  The metadata names
\* the path of the request or the origin, and the resource may insist that it
\* is the audience.  An introspection may state the expiry.  The account is
\* hosted, a signer without identity, or a hybrid of the two.  No call fails,
\* or any may.
Environments ==
    [resource : {"open", "checked", "middleware"}, metadata : {"path", "origin"},
     audience : BOOLEAN, stated : BOOLEAN, account : {"hosted", "signer", "hybrid"},
     reliable : BOOLEAN]

ASSUME TripAssumption ==
    /\ IsFiniteSet(Trips)
    /\ DOMAIN Url = Trips /\ \A q \in Trips : Url[q] \in Seq(STRING)
    /\ MaxSends \in [Trips -> Nat] /\ MaxExpired \in Nat
    /\ Settings \subseteq Environments
    /\ None \notin Trips \X Nat

\* A call performs at most one handshake, so the call stands for the verifier,
\* the OAuth state, the client and the access token of its handshake.
Handshakes == Trips \X Nat

\* trimToPath and parentPath: a path so many levels up, the origin last.
Above(path, up) == SubSeq(path, 1, Len(path) - up)
Paths == UNION {{Above(Url[q], up) : up \in 0..Len(Url[q])} : q \in Trips}

Protocols == {"atxp", "x402", "mpp"}

VARIABLES
    env,         \* one of Settings (never changes)
    pc,          \* where the trip is
    sends,       \* how often its request was sent
    handshook,   \* the trip has performed the handshake, this time
    settled,     \* the protocol it has settled with, this time, or "none"
    headers,     \* the payment headers of the request: they stay on it
    bearer,      \* the access token its last attempt carried
    stale,       \* it had expired when that attempt was sent (history)
    late,        \* it had by the clock the resource read for the check
    outcome,     \* what RoundTrip returned: "none" until then, a status or an error
    ready,       \* the account knows its id
    token,       \* the store's access tokens by path
    client,      \* the store's client credentials for the issuer
    pkce,        \* the store's PKCE verifiers by state
    clients,     \* the clients registered
    tokens,      \* the access tokens issued
    expired      \* those that have expired

call == <<sends, handshook, settled, headers>>
seen == <<bearer, stale, late>>
store == <<token, client, pkce>>
servers == <<clients, tokens, expired>>
vars == <<env, pc, call, seen, outcome, ready, store, servers>>

Init ==
    /\ env \in Settings
    /\ pc = [q \in Trips |-> "returned"]
    /\ sends = [q \in Trips |-> 0]
    /\ handshook = [q \in Trips |-> FALSE]
    /\ settled = [q \in Trips |-> "none"]
    /\ headers = [q \in Trips |-> {}]
    /\ bearer = [q \in Trips |-> None]
    /\ stale = [q \in Trips |-> FALSE]
    /\ late = [q \in Trips |-> FALSE]
    /\ outcome = [q \in Trips |-> "none"]
    /\ ready = FALSE
    /\ token = [path \in Paths |-> None]
    /\ client = None
    /\ pkce = [state \in {} |-> state]
    /\ clients = {} /\ tokens = {} /\ expired = {}

\* The handshake of the trip's call.
Handshake(q) == <<q, sends[q]>>

Goto(q, from, to) == pc[q] = from /\ pc' = [pc EXCEPT ![q] = to]

Return(q, from, result) ==
    Goto(q, from, "returned") /\ outcome' = [outcome EXCEPT ![q] = result]

\* The points at which RoundTrip waits for a server, and an error ends it.
Calls == {"account", "sent", "introspect", "gate",
          "discover", "register", "code", "exchange", "pay"}

Places == Calls \cup {"send", "credentials", "registered", "challenge", "save", "returned"}
Outcomes == {"none", "200", "400", "401", "402", "502", "error", "unpayable"}
-------------------------------------------------------------------------------
\* RoundTrip is called with the request, whose headers are as the last call left
\* them.
Send(q) ==
    /\ sends[q] < MaxSends[q]
    /\ Goto(q, "returned", "account")
    /\ sends' = [sends EXCEPT ![q] = @ + 1]
    /\ handshook' = [handshook EXCEPT ![q] = FALSE]
    /\ settled' = [settled EXCEPT ![q] = "none"]
    /\ bearer' = [bearer EXCEPT ![q] = None]
    /\ stale' = [stale EXCEPT ![q] = FALSE]
    /\ late' = [late EXCEPT ![q] = FALSE]
    /\ outcome' = [outcome EXCEPT ![q] = "none"]
    /\ UNCHANGED <<env, headers, ready, store, servers>>

\* The signer knows its address; the hosted account asks once.
ResolveAccount(q) ==
    /\ Goto(q, "account", "send")
    /\ ready' = TRUE
    /\ UNCHANGED <<env, call, seen, outcome, store, servers>>

\* Variant: the walk stops one level short of the origin.
GetAccessTokenShort(path) ==
    LET found == {up \in 0..(Len(path) - 1) : token[Above(path, up)] # None}
    IN  IF found = {} THEN None
        ELSE token[Above(path, CHOOSE up \in found : \A more \in found : up <= more)]

\* The token saved for the path, or else for the nearest path above it.
GetAccessToken(path) ==
    LET found == {up \in 0..Len(path) : token[Above(path, up)] # None}
    IN  IF found = {} THEN None
        ELSE token[Above(path, CHOOSE up \in found : \A more \in found : up <= more)]

\* Variants: a payment header of any kind replaces the token; no payment header
\* does, and the token overwrites the one that is in its place.
AttachedIfUnpaid(q) == IF headers[q] # {} THEN None ELSE GetAccessToken(Url[q])
AttachedAlways(q) == GetAccessToken(Url[q])

\* attempt: the token goes along, unless the MPP credential has its header.
Attached(q) == IF "mpp" \in headers[q] THEN None ELSE GetAccessToken(Url[q])

Attempt(q) ==
    /\ Goto(q, "send", "sent")
    /\ bearer' = [bearer EXCEPT ![q] = Attached(q)]
    /\ stale' = [stale EXCEPT ![q] = Attached(q) \in expired]
    /\ UNCHANGED <<env, call, late, outcome, ready, store, servers>>
-------------------------------------------------------------------------------
(***************************************************************************)
(* The resource checks the token first, then looks at the payment, which   *)
(* it may decline with another challenge.                                  *)
(***************************************************************************)
\* Variant: a 401 that comes again is answered by another attempt.
RefusedAgain(q, from, status) ==
    /\ UNCHANGED outcome
    /\ Goto(q, from, IF settled[q] = "none" /\ ~handshook[q] THEN "discover" ELSE "send")

\* The first attempt of a call is answered by a handshake, the first challenge
\* by a payment; the other responses are returned.
Refused(q, from, status) ==
    IF status = "401" /\ settled[q] = "none" /\ ~handshook[q]
    THEN Goto(q, from, "discover") /\ UNCHANGED outcome
    ELSE Return(q, from, status)

\* ChallengeResponse; a middleware of RequireBearerToken knows only the 401.
Status(problem) ==
    IF env.resource = "middleware" THEN "401"
    ELSE CASE problem = "NON-BEARER-AUTH-HEADER" -> "400"
           [] problem = "INTROSPECT-ERROR" -> "502"
           [] OTHER -> "401"

\* The resource the 401 names in its metadata, for which the token is asked.
Resource(q) == IF env.metadata = "path" THEN Url[q] ELSE <<>>

\* Variant: the clock is read when the merchant is made, before any token expires.
CheckTokenOldClock(q) ==
    /\ env.resource # "open"
    /\ IF bearer[q] # None
       THEN Goto(q, "sent", "introspect") /\ UNCHANGED outcome
       ELSE Refused(q, "sent",
                Status(IF "mpp" \in headers[q] THEN "NON-BEARER-AUTH-HEADER" ELSE "NO-TOKEN"))
    /\ UNCHANGED <<env, call, seen, ready, store, servers>>

\* checkTokenCore up to the introspection: the clock is read on the way in.
CheckToken(q) ==
    /\ env.resource # "open"
    /\ IF bearer[q] # None
       THEN Goto(q, "sent", "introspect") /\ UNCHANGED outcome
       ELSE Refused(q, "sent",
                Status(IF "mpp" \in headers[q] THEN "NON-BEARER-AUTH-HEADER" ELSE "NO-TOKEN"))
    /\ late' = [late EXCEPT ![q] = bearer[q] \in expired]
    /\ UNCHANGED <<env, call, bearer, stale, ready, store, servers>>

Passes(q, active) ==
    /\ active
    /\ ~(env.stated /\ late[q])
    /\ env.audience => Resource(bearer[q][1]) = Resource(q)

\* The server may take an expired token for active.
Introspected(q) ==
    /\ pc[q] = "introspect"
    /\ \E active \in BOOLEAN :
          /\ bearer[q] \notin expired => active
          /\ IF Passes(q, active)
             THEN Goto(q, "introspect", "gate") /\ UNCHANGED outcome
             ELSE Refused(q, "introspect", Status("INVALID-TOKEN"))
    /\ UNCHANGED <<env, call, seen, ready, store, servers>>

IntrospectFails(q) ==
    /\ ~env.reliable
    /\ Refused(q, "introspect", Status("INTROSPECT-ERROR"))
    /\ UNCHANGED <<env, call, seen, ready, store, servers>>

\* DetectProtocol: what the gate takes as the payment.  A bearer token leaves no
\* place for the credential of MPP.
Detected(q) ==
    IF "atxp" \in headers[q] THEN "atxp"
    ELSE IF "x402" \in headers[q] THEN "x402"
    ELSE IF "mpp" \in headers[q] /\ bearer[q] = None THEN "mpp"
    ELSE "none"

Admitted == IF env.resource = "open" THEN "sent" ELSE "gate"

Challenged(q) ==
    /\ IF settled[q] = "none"
       THEN Goto(q, Admitted, "pay") /\ UNCHANGED outcome
       ELSE Return(q, Admitted, "402")
    /\ UNCHANGED <<env, call, seen, ready, store, servers>>

Served(q) ==
    /\ Return(q, Admitted, "200")
    /\ UNCHANGED <<env, call, seen, ready, store, servers>>
-------------------------------------------------------------------------------
(***************************************************************************)
(* authenticate.                                                           *)
(***************************************************************************)
Discover(q) ==
    /\ Goto(q, "discover", "credentials")
    /\ UNCHANGED <<env, call, seen, outcome, ready, store, servers>>

LookUpClient(q) ==
    /\ Goto(q, "credentials", IF client = None THEN "register" ELSE "challenge")
    /\ UNCHANGED <<env, call, seen, outcome, ready, store, servers>>

Register(q) ==
    /\ Goto(q, "register", "registered")
    /\ clients' = clients \cup {Handshake(q)}
    /\ UNCHANGED <<env, call, seen, outcome, ready, store, tokens, expired>>

SaveClient(q) ==
    /\ Goto(q, "registered", "challenge")
    /\ client' = Handshake(q)
    /\ UNCHANGED <<env, call, seen, outcome, ready, token, pkce, servers>>

\* Variant: verifiers are stored by user alone, and the account is one user.
StateOfUser(q) == "user"

\* generatePKCE draws the state at random.
StateOf(q) == Handshake(q)

SavePKCE(q) ==
    /\ Goto(q, "challenge", "code")
    /\ pkce' = [state \in DOMAIN pkce \cup {StateOf(q)} |->
                   IF state = StateOf(q) THEN Handshake(q) ELSE pkce[state]]
    /\ UNCHANGED <<env, call, seen, outcome, ready, token, client, servers>>

\* The account signs the code challenge, and the authorization server's redirect
\* brings the state back with the code.
RequestCode(q) ==
    /\ env.account # "signer"
    /\ Goto(q, "code", "exchange")
    /\ UNCHANGED <<env, call, seen, outcome, ready, store, servers>>

\* A signer has no identity to sign with.
SignFails(q) ==
    /\ env.account = "signer"
    /\ Return(q, "code", "error")
    /\ UNCHANGED <<env, call, seen, ready, store, servers>>

\* The server compares the stored verifier with the challenge of the code.
Verified(q) == StateOf(q) \in DOMAIN pkce /\ pkce[StateOf(q)] = Handshake(q)

ExchangeCode(q) ==
    /\ IF Verified(q)
       THEN /\ Goto(q, "exchange", "save")
            /\ tokens' = tokens \cup {Handshake(q)}
            /\ UNCHANGED outcome
       ELSE Return(q, "exchange", "error") /\ UNCHANGED tokens
    /\ UNCHANGED <<env, call, seen, ready, store, clients, expired>>

SaveToken(q) ==
    /\ Goto(q, "save", "send")
    /\ token' = [token EXCEPT ![Resource(q)] = Handshake(q)]
    /\ handshook' = [handshook EXCEPT ![q] = TRUE]
    /\ UNCHANGED <<env, sends, settled, headers, seen, outcome, ready, client, pkce, servers>>
-------------------------------------------------------------------------------
(***************************************************************************)
(* settle: the account authorizes a payment with one of the protocols the  *)
(* challenge offers, and the header goes on the request.  The account may  *)
(* have authorized it although its answer is lost (see CallFails).         *)
(***************************************************************************)
\* A signer pays by x402, alone or as the Payments half of a hybrid account.
Pays == IF env.account = "hosted" THEN Protocols ELSE {"x402"}

Authorize(q) ==
    /\ Goto(q, "pay", "send")
    /\ \E protocol \in Pays :
          /\ settled' = [settled EXCEPT ![q] = protocol]
          /\ headers' = [headers EXCEPT ![q] = @ \cup {protocol}]
    /\ UNCHANGED <<env, sends, handshook, seen, outcome, ready, store, servers>>

\* The challenge has no amount, nothing the account can pay, or is declined.
Unpayable(q) ==
    /\ Return(q, "pay", "unpayable")
    /\ UNCHANGED <<env, call, seen, ready, store, servers>>

CallFails(q) ==
    /\ ~env.reliable
    /\ pc[q] \in Calls
    /\ pc[q] = "account" => ~ready /\ env.account # "signer"
    /\ Return(q, pc[q], "error")
    /\ \/ UNCHANGED <<clients, tokens>>
       \/ pc[q] = "register" /\ clients' = clients \cup {Handshake(q)} /\ UNCHANGED tokens
       \/ pc[q] = "exchange" /\ tokens' = tokens \cup {Handshake(q)} /\ UNCHANGED clients
    /\ UNCHANGED <<env, call, seen, ready, store, expired>>

\* An access token the server issued expires.
Expire ==
    /\ Cardinality(expired) < MaxExpired
    /\ \E issued \in tokens \ expired : expired' = expired \cup {issued}
    /\ UNCHANGED <<env, pc, call, seen, outcome, ready, store, clients, tokens>>
-------------------------------------------------------------------------------
Step(q) ==
    \/ ResolveAccount(q) \/ Attempt(q)
    \/ CheckToken(q) \/ Introspected(q) \/ IntrospectFails(q)
    \/ Challenged(q) \/ Served(q)
    \/ Discover(q) \/ LookUpClient(q) \/ Register(q) \/ SaveClient(q)
    \/ SavePKCE(q) \/ RequestCode(q) \/ SignFails(q) \/ ExchangeCode(q)
    \/ SaveToken(q) \/ Authorize(q) \/ Unpayable(q) \/ CallFails(q)

Next == Expire \/ \E q \in Trips : Send(q) \/ Step(q)

Spec == Init /\ [][Next]_vars

\* Every HTTP call of a trip ends: with an answer, an error or the client's
\* timeout (65 s by default).
FairSpec == Spec /\ \A q \in Trips : WF_vars(Step(q))
-------------------------------------------------------------------------------
(***************************************************************************)
(* Correctness.                                                            *)
(***************************************************************************)

\* Every variable holds what its field or its step of the code can hold.
TypeOK ==
    /\ env \in Settings
    /\ pc \in [Trips -> Places]
    /\ sends \in [Trips -> Nat]
    /\ handshook \in [Trips -> BOOLEAN]
    /\ settled \in [Trips -> Protocols \cup {"none"}]
    /\ headers \in [Trips -> SUBSET Protocols]
    /\ bearer \in [Trips -> Handshakes \cup {None}]
    /\ stale \in [Trips -> BOOLEAN] /\ late \in [Trips -> BOOLEAN]
    /\ outcome \in [Trips -> Outcomes]
    /\ ready \in BOOLEAN
    /\ token \in [Paths -> Handshakes \cup {None}]
    /\ client \in Handshakes \cup {None}
    /\ DOMAIN pkce \subseteq Handshakes
    /\ clients \subseteq Handshakes /\ tokens \subseteq Handshakes
    /\ expired \subseteq tokens

Settled(q) == settled[q] # "none" /\ pc[q] \in {"sent", "introspect", "gate"}

\* With servers that answer, a call fails only where the account cannot identify
\* itself: concurrent handshakes never send a verifier of another flow.
FailsOnlyUnidentified ==
    \A q \in Trips : env.reliable /\ outcome[q] = "error" =>
        env.account = "signer" /\ env.resource # "open"

\* A paid request still says who the payer is: the attempt that follows a
\* payment also carries an access token where the resource wants one ("retry the
\* request through the OAuth fetch"), unless MPP's credential is in its place.
PaidAndIdentified ==
    \A q \in Trips :
        env.resource # "open" /\ Settled(q) /\ "mpp" \notin headers[q] => bearer[q] # None

\* The payment just authorized is the one the resource's gate detects: nothing
\* on the request hides it, unless an earlier call left the header of another
\* protocol on the request.
PresentsItsPayment ==
    \A q \in Trips :
        Settled(q) /\ headers[q] = {settled[q]} => Detected(q) = settled[q]

\* While tokens last, whatever the trips of one account do concurrently on
\* whatever paths, a call that could perform the handshake does not end in a
\* 401, unless its request carries MPP's credential, which displaces the token,
\* or a middleware answers a failed introspection.
UnauthorizedOnlyIfExpired ==
    \A q \in Trips : outcome[q] = "401" =>
        \/ expired # {}
        \/ "mpp" \in headers[q]
        \/ env.resource = "middleware" /\ ~env.reliable

\* A call whose attempt left with a token that had expired by then is neither served
\* nor asked to pay, though the token is checked only later, by a clock read before
\* the introspection and compared after it, "even should the AS erroneously report
\* active=true" (token.go).  (Where the answer states the expiry; a token that
\* expires on the way, or during the introspection, may still pass.)
ExpiredNeverPasses ==
    \A q \in Trips :
        /\ env.stated /\ env.resource # "open"
        /\ pc[q] \in {"gate", "pay"} \/ outcome[q] \in {"200", "402", "unpayable"}
        => ~stale[q]

\* Every RoundTrip call returns: neither repeated 401s nor repeated challenges
\* keep it going.
TripsReturn == \A q \in Trips : pc[q] = "account" ~> pc[q] = "returned"

\* The most steps a call can still take: those of the attempt it is at, of the
\* handshake and of the payment it has not had, and of the attempt after each.
StepsLeft(q) ==
    LET attempt == [gate |-> 1, introspect |-> 2, sent |-> 3, send |-> 4]
        handshake == [save |-> 1, exchange |-> 2, code |-> 3, challenge |-> 4,
                      registered |-> 5, register |-> 6, credentials |-> 7, discover |-> 8]
        toPay == IF settled[q] = "none" THEN 5 ELSE 0
        toSignIn == IF settled[q] = "none" /\ ~handshook[q] THEN 12 ELSE 0
    IN  CASE pc[q] = "returned" -> 0
          [] pc[q] = "pay" -> 5
          [] pc[q] \in DOMAIN handshake -> 9 + handshake[pc[q]]
          [] pc[q] \in DOMAIN attempt -> attempt[pc[q]] + toPay + toSignIn
          [] pc[q] = "account" -> 22

\* Each step of a call brings it nearer to its return, whatever the resource
\* answers and whatever the other calls do: it makes at most three attempts, one
\* handshake and one payment, and one that returned stays so until it is sent
\* again.  (The part of TripsReturn that needs no fairness.)
CallAdvances ==
    [][\A q \in Trips : pc'[q] # pc[q] =>
          sends'[q] # sends[q] \/ StepsLeft(q)' < StepsLeft(q)]_vars

\* docs/PROTOCOL.md: "any expired/401 token triggers a full re-handshake".  The
\* code does not do it after a payment: see the README.
ReauthenticatesOn401 ==
    \A q \in Trips : outcome[q] = "401" /\ bearer[q] # None => handshook[q]

\* docs/PROTOCOL.md: client registration is "single-flight in Go".  The client's
\* is not: see the README.
RegistersOneClient == env.reliable => Cardinality(clients) <= 1
===============================================================================
