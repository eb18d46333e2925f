---------------------------- MODULE ResourceClient ----------------------------
(***************************************************************************)
(* server/oauthresource.go: the merchant's own OAuth client.  Concurrent   *)
(* requests obtain its client credentials (discovery, the store, dynamic   *)
(* client registration behind the credReg single flight), then use them    *)
(* for a payment-server call or a token introspection; an introspection    *)
(* the server rejects registers again by itself and retries once.  The     *)
(* merchant may restart between any two steps.                             *)
(*                                                                         *)
(* One authorization server, hence one issuer.  A step is one critical     *)
(* section of resourceClient.mu, one store access, the closing of or       *)
(* waiting on the done channel, or one HTTP call.                          *)
(***************************************************************************)
EXTENDS Integers, FiniteSets

CONSTANTS
    Callers,       \* goroutines, each in one makeRequest or introspectToken
    Introspectors, \* those in introspectToken
    MaxRevoked,    \* bound on the credentials the server stops accepting
    MaxRestarts,   \* bound on the restarts of the merchant
    Settings,      \* the environments to consider
    Nobody         \* not a caller

\* How the server, the network and the store behave: the server answers 409 to
\* a second registration of the client's name; no call fails or loses its
\* answer; the store outlives the process, which the default one does not.  And
\* a bound on the restarts of the merchant.
Environments ==
    [oncePerName : BOOLEAN, reliable : BOOLEAN, durable : BOOLEAN, restarts : 0..MaxRestarts]

ASSUME ResourceAssumption ==
    /\ IsFiniteSet(Callers) /\ Introspectors \subseteq Callers
    /\ MaxRevoked \in Nat /\ MaxRestarts \in Nat
    /\ Settings \subseteq Environments
    /\ Nobody \notin Callers

\* Credentials are numbered in the order the server issues them.
NoCred == 0

VARIABLES
    env,       \* one of Settings (never changes)
    pc,        \* where the caller is
    held,      \* the credential the caller has, NoCred without one
    joined,    \* the caller whose registration this one waits for
    out,       \* how the operation ended, "none" until then
    meta,      \* the server's metadata is cached
    store,     \* the credential in the Store
    credReg,   \* the caller whose registration is in the credReg map, or Nobody
    done,      \* done[c]: the done channel of c's registration is closed
    regCred,   \* the cc of c's registration, NoCred if its err is set
    issued,    \* the number of credentials the server has issued
    active,    \* those it accepts
    restarts,  \* how often the merchant restarted
    kept       \* the store had a credential when it last did

caller == <<pc, held, joined, out>>
client == <<meta, store, credReg, done, regCred>>
server == <<issued, active>>
process == <<restarts, kept>>
vars == <<env, caller, client, server, process>>

Init ==
    /\ env \in Settings
    /\ restarts = 0 /\ kept = FALSE
    /\ pc = [c \in Callers |-> "discover"]
    /\ held = [c \in Callers |-> NoCred]
    /\ joined = [c \in Callers |-> Nobody]
    /\ out = [c \in Callers |-> "none"]
    /\ meta = FALSE
    /\ store = NoCred
    /\ credReg = Nobody
    /\ done = [c \in Callers |-> FALSE]
    /\ regCred = [c \in Callers |-> NoCred]
    /\ issued = 0
    /\ active = {}

Goto(c, from, to) == pc[c] = from /\ pc' = [pc EXCEPT ![c] = to]

Return(c, from, outcome) ==
    Goto(c, from, "returned") /\ out' = [out EXCEPT ![c] = outcome]
-------------------------------------------------------------------------------
(***************************************************************************)
(* discover: the cached metadata, or a fetch whose result is cached.       *)
(***************************************************************************)
Discover(c) ==
    /\ Goto(c, "discover", "lookup")
    /\ meta' = TRUE
    /\ UNCHANGED <<env, held, joined, out, store, credReg, done, regCred, server, process>>

DiscoverFails(c) ==
    /\ ~env.reliable /\ ~meta
    /\ Return(c, "discover", "error")
    /\ UNCHANGED <<env, held, joined, client, server, process>>

(***************************************************************************)
(* clientCredentials: the store, then the single flight.                   *)
(***************************************************************************)
\* Variant: the store is not looked into.
LookUpNothing(c) ==
    /\ Goto(c, "lookup", "missed")
    /\ held' = [held EXCEPT ![c] = NoCred]
    /\ UNCHANGED <<env, joined, out, client, server, process>>

LookUpStore(c) ==
    /\ IF store # NoCred THEN Goto(c, "lookup", "use") ELSE Goto(c, "lookup", "missed")
    /\ held' = [held EXCEPT ![c] = store]
    /\ UNCHANGED <<env, joined, out, client, server, process>>

\* Variants: the credReg map is not looked at.
LeadUnchecked(c) ==
    /\ Goto(c, "missed", "leading")
    /\ credReg' = c
    /\ UNCHANGED <<env, held, joined, out, meta, store, done, regCred, server, process>>
JoinUnchecked(c) ==
    /\ Goto(c, "missed", "waiting")
    /\ joined' = [joined EXCEPT ![c] = credReg]
    /\ UNCHANGED <<env, held, out, client, server, process>>

Lead(c) ==
    /\ credReg = Nobody
    /\ Goto(c, "missed", "leading")
    /\ credReg' = c
    /\ UNCHANGED <<env, held, joined, out, meta, store, done, regCred, server, process>>

Join(c) ==
    /\ credReg # Nobody
    /\ Goto(c, "missed", "waiting")
    /\ joined' = [joined EXCEPT ![c] = credReg]
    /\ UNCHANGED <<env, held, out, client, server, process>>

\* <-reg.done, then the fields of the registration that was joined.
WakeUp(c) ==
    /\ pc[c] = "waiting" /\ done[joined[c]]
    /\ held' = [held EXCEPT ![c] = regCred[joined[c]]]
    /\ IF held'[c] = NoCred
       THEN Return(c, "waiting", "register_error")
       ELSE Goto(c, "waiting", "use") /\ UNCHANGED out
    /\ UNCHANGED <<env, joined, client, server, process>>
-------------------------------------------------------------------------------
(***************************************************************************)
(* registerClient, called by a leader or to replace a rejected credential. *)
(* The server may issue a credential whose answer never arrives.           *)
(***************************************************************************)
NameTaken == env.oncePerName /\ issued > 0

Answered == [leading |-> "answered", stale |-> "reanswered"]

Registers(c) ==
    /\ pc[c] \in {"leading", "stale"}
    /\ ~NameTaken
    /\ issued' = issued + 1
    /\ active' = active \cup {issued'}
    /\ \/ held' = [held EXCEPT ![c] = issued']
       \/ ~env.reliable /\ held' = [held EXCEPT ![c] = NoCred]
    /\ Goto(c, pc[c], Answered[pc[c]])
    /\ UNCHANGED <<env, joined, out, client, process>>

\* 409, another refusal, or no connection.
RegisterFails(c) ==
    /\ pc[c] \in {"leading", "stale"}
    /\ ~env.reliable \/ NameTaken
    /\ held' = [held EXCEPT ![c] = NoCred]
    /\ Goto(c, pc[c], Answered[pc[c]])
    /\ UNCHANGED <<env, joined, out, client, server, process>>

\* Variants: the channel is closed before the fields are set; only on success.
PublishEmpty(c) ==
    /\ Goto(c, "answered", "published")
    /\ done' = [done EXCEPT ![c] = TRUE]
    /\ UNCHANGED <<env, held, joined, out, meta, store, credReg, regCred, server, process>>
PublishSuccess(c) ==
    /\ Goto(c, "answered", "published")
    /\ regCred' = [regCred EXCEPT ![c] = held[c]]
    /\ done' = [done EXCEPT ![c] = held[c] # NoCred]
    /\ UNCHANGED <<env, held, joined, out, meta, store, credReg, server, process>>

\* reg.cc, reg.err = cc, regErr; close(reg.done)
Publish(c) ==
    /\ Goto(c, "answered", "published")
    /\ regCred' = [regCred EXCEPT ![c] = held[c]]
    /\ done' = [done EXCEPT ![c] = TRUE]
    /\ UNCHANGED <<env, held, joined, out, meta, store, credReg, server, process>>

\* delete(c.credReg, issuer)
Retire(c) ==
    /\ credReg' = Nobody
    /\ IF held[c] = NoCred
       THEN Return(c, "published", "register_error")
       ELSE Goto(c, "published", "saving") /\ UNCHANGED out
    /\ UNCHANGED <<env, held, joined, meta, store, done, regCred, server, process>>

\* Variant: the leader does not save what it registered.
SaveNothing(c) ==
    /\ Goto(c, "saving", "use")
    /\ UNCHANGED <<env, held, joined, out, client, server, process>>

Save(c) ==
    /\ Goto(c, "saving", "use")
    /\ store' = held[c]
    /\ UNCHANGED <<env, held, joined, out, meta, credReg, done, regCred, server, process>>
-------------------------------------------------------------------------------
(***************************************************************************)
(* The call the credential is for: makeRequest, or introspectOnce.         *)
(***************************************************************************)
UseSucceeds(c) ==
    /\ pc[c] \in {"use", "retry"}
    /\ held[c] \in active
    /\ Return(c, pc[c], "ok")
    /\ UNCHANGED <<env, held, joined, client, server, process>>

\* 401 or 403.  Only a first introspection goes on to register again.
UseRejected(c) ==
    /\ pc[c] \in {"use", "retry"}
    /\ held[c] \notin active
    /\ IF c \in Introspectors /\ pc[c] = "use"
       THEN Goto(c, "use", "stale") /\ UNCHANGED out
       ELSE Return(c, pc[c], "unauthorized")
    /\ UNCHANGED <<env, held, joined, client, server, process>>

UseFails(c) ==
    /\ ~env.reliable
    /\ pc[c] \in {"use", "retry"}
    /\ Return(c, pc[c], "error")
    /\ UNCHANGED <<env, held, joined, client, server, process>>

SaveAgain(c) ==
    /\ IF held[c] = NoCred
       THEN Return(c, "reanswered", "register_error") /\ UNCHANGED store
       ELSE Goto(c, "reanswered", "retry") /\ store' = held[c] /\ UNCHANGED out
    /\ UNCHANGED <<env, held, joined, meta, credReg, done, regCred, server, process>>

\* The server stops accepting a credential it issued.
Revoke ==
    /\ issued - Cardinality(active) < MaxRevoked
    /\ \E n \in active : active' = active \ {n}
    /\ UNCHANGED <<env, caller, client, issued, process>>

\* The merchant's process ends and another one takes its place: its requests
\* start over, and only the server and a durable store remember.  A registration
\* that was under way may have been issued before.
Restart ==
    /\ restarts < env.restarts
    /\ restarts' = restarts + 1
    /\ pc' = [c \in Callers |-> "discover"]
    /\ held' = [c \in Callers |-> NoCred]
    /\ joined' = [c \in Callers |-> Nobody]
    /\ out' = [c \in Callers |-> "none"]
    /\ meta' = FALSE
    /\ store' = IF env.durable THEN store ELSE NoCred
    /\ kept' = (store' # NoCred)
    /\ credReg' = Nobody
    /\ done' = [c \in Callers |-> FALSE]
    /\ regCred' = [c \in Callers |-> NoCred]
    /\ UNCHANGED <<env, server>>
-------------------------------------------------------------------------------
Step(c) ==
    \/ Discover(c) \/ DiscoverFails(c)
    \/ LookUpStore(c) \/ Lead(c) \/ Join(c) \/ WakeUp(c)
    \/ Registers(c) \/ RegisterFails(c) \/ Publish(c) \/ Retire(c) \/ Save(c)
    \/ UseSucceeds(c) \/ UseRejected(c) \/ UseFails(c) \/ SaveAgain(c)

Next == Revoke \/ Restart \/ \E c \in Callers : Step(c)

Spec == Init /\ [][Next]_vars

\* Go schedules every goroutine that can run, and an HTTP call ends with an
\* answer, an error or the client's timeout (65 s by default).
FairSpec == Spec /\ \A c \in Callers : WF_vars(Step(c))
-------------------------------------------------------------------------------
(***************************************************************************)
(* Correctness.                                                            *)
(***************************************************************************)
Leading == {"leading", "answered", "published"}
Places ==
    Leading \cup {"discover", "lookup", "missed", "waiting", "saving", "use", "stale",
                  "reanswered", "retry", "returned"}
Outcomes == {"none", "ok", "error", "register_error", "unauthorized"}

\* Every variable holds what its field or its step of the code can hold.
TypeOK ==
    /\ env \in Settings
    /\ restarts \in 0..MaxRestarts /\ kept \in BOOLEAN
    /\ pc \in [Callers -> Places]
    /\ held \in [Callers -> Nat]
    /\ joined \in [Callers -> Callers \cup {Nobody}]
    /\ \A c \in Callers : pc[c] = "waiting" => joined[c] # Nobody
    /\ out \in [Callers -> Outcomes]
    /\ meta \in BOOLEAN
    /\ store \in Nat
    /\ credReg \in Callers \cup {Nobody}
    /\ done \in [Callers -> BOOLEAN]
    /\ regCred \in [Callers -> Nat]
    /\ issued \in Nat
    /\ active \subseteq 1..issued

\* "Only one dynamic-client-registration HTTP call is ever in flight at a time"
\* among callers of clientCredentials: the credReg entry is held by the one
\* leader from before its call until after it published the result, and nobody
\* waits for a registration that has left the map unpublished.
SingleFlight ==
    /\ \A c \in Callers : credReg = c <=> pc[c] \in Leading
    /\ \A c \in Callers :
          pc[c] = "waiting" => done[joined[c]] \/ credReg = joined[c]

\* With a network that delivers and a server that registers on request, no
\* interleaving of leaders, waiters and re-registrations makes the client fail
\* an operation: it ends well unless the very credential it holds was revoked.
NoSpuriousFailure ==
    env.reliable /\ ~env.oncePerName =>
        \A c \in Callers :
            /\ out[c] \notin {"error", "register_error"}
            /\ out[c] = "unauthorized" => held[c] # NoCred /\ held[c] \notin active

\* A registration that succeeded is never forgotten: once the callers are done,
\* the store has a credential if any of them got one.
RegistrationKept ==
    (\A c \in Callers : pc[c] = "returned")
        => (store = NoCred => \A c \in Callers : regCred[c] = NoCred)

\* "Production deployments should supply a persistent Store": a merchant that
\* restarts with its credential in such a store goes on as before, however
\* strict the server is about names, until the credential is revoked.
SurvivesRestart ==
    env.reliable /\ kept /\ active = 1..issued =>
        \A c \in Callers : out[c] \in {"none", "ok"}

\* Every operation returns, those that wait for another caller's registration
\* included.
CallersReturn == \A c \in Callers : pc[c] = "discover" ~> pc[c] = "returned"

\* TestResourceClientCredentialsConcurrentSharesOneRegistration: no caller's
\* registration is refused when a sibling's succeeded.  The code does not ensure
\* it: see the README.
SiblingSuccessIsShared ==
    env.reliable =>
        \A c, d \in Callers :
            c # d /\ out[c] = "register_error" => regCred[d] = NoCred
===============================================================================
