# A TLA+ model of chit

chit is a Go library for ATXP payments with two halves. The *client* (the
root package) is an `http.RoundTripper` that answers a 401 with an OAuth
handshake and a 402 with a payment. The *merchant* (`server/`) charges callers,
challenges those who have not paid and settles what they authorized. Paths below
are relative to `src/`.

## Inventory

| part | state it keeps | operations | what makes it correct |
|---|---|---|---|
| payment session `server/paymentsession.go` | per session: `cap`, `spent`, `settled`, `settling`, `settleResult`, under `mu` | `OpenPaymentSession`, `Charge`, `CloseSession` | one settlement attempt at a time, a one-shot credential presented once, nil after settling means everything charged was collected, a settled session is final |
| settlement client `server/settlement.go` | none | `Settle`, `Verify`, `buildRequestBody` | the requirement the payer signed, the amount charged, in the unit the protocol reads |
| payment gate `server/requirepayment.go` | none (a `Merchant` caches two ids) | `RequirePayment` | fails closed, applies the minimum on every path, never charges twice |
| payment server client `server/paymentserver.go` | none | `Charge`, `CreatePaymentRequest`, `GetBalance` | 402 is a decline, any other outcome an error |
| merchant facade `server/server.go` | `settlement`, `destID`, under `mu` | `New`, `Settlement`, `destinationAccountID`, `CheckToken` | caches filled once, failures not cached |
| merchant OAuth client `server/oauthresource.go` | metadata cache, `credReg` single flight, the `Store` | `discover`, `clientCredentials`, `introspectToken` | one registration in flight, waiters woken with its result, rejected credentials replaced once |
| token check `server/token.go` | none | `CheckToken`, `ChallengeResponse` | audience; no token that had expired when the check began, which reads its clock before the introspection |
| protocols `server/protocol.go` | none | `DetectProtocol`, `selectX402Accept`, `isMppSessionCredential` | header precedence, the accept a credential was signed for |
| challenge assembly `server/omnichallenge.go` | none | `buildX402Requirements`, `buildMppChallenges`, `omniChallengeMcpError` | one accept of a kind and network, units, an exact offer whenever there is an upto one |
| amounts `server/amount.go` | none | two written forms, two readers | reader and writer agree |
| capability caches `server/supported.go` | two process-wide TTL caches | `fetchUptoFacilitatorAddresses`, `fetchMppSupported` | no stale answer beyond the TTL and the fetches around it, failures not cached |
| opaque identity `server/opaqueidentity.go` | the key | `sign`, `verify` | an HMAC |
| client round tripper `transport.go` | the store, the account, payment headers left on the caller's request | `RoundTrip`, `attempt`, `settle` | bounded attempts, one payment a call, still identified after paying |
| client OAuth `oauth.go` | the store | `authenticate` | own PKCE verifier, token saved before the retry |
| store `store.go` | tokens by resource, verifiers by state, client credentials | get and save, the walk of `GetAccessToken` over parent paths | a token saved for a path is found from every path below it, the nearest first |
| ATXP account `account.go` | cached account id | `AccountID`, `SignChallenge`, `Authorize` | asked once, a failure ends the call |
| x402 signer `x402signer/` | key | `Authorize` | signs an exact EVM offer of the challenge |
| examples `examples/paidmcp`, `examples/x402stranger` | `lastChallenge`, `lastPaymentID` in memory, under `challengeMu` | the gate handlers | a retry is settled with its own challenge; nobody is served unpaid |

**How the parts interact.** A request without a credential reaches
`RequirePayment`, which asks the authorization server to charge on demand
(`paymentserver.go`, with client credentials of `oauthresource.go`) and, if that
is declined, creates a payment request and builds a challenge. The example's
gate stores the challenge for the caller. The client pays (`transport.go` calls
`Account.Authorize`), repeats the request with a credential, and the gate opens
a session with what it stored, charges it and closes it, which posts `/settle`.
Only then does the handler run.

**What is hard.** Every critical section of the code is short and releases its
lock before a network call, so state is read before a call and used after it
(`spent` in `CloseSession`, the store in `clientCredentials`, the token in
`attempt`, the remembered challenge in the gate, the miss of a cache, the clock in
`checkTokenCore`). Every call may be refused,
or be carried out with its answer lost. The challenge and the requests in flight
are lost when the merchant restarts. Two units of amount travel as text. The
entries under `hazards` in `PROJECT.json` name the lines and the properties.

## Modules

| module | models | runs |
|---|---|---|
| `PaymentSession` | sessions, charges, concurrent closes, the `/settle` ledger | `session`, `session_retry` |
| `SettleOnce` | the abstract promise of a session, refined by `PaymentSession` (`KeepsPromise`) | `session_retry` |
| `PaidCall` | the abstract promise of a call to the gate, refined by `MerchantGate` (`TripIsPaidCall`) | `gate` |
| `MerchantGate` | EXTENDS `PaymentSession`: `RequirePayment` inside the gate of `examples/paidmcp/main.go`, with the client's side of a trip and restarts | `gate`, `gate_challenge` |
| `ResourceClient` | the merchant's OAuth client, its single flight, restarts with either kind of store | `resource_client`, `resource_client_race` |
| `RoundTrip` | the client's round tripper, handshake and store, composed with the token check of the resource it talks to | `round_trip`, `round_trip_expired`, `round_trip_clients` |
| `SupportCache` | a TTL cache behind the challenges, and the server whose keys it keeps | `support_cache` |
| `Challenge` | the terms of a payment: challenge, answer, cap, settlement body | `challenge`, `challenge_units` |
| `PaymentSessionProofs`, `PaymentSessionLedgerProofs`, `PromiseProofs` | theorems about the sessions | – |
| `MerchantGateProofs`, `ResourceClientProofs`, `RoundTripProofs`, `SupportCacheProofs`, `ChallengeProofs` | theorems about the module each is named for | – |
| `MC...` | instances for TLC | – |

`PROJECT.json` maps each definition to its lines. The correspondence in short:

* **PaymentSession.** A step is one critical section of `session.mu` or one step
  of the network. `Charge` is the method of that name. `CloseNoop` and `CloseBegin`
  are the first critical section of `CloseSession`, `LookupFails` its failed
  `m.Settlement`, `PostSettle` the request, `SettleFails` and `SettleAnswered` the
  second critical section. `snap` is the local `spent`. `ASSettles` and
  `ASRefuses` are the authorization server, external: settling again moves
  nothing and reports the first amount (`AlreadySettled` of `SettleResult`).
  What a credential is (fixed, metered, channel; the amount signed) is chosen in
  `Init`. What the merchant makes of it is chosen when a session is opened
  (`Open`): the cap it reads, which may differ from what was signed, or none; and
  whether the body of the settlement will say the amount charged (`says`). That of
  a channel does and that of an exact payment does not; that of an x402 upto or an
  ATXP credential does only if an upto requirement is remembered of the caller, or
  its options can be read (`server/settlement.go:174`). Where the amount is not
  said, all that was signed is taken (`Moves`): "nil settles the cap".
* **MerchantGate.** `at` is the program counter of a trip, in the client or the
  gate. Each HTTP call and each critical section of `challengeMu` is a step, and
  the opening, charge and close of the trip's session are the actions of
  `PaymentSession`. `last` stands for `lastPaymentID` and `lastChallenge`, written
  together; with it forgotten, by a restart too, a session has no cap and its
  settlement may not say the amount. A first request may carry a credential
  (`Request`), as one that an earlier call has left on the caller's request
  (`transport.go:113`) or that is simply presented again, and trips may present one
  credential, of one user or of two. What a client pays for a challenge is a
  credential that nobody presented before (`Pay`). A trip that is turned away with a
  credential is over for the gate.
  `Call` maps a trip to a `PaidCall`: `charged` is `debited`, a posted settlement
  is `asked`, the ledger of a credential against the price is `taken`, and `outcome`
  is `told`. `PaidCall` says that a payment is taken once, and it does **not** say
  that it serves one call: `CloseSession` takes `AlreadySettled` for success, so two
  requests that present one credential may both be served for one payment.
* **ResourceClient.** Steps are the critical sections of `mu`, the store
  accesses between them, closing and waiting on `done`, and the HTTP calls.
  A registration may be carried out and its answer lost. `Restart` ends the
  process at any of these points: the callers start over with an empty metadata
  cache and `credReg`, and with the store only if it is durable. `env` says what
  the server, the network and the store are like and is one of `Settings`.
* **RoundTrip.** On the client's side steps are store accesses and HTTP calls.
  `Refused`, `Challenged` and `Served` are what `RoundTrip` does with a response,
  by the attempt it belongs to. On the resource's side `CheckToken` is
  `checkTokenCore` as far as its clock, `Introspected` and `IntrospectFails` are
  the answer of the introspection and the comparison after it. `stale` is history:
  the token had expired when the attempt left. `Status` is
  `ChallengeResponse`; behind the bearer middleware of `examples/paidmcp` each
  problem is a 401. A caller may `Send` the same request again, with the payment
  headers an earlier call left on it (`headers`). `Url` gives each request a path,
  and `GetAccessToken` walks from it towards the origin. A handshake belongs to
  one call (`Handshake(q)`) and stands for its verifier, its state, its client and
  its token. Accounts are hosted, signers (which cannot sign in and pay by x402)
  or `HybridAccount`s of the two.
* **SupportCache.** One endpoint's entry of one `ttlCache`, of either `endpoint`.
  `Hit` and `Miss` are `get`, `Answer` the moment the server produces its answer,
  `Set` the critical section of `set`, skipped for an empty answer. A challenge whose
  lookup is over is built at once if it was that of the channel signers, the second
  of `buildOmniError`; if it was that of the facilitators, the second may take a
  whole fetch before `Build` (`After`). An entry that lacks a field is dropped from
  the channel signers; the map of facilitators is kept as it is, an empty address
  included (`Blank`). Keys are numbered in the order the server takes them into use;
  `Rotate` and `Withdraw` are the server. A tick passes only while no fetch is older
  than the HTTP client's timeout. A challenge that is built makes place for another
  (`Begin`).
* **Challenge.** The builders and readers are operators; the actions are the gate
  of `examples/x402stranger/main.go` (any kind of credential), which issues a
  challenge, remembers another one or forgets all before the retry, opens the
  session, charges and settles it. A list of accepts is the set of its entries, each
  with the place it has in the list: a loop that returns at the first match takes
  the entry of the least place, the removal of duplicates keeps it. A written amount
  is the number it shows times `Scale`, so "0.01" and "10000" are different numbers
  and each reader does what it does to the text. An ATXP credential lists its
  options or not, and arrives in raw JSON or in base64, which the reader of the cap
  takes and that of the settle body does not. CAIP-2 names are stood for by the
  networks they rename one to one; addresses are constants with the classes the code
  tests them for.

## Runs

Passing runs:

* `session` – one session, any credential, any cap (0, 1, 2 or none), charges 1 or 2
  up to 2, three concurrent closes. Three closes are needed for a re-driven channel
  settlement that finds a third call under way. `OneAttempt`, `OneShotAskedOnce`,
  `SettledCoversCharges`, `NoSilentLoss` and `HonestPayerNotShort`. Handlers stop
  charging when a close starts, as the comment on `PaymentSession` asks of them.
* `session_retry` – two sessions for one credential (a request that was retried),
  one closed twice, charges that go on while a close is under way. A credential is
  settled for no more than was signed, and if each of its sessions says the amount
  for no more than one of them charged, within its cap; settled is final, and every
  session implements `SettleOnce`. What a late charge or the second session adds is
  not collected, and nothing here says it is. The two calls that close the same
  session are symmetric; the properties of this run are safety properties.
* `resource_client` – three callers (with two of them introspecting), one
  revocation. Three are needed for a leader, a waiter and a late caller. Four
  settings: calls that fail, with a server that accepts a name again and one that
  does not, and reliable calls with one restart that loses the store or keeps it.
  `SingleFlight`, `NoSpuriousFailure`, `RegistrationKept`, `SurvivesRestart`, and
  `CallersReturn` under fairness.
* `round_trip` – two concurrent requests of one account, to `/mcp` and to
  `/mcp/search` below it, the first sent up to twice, one token that expires.
  Five settings: an open resource with a signer; resources that check tokens, with
  the path or the origin in their metadata, with or without the audience; the
  middleware; each kind of account; calls that fail and calls that do not. The
  second send meets the token, the client and the payment header of the first, and
  the token of a path is found from the one below. `ExpiredNeverPasses` compares the
  moment an attempt leaves with what becomes of the call, over the clock that is read
  before the introspection. `CallAdvances` counts the steps a call has left,
  `TripsReturn` adds the fairness.
* `support_cache` – challenges, two at a time, of two chains, either endpoint, TTL 2,
  fetches of up to 1 tick, two rotations, clock up to 5. Two at a time are needed for
  one whose older answer is set after the other's; that any number follow each other
  lets a third be built from what they left. The clock goes past a TTL and two
  fetches after a key was dropped, and each bound is met with equality: one tick less
  is refuted. A late set may put an older key back: `BoundedStaleness` says for how
  long, not that it cannot. Challenges and chains are symmetric, and the properties
  are invariants.
* `gate` – two trips of two users that share a credential, minimum 2 above the price
  1, caps and signatures of 1 to 3 (less than what is due, just that, and more), every
  failure, one restart of the merchant. Two trips are needed for one to overwrite what
  the other is about to read, and for one to present what the other has spent; a trip
  that carries no credential pays on demand or is challenged. `CollectsThePrice` says
  what a credential is settled for, and the trips implement `PaidCall`. Credentials
  of their own are a special case of the theorems, and of `gate_challenge`.
* `challenge` – every list of up to three sources from two primaries and five
  others (a second address on a chain, a second EVM chain, one useless to
  x402), three answers of the support endpoints, prices 7 and 20 with `Scale` 10
  (one is a whole decimal number of tens and one is not, so that each wrong reader
  is told from the right one), charges that stay below and reach the cap.

Runs TLC must refute, each a disagreement between the code and what the
repository says of it:

* `resource_client_race` – `clientCredentials` reads the store before it takes
  the lock, and a leader leaves `credReg` before it saves. A caller whose read
  came early and whose lock came late registers a second time; a server that
  hands out a name once answers 409, the failure the comment at
  `server/oauthresource.go:90` says the single flight prevents.
* `round_trip_expired` – the response to the attempt after a payment is returned
  as it is; `docs/PROTOCOL.md:353` says any 401 triggers a re-handshake.
* `round_trip_clients` – the client's own registration has no single flight;
  `docs/PROTOCOL.md:296` says it has.
* `gate_challenge` – the example settles under the caller's *last* payment
  request, so with two concurrent trips of a user the first settles under the
  second's id, although the client sends the id it paid for.
* `challenge_units` – without a `chargeAmount`, as a foreign merchant may send,
  `buildAuthorizeParams` passes the atomic amount of the first x402 accept where
  a decimal is expected. The merchant of this repository always sends one, and
  `challenge` runs with it.

`CHECK_DEADLOCK FALSE` is in the configurations because every model ends: the
calls return and nothing is left to do. That they do return is `CallersReturn` and
`TripsReturn`. No run says it of `CloseSession`, whose every wait is one HTTP call
that ends by assumption: what could be left behind is the flag, see `OneAttempt`.

**Bounds.** `MaxAmount` and `MaxSpent` bound the charges of a session,
`MaxRevoked`, `MaxExpired`, `MaxRotations` and `MaxRestarts` the events of the
environment, `MaxSends` how often a request is sent, `MaxTime` the clock,
`MaxFetched` the sources. Counters of the servers (credentials, tokens, payment
requests) are bounded by the number of callers. One issuer, one origin and, in
`RoundTrip`, one account: the maps of the code are keyed by these and entries of
different keys do not meet. A request is sent again after its call returned, as
`http.RoundTripper` requires.

**Fairness.** Weak fairness of each call's own steps: an HTTP call ends, with an
answer, an error or the 65 s timeout of the default client, and Go schedules a
goroutine that can run. Nothing is assumed of the servers' answers. Waiting on
`reg.done` is a step only when the channel is closed; that it gets closed is what
`CallersReturn` checks.

## Proofs

Each theorem holds for every value of the constants its module's assumption
admits, and rests on an inductive invariant: the properties themselves say what
the code promises, not why, and no step preserves them alone.

**Sessions** (`SessionAssumption`: any sets of sessions, credentials, closes).

* `PaymentSessionProofs`: `TypeCorrect`, and `Invariant`, for `IInv`, which adds
  to `TypeOK` and `OneAttempt` what the position of a call says: `CallState`
  (where its request and its answer can be), `AskedThenSettled` (a request for a
  one-shot credential that has left belongs to the call that holds the session, or
  the session is settled), `AnswerFromLedger` (an answer is the ledger's amount, or
  unreadable) and `SettledFor` (what a settled session records). That a close which
  returned was for everything charged needs to know what it copied, that the answer
  came from the ledger, and that nobody else held the session meanwhile.
  `OneAttemptHolds`, `OneShotAskedOnceHolds`, `SettledCoversChargesHolds` and
  `SettledIsFinalHolds` follow.
* `PaymentSessionLedgerProofs`: `LInv` strengthens `IInv` with what ties the ledger
  to the charges: `WithinLimits` (a session within its cap), `Frozen` (what a call
  copied is what was charged, if handlers stop in time), `Explained` (a settled
  session, and a call that did nothing, have a call that decided), `MovedForCall`
  (the server settled for a call), `CollectsAll` and `ShortOnlyIfUnread` (an honest
  payer's credential was collected in full, and only an unreadable answer says
  otherwise). `CollectsNoMoreThanChargedHolds`,
  `HonestPayerNotShortHolds` and `NoSilentLossHolds` follow.
* `PromiseProofs`: `KeepsPromiseHolds`, that `Spec` implements `Promise!Spec`. The
  mapping reads a session's phase off its calls, so the proof needs that a session
  has one call at a time (`IInv`) and that its result is there exactly when it was
  settled by an answer (`ResultWhenSettled`); each action of a call is then one
  action of `SettleOnce` for its session and a stutter for the others.

**Gate** (`GateAssumption`: any number of trips, users, credentials and restarts,
each trip with a session of its own; which credential a trip would present is
arbitrary), `MerchantGateProofs`.

* `GateImplementsSessions`: every step of the gate is a step of its sessions or
  leaves them alone, so the theorems above hold behind the gate
  (`SessionsBehindGate`, all of them in one).
* `GateTypeCorrect`, and `GateInvariant`, for `GInv`: the types of the gate, the
  invariant of its sessions (`IInv`), `CollectsThePrice`, and what the place of a trip
  says of its session (`TripInv`): whether it was opened and charged, that it was
  charged the one amount or nothing and its close copied that, that a second challenge
  means the cap did not admit it, and that what the server answered covers the price
  or was told so. One invariant, because trips share credentials: what the second of
  two trips is answered rests on what the first one collected, that is on
  `CollectsThePrice` of the credential, and that on how each trip that presents it
  was charged. The proof treats the trip that moves (`ThisTrip`) apart from the others
  (`OtherTrips`), and the ledger last (`PriceStep`). `ServedIsPaidHolds`,
  `NotPaidTwiceHolds`, `CollectsThePriceHolds` and `HonestTripServedHolds` follow.
* `NamesOwnUserHolds`, from `NamesInv`: what is remembered of a user was created
  for that user, and the payment requests the server has created stay as they are.
* `TripIsPaidCallHolds`, that `GateSpec` implements `PaidCall`: with `GInv`, a trip
  that is debited or whose settlement is posted had not been (`NotYetPaid`,
  `PostAsks`), an answer of the gate is the one its state allows (`AnswerTells`), a
  settlement takes a payment that was not taken, for a trip that was not turned away
  or served (`SettlementTakes`), and a restart fails the calls under way together.

**Merchant's OAuth client** (`ResourceAssumption`), `ResourceClientProofs`:
`Invariant`, for `IInv`: every credential held was issued (`Issued`), what a
caller's place says of its credential and its registration (`Positions`), that a
registration that succeeded is in the store or about to be (`Remembered`), that
where registrations succeed whoever made or joined one has its credential
(`Registered`), and what a restart that kept the credential leaves reachable
(`Found`). `TypeCorrect`, `SingleFlightHolds`, `NoSpuriousFailureHolds`,
`RegistrationKeptHolds` and `SurvivesRestartHolds` follow.

**Round tripper** (`TripAssumption`: any requests, paths, sends and settings),
`RoundTripProofs`: the walk first (`WalkFinds`: a token kept for a path is found
from every path below it, as the least number of levels up), then `Invariant`, for
`IInv`: whose verifier is stored under which state (`VerifierKept`), that stored
tokens were issued for the path they are stored under (`TokensNamed`), which
attempt carries which headers (`OneAuthorization`, `Carried`), that a token asked
for one resource is presented there (`RightAudience`), when a token counts as late
(`LateIsExpired`), that one is there after a handshake (`AskedForToken`), and where a
call can be whose token had expired when it left (`StaleInv`: the clock of the check
is read after that, and a token does not become valid again).
`TypeCorrect`, `FailsOnlyUnidentifiedHolds`, `PaidAndIdentifiedHolds`,
`PresentsItsPaymentHolds`, `UnauthorizedOnlyIfExpiredHolds` and
`ExpiredNeverPassesHolds` follow. `CallAdvancesHolds` adds `Once` (who signs in has not
done so before, who signs in or pays has not paid before) and counts a call down
from 22 steps.

**Caches** (`SupportAssumption`: any TTL, timeout, clock and number of challenges),
`SupportCacheProofs`: `Invariant` orders the times (`Clocked`), keeps the keys in use
apart from those dropped or to come (`KeysInUse`, `Unused`), and bounds the age of
an answer by the fetch that brings it and of an entry by its timestamp, for a key
that is gone (`Recent`) and for one that is missing (`Missing`). At the end of the
lookup these become the bounds of a TTL and one fetch (`LookedRecent`,
`LookedMissing`), and the challenge is built no more than `After` later. `TypeCorrect`,
`BoundedStalenessHolds`, `KeyArrivesHolds` and `NothingIsRetriedHolds` follow.

**Terms of a payment** (`ChallengeAssumption`: any scale above 1, prices, charges,
sources, addresses and networks, and lists of any length), `ChallengeProofs`. First
what the operators do: `FirstPlace` and `FirstAcceptIn` (the first of a set of
places), `SourcesOK`, `AcceptsLead` and `SameAccept` (what a built list offers, and
that what is left of two alike is the one offered), `ReadsBack` and
`PriceReadsBack` (an amount read in the unit it was written in), `SelectsOffer`
(the requirement selected for a credential is the one signed, if it is there).
Then `Invariant`, for `CInv`: the challenge and what is remembered were both built
for the same price and destination, though perhaps from different answers of the
lookups (`ChallengeBuilt`, `RememberedBuilt`), the credential answers the challenge
(`CredentialAnswers`), the cap was derived from what was remembered when the session
opened (`SessionCapped`), and the body was built from the same (`BodyBuilt`). A
credential may be signed against one challenge and settled with another: all that
the two share is the price and the destination, which is what the proof uses.
`TypeCorrect`, `SettlesSignedHolds`, `CollectsSpentHolds`, `SignerOfferedHolds` and
`CapIsPriceHolds` follow. The last assumes that challenges carry a `chargeAmount`,
as this repository's merchant always sends and as run `challenge` has it;
`OtherRailsCapped` says what holds without it, and `AuthorizesPrice` that it is the
lack of it that `challenge_units` shows.

Only model-checked: the liveness properties `CallersReturn` and `TripsReturn`. They rest on fairness and ENABLED, which the prover does not handle;
for `TripsReturn` the part that does not is `CallAdvances`, which is proved.

## Not modelled

* Text: JSON, base64, URLs, headers, the digits of a decimal, HTTP bodies. Where a
  property depends on a conversion, it is modelled by what it does. That a
  response body is read to its end, or cut, before `RoundTrip` returns is left out
  with it.
* Cryptography: the HMAC of `opaqueidentity.go`, EIP-712 signatures, PKCE hashes.
  `opaqueidentity.go` has no protocol around it: no handler of the repository
  recovers an identity.
* `ExistingPaymentID`: a callback no code of the repository sets; with it the
  challenge names whatever request it returns.
* `Verify` of the settlement client and `GetBalance` (no caller changes state by
  them), `SpendPermission` (its failure is ignored), constructors, flags, logging,
  the MCP server behind the example's gate.
* How often one payment may be presented: the gate serves whoever presents a
  credential that is settled, now or already, for the price; see `MerchantGate` above.
* The scheme of an origin: a resource behind a TLS proxy that names itself `http`.
* The unlocked read of the account's cached id, which every writer sets to the same
  value: only the data race itself is at stake.
* The context of a caller that waits for another one's registration, which the code
  ignores; a leader whose context ends is a failed call.
* The servers themselves: authorization, accounts and resource servers are
  external, as the code relies on them.

## Plan

Written in this order, the most important behaviour first: `PaymentSession` with
`SettleOnce`, `ResourceClient`, `RoundTrip`, `MerchantGate` on top of
`PaymentSession`, `Challenge`; then `SupportCache`, the token check and the paths in
`RoundTrip`, restarts in `ResourceClient`, `PaidCall`, and the proofs. What is left:

1. `ExistingPaymentID` in `MerchantGate`, if some code comes to set it.
2. Contexts of waiters in `ResourceClient`.
