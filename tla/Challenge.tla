-------------------------------- MODULE Challenge --------------------------------
(***************************************************************************)
(* The terms of a payment, from the challenge to its settlement: the       *)
(* options server/omnichallenge.go offers, what the client answers         *)
(* (transport.go, x402signer/account.go), the cap a session derives from   *)
(* the credential (server/paymentsession.go) and what it asks the          *)
(* authorization server to collect (server/settlement.go).                 *)
(*                                                                         *)
(* Amounts travel as text in two units, decimal USDC and atomic            *)
(* micro-units.  A written amount is the number it shows, times Scale to   *)
(* keep it whole: 10000 micro-units are the decimal 10000 ("0.01") and the *)
(* atomic 10000 * Scale ("10000").  A network stands for its CAIP-2 name.  *)
(*                                                                         *)
(* A list of accepts is the set of its entries, each with its place.       *)
(***************************************************************************)
EXTENDS Integers, SequencesExt

CONSTANTS
    Scale,              \* micro-units in a USDC, 10^6
    Prices,             \* the amounts a merchant may ask for
    Costs,              \* the charges of a session
    MaxSpent,           \* bound on what a session is charged
    Primaries,          \* destinations: the account as a source
    Pool, MaxFetched,   \* the other sources a destination may have, and how many
    HexAddresses,       \* addresses that begin with 0x
    Base58Addresses,    \* addresses that match base58Re
    Supports,           \* what the authorization server may support
    Pinned,             \* pinnedNetwork of the x402 signer, or AnyNetwork
    OmitsChargeAmount   \* the challenges carry no chargeAmount

X402EVM == {"base", "base_sepolia"}
X402SVM == {"solana", "solana_devnet"}
AnyNetwork == "any"

Blank == -1        \* an absent amount, or one that does not parse
Unlimited == -2    \* capUnlimited
NoAccept == [scheme |-> "none"]
NoBody == [requirement |-> NoAccept, amount |-> Blank]

ASSUME ChallengeAssumption ==
    /\ Scale \in Nat \ {0, 1}
    /\ Prices \subseteq Nat \ {0} /\ Costs \subseteq Nat
    /\ MaxSpent \in Nat /\ MaxFetched \in Nat
    /\ Primaries \cup Pool \subseteq [chain : STRING, address : STRING]
    /\ OmitsChargeAmount \in BOOLEAN

VARIABLES
    stage,         \* of the client's retry
    price,         \* paymentAmount
    destination,   \* the account and the sources it would answer with
    challenge,     \* the challenge the client answers
    remembered,    \* lastChallenge of the caller: its accepts, empty for none
    credential,
    cap, spent,    \* of the session
    body           \* the terms of its /settle request

vars == <<stage, price, destination, challenge, remembered, credential, cap, spent, body>>
-------------------------------------------------------------------------------
(***************************************************************************)
(* server/amount.go                                                        *)
(***************************************************************************)
\* Amount.String and Amount.MicroString.
Decimal(amount) == amount
MicroString(amount) == amount * Scale

\* The readers, Blank for an error.
ParseAmount(written) == written
AmountFromMicroString(written) ==
    IF written % Scale = 0 THEN written \div Scale ELSE Blank
-------------------------------------------------------------------------------
(***************************************************************************)
(* server/omnichallenge.go                                                 *)
(***************************************************************************)
FetchAllSources(answered) ==
    IF answered THEN <<destination.primary>> \o destination.fetched
                ELSE <<destination.primary>>

Accept(scheme, source, amount) ==
    [scheme |-> scheme, network |-> source.chain, payTo |-> source.address,
     amount |-> MicroString(amount)]

Entry(place, accept) == [place |-> place, accept |-> accept]

PaidOnEVM(source) == source.chain \in X402EVM /\ source.address \in HexAddresses
PaidOnSVM(source) == source.chain \in X402SVM /\ source.address \in Base58Addresses

ExactOffers(sources, amount) ==
    {Entry(2*i, Accept("exact", sources[i], amount)) :
         i \in {k \in DOMAIN sources : PaidOnEVM(sources[k])}}
UptoOffers(sources, amount, upto) ==
    {Entry(2*i + 1, Accept("upto", sources[i], amount)) :
         i \in {k \in DOMAIN sources : PaidOnEVM(sources[k]) /\ sources[k].chain \in upto}}

\* Variant: a network with a facilitator is offered upto only.
UptoReplacesExact(sources, amount, upto) ==
    {e \in ExactOffers(sources, amount) : e.accept.network \notin upto}
    \cup UptoOffers(sources, amount, upto)

\* Each source in its turn, exact before upto.
EVMOffers(sources, amount, upto) ==
    ExactOffers(sources, amount) \cup UptoOffers(sources, amount, upto)

SVMOffers(sources, amount) ==
    {Entry(2*Len(sources) + 1 + i, Accept("exact", sources[i], amount)) :
         i \in {k \in DOMAIN sources : PaidOnSVM(sources[k])}}

SameOffer(a, b) == a.scheme = b.scheme /\ a.network = b.network

\* Variant: the last of each kind is kept.
DedupeKeepsLast(list) ==
    {e \in list : \A f \in list : SameOffer(e.accept, f.accept) => f.place <= e.place}

Dedupe(list) ==
    {e \in list : \A f \in list : SameOffer(e.accept, f.accept) => e.place <= f.place}

BuildX402Requirements(sources, amount, upto) ==
    Dedupe(EVMOffers(sources, amount, upto) \cup SVMOffers(sources, amount))

\* The first of a set of places, and the accept that has it.
First(places) == CHOOSE i \in places : \A j \in places : i <= j
FirstAccept(list) == (CHOOSE e \in list : e.place = First({f.place : f \in list})).accept

\* The challenges of one method, paid at the first source on one of its chains.
MppOf(method, chains, sources, amount, channels) ==
    LET on == {i \in DOMAIN sources : sources[i].chain \in chains}
    IN  {[method |-> method, intent |-> intent,
          recipient |-> sources[First(on)].address, amount |-> amount] :
             intent \in IF on = {} THEN {}
                        ELSE IF channels THEN {"charge", "session"} ELSE {"charge"}}

\* Variant: both methods write the decimal amount.
MppInDecimals(sources, amount, support) ==
    MppOf("solana", {"solana", "solana_devnet"}, sources, Decimal(amount), support.solana)
    \cup MppOf("tempo", {"tempo", "tempo_moderato"}, sources, Decimal(amount), support.tempo)

BuildMppChallenges(sources, amount, support) ==
    MppOf("solana", {"solana", "solana_devnet"}, sources, MicroString(amount), support.solana)
    \cup MppOf("tempo", {"tempo", "tempo_moderato"}, sources, Decimal(amount), support.tempo)

\* buildOmniError: the payment request it refers to lists the same sources.
OmniChallenge(sources, amount, support) ==
    [chargeAmount |-> IF OmitsChargeAmount THEN Blank ELSE Decimal(amount),
     x402 |-> BuildX402Requirements(sources, amount, support.upto),
     mpp |-> BuildMppChallenges(sources, amount, support),
     request |-> [dest |-> sources[1].address, amount |-> Decimal(amount)]]
-------------------------------------------------------------------------------
(***************************************************************************)
(* The client: transport.go and x402signer/account.go                      *)
(***************************************************************************)
FirstX402(list) ==
    LET others == {e \in list : e.accept.network # "atxp"}
    IN  IF others = {} THEN NoAccept ELSE FirstAccept(others)

\* The amount of /authorize/auto.
AuthorizeAmount(c) ==
    LET first == FirstX402(c.x402)
    IN  IF c.chargeAmount # Blank THEN c.chargeAmount
        ELSE IF first # NoAccept THEN first.amount
        ELSE c.request.amount

SelectExactAccept(list) ==
    LET exact == {e \in list : /\ e.accept.scheme = "exact"
                               /\ e.accept.network \in X402EVM
                               /\ Pinned \in {AnyNetwork, e.accept.network}}
    IN  IF exact = {} THEN NoAccept ELSE FirstAccept(exact)

\* What accounts may answer: an ATXP credential of its amount, listed under
\* options or not, in raw JSON or in base64; a signature over any accept, which
\* says in full, in part or not at all what it accepted; or one of the MPP
\* challenges.
AccountsAnswers(c) ==
    {[protocol |-> "atxp", amount |-> AuthorizeAmount(c), listed |-> l, raw |-> r] :
         l, r \in BOOLEAN}
    \cup {[protocol |-> "x402", accept |-> e.accept, named |-> n] :
              e \in c.x402, n \in {"offer", "network", "nothing"}}
    \cup {[protocol |-> "mpp", offer |-> o] : o \in c.mpp}

\* What the self-custodial signer answers.
SignerAnswers(c) ==
    {[protocol |-> "x402", accept |-> a, named |-> "offer"] :
         a \in {SelectExactAccept(c.x402)} \ {NoAccept}}
-------------------------------------------------------------------------------
(***************************************************************************)
(* The retry: server/protocol.go, server/paymentsession.go and             *)
(* server/settlement.go                                                    *)
(***************************************************************************)
SelectX402Accept(c, list) ==
    LET offer == {e \in list : SameOffer(e.accept, c.accept)}
        chain == {e \in list : e.accept.network = c.accept.network}
        evm == {e \in list : e.accept.network \in X402EVM}
        wanted == CASE c.named = "offer" -> IF offer # {} THEN offer ELSE chain
                    [] c.named = "network" -> chain
                    [] c.named = "nothing" -> evm
    IN  IF list = {} THEN NoAccept
        ELSE FirstAccept(IF wanted # {} THEN wanted ELSE list)

IsMppSessionCredential(c) == c.protocol = "mpp" /\ c.offer.intent = "session"

\* The amount the credential was made for, Blank if it cannot be read.
AuthorizedAmount(c, list) ==
    CASE c.protocol = "atxp" -> ParseAmount(c.amount)
      [] c.protocol = "mpp" /\ c.offer.method = "solana" ->
             AmountFromMicroString(c.offer.amount)
      [] c.protocol = "mpp" /\ c.offer.method # "solana" -> ParseAmount(c.offer.amount)
      [] c.protocol = "x402" ->
             LET accept == SelectX402Accept(c, list)
             IN  IF accept = NoAccept THEN Blank ELSE AmountFromMicroString(accept.amount)

\* Variant: an amount that cannot be read is used as it is.
CapAsRead(c, list) == AuthorizedAmount(c, list)

DeriveSessionCap(c, list) ==
    LET amount == AuthorizedAmount(c, list)
    IN  IF amount = Blank THEN Unlimited ELSE amount

\* Variant: every override is decimal.
OverrideInDecimals(c, requirement, actual) ==
    IF c.protocol = "mpp" /\ ~IsMppSessionCredential(c) THEN Blank ELSE Decimal(actual)

\* The amount the /settle body carries of what was charged.  The options of an
\* ATXP credential are read from raw JSON only, while its cap is not.
Override(c, requirement, actual) ==
    CASE c.protocol = "atxp" -> IF c.listed /\ c.raw THEN Decimal(actual) ELSE Blank
      [] c.protocol = "mpp" ->
             IF IsMppSessionCredential(c) THEN MicroString(actual) ELSE Blank
      [] c.protocol = "x402" ->
             IF requirement.scheme # "upto" THEN Blank
             ELSE LET limit == AmountFromMicroString(requirement.amount)
                  IN  MicroString(IF actual > limit THEN limit ELSE actual)

BuildRequestBody(c, list, actual) ==
    LET requirement == IF c.protocol = "x402" THEN SelectX402Accept(c, list) ELSE NoAccept
    IN  [requirement |-> requirement, amount |-> Override(c, requirement, actual)]
-------------------------------------------------------------------------------
NoChallenge == [chargeAmount |-> Blank, x402 |-> {}, mpp |-> {},
                request |-> [dest |-> "none", amount |-> Blank]]

Init ==
    /\ stage = "idle"
    /\ price \in Prices
    /\ destination \in [primary : Primaries, fetched : BoundedSeq(Pool, MaxFetched)]
    /\ challenge = NoChallenge
    /\ remembered = {}
    /\ credential = [protocol |-> "none"]
    /\ cap = 0 /\ spent = 0
    /\ body = NoBody

\* A request without a credential is challenged.  The destination may not say
\* where else it is paid, and the server not what it supports.
Issue ==
    /\ stage = "idle"
    /\ \E answered \in BOOLEAN, support \in Supports :
           /\ challenge' = OmniChallenge(FetchAllSources(answered), price, support)
           /\ remembered' = challenge'.x402
    /\ stage' = "challenged"
    /\ UNCHANGED <<price, destination, credential, cap, spent, body>>

Pay(answers) ==
    /\ stage = "challenged"
    /\ credential' \in answers
    /\ stage' = "paid"
    /\ UNCHANGED <<price, destination, challenge, remembered, cap, spent, body>>

PayByAccount == Pay(AccountsAnswers(challenge))
PayBySigner == Pay(SignerAnswers(challenge))

\* Another request of the same caller is challenged before the retry arrives.
Reissue ==
    /\ stage = "paid"
    /\ \E answered \in BOOLEAN, support \in Supports :
           remembered' = OmniChallenge(FetchAllSources(answered), price, support).x402
    /\ UNCHANGED <<stage, price, destination, challenge, credential, cap, spent, body>>

\* The merchant restarts before the retry arrives.
Forget ==
    /\ stage = "paid"
    /\ remembered' = {}
    /\ UNCHANGED <<stage, price, destination, challenge, credential, cap, spent, body>>

OpenPaymentSession ==
    /\ stage = "paid"
    /\ stage' = "open"
    /\ cap' = DeriveSessionCap(credential, remembered)
    /\ UNCHANGED <<price, destination, challenge, remembered, credential, spent, body>>

\* A charge that is refused changes nothing (PaymentSession has the rest).
Charge(cost) ==
    /\ stage = "open"
    /\ cap = Unlimited \/ spent + cost <= cap
    /\ spent + cost <= MaxSpent
    /\ spent' = spent + cost
    /\ UNCHANGED <<stage, price, destination, challenge, remembered, credential, cap, body>>

\* A one-shot credential nothing was charged to is not settled.
CloseSession ==
    /\ stage = "open"
    /\ spent > 0 \/ IsMppSessionCredential(credential)
    /\ stage' = "closed"
    /\ body' = BuildRequestBody(credential, remembered, spent)
    /\ UNCHANGED <<price, destination, challenge, remembered, credential, cap, spent>>

Next ==
    \/ Issue \/ PayByAccount \/ PayBySigner
    \/ Reissue \/ Forget
    \/ OpenPaymentSession \/ CloseSession
    \/ \E cost \in Costs : Charge(cost)

Spec == Init /\ [][Next]_vars
-------------------------------------------------------------------------------
\* Every variable keeps its type; a cap that was read is an amount, and a
\* session stays within it.
TypeOK ==
    /\ stage \in {"idle", "challenged", "paid", "open", "closed"}
    /\ price \in Prices
    /\ \A e \in challenge.x402 \cup remembered :
           e.accept.scheme \in {"exact", "upto"} /\ e.accept.amount \in Nat
    /\ credential.protocol \in {"none", "atxp", "x402", "mpp"}
    /\ cap \in Nat \cup {Unlimited}
    /\ spent \in 0..MaxSpent
    /\ cap # Unlimited => spent <= cap \/ stage \in {"idle", "challenged", "paid"}
    /\ body.amount \in Nat \cup {Blank}

Opened == stage \in {"open", "closed"}

\* Whatever rail a client chose, and whatever the merchant remembers of the
\* caller by then, the cap of its session is the price that was asked, in
\* micro-units (deriveSessionCap reads each protocol in its own unit).  It is
\* without limit only if an x402 credential finds no requirements at all.
CapIsPrice ==
    Opened => cap = IF credential.protocol = "x402" /\ remembered = {}
                    THEN Unlimited ELSE price

\* The merchant's requirements still offer what the credential was signed for.
StillOffered ==
    /\ credential.protocol = "x402" /\ credential.named = "offer"
    /\ \E e \in remembered : SameOffer(e.accept, credential.accept)

\* A /settle for an x402 credential names the requirement the payer signed, its
\* receiver included, even if another challenge of the caller was remembered
\* since (buildX402Requirements offers one accept of a scheme and a network, and
\* selectX402Accept finds it by the two).
SettlesWhatWasSigned ==
    stage = "closed" /\ StillOffered => body.requirement = credential.accept

Metered ==
    \/ credential.protocol = "atxp" /\ credential.listed /\ credential.raw
    \/ StillOffered /\ credential.accept.scheme = "upto"
    \/ IsMppSessionCredential(credential)

\* The amount of the body, as the authorization server reads it.
Asked == IF credential.protocol = "atxp" THEN ParseAmount(body.amount)
                                         ELSE AmountFromMicroString(body.amount)

\* A credential whose amount may be lowered is settled for exactly what was
\* charged, one that commits to its amount is settled as it was signed
\* (settlementOverrides and options of buildRequestBody).
CollectsWhatWasSpent ==
    stage = "closed" =>
        /\ Metered => body.amount # Blank /\ Asked = spent
        /\ StillOffered /\ ~Metered => body.amount = Blank
        /\ credential.protocol \in {"mpp", "atxp"} /\ ~Metered => body.amount = Blank

\* If the merchant's account is on an EVM chain the signer pays on, the challenge
\* has an accept the signer signs, whatever the lookups of other sources and of
\* facilitators answered; and what it signs is for the price and goes to one of
\* the merchant's sources (the exact scheme is always advertised).
SignerFindsOffer ==
    stage = "challenged" =>
        LET sources == ToSet(FetchAllSources(TRUE))
            signed == SelectExactAccept(challenge.x402)
            primary == destination.primary
        IN  /\ /\ primary.chain \in X402EVM /\ primary.address \in HexAddresses
               /\ Pinned \in {AnyNetwork, primary.chain}
               => signed # NoAccept
            /\ signed # NoAccept =>
                   /\ AmountFromMicroString(signed.amount) = price
                   /\ [chain |-> signed.network, address |-> signed.payTo] \in sources

\* AuthorizeParams.Amount is a "decimal string" (account.go): what an account is
\* asked to authorize reads as the price, with or without a chargeAmount.
AmountIsDecimal ==
    stage = "challenged" => ParseAmount(AuthorizeAmount(challenge)) = price
===============================================================================
